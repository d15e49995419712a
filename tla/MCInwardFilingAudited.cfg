SPECIFICATION Safety
CONSTANTS
  None = None
  MaxAttempts = 2
  Deadline = 4
  EmergencyAt = 3
  Guard = 1
  SipTimeout = 2
  CheckerTimeout = 1
  ReviewTimeouts <- ReviewTimeoutsMC
INVARIANTS DuplicateIsAudited
