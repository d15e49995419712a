SPECIFICATION Spec
CONSTANTS
  None = None
  MaxAttempts = 3
  Deadline = 4
  EmergencyAt = 3
  Guard = 1
  SipTimeout = 2
  CheckerTimeout = 1
  ReviewTimeouts <- ReviewTimeoutsMC
INVARIANTS TypeOK ClosedMeansSettled NoSilentLoss UnflaggedAuditIsTrue
PROPERTIES EmergencyFilesTheRealDecision ImplementsSettlement ReviewEnds
