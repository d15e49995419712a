\* No fault at all.
CONSTANTS
  MaxMessages = 2
  MaxPoll = 2
  MaxStops = 0
  MaxFailures = 0
SPECIFICATION Spec
CHECK_DEADLOCK FALSE
INVARIANT CommittedIsProcessed
