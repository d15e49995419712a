CONSTANTS
  MaxMessages = 4
  MaxPoll = 3
  MaxStops = 2
  MaxFailures = 2
SPECIFICATION FairSpec
\* Publishing and stops are bounded: the loop then waits for events for ever.
CHECK_DEADLOCK FALSE
INVARIANTS TypeOK LossIsABatch
PROPERTIES CommittedIsNeverRepeated AlwaysAttended
