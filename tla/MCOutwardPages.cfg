\* A session in which no more cheques come and no more is sent may stop.
CONSTANTS
  Items = {1, 2}
  Me = Me
  Other = Other
  None = None
  MaxPosts = 2
  MaxSends = 2
  MaxStarts = 3
  MaxScans = 2
SPECIFICATION Spec
INVARIANTS TypeOK DecidedIsStaged ApprovalAgrees ActiveIsPolled
PROPERTY PagesCatchUp
CHECK_DEADLOCK FALSE
