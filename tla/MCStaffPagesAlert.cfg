\* The instance of MCStaffPages.cfg; the workflow that escalates a hold promises its last alert.
CONSTANTS
  Items = {1, 2}
  Me = Me
  Other = Other
  None = None
  Literal = Literal
  Dialogs = {"release"}
  MaxPosts = 1
  MaxHolds = 2
  Attempts = 2
  Branch = {Other}
  Storage = {Third}
  Managers = {Me}
  MaxBatches = 2
  Buckets = {b1, b2}
  Allocators = {a1}
  MaxPuts = 2
  Changes = {c1, c2}
  Readers = {r1, r2}
  MaxFaults = 1
SPECIFICATION Spec
PROPERTY LastAlertIsSent
CHECK_DEADLOCK FALSE
