\* Maker-checker and every trouble of the requests and the claims.
CONSTANTS
  Reviewers = {r1, r2}
  None = None
  Checked = TRUE
  Troubles = {"lapse", "differs", "unconnected", "noredis"}
  MaxRequests = 3
  MaxFaults = 0
SPECIFICATION Spec
SYMMETRY Symmetry
\* The requests are bounded: when they are used up nothing is left to do.
CHECK_DEADLOCK FALSE
INVARIANT NoOneClosesAlone
PROPERTY ClosedOnlyWhenTold
