\* A reviewer opens an item while a pass is under way.
CONSTANTS
  Items = {i1, i2}
  Reviewers = {r1, r2}
  Workers = {w1}
  None = None
  Home = r1
  may <- EveryUnit
  MaxMoves = 2
  MaxRequests = 2
  MaxFaults = 0
SPECIFICATION Spec
SYMMETRY AllSymmetry
\* Requests are bounded, and a poll may always be idle.
CHECK_DEADLOCK FALSE
PROPERTY OpenedStays
