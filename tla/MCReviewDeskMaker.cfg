\* Maker-checker, claims that last, no event handled twice.
CONSTANTS
  Reviewers = {r1, r2}
  None = None
  Checked = TRUE
  Troubles = {}
  MaxRequests = 4
  MaxFaults = 0
SPECIFICATION Spec
SYMMETRY Symmetry
\* The requests are bounded: when they are used up nothing is left to do.
CHECK_DEADLOCK FALSE
INVARIANT MakerDecisionFiled
