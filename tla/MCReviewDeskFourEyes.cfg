\* Maker-checker; the consumer crashes once.
CONSTANTS
  Reviewers = {r1, r2}
  None = None
  Checked = TRUE
  Troubles = {"twice"}
  MaxRequests = 4
  MaxFaults = 1
SPECIFICATION Spec
SYMMETRY Symmetry
\* The requests are bounded: when they are used up nothing is left to do.
CHECK_DEADLOCK FALSE
INVARIANT FourEyes
