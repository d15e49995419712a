\* Maker-checker; a process without a Temporal client, a consumer that fails or crashes once.
CONSTANTS
  Reviewers = {r1, r2, r3}
  None = None
  Checked = TRUE
  Troubles = {"twice", "unconnected"}
  MaxRequests = 4
  MaxFaults = 1
SPECIFICATION Spec
SYMMETRY Symmetry
\* The requests are bounded: when they are used up nothing is left to do.
CHECK_DEADLOCK FALSE
INVARIANTS TypeOK UndisturbedFourEyes
