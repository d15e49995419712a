\* Three statements of the code and its comments, each refuted: run it with -continue.
CONSTANTS
  Reviewers = {r1, r2}
  None = None
  Checked = TRUE
  Troubles = {"lapse", "differs", "unconnected"}
  MaxRequests = 2
  MaxFaults = 0
SPECIFICATION Spec
SYMMETRY Symmetry
\* The requests are bounded: when they are used up nothing is left to do.
CHECK_DEADLOCK FALSE
INVARIANT RowHasFourEyes
PROPERTIES ForgottenOnlyWhenFinal ReleaseIsOwnerGuarded
