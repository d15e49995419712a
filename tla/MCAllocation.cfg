\* Two polls at once, one request, heartbeat or lapse, and a call that fails; one of the
\* reviewers may work the items.
CONSTANTS
  Items = {i1, i2}
  Reviewers = {r1, r2}
  Workers = {w1, w2}
  None = None
  Home = r1
  may <- OneUnit
  MaxMoves = 1
  MaxRequests = 1
  MaxFaults = 1
SPECIFICATION Spec
SYMMETRY Symmetry
VIEW View
\* Requests are bounded, and a poll may always be idle.
CHECK_DEADLOCK FALSE
INVARIANTS TypeOK OutsideUnitOnlyUnread NeverDropped
