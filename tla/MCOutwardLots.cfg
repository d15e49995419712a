CONSTANTS
  Cheques = {c1, c2, c3}
  MaxLots = 2
  Capacity = 3
  Sessions = {"MORNING", "EVENING"}
  MaxLotFaults = 1
  MaxOrders = 2
  MaxLate = 1
SPECIFICATION LotsSpec
INVARIANT LotsTypeOK
INVARIANT PresentedRight
INVARIANT CountsCheques
PROPERTY SessionEnds
\* Cheques, orders and sessions are bounded: when they are used up nothing is left to do.
CHECK_DEADLOCK FALSE
