\* One order, two beers, every kind of fault and the watchdog. A settled system stops.
SPECIFICATION Spec
CONSTANTS
  o1 = o1
  o2 = o2
  o3 = o3
  b1 = b1
  b2 = b2
  p1 = p1
  p2 = p2
  Orders = {o1}
  Beers = {b1, b2}
  Productions = {p1, p2}
  Lines <- SingleLines
  Output <- SingleOutput
  Valid = {o1}
  StepTimeout = TRUE
  Faults = {"redeliver", "interrupt", "park", "restart"}
  MaxFaults = 2
INVARIANTS
  TypeOK
  SagaNeverStuck
  MessagesJustified
  CompletedOrderHoldsStock
  StepsInOrder
  StockConservation
PROPERTY SettlesAsDecided
CHECK_DEADLOCK FALSE
