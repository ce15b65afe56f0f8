\* Sagas under faults with the watchdog; one row asks for nothing. A settled system stops.
SPECIFICATION FairSpec
CONSTANTS
  o1 = o1
  o2 = o2
  o3 = o3
  b1 = b1
  b2 = b2
  p1 = p1
  p2 = p2
  Orders = {o1}
  Beers = {b1, b2}
  Productions = {p1, p2}
  Lines <- WatchedLines
  Output <- WatchedOutput
  Valid = {o1}
  StepTimeout = TRUE
  Faults = {"redeliver", "interrupt", "park", "restart"}
  MaxFaults = 1
PROPERTY SagaSettles
CHECK_DEADLOCK FALSE
