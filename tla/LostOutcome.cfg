\* One failed publish after the saga settled. A settled system stops.
SPECIFICATION FairSpec
CONSTANTS
  o1 = o1
  o2 = o2
  o3 = o3
  b1 = b1
  b2 = b2
  p1 = p1
  p2 = p2
  Orders = {o1}
  Beers = {b1, b2}
  Productions = {p1, p2}
  Lines <- SingleLines
  Output <- SingleOutput
  Valid = {o1}
  StepTimeout = TRUE
  Faults = {"interrupt", "restart"}
  MaxFaults = 1
PROPERTY OrderSettles
CHECK_DEADLOCK FALSE
