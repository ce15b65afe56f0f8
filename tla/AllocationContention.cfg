\* Two orders compete for stock for one; one order is empty. Nothing fails. A settled system stops.
SPECIFICATION FairSpec
CONSTANTS
  o1 = o1
  o2 = o2
  o3 = o3
  b1 = b1
  b2 = b2
  p1 = p1
  p2 = p2
  Orders = {o1, o2, o3}
  Beers = {b1, b2}
  Productions = {p1, p2}
  Lines <- PairLines
  Output <- PairOutput
  Valid = {o1, o2, o3}
  StepTimeout = FALSE
  Faults = {}
  MaxFaults = 0
INVARIANT RejectedOrderHoldsNothing
PROPERTY OrderSettles
CHECK_DEADLOCK FALSE
