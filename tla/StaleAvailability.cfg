\* One beer, each event delivered once, no rebuild. Bounded streams stop.
SPECIFICATION Spec
CONSTANTS
  o1 = o1
  o2 = o2
  b1 = b1
  Orders = {}
  Beers = {b1}
  Modes <- FullMode
  MaxVersion = 2
  MaxFaults = 0
  MaxRebuilds = 0
INVARIANT AvailabilityConverges
CHECK_DEADLOCK FALSE
