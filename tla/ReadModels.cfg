\* An order and a beer in every mode, one fault and two rebuilds of both meanwhile. Bounded streams stop.
SPECIFICATION Spec
CONSTANTS
  o1 = o1
  o2 = o2
  b1 = b1
  Orders = {o1}
  Beers = {b1}
  Modes <- AllModes
  MaxVersion = 3
  MaxFaults = 1
  MaxRebuilds = 2
INVARIANTS
  TypeOK
  SalesConverges
  BeersListed
PROPERTY SettledStatusKept
CHECK_DEADLOCK FALSE
