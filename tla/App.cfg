\* Processes that boot, serve and stop, in every mode. A process that has returned stops.
SPECIFICATION FairSpec
CONSTANTS
  o1 = o1
  o2 = o2
  b1 = b1
  b2 = b2
  h1 = h1
  h2 = h2
  e1 = e1
  e2 = e2
  ip1 = ip1
  ip2 = ip2
  ip3 = ip3
  IPs = {ip1, ip2, ip3}
  Unit = 2
  burst = 1
  maxTrackedIPs = 1
  MaxLead = 2
  Listing <- TwoStreams
  Lines <- TwoLines
  Handlers = {h1, h2}
  Rows = {e1, e2}
  Workloads <- Processes
  StepTimeout = TRUE
  MaxFaults = 1
INVARIANTS
  TypeOK
  TableBounded
  OnlyForgives
  DeletedRowsWereHeard
  AcceptedCommandsKept
  NoRequestMeetsClosedBus
PROPERTIES
  OnlyOverdueStepsFail
  RunReturnsOnceRunning
  SagasDecided
CHECK_DEADLOCK FALSE
