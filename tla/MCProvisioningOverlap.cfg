CONSTANTS
  r1 = r1
  r2 = r2
  e1 = e1
  e2 = e2
  NoRun = NoRun
  Run = {r1}
  Executor = {e1, e2}
  MaxBoots = 3
  FaultKinds <- Everything
  Limited = TRUE
  MaxFaults = 2
SPECIFICATION Spec
CHECK_DEADLOCK FALSE
SYMMETRY Executors
INVARIANT EraseOnce
INVARIANT DiskIsAccounted
PROPERTY EraseAuthorised
PROPERTY OneWay
PROPERTY KeyDelivery
