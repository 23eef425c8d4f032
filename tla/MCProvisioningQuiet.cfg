CONSTANTS
  r1 = r1
  r2 = r2
  e1 = e1
  e2 = e2
  NoRun = NoRun
  Run = {r1}
  Executor = {e1}
  MaxBoots = 3
  FaultKinds = {"pause"}
  Limited = FALSE
  MaxFaults = 0
SPECIFICATION Spec
CHECK_DEADLOCK FALSE
INVARIANT ReleasedQuiet
