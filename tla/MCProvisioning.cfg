CONSTANTS
  r1 = r1
  r2 = r2
  e1 = e1
  e2 = e2
  NoRun = NoRun
  Run = {r1, r2}
  Executor = {e1}
  MaxBoots = 5
  FaultKinds <- Everything
  Limited = TRUE
  MaxFaults = 3
SPECIFICATION FairSpec
CHECK_DEADLOCK FALSE
INVARIANT TypeOK
INVARIANT ReleasedDisarmed
PROPERTY Settles
PROPERTY Released
