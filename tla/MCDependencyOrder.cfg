SPECIFICATION FairSpec
CONSTANTS
  a = a
  b = b
  c = c
  absent = absent
  Sorted <- Three
  Missing = {absent}
CHECK_DEADLOCK FALSE
INVARIANTS TypeOK PrerequisitesFirst CyclesDetected
PROPERTY EveryoneExamined
