SPECIFICATION Spec
CONSTANTS
  Machine = {m1, m2}
  Executor = {e1, e2}
  None = None
  MaxPairs = 2
  MaxResets = 1
  MaxAttempts = 2
  MaxFaults = 2
SYMMETRY Symmetry
INVARIANTS TypeOK DeliveredToPinned AcceptedIsProved
PROPERTIES EstablishedStays OneEnrollment
