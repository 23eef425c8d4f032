SPECIFICATION Spec
CONSTANTS
  Target = {t1}
  Executor = {e1, e2}
  NoOp = NoOp
  Operator <- SystemOnly
  Outcome <- Outcomes
  MaxPasses = 1
  Attempts = 2
  MaxTouches = 0
  Terminations = FALSE
  Kills = FALSE
  ApiFaults = FALSE
CHECK_DEADLOCK FALSE
INVARIANT WorkHoldsTarget
