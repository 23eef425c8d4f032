SPECIFICATION FairSpec
CONSTANTS
  Target = {t1}
  Executor = {e1, e2}
  NoOp = NoOp
  Operator <- MixedOperators
  Outcome <- Unclassified
  MaxPasses = 1
  Attempts = 2
  MaxTouches = 2
  Terminations = TRUE
  Kills = TRUE
  ApiFaults = TRUE
CHECK_DEADLOCK FALSE
INVARIANTS TypeOK WorkHoldsTarget
PROPERTIES ImplementsLock OutcomeIsFinal StageNeedsRunningClaim ClaimSettles
