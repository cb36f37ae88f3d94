SPECIFICATION Spec
CONSTANTS
  MaxAttempts = 2
  Requests <- Usual
  Faults = {}
  LooksLikeLaunch = FALSE
  MaxCancels = 1
  MaxCrashes = 0
INVARIANTS
  NothingOutlivesAttempt
CHECK_DEADLOCK FALSE
