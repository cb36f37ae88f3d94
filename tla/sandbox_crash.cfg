SPECIFICATION Spec
CONSTANTS
  MaxAttempts = 2
  Requests <- Usual
  Faults = {}
  LooksLikeLaunch = FALSE
  MaxCancels = 0
  MaxCrashes = 1
INVARIANTS
  EverySandboxIsTimed
CHECK_DEADLOCK FALSE
