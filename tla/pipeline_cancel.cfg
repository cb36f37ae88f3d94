SPECIFICATION Spec
CONSTANTS
  Outcomes <- MCOutcomes
  NoOutcome = NoOutcome
  MaxAttempts = 2
  MaxCrashes = 0
INVARIANTS
  CancelledRunLeavesNoSandbox
CHECK_DEADLOCK FALSE
