SPECIFICATION FairSpec
CONSTANTS
  Outcomes <- MCOutcomes
  NoOutcome = NoOutcome
  MaxAttempts = 2
  MaxCrashes = 1
INVARIANTS
  TypeOK
  ViewCoherent
  VerdictMatchesRecord
  ContainerNameUnused
PROPERTIES
  AnswersNeverRegress
  EveryRunCloses
  ImplementsLifecycle
CHECK_DEADLOCK FALSE
