SPECIFICATION FairSpec
CONSTANTS
  MaxAttempts = 2
  Requests <- MCRequests
  Faults = {"info", "spawn", "launch", "launch_named", "rm", "drain"}
  LooksLikeLaunch = TRUE
  MaxCancels = 2
  MaxCrashes = 2
INVARIANTS
  TypeOK
  ResultIsTheProgramsOwn
  TornDown
  FailsClosed
PROPERTIES
  OnlyOwnProgramsRemoved
  RefusedForGood
  SandboxesStop
  AttemptsEnd
CHECK_DEADLOCK FALSE
