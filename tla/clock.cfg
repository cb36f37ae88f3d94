SPECIFICATION Spec
CONSTANTS
  Heartbeat = 3
  StartToClose = 5
  WallClock = 7
  Control = 3
  Removal = 2
  Collection = 1
INVARIANTS
  TypeOK
  WallClockHolds
  InTimeIsNotExceeded
  StaleIsTornDownSoon
CHECK_DEADLOCK FALSE
