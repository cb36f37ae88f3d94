SPECIFICATION Spec
CONSTANTS
  Heartbeat = 2
  StartToClose = 12
  WallClock = 6
  Control = 3
  Removal = 2
  Collection = 1
PROPERTIES
  OnlyHangsAreGivenUp
CHECK_DEADLOCK FALSE
