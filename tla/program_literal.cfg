SPECIFICATION TaskSpec
CONSTANTS
  Limit = 2
  Chunk = 3
  Capacity = 3
  Tasks <- AllTasks
  Usual = {1, 2}
  Flood = 3
  MaxWrites = 0
  Others <- MCOthers
INVARIANTS
  NormalTasksSucceed
CHECK_DEADLOCK FALSE
