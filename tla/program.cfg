SPECIFICATION TaskSpec
CONSTANTS
  Limit = 2
  Chunk = 3
  Capacity = 3
  Usual = {1, 2}
  Flood = 3
  MaxWrites = 6
  Tasks <- AllTasks
  Others <- MCOthers
INVARIANTS
  TypeOK
  ResultIsTheTail
  VerdictFitsDirective
PROPERTIES
  FloodsAreDrained
CHECK_DEADLOCK FALSE
