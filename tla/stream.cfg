SPECIFICATION FairSpec
CONSTANTS
  MaxTicks = 5
  KeepaliveEvery = 2
INVARIANTS
  TypeOK
  EndsAreTrue
  WellFormed
  StepsAreNews
PROPERTIES
  StreamEnds
CHECK_DEADLOCK FALSE
