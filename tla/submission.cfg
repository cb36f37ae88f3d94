SPECIFICATION Spec
CONSTANTS
  Calls = {c1, c2, c3}
  Tenants = {t1, t2}
  Keys = {k1}
  None = None
  Tasks = {task}
  Params = {p1, p2}
SYMMETRY Symmetry
INVARIANTS
  TypeOK
  RunsOnce
  OthersRunsOnlyByKey
  RunsAreNotShared
CHECK_DEADLOCK FALSE
