CONSTANTS
  Producers = {p1}
  Consumers = {c1, c2}
  BlocksCount = 3
  DataSize = 1
  Limit = 4
SPECIFICATION Spec
INVARIANTS
  TypeOK
  MutualExclusion
  BlocksKept
  NothingLeftBehind
PROPERTIES
  ImplementsPool
  Terminates
CHECK_DEADLOCK FALSE
