CONSTANTS
  Producers = {p1}
  Consumers = {c1, c2}
  BlocksCount = 2
  DataSize = 1
  Limit = 2
SPECIFICATION SpecSysV
INVARIANTS
  HeadHasData
CHECK_DEADLOCK FALSE
