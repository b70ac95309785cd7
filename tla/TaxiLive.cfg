CONSTANTS
  Pids = {p1, p2}
  NoPid = noPid
  MaxDrivers = 1
  Timers = {1}
  MaxSent = 3
SPECIFICATION Spec
PROPERTIES
  AcceptedTaskEnds
  EveryTaskDecided
CHECK_DEADLOCK FALSE
