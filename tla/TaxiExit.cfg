CONSTANTS
  Pids = {p1, p2}
  NoPid = noPid
  MaxDrivers = 1
  Timers = {1}
  MaxSent = 1
SPECIFICATION Spec
PROPERTIES
  ExitEnds
CHECK_DEADLOCK FALSE
