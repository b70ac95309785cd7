CONSTANTS
  Pids = {p1, p2}
  NoPid = noPid
  MaxDrivers = 1
  Timers = {1}
  MaxSent = 2
SPECIFICATION Spec
INVARIANTS
  OkConfirmsAcceptance
CHECK_DEADLOCK FALSE
