CONSTANTS
  Pids = {p1, p2, p3}
  NoPid = noPid
  MaxDrivers = 2
  Timers = {1, 2}
  MaxSent = 2
SPECIFICATION Spec
INVARIANTS
  TypeOK
  BusyMatchesTimer
  BacklogBounded
  ReplyIsForThisTask
  AvailableIsTrustworthy
  BusyReportIsFresh
  TablesAgree
PROPERTIES
  NoEarlyRelease
SYMMETRY Symmetry
CHECK_DEADLOCK FALSE
