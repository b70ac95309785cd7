SPECIFICATION Spec
CONSTANTS
  c1 = c1
  c2 = c2
  c3 = c3
  Clients = {c1, c2, c3}
  Listener = Listener
  MaxEvents = 20
  UpRoom = 1
  DownRoom = 1
  Parts = 1
  Talk <- MCTalk
INVARIANTS
  TypeOK
  NothingSkipped
PROPERTIES
  BroadcastEnds
  LeaverDropped
CHECK_DEADLOCK FALSE
