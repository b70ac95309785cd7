SPECIFICATION MCSpec
CONSTANTS
  Addresses = {a1, a2, a3}
  NoAddress = NoAddress
  MaxClients = 2
  MaxNumber = 3
INVARIANTS
  OneEntryEach
PROPERTIES
  ImplementsCounters
CHECK_DEADLOCK FALSE
