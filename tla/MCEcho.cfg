SPECIFICATION Spec
CONSTANTS
  c1 = c1
  c2 = c2
  h1 = h1
  h2 = h2
  Clients <- MCClients
  Addresses <- MCAddresses
  HostOf <- MCHostOf
  MaxSent <- MCMaxSent
  ServerHost = h1
  Server = Server
  NoAddress = NoAddress
  MaxClients = 1
  MaxAttempts = 2
INVARIANTS
  TypeOK
  ClosedIsForgotten
PROPERTIES
  InStep
  AnswersInOrder
  StopsWhenBusy
CHECK_DEADLOCK FALSE
