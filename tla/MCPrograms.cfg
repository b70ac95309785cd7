SPECIFICATION MCSpec
CONSTANTS
  TreeContacts = {1, 2, 3, 4, 5, 6, 7, 8, 9, 10, 11, 12}
  Addresses = {n1, n2, n3, n4}
  NoNode = NoNode
  ListContacts = {1, 2, 3}
  Priorities = {1, 2, 3}
  MaxMessages = 5
  MaxContacts = 3
  MaxPhones = 1
  Names = {0, 1}
  Phones = {1}
  FileCount = 2
  FileSizes = {0, 3}
  BufSize = 2
  Room = 3
  Sessions = {1, 2}
  MaxMsg = 2
  MaxWrites = 2
  Lens = {0, 1, 4}
  Wants = {2}
  Readers = {1}
  BufLen = 3
  HelloLen = 2
INVARIANTS
  TreeKept
  ListKept
  BookKept
  CopiesEqual
  CrossedOver
  NoStaleText
PROPERTIES
  MostUrgentOldestFirst
  CopyEnds
  LeavingEnds
CHECK_DEADLOCK FALSE
