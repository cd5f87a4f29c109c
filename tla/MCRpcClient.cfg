SPECIFICATION FairSpec
CONSTANTS
  a = a
  b = b
  c = c
  Call = {a, b}
  NoCall = NoCall
  Size <- Sizes
  MaxMem = 2
  SessionCount = 2
  MaxConn = 2
  Debug = FALSE
  Window = TRUE
  BareConnect = FALSE
INVARIANTS
  TypeOK
  PendingIffInSlot
  NoOrphanCall
  ClosedGateHasNoSlots
  ConnOutlivesFibers
  OneParserPerConnection
  MemoryConserved
PROPERTIES
  ImplementsCall
  CallCompletes
  GateDrains
CHECK_DEADLOCK FALSE
