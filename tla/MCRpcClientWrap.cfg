SPECIFICATION Spec
CONSTANTS
  a = a
  b = b
  c = c
  Call = {a, b}
  NoCall = NoCall
  Size <- Sizes
  MaxMem = 2
  SessionCount = 1
  MaxConn = 2
  Debug = FALSE
  Window = FALSE
  BareConnect = FALSE
INVARIANTS
  PendingIffInSlot
  ReadCounterPositive
CHECK_DEADLOCK FALSE
