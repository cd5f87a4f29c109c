SPECIFICATION Spec
CONSTANTS
  a = a
  b = b
  c = c
  Call = {a}
  NoCall = NoCall
  Size <- Sizes
  MaxMem = 2
  SessionCount = 2
  MaxConn = 2
  Debug = FALSE
  Window = TRUE
  BareConnect = FALSE
PROPERTIES
  ReadFailsItsOwnConnection
CHECK_DEADLOCK FALSE
