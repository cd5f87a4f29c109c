SPECIFICATION Spec
CONSTANTS
  a = a
  b = b
  c = c
  Call = {a, b, c}
  NoCall = NoCall
  Size <- Sizes
  MaxMem = 2
  SessionCount = 2
  MaxConn = 1
  Debug = FALSE
  Window = TRUE
  BareConnect = FALSE
SYMMETRY Symmetry
INVARIANTS
  ReplyMatchesCall
  OneFrameAtATime
CHECK_DEADLOCK FALSE
