SPECIFICATION Spec
CONSTANTS
  p = p
  q = q
  s = s
  Req = {p, q, s}
  NoReq = NoReq
  Size <- Sizes
  SignBit = 2
  MaxMem = 2
  MaxConn = 2
SYMMETRY Symmetry
INVARIANTS
  TypeOK
  EndedSessionIsClosed
  OneReplyAtATime
  MemoryAccounted
PROPERTIES
  ImplementsServe
CHECK_DEADLOCK FALSE
