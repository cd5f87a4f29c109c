SPECIFICATION FairSpec
CONSTANTS
  p = p
  q = q
  s = s
  Req = {p, q, s}
  NoReq = NoReq
  Size <- Sizes
  SignBit = 2
  MaxMem = 2
  MaxConn = 2
PROPERTIES
  StopCompletes
  StopEndsSessions
  MemoryWaitEnds
CHECK_DEADLOCK FALSE
