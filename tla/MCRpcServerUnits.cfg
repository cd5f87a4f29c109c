SPECIFICATION Spec
CONSTANTS
  p = p
  q = q
  s = s
  Req = {p}
  NoReq = NoReq
  Size <- Sizes
  SignBit = 3
  MaxMem = 2
  MaxConn = 1
INVARIANTS
  NoUnitsLost
CHECK_DEADLOCK FALSE
