SPECIFICATION Spec
CONSTANTS
  Name = {"Storage", "Logger"}
  Sig = {"get", "put"}
  Crc <- Ids
  Xor <- XorBits
  Words <- WordLists
  NoCode = NoCode
  NoHandle = NoHandle
  MaxEdits = 2
  MaxServices = 2
INVARIANTS
  SameHandle
  SuccessMeansGenerated
CHECK_DEADLOCK FALSE
