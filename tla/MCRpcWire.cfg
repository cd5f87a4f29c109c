SPECIFICATION Spec
CONSTANTS
  Data = {"tiny", "text", "noise", "large"}
  Size <- Sizes
  ZeroSum <- Zeros
  MinSize = 1
  MaxBuffer = 19
  MaxFilters = 2
INVARIANTS
  DeliveredIntact
  HeaderFitsBody
  DisabledStaysPlain
  RefusedForCause
CHECK_DEADLOCK FALSE
