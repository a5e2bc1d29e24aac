SPECIFICATION TsSpec
CONSTANTS
  Elements <- Packages
  NoElement = NoElement
  MinCap = 4
  Caps = {4, 8, 16}
  Sizes = {1, 2, 3}
  MaxBufLen = 4
  VsCap = 3
  MaxQueued = 8
  MaxTotal = 8
  Marks = {}
INVARIANTS
  BytesAgree
CHECK_DEADLOCK FALSE
