SPECIFICATION TsSpec
CONSTANTS
  Elements <- Packages
  NoElement = NoElement
  MinCap = 4
  Caps = {4, 8}
  Sizes = {1, 2, 3, 5}
  MaxBufLen = 6
  VsCap = 3
  MaxQueued = 6
  MaxTotal = 12
  Marks = {4, 11}
INVARIANTS
  TsTypeOK
  StreamKept
  BytesAgree
  NoStall
PROPERTIES
  AllWritten
  FifoKept
CHECK_DEADLOCK FALSE
