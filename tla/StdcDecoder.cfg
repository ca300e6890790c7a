CONSTANTS
  EncodedSize = 3
  FrameBytes = 17
  DataSize = 17
  IntMax = 4
  Lengths = {1, 7, 17}
  MaxSource = 2
  MaxDepth = 3
  NSlots = 2
  Timeout = 1
  NParts = 2
  TextCap = 1
  Ids = {a, b, c}
  NoId = NoId
  MaxPacketNo = 2
  MaxTime = 2
SPECIFICATION MCSpec
PROPERTIES
  EachBitDecodedOnce
  LockIsRegained
  EvictsOnlyOldest
INVARIANTS
  PacketsAreWhole
  NoForeignParts
