CONSTANTS
  Producers = {p1, p2}
  Writer = w
  Main = main
  Messages = {m1, m2, m3}
  Bound = 1
  NoElement = NoElement
SPECIFICATION FairSpec
INVARIANTS
  OneOwner
  WrittenInOrder
PROPERTIES
  DecoderNeverBlocks
  AcceptedComesOut
