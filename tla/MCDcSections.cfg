\* Groups of 4x4 blocks, three chunks of two threads each.
SPECIFICATION Spec
CONSTANTS
  DcGroupBlocks = 4
  TileBlocks = 2
  HistRows = 2
  WarpSize = 2
  Chunks = 3
  Threads = 2
  WordBits = 32
  ByteBits = 8
  SplitExponent = 2
  MsbInToken = 1
  Words = 12
  Frames <- MCFrames
INVARIANTS
  SectionsHoldTheItems
  CountedAsEmitted
