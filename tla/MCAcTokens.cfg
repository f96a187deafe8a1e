\* Blocks of 2x2 coefficients in groups of 2x2 blocks, two groups a batch.
SPECIFICATION Spec
CONSTANTS
  SplitExponent = 1
  MsbInToken = 1
  BlockDim = 2
  Sides = {2, 4}
  GroupBlocks = 2
  WarpSize = 4
  LayoutThreads = 2
  OrderSplits = 2
  WordBits = 8
  BatchGroups = 2
  RawWords = 70
  ContextMap <- MCContextMap
  Frames <- MCFrames
INVARIANTS
  PackedIsSerial
  ContextsCounted
  OrdersDecoded
