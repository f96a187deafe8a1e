SPECIFICATION Spec
CONSTANTS
  WarpLanes = 4
  AnsLogTabSize = 5
  MinLogAlpha = 3
  MinAnsTokens = 4
  ChunkBits = 6
  WordBits = 24
  NumLanes = 2
  TokenConfig <- MCTokenConfig
  OrderSides <- MCOrderSides
  Frames <- MCFrames
INVARIANTS
  DecoderReadsCodes
  DeviceBuildsHostCode
  DecoderReadsTokens
