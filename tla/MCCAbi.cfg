\* Three submits over a ring of two, with configs that are refused.
SPECIFICATION AbiSpec
CONSTANTS
  Depth = 2
  MaxCalls = 3
  small = small
  large = large
  single = single
  bad = bad
  o1 = o1
  o2 = o2
  NoFrame = NoFrame
  NoOutput = NoOutput
  NoConfig = NoConfig
  Params <- MCParams
  Encodable <- MCEncodable
  GoodDistance <- MCGoodDistance
  Buffers <- MCBuffers
INVARIANTS
  RingsAgree
  ReceivedFileInOutput
PROPERTIES
  UsesFrameEncoder
