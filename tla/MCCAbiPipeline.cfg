\* The refinement of the abstract pipeline, fairness included.
SPECIFICATION AbiFairSpec
CONSTANTS
  Depth = 2
  MaxCalls = 3
  small = small
  large = large
  single = single
  bad = bad
  o1 = o1
  o2 = o2
  NoFrame = NoFrame
  NoOutput = NoOutput
  NoConfig = NoConfig
  Params <- MCOneConfig
  Encodable <- MCOneConfig
  GoodDistance <- MCOneConfig
  Buffers <- MCBuffers
PROPERTIES
  ImplementsPipeline
