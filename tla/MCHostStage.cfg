\* Three threads of two lanes, four groups in three batches.
SPECIFICATION Spec
CONSTANTS
  NumThreads = 3
  NumAc = 4
  Batches = 3
  LANES = 2
  NumClusters = 1
  FixedSize = 1
  Tokens <- MCTokens
  Size <- MCSize
  Capacities <- MCCapacities
INVARIANTS
  TablesBeforeCode
  StreamsCodedOnce
  TokensLanded
  UntouchedUnlessOk
  FileComplete
PROPERTIES
  ReleasedOrderKept
  StageReturns
