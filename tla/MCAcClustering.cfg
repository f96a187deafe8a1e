\* Three thread blocks of one warp, 5 contexts over 4 clusters.
SPECIFICATION Spec
CONSTANTS
  NumBlocks = 3
  Warps = 1
  WarpSize = 2
  NumContexts = 5
  NumClusters = 4
  AlphabetSize = 2
  Iterations = 3
  RefillIteration = 1
  InitialCluster <- MCInitialCluster
  TableBits = 2
  RemBits = 3
  Log2Table <- MCLog2Table
  FracBits = 4
  ExcessBits = 2
  Inputs <- MCInputs
INVARIANTS
  MatchesReference
  CodesEveryToken
