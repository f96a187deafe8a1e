\* Four threads, three runs.
SPECIFICATION FairSpec
CONSTANTS
  w1 = w1
  w2 = w2
  w3 = w3
  Caller = Caller
  Workers <- MCWorkers
  MaxRuns = 3
INVARIANTS
  TypeOK
  RunningCountsOutstanding
  TaskOutlivesWorkers
PROPERTIES
  ImplementsForkJoin
  DestroyReturns
