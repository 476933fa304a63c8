CONSTANTS
  Callers <- TwoCallers
  PoolThreads <- ThreeThreads
  MaxThdSize = 2
  Kinds <- Mixed
  MaxCalls = 3
SPECIFICATION FairSpec
INVARIANTS
  CountInv
  NoneLeftBehind
PROPERTIES
  ImplementsExecutor
  CallsExecutedUnlessMissed
CHECK_DEADLOCK FALSE
