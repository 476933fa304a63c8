CONSTANTS
  Callers <- TwoCallers
  PoolThreads <- ThreeThreads
  MaxThdSize = 1
  Kinds <- Queries
  MaxCalls = 3
SPECIFICATION FairSpec
PROPERTIES
  CallsExecuted
CHECK_DEADLOCK FALSE
