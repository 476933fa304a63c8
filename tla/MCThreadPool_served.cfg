CONSTANTS
  t1 = t1
  t2 = t2
  t3 = t3
  k1 = k1
  k2 = k2
  k3 = k3
  Threads <- ThreeThreads
  Callers <- TwoCallers
  Tasks <- ThreeTasks
  NoTask = NoTask
  NoThread = NoThread
  MaxThreads = 1
  Reserve = 0
  SemValueMax = 2
SPECIFICATION FairSpec
PROPERTIES
  ImplementsTaskPool
  ShutdownEnds
CHECK_DEADLOCK FALSE
