CONSTANTS
  t1 = t1
  t2 = t2
  t3 = t3
  k1 = k1
  k2 = k2
  k3 = k3
  Threads <- ThreeThreads
  Callers <- OneCaller
  Tasks <- TwoTasks
  NoTask = NoTask
  NoThread = NoThread
  MaxThreads = 2
  Reserve = 1
  SemValueMax = 2
SPECIFICATION Spec
INVARIANTS
  TypeOK
  ArrayInv
  OnePlace
  NoLostWakeup
PROPERTIES
  TakesTaskPoolSteps
CHECK_DEADLOCK FALSE
