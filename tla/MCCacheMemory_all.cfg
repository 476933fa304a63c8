CONSTANTS
  c1 = c1
  c2 = c2
  timer = timer
  f1 = f1
  f2 = f2
  Clients <- TwoClients
  Timer <- timer
  Objects <- SevenObjects
  Fields <- OneField
  Ops <- AllOps
  TimerOps <- SweepAndExpire
  RowAtStart <- Yes
  CachedAtStart <- Yes
  MaxRequests = 2
  MaxFaults = 1
SYMMETRY Symmetry
SPECIFICATION Spec
INVARIANTS
  TypeOK
  FlushLock
  DirtyIsScheduled
CHECK_DEADLOCK FALSE
