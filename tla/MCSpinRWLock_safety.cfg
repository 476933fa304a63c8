CONSTANTS
  t1 = t1
  t2 = t2
  t3 = t3
  Threads <- MCThreads
  TicketMod = 4
  Ops <- AllOps
SPECIFICATION Spec
INVARIANTS
  LockInv
  MutualExclusion
PROPERTIES
  ImplementsRWLock
  FirstComeFirstServed
CHECK_DEADLOCK FALSE
