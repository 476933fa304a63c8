CONSTANTS
  c1 = c1
  c2 = c2
  timer = timer
  f1 = f1
  f2 = f2
  Clients <- TwoClients
  Timer <- timer
  Objects <- SevenObjects
  Fields <- OneField
  Ops <- CasOps
  TimerOps <- Sweep
  RowAtStart <- Yes
  CachedAtStart <- Yes
  MaxRequests = 6
  MaxFaults = 0
SPECIFICATION Spec
INVARIANTS
  CasGuards
CHECK_DEADLOCK FALSE
