CONSTANTS
  c1 = c1
  c2 = c2
  timer = timer
  f1 = f1
  f2 = f2
  Clients <- TwoClients
  Timer <- timer
  Objects <- SevenObjects
  Fields <- OneField
  Ops <- ColdOps
  TimerOps <- Sweep
  RowAtStart <- Yes
  CachedAtStart <- No
  MaxRequests = 2
  MaxFaults = 0
SPECIFICATION Spec
INVARIANTS
  LatestKept
CHECK_DEADLOCK FALSE
