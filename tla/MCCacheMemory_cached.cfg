CONSTANTS
  c1 = c1
  c2 = c2
  timer = timer
  f1 = f1
  f2 = f2
  Clients <- TwoClients
  Timer <- timer
  Objects <- SevenObjects
  Fields <- TwoFields
  Ops <- CachedOps
  TimerOps <- Sweep
  RowAtStart <- Yes
  CachedAtStart <- Yes
  MaxRequests = 3
  MaxFaults = 1
SPECIFICATION FairSpec
INVARIANTS
  LatestKept
  CleanMatchesRow
PROPERTIES
  ImplementsWriteBack
  RowMovesForward
  EventuallyStored
