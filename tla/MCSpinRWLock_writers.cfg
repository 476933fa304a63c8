CONSTANTS
  t1 = t1
  t2 = t2
  t3 = t3
  Threads <- MCThreads
  TicketMod = 4
  Ops <- WriterOps
SPECIFICATION FairSpec
PROPERTIES
  WriterEnters
