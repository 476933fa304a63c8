CONSTANTS
  i1 = i1
  i2 = i2
  u1 = u1
  u2 = u2
  t1 = t1
  t2 = t2
  Ids <- TwoIds
  Users <- TwoUsers
  Threads <- TwoThreads
  Anonymous = Anonymous
  Absent = Absent
  NoId = NoId
  NoTimer = NoTimer
  Logins <- OneOrBoth
  MaxPeers = 2
  MaxTimers = 3
  MaxClosings = 1
SPECIFICATION Spec
SYMMETRY Alike
INVARIANTS
  TypeOK
  OneConnection
  KnownUser
  CountMatches
  SessionsAgree
  AnonymousIsTimed
  Heard
  LogoutIsTimed
CHECK_DEADLOCK FALSE
