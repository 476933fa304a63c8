------------------------ MODULE AgentSessionsProofs -----------------------
(***************************************************************************)
(* For any socket ids, users, threads and numbers of connections: the maps *)
(* of CAgentLogic keep their types, packets of at most one connection are  *)
(* routed for a user, who is then a client; the counter is the number of   *)
(* clients while no two logins overlapped, and the two maps agree while no *)
(* socket id stood for two.                                                *)
(***************************************************************************)
EXTENDS AgentSessions, FiniteSetTheorems, TLAPS

(* Bags of sockets.                                                        *)

SocketBag(b) == IsABag(b) /\ BagToSet(b) \subseteq Sockets

LEMMA BagNone == SocketBag(EmptyBag)
BY SMT DEF SocketBag, IsABag, BagToSet, EmptyBag, SetToBag

LEMMA BagOne ==
  ASSUME NEW s \in Sockets
  PROVE  SocketBag(One(s))
BY SMT DEF SocketBag, IsABag, BagToSet, One, SetToBag

LEMMA BagAdd ==
  ASSUME NEW b, NEW c, SocketBag(b), SocketBag(c)
  PROVE  SocketBag(b (+) c)
BY SMT DEF SocketBag, IsABag, BagToSet, (+)

LEMMA BagRemove ==
  ASSUME NEW b, NEW c, SocketBag(b), SocketBag(c)
  PROVE  SocketBag(b (-) c)
BY SMT DEF SocketBag, IsABag, BagToSet, (-)

-----------------------------------------------------------------------------
(* The parts of TypeOK.                                                    *)

JobOK(j) ==
  /\ j \in Jobs
  /\ j.at \in {"check", "recover", "count"} => j.socket \in Sockets /\ j.user \in Users
  /\ j.at = "logout" => j.socket \in Sockets
  /\ j.at = "insert" => j.new \in Sockets

NetworkType ==
  /\ link \in [Ids -> [peer : 0 .. MaxPeers, why : Reasons]]
  /\ peers \in 0 .. MaxPeers
  /\ closed \subseteq [socket : Sockets, why : Reasons]
  /\ newConnections \in Seq(Sockets)
  /\ lostConnections \in Seq([socket : Sockets, why : Reasons])
PlayerType ==
  /\ player \in [Ids -> Users \cup {Anonymous, Absent}]
  /\ loginTimer \in [Ids -> TimerIds \cup {NoTimer}]
  /\ \A i \in Ids : player[i] = Absent => loginTimer[i] = NoTimer
ClientType ==
  /\ client \in [Users -> Sockets \cup {NoSocket}]
  /\ logoutTimer \in [Users -> TimerIds \cup {NoTimer}]
  /\ \A u \in Users : client[u] = NoSocket => logoutTimer[u] = NoTimer
TimerType == armed \subseteq TimerRecords /\ fired \subseteq TimerRecords
JobType == job \in [Threads -> Jobs] /\ \A t \in Threads : JobOK(job[t])
CountType ==
  clientCount \in Int /\ closings \in 0 .. MaxClosings
    /\ mixed \in BOOLEAN /\ stale \in BOOLEAN

TypeInv ==
  /\ NetworkType /\ PlayerType /\ ClientType /\ SocketBag(queSocketIds)
  /\ TimerType /\ JobType /\ CountType

LEMMA TypeInvLemma == TypeInv => TypeOK
BY DEF TypeInv, TypeOK, NetworkType, PlayerType, ClientType, SocketBag, TimerType,
       JobType, JobOK, CountType

LEMMA SocketLemma ==
  /\ \A i \in Ids, p \in 1 .. MaxPeers :
       Socket(i, p) \in Sockets /\ Socket(i, p).id = i /\ Socket(i, p).peer = p
  /\ \A s \in Sockets : s.id \in Ids /\ s.peer \in 1 .. MaxPeers /\ s # NoSocket
  /\ NoSocket.id = NoId
BY NullAssumption DEF NullAssumption, Socket, Sockets, NoSocket

LEMMA NoJobLemma == NoJob.at = "idle" /\ JobOK(NoJob)
BY DEF NoJob, JobOK, Jobs, NoSocket, Socket, Reasons

\* A thread that goes on with well-formed work keeps all of it well-formed.
LEMMA JobPut ==
  ASSUME JobType, NEW t \in Threads, NEW j, JobOK(j), job' = [job EXCEPT ![t] = j]
  PROVE  JobType'
BY DEF JobType, JobOK

\* The set of running timers only shrinks by Without.
LEMMA WithoutLemma ==
  ASSUME TimerType, NEW S
  PROVE  Without(S) \subseteq TimerRecords /\ Without(S) \subseteq armed
BY DEF TimerType, Without

LEMMA NewTimerLemma ==
  ASSUME NEW x \in Ids \cup Users, FreeTimers(x) # {}
  PROVE  NewTimer(x) \in TimerIds
<1>1. (CHOOSE n \in FreeTimers(x) : TRUE) \in FreeTimers(x)
  OBVIOUS
<1> QED
  BY <1>1 DEF NewTimer, FreeTimers, TimerIds

LEMMA TimerLemma ==
  ASSUME NEW n \in TimerIds \cup {NoTimer}, NEW s \in Sockets, NEW why \in Reasons,
         NEW call \in {"OnLoginTimeout", "OnLogoutCallback"}
  PROVE  Timer(n, call, s, why) \in TimerRecords
BY DEF Timer, TimerRecords

-----------------------------------------------------------------------------
(* Every action keeps the types.                                           *)

LEMMA InitType == Init => TypeInv
<1> SUFFICES ASSUME Init
             PROVE  TypeInv
  OBVIOUS
<1>1. NetworkType
  BY BoundAssumption DEF BoundAssumption, Init, NetworkType, Reasons
<1>2. PlayerType /\ ClientType
  BY DEF Init, PlayerType, ClientType
<1>3. SocketBag(queSocketIds)
  BY BagNone DEF Init
<1>4. TimerType /\ CountType
  <2>1. TimerType /\ clientCount \in Int /\ closings \in 0 .. MaxClosings
    BY BoundAssumption DEF BoundAssumption, Init, TimerType
  <2>2. mixed \in BOOLEAN /\ stale \in BOOLEAN
    BY Zenon DEF Init
  <2> QED
    BY <2>1, <2>2 DEF CountType
<1>5. JobType
  BY NoJobLemma DEF Init, JobType, JobOK
<1> QED
  BY <1>1, <1>2, <1>3, <1>4, <1>5 DEF TypeInv

LEMMA AcceptType ==
  ASSUME TypeInv, NEW i \in Ids, Accept(i)
  PROVE  TypeInv'
<1>1. peers + 1 \in 1 .. MaxPeers /\ Socket(i, peers + 1) \in Sockets
  BY SocketLemma, BoundAssumption DEF BoundAssumption, TypeInv, NetworkType, Accept
<1>2. link' \in [Ids -> [peer : 0 .. MaxPeers, why : Reasons]]
  BY <1>1 DEF TypeInv, NetworkType, Accept, Reasons
<1>3. NetworkType'
  BY <1>1, <1>2 DEF TypeInv, NetworkType, Accept
<1>4. PlayerType' /\ ClientType' /\ TimerType' /\ JobType'
  BY DEF Accept, maps, timers, TypeInv, PlayerType, ClientType, TimerType, JobType
<1>5. SocketBag(queSocketIds') /\ CountType'
  BY DEF Accept, TypeInv, CountType
<1> QED
  BY <1>3, <1>4, <1>5 DEF TypeInv

LEMMA RemoveSocketLinkType ==
  ASSUME TypeInv, NEW i \in Ids, RemoveSocketLink(i)
  PROVE  TypeInv'
<1>1. link[i].peer \in 1 .. MaxPeers /\ link[i].why \in Reasons
  BY BoundAssumption DEF BoundAssumption, TypeInv, NetworkType, RemoveSocketLink
<1>2. [socket |-> Socket(i, link[i].peer), why |-> link[i].why]
        \in [socket : Sockets, why : Reasons]
  BY <1>1, SocketLemma
<1>3. link' \in [Ids -> [peer : 0 .. MaxPeers, why : Reasons]]
  BY BoundAssumption DEF BoundAssumption, TypeInv, NetworkType, RemoveSocketLink, Reasons
<1>4. NetworkType'
  BY <1>2, <1>3 DEF TypeInv, NetworkType, RemoveSocketLink
<1>5. PlayerType' /\ ClientType' /\ TimerType' /\ JobType'
  BY DEF RemoveSocketLink, maps, timers, TypeInv, PlayerType, ClientType, TimerType, JobType
<1>6. SocketBag(queSocketIds') /\ CountType'
  BY DEF RemoveSocketLink, TypeInv, CountType
<1> QED
  BY <1>4, <1>5, <1>6 DEF TypeInv

LEMMA DisconnectCallbackType ==
  ASSUME TypeInv, NEW c \in closed, DisconnectCallback(c)
  PROVE  TypeInv'
<1>1. NetworkType'
  BY DEF TypeInv, NetworkType, DisconnectCallback
<1>2. PlayerType' /\ ClientType' /\ TimerType' /\ JobType'
  BY DEF DisconnectCallback, maps, timers, TypeInv, PlayerType, ClientType, TimerType,
         JobType
<1>3. SocketBag(queSocketIds') /\ CountType'
  BY DEF DisconnectCallback, TypeInv, CountType
<1> QED
  BY <1>1, <1>2, <1>3 DEF TypeInv

LEMMA NewOrNoneLemma ==
  ASSUME TypeInv
  PROVE  NewOrNone \in Sockets \cup {NoSocket}
BY DEF TypeInv, NetworkType, NewOrNone

LEMMA HeadLemma ==
  ASSUME NEW S, NEW q \in Seq(S), q # <<>>
  PROVE  Head(q) \in S
OBVIOUS

LEMMA LostConnectionType ==
  ASSUME TypeInv, NEW t \in Threads, LostConnection(t)
  PROVE  TypeInv'
<1> DEFINE l == Head(lostConnections)
           j == IF l.socket.id = NewOrNone.id THEN NoJob
                ELSE [NoJob EXCEPT !.at = "logout", !.socket = l.socket,
                                   !.why = l.why, !.new = NewOrNone]
<1>1. l \in [socket : Sockets, why : Reasons]
  <2>1. /\ lostConnections \in Seq([socket : Sockets, why : Reasons])
        /\ lostConnections # <<>>
    BY DEF TypeInv, NetworkType, LostConnection
  <2> QED
    BY Zenon, <2>1, HeadLemma
<1>2. JobOK(j)
  BY <1>1, NewOrNoneLemma, NoJobLemma DEF NoJob, JobOK, Jobs
<1>3. job' = [job EXCEPT ![t] = j]
  BY DEF LostConnection
<1> HIDE DEF j
<1>4. JobType'
  BY <1>2, <1>3, JobPut DEF TypeInv
<1>5. NetworkType'
  <2>1. lostConnections' \in Seq([socket : Sockets, why : Reasons])
    BY DEF TypeInv, NetworkType, LostConnection
  <2>2. newConnections' \in Seq(Sockets)
    <3>1. newConnections \in Seq(Sockets)
      BY DEF TypeInv, NetworkType
    <3>2. newConnections' = IF newConnections = <<>> THEN <<>> ELSE Tail(newConnections)
      BY DEF LostConnection
    <3>3. CASE newConnections = <<>>
      BY <3>1, <3>2, <3>3
    <3>4. CASE newConnections # <<>>
      BY <3>1, <3>2, <3>4
    <3> QED
      BY <3>3, <3>4
  <2>3. UNCHANGED <<link, peers, closed>>
    BY DEF LostConnection
  <2> QED
    BY <2>1, <2>2, <2>3 DEF TypeInv, NetworkType
<1>6. PlayerType' /\ ClientType' /\ TimerType'
  BY DEF LostConnection, maps, timers, TypeInv, PlayerType, ClientType, TimerType
<1>7. SocketBag(queSocketIds') /\ CountType'
  BY DEF LostConnection, TypeInv, CountType
<1> QED
  BY <1>4, <1>5, <1>6, <1>7 DEF TypeInv

LEMMA NewConnectionType ==
  ASSUME TypeInv, NEW t \in Threads, NewConnection(t)
  PROVE  TypeInv'
<1> DEFINE j == [NoJob EXCEPT !.at = "insert", !.new = Head(newConnections)]
<1>1. Head(newConnections) \in Sockets
  <2>1. newConnections \in Seq(Sockets) /\ newConnections # <<>>
    BY DEF TypeInv, NetworkType, NewConnection
  <2> QED
    BY <2>1
<1>2. JobOK(j)
  BY <1>1, NoJobLemma DEF NoJob, JobOK, Jobs
<1>3. job' = [job EXCEPT ![t] = j]
  BY DEF NewConnection
<1> HIDE DEF j
<1>4. JobType'
  BY <1>2, <1>3, JobPut DEF TypeInv
<1>5. NetworkType'
  BY DEF TypeInv, NetworkType, NewConnection
<1>6. PlayerType' /\ ClientType' /\ TimerType'
  BY DEF NewConnection, maps, timers, TypeInv, PlayerType, ClientType, TimerType
<1>7. SocketBag(queSocketIds') /\ CountType'
  BY DEF NewConnection, TypeInv, CountType
<1> QED
  BY <1>4, <1>5, <1>6, <1>7 DEF TypeInv

LEMMA AfterLogoutType ==
  ASSUME TypeInv, NEW t \in Threads, AfterLogout(t)
  PROVE  JobType'
<1> DEFINE j == IF job[t].new = NoSocket THEN NoJob
                ELSE [NoJob EXCEPT !.at = "insert", !.new = job[t].new]
<1>1. job[t].new \in Sockets \cup {NoSocket} /\ job \in [Threads -> Jobs]
  BY DEF TypeInv, JobType, Jobs
<1>2. JobOK(j)
  BY <1>1, NoJobLemma DEF NoJob, JobOK, Jobs
<1>3. job' = [job EXCEPT ![t] = j]
  BY <1>1 DEF AfterLogout
<1> HIDE DEF j
<1> QED
  BY <1>2, <1>3, JobPut DEF TypeInv

LEMMA InsertSocketIdType ==
  ASSUME TypeInv, NEW t \in Threads, InsertSocketId(t)
  PROVE  TypeInv'
<1> DEFINE s == job[t].new
           n == NewTimer(s.id)
           b == IF player[s.id] = Absent THEN One(s) ELSE EmptyBag
<1>1. s \in Sockets /\ s.id \in Ids
  BY SocketLemma DEF TypeInv, JobType, JobOK, InsertSocketId
<1>2. n \in TimerIds
  BY <1>1, NewTimerLemma DEF InsertSocketId
<1>3. Anonymous # Absent
  BY NullAssumption DEF NullAssumption
<1>4. PlayerType'
  BY <1>1, <1>2, <1>3 DEF InsertSocketId, TypeInv, PlayerType
<1>5. TimerType'
  <2>1. Timer(n, "OnLoginTimeout", s, "forced") \in TimerRecords
    BY <1>1, <1>2, TimerLemma DEF Reasons
  <2>2. Without({loginTimer[s.id]}) \subseteq TimerRecords
    BY WithoutLemma DEF TypeInv
  <2> QED
    BY <2>1, <2>2 DEF InsertSocketId, TypeInv, TimerType
<1>6. SocketBag(b)
  BY <1>1, BagOne, BagNone
<1>7. queSocketIds' = queSocketIds (+) b
  BY DEF InsertSocketId
<1> HIDE DEF b
<1>8. SocketBag(queSocketIds')
  BY <1>6, <1>7, BagAdd DEF TypeInv
<1>9. JobType'
  BY JobPut, NoJobLemma DEF InsertSocketId, TypeInv
<1>10. NetworkType' /\ ClientType' /\ CountType'
  BY DEF InsertSocketId, network, TypeInv, NetworkType, ClientType, CountType
<1> QED
  BY <1>4, <1>5, <1>8, <1>9, <1>10 DEF TypeInv

LEMMA RemoveSocketIdType ==
  ASSUME TypeInv, NEW i \in Ids, RemoveSocketId(i)
  PROVE  PlayerType' /\ ClientType' /\ armed' \subseteq TimerRecords /\ clientCount' \in Int
<1>1. PlayerType'
  BY DEF RemoveSocketId, TypeInv, PlayerType
<1>2. ClientType'
  BY DEF RemoveSocketId, EraseClient, TypeInv, ClientType
<1>3. armed' \subseteq TimerRecords
  BY WithoutLemma DEF RemoveSocketId, TypeInv
<1>4. clientCount' \in Int
  BY DEF RemoveSocketId, EraseClient, TypeInv, CountType
<1> QED
  BY <1>1, <1>2, <1>3, <1>4

LEMMA SetDelayLogoutType ==
  ASSUME TypeInv, NEW t \in Threads, SetDelayLogout(t)
  PROVE  TypeInv'
<1> DEFINE s == job[t].socket
<1>1. s \in Sockets
  BY DEF TypeInv, JobType, JobOK, SetDelayLogout
<1>2. JobType'
  BY AfterLogoutType DEF SetDelayLogout
<1>3. ClientType' /\ TimerType'
  <2>1. CASE UNCHANGED <<logoutTimer, armed>>
    BY <2>1 DEF SetDelayLogout, TypeInv, ClientType, TimerType
  <2>2. CASE \E u \in Users :
               /\ client[u] # NoSocket /\ FreeTimers(u) # {}
               /\ logoutTimer' = [logoutTimer EXCEPT ![u] = NewTimer(u)]
               /\ armed' = armed \cup {Timer(NewTimer(u), "OnLogoutCallback", s, "offline")}
    <3>1. PICK u \in Users :
               /\ client[u] # NoSocket /\ FreeTimers(u) # {}
               /\ logoutTimer' = [logoutTimer EXCEPT ![u] = NewTimer(u)]
               /\ armed' = armed \cup {Timer(NewTimer(u), "OnLogoutCallback", s, "offline")}
      BY <2>2
    <3>2. NewTimer(u) \in TimerIds
      BY <3>1, NewTimerLemma
    <3>3. Timer(NewTimer(u), "OnLogoutCallback", s, "offline") \in TimerRecords
      BY <1>1, <3>2, TimerLemma DEF Reasons
    <3>4. ClientType'
      BY <3>1, <3>2 DEF SetDelayLogout, TypeInv, ClientType
    <3> QED
      BY <3>1, <3>3, <3>4 DEF SetDelayLogout, TypeInv, TimerType
  <2> QED
    BY <2>1, <2>2 DEF SetDelayLogout
<1>4. NetworkType' /\ PlayerType' /\ SocketBag(queSocketIds') /\ CountType'
  BY DEF SetDelayLogout, network, TypeInv, NetworkType, PlayerType, CountType
<1> QED
  BY <1>2, <1>3, <1>4 DEF TypeInv

LEMMA LogoutNowType ==
  ASSUME TypeInv, NEW t \in Threads, LogoutNow(t)
  PROVE  TypeInv'
<1>1. job[t].socket.id \in Ids
  BY SocketLemma DEF TypeInv, JobType, JobOK, LogoutNow
<1>2. PlayerType' /\ ClientType' /\ armed' \subseteq TimerRecords /\ clientCount' \in Int
  BY <1>1, RemoveSocketIdType DEF LogoutNow
<1>3. JobType'
  BY AfterLogoutType DEF LogoutNow
<1>4. NetworkType' /\ SocketBag(queSocketIds') /\ TimerType' /\ CountType'
  BY <1>2 DEF LogoutNow, network, TypeInv, NetworkType, TimerType, CountType
<1> QED
  BY <1>2, <1>3, <1>4 DEF TypeInv

LEMMA ExpireType ==
  ASSUME TypeInv, NEW r \in armed, Expire(r)
  PROVE  TypeInv'
<1>1. TimerType'
  BY DEF Expire, TypeInv, TimerType
<1>2. NetworkType' /\ PlayerType' /\ ClientType' /\ JobType'
  BY DEF Expire, network, maps, TypeInv, NetworkType, PlayerType, ClientType, JobType
<1>3. SocketBag(queSocketIds') /\ CountType'
  BY DEF Expire, TypeInv, CountType
<1> QED
  BY <1>1, <1>2, <1>3 DEF TypeInv

LEMMA CloseConnectionType ==
  ASSUME TypeInv, NEW s, NEW nWhy \in Reasons, CloseConnection(s, nWhy)
  PROVE  link' \in [Ids -> [peer : 0 .. MaxPeers, why : Reasons]]
BY DEF CloseConnection, IsOpen, TypeInv, NetworkType

LEMMA OnLoginTimeoutType ==
  ASSUME TypeInv, NEW r \in fired, OnLoginTimeout(r)
  PROVE  TypeInv'
<1>1. r.why \in Reasons
  BY DEF TypeInv, TimerType, TimerRecords
<1>2. NetworkType'
  BY <1>1, CloseConnectionType DEF OnLoginTimeout, TypeInv, NetworkType
<1>3. TimerType'
  BY DEF OnLoginTimeout, TypeInv, TimerType
<1>4. PlayerType' /\ ClientType' /\ JobType'
  BY DEF OnLoginTimeout, maps, TypeInv, PlayerType, ClientType, JobType
<1>5. SocketBag(queSocketIds') /\ CountType'
  BY DEF OnLoginTimeout, TypeInv, CountType
<1> QED
  BY <1>2, <1>3, <1>4, <1>5 DEF TypeInv

LEMMA OnLogoutCallbackType ==
  ASSUME TypeInv, NEW r \in fired, OnLogoutCallback(r)
  PROVE  TypeInv'
<1>1. r.socket.id \in Ids
  BY SocketLemma DEF TypeInv, TimerType, TimerRecords
<1>2. PlayerType' /\ ClientType' /\ armed' \subseteq TimerRecords /\ clientCount' \in Int
  BY <1>1, RemoveSocketIdType DEF OnLogoutCallback
<1>3. TimerType'
  BY <1>2 DEF OnLogoutCallback, TypeInv, TimerType
<1>4. NetworkType' /\ JobType' /\ SocketBag(queSocketIds') /\ CountType'
  BY <1>2 DEF OnLogoutCallback, network, TypeInv, NetworkType, JobType, CountType
<1> QED
  BY <1>2, <1>3, <1>4 DEF TypeInv

LEMMA KickLoggedType ==
  ASSUME TypeInv, NEW u \in Users, KickLogged(u)
  PROVE  TypeInv'
<1>1. Timer(NoTimer, "OnLoginTimeout", client[u], "forced") \in TimerRecords
  BY TimerLemma DEF Reasons, KickLogged, TypeInv, ClientType
<1>2. TimerType'
  BY <1>1 DEF KickLogged, TypeInv, TimerType
<1>3. CountType'
  BY BoundAssumption DEF BoundAssumption, KickLogged, TypeInv, CountType
<1>4. NetworkType' /\ PlayerType' /\ ClientType' /\ JobType' /\ SocketBag(queSocketIds')
  BY DEF KickLogged, network, maps, TypeInv, NetworkType, PlayerType, ClientType, JobType
<1> QED
  BY <1>2, <1>3, <1>4 DEF TypeInv

LEMMA CloseClientType ==
  ASSUME TypeInv, NEW u \in Users, CloseClient(u)
  PROVE  TypeInv'
<1>1. Timer(NoTimer, "OnLoginTimeout", client[u], "forced") \in TimerRecords
  BY TimerLemma DEF Reasons, CloseClient, TypeInv, ClientType
<1>2. TimerType'
  BY <1>1 DEF CloseClient, TypeInv, TimerType
<1>3. CountType'
  BY BoundAssumption DEF BoundAssumption, CloseClient, TypeInv, CountType
<1>4. NetworkType' /\ PlayerType' /\ ClientType' /\ JobType' /\ SocketBag(queSocketIds')
  BY DEF CloseClient, network, maps, TypeInv, NetworkType, PlayerType, ClientType, JobType
<1> QED
  BY <1>2, <1>3, <1>4 DEF TypeInv

LEMMA DropSocketType ==
  ASSUME TypeInv, NEW s \in Sockets, DropSocket(s)
  PROVE  TypeInv'
<1>1. SocketBag(queSocketIds')
  BY BagOne, BagRemove DEF DropSocket, TypeInv
<1>2. NetworkType' /\ PlayerType' /\ ClientType' /\ TimerType' /\ JobType' /\ CountType'
  BY DEF DropSocket, network, maps, timers, TypeInv, NetworkType, PlayerType, ClientType,
         TimerType, JobType, CountType
<1> QED
  BY <1>1, <1>2 DEF TypeInv

LEMMA HandleDefaultType ==
  ASSUME TypeInv, NEW s \in Sockets, HandleDefault(s)
  PROVE  TypeInv'
<1>1. SocketBag(queSocketIds')
  BY BagOne, BagRemove DEF HandleDefault, TypeInv
<1>2. NetworkType'
  BY CloseConnectionType DEF HandleDefault, Reasons, TypeInv, NetworkType
<1>3. PlayerType' /\ ClientType' /\ TimerType' /\ JobType' /\ CountType'
  BY DEF HandleDefault, maps, timers, TypeInv, PlayerType, ClientType, TimerType, JobType,
         CountType
<1> QED
  BY <1>1, <1>2, <1>3 DEF TypeInv

LEMMA HandleLoginType ==
  ASSUME TypeInv, NEW t \in Threads, NEW s \in Sockets, NEW u \in Users,
         HandleLogin(t, s, u)
  PROVE  TypeInv'
<1> DEFINE j == [NoJob EXCEPT !.at = IF client[u] = NoSocket THEN "check" ELSE "recover",
                              !.socket = s, !.user = u]
<1>1. JobOK(j)
  BY NoJobLemma DEF NoJob, JobOK, Jobs
<1>2. job' = [job EXCEPT ![t] = j]
  BY DEF HandleLogin
<1> HIDE DEF j
<1>3. JobType'
  BY <1>1, <1>2, JobPut DEF TypeInv
<1>4. SocketBag(queSocketIds')
  BY BagOne, BagRemove DEF HandleLogin, TypeInv
<1>5. NetworkType' /\ PlayerType' /\ ClientType' /\ TimerType' /\ CountType'
  BY DEF HandleLogin, network, maps, timers, TypeInv, NetworkType, PlayerType, ClientType,
         TimerType, CountType
<1> QED
  BY <1>3, <1>4, <1>5 DEF TypeInv

LEMMA PutBackLemma ==
  ASSUME NEW s \in Sockets
  PROVE  SocketBag(PutBack(s))
BY BagOne, BagNone DEF PutBack

LEMMA LoginRefusedType ==
  ASSUME TypeInv, NEW t \in Threads, LoginRefused(t)
  PROVE  TypeInv'
<1>1. job[t].socket \in Sockets
  BY DEF TypeInv, JobType, JobOK, LoginRefused
<1>2. SocketBag(queSocketIds')
  BY <1>1, PutBackLemma, BagAdd DEF LoginRefused, TypeInv
<1>3. JobType'
  BY JobPut, NoJobLemma DEF LoginRefused, TypeInv
<1>4. NetworkType' /\ PlayerType' /\ ClientType' /\ TimerType' /\ CountType'
  BY DEF LoginRefused, network, maps, timers, TypeInv, NetworkType, PlayerType, ClientType,
         TimerType, CountType
<1> QED
  BY <1>2, <1>3, <1>4 DEF TypeInv

LEMMA CountClientType ==
  ASSUME TypeInv, NEW t \in Threads, CountClient(t)
  PROVE  TypeInv'
<1>1. job[t].socket \in Sockets
  BY DEF TypeInv, JobType, JobOK, CountClient
<1>2. SocketBag(queSocketIds')
  BY <1>1, PutBackLemma, BagAdd DEF CountClient, TypeInv
<1>3. JobType'
  BY JobPut, NoJobLemma DEF CountClient, TypeInv
<1>4. NetworkType' /\ PlayerType' /\ ClientType' /\ TimerType' /\ CountType'
  BY DEF CountClient, network, maps, timers, TypeInv, NetworkType, PlayerType, ClientType,
         TimerType, CountType
<1> QED
  BY <1>2, <1>3, <1>4 DEF TypeInv

\* The thread of a login knows the connection and the user.
LEMMA LoginLemma ==
  ASSUME TypeInv, NEW t \in Threads, job[t].at \in {"check", "recover", "count"}
  PROVE  /\ job[t].socket \in Sockets /\ job[t].socket.id \in Ids
         /\ job[t].user \in Users
BY SocketLemma DEF TypeInv, JobType, JobOK

LEMMA GotoType ==
  ASSUME TypeInv, NEW t \in Threads, job[t].at \in {"check", "recover"}, Goto(t, "count")
  PROVE  JobType'
<1> DEFINE j == [job[t] EXCEPT !.at = "count"]
<1>1. job[t] \in Jobs /\ job[t].socket \in Sockets /\ job[t].user \in Users
  BY LoginLemma DEF TypeInv, JobType
<1>2. JobOK(j)
  BY <1>1 DEF JobOK, Jobs
<1>3. job' = [job EXCEPT ![t] = j]
  BY DEF Goto
<1> HIDE DEF j
<1> QED
  BY <1>2, <1>3, JobPut DEF TypeInv

LEMMA ReplacedType ==
  ASSUME TypeInv, NEW t \in Threads, job[t].at \in {"check", "recover"},
         NEW ok \in BOOLEAN, NEW b, SocketBag(b), Replaced(t, ok, b)
  PROVE  JobType' /\ SocketBag(queSocketIds')
<1>1. SocketBag(PutBack(job[t].socket))
  BY LoginLemma, PutBackLemma
<1>2. SocketBag(queSocketIds (+) b)
  BY BagAdd DEF TypeInv
<1>3. SocketBag((queSocketIds (+) b) (+) PutBack(job[t].socket))
  BY <1>1, <1>2, BagAdd
<1>4. CASE ok /\ job[t].at = "check"
  BY <1>2, <1>4, GotoType DEF Replaced
<1>5. CASE ~(ok /\ job[t].at = "check")
  BY <1>3, <1>5, JobPut, NoJobLemma DEF Replaced, TypeInv
<1> QED
  BY <1>4, <1>5

LEMMA NewClientType ==
  ASSUME TypeInv, NEW t \in Threads, NewClient(t)
  PROVE  TypeInv'
<1> DEFINE s == job[t].socket
           u == job[t].user
           b == IF player[s.id] = Absent THEN One(s) ELSE EmptyBag
<1>1. /\ s \in Sockets /\ s.id \in Ids /\ u \in Users
      /\ job[t].at \in {"check", "recover"}
  BY LoginLemma DEF NewClient
<1>2. \E n \in TimerIds \cup {NoTimer} : loginTimer' = [loginTimer EXCEPT ![s.id] = n]
  <2>1. \A r \in armed : r.id \in TimerIds \cup {NoTimer}
    BY DEF TypeInv, TimerType, TimerRecords
  <2>2. PICK n \in IF player[s.id] = Absent
                     THEN {NoTimer} \cup {r.id : r \in armed} ELSE {NoTimer} :
               loginTimer' = [loginTimer EXCEPT ![s.id] = n]
    BY DEF NewClient
  <2>3. n \in TimerIds \cup {NoTimer}
    BY <2>1, <2>2
  <2> QED
    BY <2>2, <2>3
<1>3. u # Absent
  BY <1>1, NullAssumption DEF NullAssumption
<1>4. PlayerType'
  <2>1. player' = [player EXCEPT ![s.id] = u]
    BY DEF NewClient, EnterPlayer
  <2> QED
    BY <1>1, <1>2, <1>3, <2>1 DEF TypeInv, PlayerType
<1>5. ClientType'
  <2>1. client' = [client EXCEPT ![u] = s] /\ UNCHANGED logoutTimer
    BY DEF NewClient
  <2> QED
    BY <1>1, <2>1, SocketLemma DEF TypeInv, ClientType
<1>6. TimerType'
  BY WithoutLemma DEF NewClient, TypeInv, TimerType
<1>7. SocketBag(b)
  BY <1>1, BagOne, BagNone
<1>8. Replaced(t, TRUE, b)
  BY DEF NewClient
<1> HIDE DEF b
<1>9. JobType' /\ SocketBag(queSocketIds')
  BY <1>1, <1>7, <1>8, ReplacedType
<1>10. NetworkType' /\ clientCount' = clientCount /\ closings' = closings
  BY DEF NewClient, network, TypeInv, NetworkType
<1>11. mixed' \in BOOLEAN /\ stale' \in BOOLEAN
  BY Zenon DEF NewClient
<1> QED
  BY <1>4, <1>5, <1>6, <1>9, <1>10, <1>11 DEF TypeInv, CountType

\* What the three steps for a user who has a client entry have in common.
LEMMA FoundClientType ==
  ASSUME TypeInv, NEW t \in Threads, FoundClient(t)
  PROVE  /\ job[t].socket \in Sockets /\ job[t].socket.id \in Ids /\ job[t].user \in Users
         /\ job[t].at \in {"check", "recover"}
         /\ client[job[t].user] \in Sockets /\ client[job[t].user].id \in Ids
         /\ NetworkType' /\ CountType'
         /\ logoutTimer' \in [Users -> TimerIds \cup {NoTimer}]
         /\ \A u \in Users : client[u] = NoSocket => logoutTimer'[u] = NoTimer
         /\ fired' \subseteq TimerRecords
<1>1. /\ job[t].socket \in Sockets /\ job[t].socket.id \in Ids /\ job[t].user \in Users
      /\ job[t].at \in {"check", "recover"}
  BY LoginLemma DEF FoundClient
<1>2. client[job[t].user] \in Sockets /\ client[job[t].user].id \in Ids
  BY <1>1, SocketLemma DEF FoundClient, TypeInv, ClientType
<1>3. NetworkType' /\ fired' \subseteq TimerRecords
  BY DEF FoundClient, network, TypeInv, NetworkType, TimerType
<1>4. CountType'
  <2>1. clientCount' = clientCount /\ closings' = closings
    BY DEF FoundClient
  <2>2. mixed' \in BOOLEAN /\ stale' \in BOOLEAN
    BY Zenon DEF FoundClient
  <2> QED
    BY <2>1, <2>2 DEF TypeInv, CountType
<1>5. /\ logoutTimer' \in [Users -> TimerIds \cup {NoTimer}]
      /\ \A u \in Users : client[u] = NoSocket => logoutTimer'[u] = NoTimer
  BY <1>1 DEF FoundClient, TypeInv, ClientType
<1> QED
  BY <1>1, <1>2, <1>3, <1>4, <1>5

LEMMA SameSocketType ==
  ASSUME TypeInv, NEW t \in Threads, SameSocket(t)
  PROVE  TypeInv'
<1>1. FoundClient(t) /\ Replaced(t, FALSE, EmptyBag)
  BY DEF SameSocket
<1>2. JobType' /\ SocketBag(queSocketIds')
  BY <1>1, FoundClientType, ReplacedType, BagNone
<1>3. NetworkType' /\ CountType'
  BY <1>1, FoundClientType
<1>4. PlayerType' /\ ClientType'
  BY <1>1, FoundClientType DEF SameSocket, TypeInv, PlayerType, ClientType
<1>5. TimerType'
  BY <1>1, FoundClientType, WithoutLemma DEF SameSocket, TypeInv, TimerType
<1> QED
  BY <1>2, <1>3, <1>4, <1>5 DEF TypeInv

LEMMA LostEntryType ==
  ASSUME TypeInv, NEW t \in Threads, LostEntry(t)
  PROVE  TypeInv'
<1>1. FoundClient(t) /\ Replaced(t, FALSE, EmptyBag)
  BY DEF LostEntry
<1>2. JobType' /\ SocketBag(queSocketIds')
  BY <1>1, FoundClientType, ReplacedType, BagNone
<1>3. NetworkType' /\ CountType'
  BY <1>1, FoundClientType
<1>4. PlayerType'
  BY DEF LostEntry, TypeInv, PlayerType
<1>5. ClientType'
  <2>1. client' = [client EXCEPT ![job[t].user] = job[t].socket]
    BY DEF LostEntry
  <2> QED
    BY <1>1, <2>1, FoundClientType, SocketLemma DEF TypeInv, ClientType
<1>6. TimerType'
  BY <1>1, FoundClientType, WithoutLemma DEF LostEntry, TypeInv, TimerType
<1> QED
  BY <1>2, <1>3, <1>4, <1>5, <1>6 DEF TypeInv

LEMMA MoveClientType ==
  ASSUME TypeInv, NEW t \in Threads, MoveClient(t)
  PROVE  TypeInv'
<1> DEFINE s == job[t].socket
           u == job[t].user
           old == client[u].id
<1>1. FoundClient(t) /\ Replaced(t, TRUE, EmptyBag)
  BY DEF MoveClient
<1>2. JobType' /\ SocketBag(queSocketIds')
  BY <1>1, FoundClientType, ReplacedType, BagNone
<1>3. NetworkType' /\ CountType'
  BY <1>1, FoundClientType
<1>4. s \in Sockets /\ s.id \in Ids /\ u \in Users /\ old \in Ids
  BY <1>1, FoundClientType
<1>5. PlayerType'
  <2>1. /\ player' = [player EXCEPT ![old] = Absent, ![s.id] = player[old]]
        /\ loginTimer' = [loginTimer EXCEPT ![old] = NoTimer, ![s.id] = NoTimer]
    BY DEF MoveClient, MovePlayer
  <2> QED
    BY <1>4, <2>1 DEF TypeInv, PlayerType
<1>6. ClientType'
  <2>1. client' = [client EXCEPT ![u] = s]
    BY DEF MoveClient
  <2> QED
    BY <1>1, <1>4, <2>1, FoundClientType, SocketLemma DEF TypeInv, ClientType
<1>7. TimerType'
  BY <1>1, FoundClientType, WithoutLemma DEF MoveClient, TypeInv, TimerType
<1> QED
  BY <1>2, <1>3, <1>5, <1>6, <1>7 DEF TypeInv

LEMMA StutterType ==
  ASSUME TypeInv, UNCHANGED vars
  PROVE  TypeInv'
<1>1. NetworkType' /\ PlayerType' /\ ClientType'
  BY DEF vars, network, maps, TypeInv, NetworkType, PlayerType, ClientType
<1>2. TimerType' /\ JobType' /\ CountType' /\ SocketBag(queSocketIds')
  BY DEF vars, timers, TypeInv, TimerType, JobType, CountType
<1> QED
  BY <1>1, <1>2 DEF TypeInv

LEMMA LoginsLemma ==
  ASSUME NEW s \in Sockets, NEW u \in Logins[s.peer]
  PROVE  u \in Users
BY SocketLemma, LoginsAssumption DEF LoginsAssumption

LEMMA NextType ==
  ASSUME TypeInv, [Next]_vars
  PROVE  TypeInv'
<1>1. ASSUME NEW i \in Ids, Accept(i) \/ RemoveSocketLink(i)
      PROVE  TypeInv'
  BY <1>1, AcceptType, RemoveSocketLinkType
<1>2. ASSUME NEW r \in armed, Expire(r)
      PROVE  TypeInv'
  BY <1>2, ExpireType
<1>3. ASSUME NEW r \in fired, OnLoginTimeout(r) \/ OnLogoutCallback(r)
      PROVE  TypeInv'
  BY <1>3, OnLoginTimeoutType, OnLogoutCallbackType
<1>4. ASSUME NEW u \in Users, KickLogged(u) \/ CloseClient(u)
      PROVE  TypeInv'
  BY <1>4, KickLoggedType, CloseClientType
<1>5. ASSUME NEW s \in Sockets, DropSocket(s) \/ HandleDefault(s)
      PROVE  TypeInv'
  BY <1>5, DropSocketType, HandleDefaultType
<1>6. ASSUME NEW t \in Threads, Event(t)
      PROVE  TypeInv'
  BY <1>6, LostConnectionType, NewConnectionType, InsertSocketIdType, SetDelayLogoutType,
     LogoutNowType DEF Event
<1>7. ASSUME NEW t \in Threads, NEW s \in Sockets, NEW u \in Logins[s.peer],
             HandleLogin(t, s, u)
      PROVE  TypeInv'
  BY <1>7, HandleLoginType, LoginsLemma
<1>8. ASSUME NEW t \in Threads, LoginRefused(t) \/ ReplaceSocketId(t) \/ CountClient(t)
      PROVE  TypeInv'
  BY <1>8, LoginRefusedType, NewClientType, SameSocketType, LostEntryType, MoveClientType,
     CountClientType DEF ReplaceSocketId
<1> QED
  BY <1>1, <1>2, <1>3, <1>4, <1>5, <1>6, <1>7, <1>8, DisconnectCallbackType, StutterType
  DEF Next

LEMMA TypeInvariant == Spec => []TypeInv
BY InitType, NextType, PTL DEF Spec

\* The variables of CAgentLogic and of the network keep their types, entries
\* that are absent have no timers, and no thread works for nothing.
THEOREM TypeCorrect == Spec => []TypeOK
BY TypeInvariant, TypeInvLemma, PTL

-----------------------------------------------------------------------------
(* At most one connection is routed for a user, who is a client.  Neither  *)
(* is inductive alone: a login enters a user without client only because   *)
(* no entry names him, and ending a session takes the only such entry.     *)

SessionInv == OneConnection /\ KnownUser

LEMMA InsertSocketIdSession ==
  ASSUME TypeInv, SessionInv, NEW t \in Threads, InsertSocketId(t)
  PROVE  SessionInv'
<1> DEFINE i == job[t].new.id
<1>1. i \in Ids
  BY SocketLemma DEF TypeInv, JobType, JobOK, InsertSocketId
<1>2. player' = [player EXCEPT ![i] = Anonymous] /\ client' = client
  BY DEF InsertSocketId
<1> QED
  BY <1>1, <1>2, NullAssumption
  DEF NullAssumption, TypeInv, PlayerType, SessionInv, OneConnection, KnownUser

LEMMA RemoveSocketIdSession ==
  ASSUME TypeInv, SessionInv, NEW i \in Ids, RemoveSocketId(i)
  PROVE  SessionInv'
<1>1. player' = [player EXCEPT ![i] = Absent]
  BY DEF RemoveSocketId
<1>2. client' = [u \in Users |-> IF u \in Leaving(i) THEN NoSocket ELSE client[u]]
  BY DEF RemoveSocketId, EraseClient
<1>3. Absent \notin Users
  BY NullAssumption DEF NullAssumption
<1>4. OneConnection'
  BY <1>1, <1>3 DEF TypeInv, PlayerType, SessionInv, OneConnection
<1>5. ASSUME NEW j \in Ids, player'[j] \in Users
      PROVE  client'[player'[j]] # NoSocket
  <2>1. j # i /\ player'[j] = player[j]
    BY <1>1, <1>3, <1>5 DEF TypeInv, PlayerType
  <2>2. player[j] \notin Leaving(i)
    BY <1>5, <2>1 DEF SessionInv, OneConnection, Leaving
  <2> QED
    BY <1>2, <1>5, <2>1, <2>2 DEF SessionInv, KnownUser
<1>6. KnownUser'
  BY <1>5 DEF KnownUser
<1> QED
  BY <1>4, <1>6 DEF SessionInv

LEMMA NewClientSession ==
  ASSUME TypeInv, SessionInv, NEW t \in Threads, NewClient(t)
  PROVE  SessionInv'
<1> DEFINE s == job[t].socket
           u == job[t].user
<1>1. s \in Sockets /\ s.id \in Ids /\ u \in Users
  BY LoginLemma DEF NewClient
<1>2. /\ client[u] = NoSocket /\ client' = [client EXCEPT ![u] = s]
      /\ player' = [player EXCEPT ![s.id] = u]
  BY DEF NewClient, EnterPlayer
<1>3. s # NoSocket
  BY <1>1, SocketLemma
<1>4. \A i \in Ids : player[i] # u
  BY <1>1, <1>2 DEF SessionInv, KnownUser
<1> HIDE DEF s, u
<1>5. OneConnection'
  BY <1>1, <1>2, <1>4 DEF TypeInv, PlayerType, SessionInv, OneConnection
<1>6. KnownUser'
  BY <1>1, <1>2, <1>3 DEF TypeInv, PlayerType, ClientType, SessionInv, KnownUser
<1> QED
  BY <1>5, <1>6 DEF SessionInv

LEMMA LostEntrySession ==
  ASSUME TypeInv, SessionInv, NEW t \in Threads, LostEntry(t)
  PROVE  SessionInv'
<1>1. job[t].socket # NoSocket /\ job[t].user \in Users
  BY LoginLemma, SocketLemma DEF LostEntry, FoundClient
<1>2. player' = player /\ client' = [client EXCEPT ![job[t].user] = job[t].socket]
  BY DEF LostEntry
<1> QED
  BY <1>1, <1>2 DEF TypeInv, ClientType, SessionInv, OneConnection, KnownUser

LEMMA MoveClientSession ==
  ASSUME TypeInv, SessionInv, NEW t \in Threads, MoveClient(t)
  PROVE  SessionInv'
<1> DEFINE s == job[t].socket
           u == job[t].user
           old == client[u].id
<1>1. /\ s \in Sockets /\ s # NoSocket /\ s.id \in Ids /\ u \in Users /\ old \in Ids
      /\ old # s.id
  BY FoundClientType, SocketLemma DEF MoveClient
<1>2. /\ client' = [client EXCEPT ![u] = s]
      /\ player' = [player EXCEPT ![old] = Absent, ![s.id] = player[old]]
  BY DEF MoveClient, MovePlayer
<1>3. Absent \notin Users
  BY NullAssumption DEF NullAssumption
<1> HIDE DEF s, u, old
<1>4. /\ player'[s.id] = player[old] /\ player'[old] = Absent
      /\ \A i \in Ids \ {s.id, old} : player'[i] = player[i]
  BY <1>1, <1>2 DEF TypeInv, PlayerType
<1>5. OneConnection'
  BY <1>1, <1>3, <1>4 DEF SessionInv, OneConnection
<1>6. \A v \in Users : client[v] # NoSocket => client'[v] # NoSocket
  BY <1>1, <1>2 DEF TypeInv, ClientType
<1>7. KnownUser'
  BY <1>1, <1>3, <1>4, <1>6 DEF SessionInv, KnownUser
<1> QED
  BY <1>5, <1>7 DEF SessionInv

LEMMA SameMapsSession ==
  ASSUME SessionInv, UNCHANGED <<player, client>>
  PROVE  SessionInv'
BY DEF SessionInv, OneConnection, KnownUser

LEMMA InitSession == Init => SessionInv
BY NullAssumption DEF NullAssumption, Init, SessionInv, OneConnection, KnownUser

LEMMA NextSession ==
  ASSUME TypeInv, SessionInv, [Next]_vars
  PROVE  SessionInv'
<1>1. ASSUME NEW i \in Ids, Accept(i) \/ RemoveSocketLink(i)
      PROVE  SessionInv'
  BY <1>1, SameMapsSession DEF Accept, RemoveSocketLink, maps
<1>2. ASSUME NEW r \in armed, Expire(r)
      PROVE  SessionInv'
  BY <1>2, SameMapsSession DEF Expire, maps
<1>3. ASSUME NEW r \in fired, OnLoginTimeout(r)
      PROVE  SessionInv'
  BY <1>3, SameMapsSession DEF OnLoginTimeout, maps
<1>4. ASSUME NEW r \in fired, OnLogoutCallback(r)
      PROVE  SessionInv'
  <2>1. r.socket.id \in Ids
    BY SocketLemma DEF TypeInv, TimerType, TimerRecords
  <2> QED
    BY <1>4, <2>1, RemoveSocketIdSession DEF OnLogoutCallback
<1>5. ASSUME NEW u \in Users, KickLogged(u) \/ CloseClient(u)
      PROVE  SessionInv'
  BY <1>5, SameMapsSession DEF KickLogged, CloseClient, maps
<1>6. ASSUME NEW s \in Sockets, DropSocket(s) \/ HandleDefault(s)
      PROVE  SessionInv'
  BY <1>6, SameMapsSession DEF DropSocket, HandleDefault, maps
<1>7. ASSUME NEW t \in Threads, LostConnection(t) \/ NewConnection(t) \/ SetDelayLogout(t)
      PROVE  SessionInv'
  BY <1>7, SameMapsSession DEF LostConnection, NewConnection, SetDelayLogout, maps
<1>8. ASSUME NEW t \in Threads, LogoutNow(t)
      PROVE  SessionInv'
  <2>1. job[t].socket.id \in Ids
    BY <1>8, SocketLemma DEF TypeInv, JobType, JobOK, LogoutNow
  <2> QED
    BY <1>8, <2>1, RemoveSocketIdSession DEF LogoutNow
<1>9. ASSUME NEW t \in Threads, NEW s \in Sockets, NEW u \in Logins[s.peer],
             HandleLogin(t, s, u)
      PROVE  SessionInv'
  BY <1>9, SameMapsSession DEF HandleLogin, maps
<1>10. ASSUME NEW t \in Threads, LoginRefused(t) \/ SameSocket(t) \/ CountClient(t)
       PROVE  SessionInv'
  BY <1>10, SameMapsSession DEF LoginRefused, SameSocket, CountClient, maps
<1>11. ASSUME NEW c \in closed, DisconnectCallback(c)
       PROVE  SessionInv'
  BY <1>11, SameMapsSession DEF DisconnectCallback, maps
<1>12. CASE UNCHANGED vars
  BY <1>12, SameMapsSession DEF vars, maps
<1> QED
  BY <1>1, <1>2, <1>3, <1>4, <1>5, <1>6, <1>7, <1>8, <1>9, <1>10, <1>11, <1>12,
     InsertSocketIdSession, NewClientSession, LostEntrySession, MoveClientSession
  DEF Next, Event, ReplaceSocketId

LEMMA SessionInvariant == Spec => []SessionInv
<1>1. TypeInv /\ SessionInv /\ [Next]_vars => SessionInv'
  BY NextSession
<1> QED
  BY <1>1, InitSession, TypeInvariant, PTL DEF Spec

\* The packets of at most one connection are routed for a user, however logins,
\* disconnects and timers interleave and whichever socket ids are used again.
THEOREM RoutedOnce == Spec => []OneConnection
<1>1. SessionInv => OneConnection
  BY DEF SessionInv
<1> QED
  BY <1>1, SessionInvariant, PTL

\* A user whose packets are routed is a client: he is found by SendToClient,
\* KickLogged and CloseClient.
THEOREM RoutedIsClient == Spec => []KnownUser
<1>1. SessionInv => KnownUser
  BY DEF SessionInv
<1> QED
  BY <1>1, SessionInvariant, PTL

-----------------------------------------------------------------------------
(* The counter.                                                            *)

Counting == {t \in Threads : job[t].at = "count"}
Clients == {u \in Users : client[u] # NoSocket}

LEMMA FiniteLemma ==
  /\ IsFiniteSet(Counting) /\ Cardinality(Counting) \in Nat
  /\ IsFiniteSet(Clients) /\ Cardinality(Clients) \in Nat
BY FS_Subset, FS_CardinalityType, FiniteAssumption
DEF FiniteAssumption, Counting, Clients

\* A thread that neither was to count a client nor is now.
LEMMA NotCounting ==
  ASSUME JobType, NEW t \in Threads, job[t].at # "count",
         NEW j, j.at # "count", job' = [job EXCEPT ![t] = j]
  PROVE  Counting' = Counting
BY DEF JobType, Counting

LEMMA SameCount ==
  ASSUME CountMatches, UNCHANGED <<client, clientCount, stale>>, Counting' = Counting
  PROVE  CountMatches'
BY DEF CountMatches, Counting

LEMMA AfterLogoutCount ==
  ASSUME TypeInv, NEW t \in Threads, job[t].at = "logout", AfterLogout(t)
  PROVE  Counting' = Counting
<1> DEFINE j == IF job[t].new = NoSocket THEN NoJob
                ELSE [NoJob EXCEPT !.at = "insert", !.new = job[t].new]
<1>1. j.at # "count"
  BY DEF NoJob
<1>2. job' = [job EXCEPT ![t] = j]
  BY DEF AfterLogout, TypeInv, JobType
<1> HIDE DEF j
<1> QED
  BY <1>1, <1>2, NotCounting DEF TypeInv

\* RemoveSocketId ends at most one session and counts it.
LEMMA RemoveSocketIdCount ==
  ASSUME TypeInv, CountMatches, NEW i \in Ids, RemoveSocketId(i), stale' = stale,
         Counting' = Counting
  PROVE  CountMatches'
<1>1. /\ client' = [u \in Users |-> IF u \in Leaving(i) THEN NoSocket ELSE client[u]]
      /\ clientCount' = IF Leaving(i) = {} THEN clientCount ELSE clientCount - 1
  BY DEF RemoveSocketId, EraseClient
<1>2. CASE Leaving(i) = {}
  BY <1>1, <1>2, SameCount DEF TypeInv, ClientType
<1>3. CASE Leaving(i) # {}
  <2>1. PICK u \in Users : u \in Leaving(i)
    BY <1>3 DEF Leaving
  <2>2. Leaving(i) = {u}
    BY <2>1 DEF Leaving
  <2>3. client[u] # NoSocket
    BY <2>1, SocketLemma, NullAssumption DEF NullAssumption, Leaving
  <2>4. u \in Clients /\ Clients' = Clients \ {u}
    BY <1>1, <2>2, <2>3 DEF Clients
  <2>5. Cardinality(Clients') = Cardinality(Clients) - 1
    BY <2>4, FiniteLemma, FS_RemoveElement
  <2>6. clientCount' = clientCount - 1 /\ clientCount \in Int
    BY <1>1, <1>3 DEF TypeInv, CountType
  <2>7. Cardinality(Counting') = Cardinality(Counting)
    OBVIOUS
  <2>8. SUFFICES ASSUME ~stale
                 PROVE  clientCount' + Cardinality(Counting') = Cardinality(Clients')
    BY DEF CountMatches, Counting, Clients
  <2>9. clientCount + Cardinality(Counting) = Cardinality(Clients)
    BY <2>8 DEF CountMatches, Counting, Clients
  <2> QED
    BY <2>5, <2>6, <2>7, <2>9, FiniteLemma
<1> QED
  BY <1>2, <1>3

LEMMA NewClientCount ==
  ASSUME TypeInv, CountMatches, NEW t \in Threads, NewClient(t)
  PROVE  CountMatches'
<1> DEFINE u == job[t].user
<1>1. /\ u \in Users /\ job[t].socket # NoSocket
      /\ job[t].at \in {"check", "recover"}
  BY LoginLemma, SocketLemma DEF NewClient
<1>2. CASE job[t].at = "recover"
  <2>1. stale'
    BY <1>2 DEF NewClient
  <2> QED
    BY <2>1 DEF CountMatches
<1>3. CASE job[t].at = "check"
  <2>1. /\ client[u] = NoSocket /\ client' = [client EXCEPT ![u] = job[t].socket]
        /\ clientCount' = clientCount /\ (stale' => stale)
    BY <1>3 DEF NewClient
  <2>2. u \notin Clients /\ Clients' = Clients \cup {u}
    BY <1>1, <2>1 DEF Clients, TypeInv, ClientType
  <2>3. Cardinality(Clients') = Cardinality(Clients) + 1
    BY <2>2, FiniteLemma, FS_AddElement
  <2>4. job' = [job EXCEPT ![t].at = "count"]
    BY <1>3 DEF NewClient, Replaced, Goto
  <2>5. t \notin Counting /\ Counting' = Counting \cup {t}
    BY <1>3, <2>4 DEF Counting, TypeInv, JobType, Jobs
  <2>6. Cardinality(Counting') = Cardinality(Counting) + 1
    BY <2>5, FiniteLemma, FS_AddElement
  <2>7. clientCount \in Int /\ (~stale' => ~stale)
    BY <1>3 DEF NewClient, TypeInv, CountType
  <2> QED
    BY <2>1, <2>3, <2>6, <2>7, FiniteLemma DEF CountMatches, Counting, Clients
<1> QED
  BY <1>1, <1>2, <1>3

\* A login that finds a client in ReplaceSocketId changes no number, unless
\* FindSocketId had told it that there was none.
LEMMA FoundClientCount ==
  ASSUME TypeInv, CountMatches, NEW t \in Threads, FoundClient(t),
         NEW ok \in BOOLEAN, NEW b, Replaced(t, ok, b),
         client' = client \/ client' = [client EXCEPT ![job[t].user] = job[t].socket]
  PROVE  CountMatches'
<1>1. CASE job[t].at = "check"
  <2>1. stale'
    BY <1>1 DEF FoundClient
  <2> QED
    BY <2>1 DEF CountMatches
<1>2. CASE job[t].at = "recover"
  <2>1. job' = [job EXCEPT ![t] = NoJob]
    BY <1>2 DEF Replaced
  <2>2. Counting' = Counting
    BY <1>2, <2>1, NoJobLemma, NotCounting DEF TypeInv
  <2>3. job[t].socket # NoSocket /\ job[t].user \in Users /\ client[job[t].user] # NoSocket
    BY FoundClientType, SocketLemma
  <2>4. Clients' = Clients
    BY <2>3 DEF Clients, TypeInv, ClientType
  <2>5. clientCount' = clientCount /\ (~stale' => ~stale)
    BY DEF FoundClient
  <2> QED
    BY <2>2, <2>4, <2>5 DEF CountMatches, Counting, Clients
<1> QED
  BY <1>1, <1>2 DEF FoundClient

LEMMA CountClientCount ==
  ASSUME TypeInv, CountMatches, NEW t \in Threads, CountClient(t)
  PROVE  CountMatches'
<1>1. job' = [job EXCEPT ![t] = NoJob] /\ job[t].at = "count"
  BY DEF CountClient
<1>2. t \in Counting /\ Counting' = Counting \ {t}
  BY <1>1, NoJobLemma DEF Counting, TypeInv, JobType
<1>3. Cardinality(Counting') = Cardinality(Counting) - 1
  BY <1>2, FiniteLemma, FS_RemoveElement
<1>4. UNCHANGED <<client, stale>> /\ clientCount' = clientCount + 1 /\ clientCount \in Int
  BY DEF CountClient, maps, TypeInv, CountType
<1> QED
  BY <1>3, <1>4, FiniteLemma DEF CountMatches, Counting

LEMMA NextCount ==
  ASSUME TypeInv, CountMatches, [Next]_vars
  PROVE  CountMatches'
<1>1. ASSUME NEW i \in Ids, Accept(i) \/ RemoveSocketLink(i)
      PROVE  CountMatches'
  BY <1>1, SameCount DEF Accept, RemoveSocketLink, maps, Counting
<1>2. ASSUME NEW r \in armed, Expire(r)
      PROVE  CountMatches'
  BY <1>2, SameCount DEF Expire, maps, Counting
<1>3. ASSUME NEW r \in fired, OnLoginTimeout(r)
      PROVE  CountMatches'
  BY <1>3, SameCount DEF OnLoginTimeout, maps, Counting
<1>4. ASSUME NEW r \in fired, OnLogoutCallback(r)
      PROVE  CountMatches'
  <2>1. r.socket.id \in Ids
    BY SocketLemma DEF TypeInv, TimerType, TimerRecords
  <2>2. RemoveSocketId(r.socket.id) /\ stale' = stale /\ Counting' = Counting
    BY <1>4 DEF OnLogoutCallback, Counting
  <2> QED
    BY <2>1, <2>2, RemoveSocketIdCount
<1>5. ASSUME NEW u \in Users, KickLogged(u) \/ CloseClient(u)
      PROVE  CountMatches'
  BY <1>5, SameCount DEF KickLogged, CloseClient, maps, Counting
<1>6. ASSUME NEW s \in Sockets, DropSocket(s) \/ HandleDefault(s)
      PROVE  CountMatches'
  BY <1>6, SameCount DEF DropSocket, HandleDefault, maps, Counting
<1>7. ASSUME NEW t \in Threads, LostConnection(t)
      PROVE  CountMatches'
  <2> DEFINE l == Head(lostConnections)
             j == IF l.socket.id = NewOrNone.id THEN NoJob
                  ELSE [NoJob EXCEPT !.at = "logout", !.socket = l.socket,
                                     !.why = l.why, !.new = NewOrNone]
  <2>1. j.at # "count"
    BY DEF NoJob
  <2>2. job[t].at # "count" /\ job' = [job EXCEPT ![t] = j]
    BY <1>7 DEF LostConnection
  <2> HIDE DEF j
  <2>3. Counting' = Counting
    BY <2>1, <2>2, NotCounting DEF TypeInv
  <2> QED
    BY <1>7, <2>3, SameCount DEF LostConnection, maps
<1>8. ASSUME NEW t \in Threads, NewConnection(t)
      PROVE  CountMatches'
  <2> DEFINE j == [NoJob EXCEPT !.at = "insert", !.new = Head(newConnections)]
  <2>1. j.at # "count"
    BY DEF NoJob
  <2>2. job[t].at # "count" /\ job' = [job EXCEPT ![t] = j]
    BY <1>8 DEF NewConnection
  <2> HIDE DEF j
  <2>3. Counting' = Counting
    BY <2>1, <2>2, NotCounting DEF TypeInv
  <2> QED
    BY <1>8, <2>3, SameCount DEF NewConnection, maps
<1>9. ASSUME NEW t \in Threads, InsertSocketId(t)
      PROVE  CountMatches'
  <2>1. Counting' = Counting
    BY <1>9, NoJobLemma, NotCounting DEF InsertSocketId, TypeInv
  <2> QED
    BY <1>9, <2>1, SameCount DEF InsertSocketId
<1>10. ASSUME NEW t \in Threads, SetDelayLogout(t)
       PROVE  CountMatches'
  <2>1. Counting' = Counting
    BY <1>10, AfterLogoutCount DEF SetDelayLogout
  <2> QED
    BY <1>10, <2>1, SameCount DEF SetDelayLogout
<1>11. ASSUME NEW t \in Threads, LogoutNow(t)
       PROVE  CountMatches'
  <2>1. job[t].socket.id \in Ids
    BY <1>11, SocketLemma DEF TypeInv, JobType, JobOK, LogoutNow
  <2>2. Counting' = Counting
    BY <1>11, AfterLogoutCount DEF LogoutNow
  <2> QED
    BY <1>11, <2>1, <2>2, RemoveSocketIdCount DEF LogoutNow
<1>12. ASSUME NEW t \in Threads, NEW s \in Sockets, NEW u \in Logins[s.peer],
              HandleLogin(t, s, u)
       PROVE  CountMatches'
  <2> DEFINE j == [NoJob EXCEPT !.at = IF client[u] = NoSocket THEN "check" ELSE "recover",
                                !.socket = s, !.user = u]
  <2>1. j.at # "count"
    BY DEF NoJob
  <2>2. job[t].at # "count" /\ job' = [job EXCEPT ![t] = j]
    BY <1>12 DEF HandleLogin
  <2> HIDE DEF j
  <2>3. Counting' = Counting
    BY <2>1, <2>2, NotCounting DEF TypeInv
  <2> QED
    BY <1>12, <2>3, SameCount DEF HandleLogin, maps
<1>13. ASSUME NEW t \in Threads, LoginRefused(t)
       PROVE  CountMatches'
  <2>1. Counting' = Counting
    BY <1>13, NoJobLemma, NotCounting DEF LoginRefused, TypeInv
  <2> QED
    BY <1>13, <2>1, SameCount DEF LoginRefused, maps
<1>14. ASSUME NEW t \in Threads, SameSocket(t)
       PROVE  CountMatches'
  BY <1>14, FoundClientCount DEF SameSocket
<1>15. ASSUME NEW t \in Threads, LostEntry(t)
       PROVE  CountMatches'
  BY <1>15, FoundClientCount DEF LostEntry
<1>16. ASSUME NEW t \in Threads, MoveClient(t)
       PROVE  CountMatches'
  BY <1>16, FoundClientCount DEF MoveClient
<1>17. ASSUME NEW c \in closed, DisconnectCallback(c)
       PROVE  CountMatches'
  BY <1>17, SameCount DEF DisconnectCallback, maps, Counting
<1>18. CASE UNCHANGED vars
  BY <1>18, SameCount DEF vars, maps, Counting
<1> QED
  BY <1>1, <1>2, <1>3, <1>4, <1>5, <1>6, <1>7, <1>8, <1>9, <1>10, <1>11, <1>12, <1>13,
     <1>14, <1>15, <1>16, <1>17, <1>18, NewClientCount, CountClientCount
  DEF Next, Event, ReplaceSocketId

\* m_clientCount is the number of clients but for the logins that have entered
\* theirs and not counted it yet, unless a login found in ReplaceSocketId what
\* FindSocketId had not told it.
THEOREM ClientsCounted == Spec => []CountMatches
<1>1. Init => CountMatches
  <2> SUFFICES ASSUME Init
               PROVE  CountMatches
    OBVIOUS
  <2>1. Counting = {} /\ Clients = {}
    BY NoJobLemma DEF Init, Counting, Clients
  <2>2. Cardinality(Counting) = 0 /\ Cardinality(Clients) = 0
    BY <2>1, FS_EmptySet
  <2> QED
    BY <2>2 DEF Init, CountMatches, Counting, Clients
<1>2. TypeInv /\ CountMatches /\ [Next]_vars => CountMatches'
  BY NextCount
<1> QED
  BY <1>1, <1>2, TypeInvariant, PTL DEF Spec

-----------------------------------------------------------------------------
(* The two maps agree while no id stood for two.  What breaks the agreement *)
(* is a new connection with the id of a client, so the invariant follows    *)
(* the ids that were accepted and not yet entered.                          *)

Logging(t) == job[t].at \in {"check", "recover", "count"}
Pending(i) ==
  \/ \E k \in DOMAIN newConnections : newConnections[k].id = i
  \/ \E t \in Threads : job[t].new.id = i

\* An id is pending once.
Unique ==
  /\ \A k, l \in DOMAIN newConnections :
       newConnections[k].id = newConnections[l].id => k = l
  /\ \A k \in DOMAIN newConnections : \A t \in Threads :
       newConnections[k].id # job[t].new.id
  /\ \A t, v \in Threads :
       job[t].new # NoSocket /\ job[t].new.id = job[v].new.id => t = v

\* Nobody works for a connection that is pending.
Behind ==
  \A i \in Ids : Pending(i) =>
    /\ \A u \in Users : client[u].id # i
    /\ \A t \in Threads : Logging(t) => job[t].socket.id # i
    /\ \A s \in BagToSet(queSocketIds) : s.id = i => ~IsOpen(s)

\* Connections are numbered in the order in which they were accepted.
Numbered ==
  /\ \A s \in BagToSet(queSocketIds) : s.peer <= peers
  /\ \A k \in DOMAIN newConnections : newConnections[k].peer <= peers
  /\ \A t \in Threads :
       /\ Logging(t) => job[t].socket.peer <= peers
       /\ job[t].new # NoSocket => job[t].new.peer <= peers

Agree ==
  /\ \A u \in Users : client[u] # NoSocket => player[client[u].id] = u
  /\ \A i \in Ids : player[i] \in Users => client[player[i]].id = i

AgreeInv == Numbered /\ (~mixed => Unique /\ Behind /\ Agree)

LEMMA BagParts ==
  ASSUME NEW b, NEW c, NEW s
  PROVE  /\ BagToSet(b (+) c) = BagToSet(b) \cup BagToSet(c)
         /\ BagToSet(b (-) c) \subseteq BagToSet(b)
         /\ BagToSet(One(s)) = {s} /\ BagToSet(EmptyBag) = {}
         /\ BagToSet(PutBack(s)) \subseteq {s}
<1>1. BagToSet(One(s)) = {s} /\ BagToSet(EmptyBag) = {}
  BY DEF BagToSet, One, SetToBag, EmptyBag
<1>2. BagToSet(b (+) c) = BagToSet(b) \cup BagToSet(c)
  BY DEF BagToSet, (+)
<1>3. BagToSet(b (-) c) \subseteq BagToSet(b)
  BY DEF BagToSet, (-)
<1> QED
  BY <1>1, <1>2, <1>3 DEF PutBack

LEMMA NewLemma ==
  ASSUME TypeInv
  PROVE  /\ \A t \in Threads : job[t].new \in Sockets \cup {NoSocket}
         /\ \A t \in Threads : job[t].new.id \in Ids <=> job[t].new # NoSocket
         /\ \A k \in DOMAIN newConnections :
              newConnections[k] \in Sockets /\ newConnections[k].id \in Ids
<1>1. \A t \in Threads : job[t].new \in Sockets \cup {NoSocket}
  BY DEF TypeInv, JobType, Jobs
<1>2. \A t \in Threads : job[t].new.id \in Ids <=> job[t].new # NoSocket
  BY <1>1, SocketLemma, NullAssumption DEF NullAssumption
<1>3. \A k \in DOMAIN newConnections : newConnections[k] \in Sockets
  BY DEF TypeInv, NetworkType
<1> QED
  BY <1>1, <1>2, <1>3, SocketLemma

LEMMA JobAt ==
  ASSUME TypeInv, NEW t \in Threads, NEW j, job' = [job EXCEPT ![t] = j]
  PROVE  job'[t] = j /\ \A v \in Threads \ {t} : job'[v] = job[v]
BY DEF TypeInv, JobType

\* Behind is kept if nothing new works for an id that stays pending.
LEMMA BehindKeeps ==
  ASSUME Behind,
         \A i \in Ids : Pending(i)' => Pending(i),
         \A i \in Ids : Pending(i)' =>
           \A u \in Users : client'[u].id = i => client[u].id = i,
         \A i \in Ids : Pending(i)' =>
           \A t \in Threads : Logging(t)' /\ job'[t].socket.id = i
             => Logging(t) /\ job[t].socket.id = i,
         \A i \in Ids : Pending(i)' =>
           \A s \in BagToSet(queSocketIds') : s.id = i /\ IsOpen(s)'
             => s \in BagToSet(queSocketIds) /\ IsOpen(s)
  PROVE  Behind'
BY DEF Behind

\* A step that leaves the accepted connections, the queue and the threads alone.
LEMMA CalmStep ==
  ASSUME TypeInv, UNCHANGED <<peers, newConnections, job>>,
         \A u \in Users : client'[u] = client[u] \/ client'[u] = NoSocket,
         BagToSet(queSocketIds') \subseteq BagToSet(queSocketIds),
         \A s \in Sockets : IsOpen(s)' => IsOpen(s)
  PROVE  /\ Numbered => Numbered'
         /\ Unique => Unique'
         /\ Behind => Behind'
<1>1. Numbered => Numbered'
  BY DEF Numbered, Logging
<1>2. Unique => Unique'
  BY DEF Unique
<1>3. ASSUME Behind PROVE Behind'
  <2>1. \A i \in Ids : Pending(i)' => Pending(i)
    BY DEF Pending
  <2>2. \A t \in Threads : Logging(t)' => Logging(t)
    BY DEF Logging
  <2>3. \A s \in BagToSet(queSocketIds') : IsOpen(s)' => IsOpen(s)
    BY DEF TypeInv, SocketBag
  <2>4. \A i \in Ids : \A u \in Users : client'[u].id = i => client[u].id = i
    BY SocketLemma, NullAssumption DEF NullAssumption
  <2> QED
    BY <1>3, <2>1, <2>2, <2>3, <2>4, BehindKeeps
<1> QED
  BY <1>1, <1>2, <1>3

\* A thread takes the next accepted connection, or drops it.
LEMMA TakeStep ==
  ASSUME TypeInv, NEW t \in Threads, NEW j, job' = [job EXCEPT ![t] = j],
         j.new = NoSocket \/ j.new = NewOrNone,
         j.at \notin {"check", "recover", "count"},
         newConnections' = IF newConnections = <<>> THEN <<>> ELSE Tail(newConnections),
         UNCHANGED <<peers, link, client, queSocketIds>>
  PROVE  /\ Numbered => Numbered'
         /\ Unique => Unique'
         /\ Behind => Behind'
<1>1. job'[t] = j /\ \A v \in Threads \ {t} : job'[v] = job[v]
  BY JobAt
<1>2. newConnections \in Seq(Sockets)
  BY DEF TypeInv, NetworkType
<1>3. \A k \in DOMAIN newConnections' :
        /\ k + 1 \in DOMAIN newConnections /\ k + 1 # 1 /\ k \in Int
        /\ newConnections'[k] = newConnections[k + 1]
  <2>1. CASE newConnections = <<>>
    BY <2>1
  <2>2. CASE newConnections # <<>>
    BY <1>2, <2>2
  <2> QED
    BY <2>1, <2>2
<1>4. \/ j.new = NoSocket
      \/ 1 \in DOMAIN newConnections /\ j.new = newConnections[1]
  <2>1. CASE newConnections = <<>>
    BY <2>1 DEF NewOrNone
  <2>2. CASE newConnections # <<>>
    BY <1>2, <2>2 DEF NewOrNone
  <2> QED
    BY <2>1, <2>2
<1>5. NoSocket.id \notin Ids
  BY SocketLemma, NullAssumption DEF NullAssumption
<1>6. Numbered => Numbered'
  BY <1>1, <1>3, <1>4 DEF Numbered, Logging
<1>7. ASSUME Unique PROVE Unique'
  <2>1. \A k, l \in DOMAIN newConnections' :
          newConnections'[k].id = newConnections'[l].id => k = l
    BY <1>3, <1>7 DEF Unique
  <2>2. \A k \in DOMAIN newConnections' : \A v \in Threads :
          newConnections'[k].id # job'[v].new.id
    BY <1>1, <1>3, <1>4, <1>5, <1>7, NewLemma DEF Unique
  <2>3. \A v \in Threads \ {t} : job[v].new # NoSocket => job[v].new.id # j.new.id
    BY <1>4, <1>5, <1>7, NewLemma DEF Unique
  <2>4. \A v \in Threads \ {t} : j.new # NoSocket => j.new.id # job[v].new.id
    BY <1>4, <1>5, <1>7, NewLemma DEF Unique
  <2>5. \A v, w \in Threads :
          job'[v].new # NoSocket /\ job'[v].new.id = job'[w].new.id => v = w
    BY <1>1, <1>7, <2>3, <2>4 DEF Unique
  <2> QED
    BY <2>1, <2>2, <2>5 DEF Unique
<1>8. ASSUME Behind PROVE Behind'
  <2>1. \A i \in Ids : Pending(i)' => Pending(i)
    BY <1>1, <1>3, <1>4, <1>5 DEF Pending
  <2>2. \A v \in Threads : Logging(v)' => Logging(v) /\ job'[v] = job[v]
    BY <1>1 DEF Logging
  <2>3. \A s \in BagToSet(queSocketIds') : IsOpen(s)' => IsOpen(s)
    BY DEF IsOpen
  <2> QED
    BY <1>8, <2>1, <2>2, <2>3, BehindKeeps
<1> QED
  BY <1>6, <1>7, <1>8

\* A thread handles a lost connection and keeps the new one, or enters it.
LEMMA KeepStep ==
  ASSUME TypeInv, NEW t \in Threads, NEW j, job' = [job EXCEPT ![t] = j],
         j.new = NoSocket \/ j.new = job[t].new,
         j.at \notin {"check", "recover", "count"},
         UNCHANGED <<peers, link, newConnections>>
  PROVE  /\ \A v \in Threads : Logging(v)' => Logging(v) /\ job'[v] = job[v]
         /\ \A i \in Ids : Pending(i)' => Pending(i)
         /\ Numbered /\ (\A s \in BagToSet(queSocketIds') :
                           s \in BagToSet(queSocketIds) \/ s.peer <= peers)
              => Numbered'
         /\ Unique => Unique'
         /\ Unique /\ j.new = NoSocket
              => \A i \in Ids : i = job[t].new.id => ~Pending(i)'
         /\ Behind /\ queSocketIds' = queSocketIds
              /\ (\A u \in Users : client'[u] = client[u] \/ client'[u] = NoSocket)
              => Behind'
<1>1. job'[t] = j /\ \A v \in Threads \ {t} : job'[v] = job[v]
  BY JobAt
<1>2. NoSocket.id \notin Ids
  BY SocketLemma, NullAssumption DEF NullAssumption
<1>3. \A v \in Threads : Logging(v)' => Logging(v) /\ job'[v] = job[v]
  BY <1>1 DEF Logging
<1>4. \A i \in Ids : Pending(i)' => Pending(i)
  BY <1>1, <1>2 DEF Pending
<1>5. Numbered /\ (\A s \in BagToSet(queSocketIds') :
                     s \in BagToSet(queSocketIds) \/ s.peer <= peers)
        => Numbered'
  BY <1>1, <1>3 DEF Numbered
<1>6. ASSUME Unique PROVE Unique'
  <2>1. \A k \in DOMAIN newConnections' : \A v \in Threads :
          newConnections'[k].id # job'[v].new.id
    BY <1>1, <1>2, <1>6, NewLemma DEF Unique
  <2>2. \A v, w \in Threads :
          job'[v].new # NoSocket /\ job'[v].new.id = job'[w].new.id => v = w
    BY <1>1, <1>2, <1>6, NewLemma DEF Unique
  <2> QED
    BY <1>6, <2>1, <2>2 DEF Unique
<1>7. ASSUME Unique, j.new = NoSocket, NEW i \in Ids, i = job[t].new.id
      PROVE  ~Pending(i)'
  <2>1. \A k \in DOMAIN newConnections : newConnections[k].id # i
    BY <1>7 DEF Unique
  <2>2. \A v \in Threads : job'[v].new.id # i
    BY <1>1, <1>2, <1>7, NewLemma DEF Unique
  <2> QED
    BY <2>1, <2>2 DEF Pending
<1>8. ASSUME Behind, queSocketIds' = queSocketIds,
             \A u \in Users : client'[u] = client[u] \/ client'[u] = NoSocket
      PROVE  Behind'
  <2>1. \A i \in Ids : \A u \in Users : client'[u].id = i => client[u].id = i
    BY <1>2, <1>8
  <2>2. \A s \in BagToSet(queSocketIds') : IsOpen(s)' => IsOpen(s)
    BY DEF IsOpen
  <2> QED
    BY <1>3, <1>4, <1>8, <2>1, <2>2, BehindKeeps
<1> QED
  BY <1>3, <1>4, <1>5, <1>6, <1>7, <1>8

\* A step of a login: the thread works for connection s, which is not pending.
LEMMA LoginStep ==
  ASSUME TypeInv, NEW t \in Threads, NEW s \in Sockets, NEW j,
         job' = [job EXCEPT ![t] = j], j.new = NoSocket \/ j.new = job[t].new,
         j.at \in {"check", "recover", "count"} => j.socket = s,
         UNCHANGED <<peers, link, newConnections>>,
         BagToSet(queSocketIds') \subseteq BagToSet(queSocketIds) \cup {s},
         \A u \in Users : client'[u] = client[u] \/ client'[u] = s
  PROVE  /\ Numbered /\ s.peer <= peers => Numbered'
         /\ Unique => Unique'
         /\ Behind /\ ~Pending(s.id) => Behind'
<1>1. job'[t] = j /\ \A v \in Threads \ {t} : job'[v] = job[v]
  BY JobAt
<1>2. NoSocket.id \notin Ids
  BY SocketLemma, NullAssumption DEF NullAssumption
<1>3. \A i \in Ids : Pending(i)' => Pending(i)
  BY <1>1, <1>2 DEF Pending
<1>4. Numbered /\ s.peer <= peers => Numbered'
  BY <1>1 DEF Numbered, Logging
<1>5. ASSUME Unique PROVE Unique'
  <2>1. \A k \in DOMAIN newConnections' : \A v \in Threads :
          newConnections'[k].id # job'[v].new.id
    BY <1>1, <1>2, <1>5, NewLemma DEF Unique
  <2>2. \A v, w \in Threads :
          job'[v].new # NoSocket /\ job'[v].new.id = job'[w].new.id => v = w
    BY <1>1, <1>2, <1>5, NewLemma DEF Unique
  <2> QED
    BY <1>5, <2>1, <2>2 DEF Unique
<1>6. ASSUME Behind, ~Pending(s.id) PROVE Behind'
  <2>1. \A i \in Ids : Pending(i)' => i # s.id
    BY <1>3, <1>6
  <2>2. \A i \in Ids : Pending(i)' =>
          \A u \in Users : client'[u].id = i => client[u].id = i
    BY <2>1
  <2>3. \A i \in Ids : Pending(i)' =>
          \A v \in Threads : Logging(v)' /\ job'[v].socket.id = i
            => Logging(v) /\ job[v].socket.id = i
    BY <1>1, <2>1 DEF Logging
  <2>4. \A i \in Ids : Pending(i)' =>
          \A r \in BagToSet(queSocketIds') : r.id = i /\ IsOpen(r)'
            => r \in BagToSet(queSocketIds) /\ IsOpen(r)
    BY <2>1 DEF IsOpen
  <2> QED
    BY <1>3, <1>6, <2>2, <2>3, <2>4, BehindKeeps
<1> QED
  BY <1>4, <1>5, <1>6

\* The thread of a login works for a connection that is known and not pending.
LEMMA LoggingLemma ==
  ASSUME TypeInv, NEW t \in Threads, job[t].at \in {"check", "recover", "count"}
  PROVE  /\ Numbered => job[t].socket.peer <= peers
         /\ Behind => ~Pending(job[t].socket.id)
BY LoginLemma DEF Numbered, Behind, Logging

LEMMA AcceptAgree ==
  ASSUME TypeInv, AgreeInv, NEW i \in Ids, Accept(i)
  PROVE  AgreeInv'
<1> DEFINE s == Socket(i, peers + 1)
<1>1. /\ newConnections' = Append(newConnections, s) /\ peers' = peers + 1
      /\ peers \in Nat /\ newConnections \in Seq(Sockets)
      /\ link' = [link EXCEPT ![i] = [peer |-> peers + 1, why |-> "offline"]]
      /\ UNCHANGED <<client, player, job, queSocketIds>>
  BY BoundAssumption DEF BoundAssumption, Accept, maps, TypeInv, NetworkType
<1>2. s.id = i /\ s.peer = peers + 1
  BY DEF Socket
<1> HIDE DEF s
<1>3. \A k \in DOMAIN newConnections' :
        \/ k \in DOMAIN newConnections /\ newConnections'[k] = newConnections[k]
        \/ k = Len(newConnections) + 1 /\ newConnections'[k] = s
  BY <1>1
<1>4. Numbered'
  <2>1. \A r \in BagToSet(queSocketIds') : r \in Sockets
    BY <1>1 DEF TypeInv, SocketBag
  <2>2. \A r \in Sockets : r.peer \in Nat
    BY SocketLemma, BoundAssumption DEF BoundAssumption
  <2>3. \A r \in BagToSet(queSocketIds') : r.peer <= peers'
    BY <1>1, <2>1, <2>2 DEF AgreeInv, Numbered
  <2>4. \A k \in DOMAIN newConnections' : newConnections'[k].peer <= peers'
    BY <1>1, <1>2, <1>3, <2>2, NewLemma DEF AgreeInv, Numbered
  <2>5. \A t \in Threads : Logging(t)' => job'[t].socket.peer <= peers'
    BY <1>1, <2>2, LoginLemma DEF AgreeInv, Numbered, Logging
  <2>6. \A t \in Threads : job'[t].new # NoSocket => job'[t].new.peer <= peers'
    BY <1>1, <2>2, NewLemma DEF AgreeInv, Numbered
  <2> QED
    BY <2>3, <2>4, <2>5, <2>6 DEF Numbered
<1>5. ASSUME ~mixed' PROVE Unique' /\ Behind' /\ Agree'
  <2>1. ~mixed /\ ~Known(i)
    BY <1>5 DEF Accept
  <2>2. Numbered /\ Unique /\ Behind /\ Agree
    BY <2>1 DEF AgreeInv
  <2>3. /\ \A k \in DOMAIN newConnections : newConnections[k].id # i
        /\ \A t \in Threads : job[t].socket.id # i /\ job[t].new.id # i
        /\ \A u \in Users : client[u].id # i
    BY <2>1 DEF Known
  <2>4. Unique'
    <3>1. \A k, l \in DOMAIN newConnections' :
            newConnections'[k].id = newConnections'[l].id => k = l
      BY <1>2, <1>3, <2>2, <2>3 DEF Unique
    <3>2. \A k \in DOMAIN newConnections' : \A t \in Threads :
            newConnections'[k].id # job'[t].new.id
      BY <1>1, <1>2, <1>3, <2>2, <2>3 DEF Unique
    <3> QED
      BY <1>1, <2>2, <3>1, <3>2 DEF Unique
  <2>5. Behind'
    <3>1. \A h \in Ids : Pending(h)' => Pending(h) \/ h = i
      BY <1>1, <1>2, <1>3 DEF Pending
    <3>2. \A h \in Ids : Pending(h)' => \A u \in Users : client'[u].id # h
      BY <1>1, <2>2, <2>3, <3>1 DEF Behind
    <3>3. \A h \in Ids : Pending(h)' =>
            \A t \in Threads : Logging(t)' => job'[t].socket.id # h
      BY <1>1, <2>2, <2>3, <3>1 DEF Behind, Logging
    <3>4. ASSUME NEW h \in Ids, Pending(h)', NEW r \in BagToSet(queSocketIds'), r.id = h
          PROVE  ~IsOpen(r)'
      <4>1. r \in Sockets /\ r.peer \in Nat /\ r.peer <= peers
        BY <1>1, <2>2, SocketLemma, BoundAssumption
        DEF BoundAssumption, TypeInv, SocketBag, Numbered
      <4>2. CASE h = i
        BY <1>1, <3>4, <4>1, <4>2 DEF IsOpen, TypeInv, NetworkType
      <4>3. CASE h # i
        <5>1. ~IsOpen(r)
          BY <1>1, <2>2, <3>1, <3>4, <4>3 DEF Behind
        <5> QED
          BY <1>1, <3>4, <4>3, <5>1 DEF IsOpen, TypeInv, NetworkType
      <4> QED
        BY <4>2, <4>3
    <3> QED
      BY <3>2, <3>3, <3>4 DEF Behind
  <2>6. Agree'
    BY <1>1, <2>2 DEF Agree
  <2> QED
    BY <2>4, <2>5, <2>6
<1> QED
  BY <1>4, <1>5 DEF AgreeInv

LEMMA SameMapsAgree ==
  ASSUME Agree, UNCHANGED <<player, client>>
  PROVE  Agree'
BY DEF Agree

LEMMA RemoveSocketIdAgree ==
  ASSUME TypeInv, NEW i \in Ids, RemoveSocketId(i)
  PROVE  /\ \A u \in Users : client'[u] = client[u] \/ client'[u] = NoSocket
         /\ Agree => Agree'
<1>1. player' = [player EXCEPT ![i] = Absent]
  BY DEF RemoveSocketId
<1>2. client' = [u \in Users |-> IF u \in Leaving(i) THEN NoSocket ELSE client[u]]
  BY DEF RemoveSocketId, EraseClient
<1>3. Absent \notin Users
  BY NullAssumption DEF NullAssumption
<1>4. ASSUME Agree, NEW u \in Users, client'[u] # NoSocket
      PROVE  player'[client'[u].id] = u
  <2>1. client'[u] = client[u] /\ u \notin Leaving(i) /\ player[client[u].id] = u
    BY <1>2, <1>4 DEF Agree
  <2>2. client[u].id # i
    BY <2>1 DEF Leaving
  <2>3. client[u].id \in Ids
    BY <1>4, <2>1, SocketLemma DEF TypeInv, ClientType
  <2> QED
    BY <1>1, <2>1, <2>2, <2>3 DEF TypeInv, PlayerType
<1>5. ASSUME Agree, NEW j \in Ids, player'[j] \in Users
      PROVE  client'[player'[j]].id = j
  <2>1. j # i /\ player'[j] = player[j]
    BY <1>1, <1>3, <1>5 DEF TypeInv, PlayerType
  <2>2. client[player[j]].id = j
    BY <1>5, <2>1 DEF Agree
  <2> QED
    BY <1>2, <1>5, <2>1, <2>2 DEF Leaving
<1> QED
  BY <1>2, <1>4, <1>5 DEF Agree

\* Steps of the network, of timers and of other nodes.
LEMMA CalmAgree ==
  ASSUME TypeInv, AgreeInv, UNCHANGED <<peers, newConnections, job, player, client, mixed>>,
         BagToSet(queSocketIds') \subseteq BagToSet(queSocketIds),
         \A s \in Sockets : IsOpen(s)' => IsOpen(s)
  PROVE  AgreeInv'
BY CalmStep, SameMapsAgree DEF AgreeInv

LEMMA CloseConnectionOpen ==
  ASSUME TypeInv, NEW r, NEW nWhy, CloseConnection(r, nWhy)
  PROVE  \A s \in Sockets : IsOpen(s)' => IsOpen(s)
BY DEF CloseConnection, IsOpen, TypeInv, NetworkType

LEMMA RemoveSocketLinkAgree ==
  ASSUME TypeInv, AgreeInv, NEW i \in Ids, RemoveSocketLink(i)
  PROVE  AgreeInv'
<1>1. \A s \in Sockets : IsOpen(s)' => IsOpen(s)
  <2>1. link' = [link EXCEPT ![i] = [peer |-> 0, why |-> "offline"]]
    BY DEF RemoveSocketLink
  <2>2. \A s \in Sockets : s.peer # 0
    BY SocketLemma
  <2> QED
    BY <2>1, <2>2 DEF IsOpen, TypeInv, NetworkType
<1>2. /\ UNCHANGED <<peers, newConnections, job, player, client, mixed>>
      /\ queSocketIds' = queSocketIds
  BY DEF RemoveSocketLink, maps
<1> QED
  BY <1>1, <1>2, CalmAgree

LEMMA OnLogoutCallbackAgree ==
  ASSUME TypeInv, AgreeInv, NEW r \in fired, OnLogoutCallback(r)
  PROVE  AgreeInv'
<1>1. r.socket.id \in Ids /\ RemoveSocketId(r.socket.id)
  BY SocketLemma DEF OnLogoutCallback, TypeInv, TimerType, TimerRecords
<1>2. UNCHANGED <<peers, link, newConnections, job, mixed, queSocketIds>>
  BY DEF OnLogoutCallback, network
<1>3. \A s \in Sockets : IsOpen(s)' => IsOpen(s)
  BY <1>2 DEF IsOpen
<1>4. /\ \A u \in Users : client'[u] = client[u] \/ client'[u] = NoSocket
      /\ Agree => Agree'
  BY <1>1, RemoveSocketIdAgree
<1> QED
  BY <1>2, <1>3, <1>4, CalmStep DEF AgreeInv

LEMMA LostConnectionAgree ==
  ASSUME TypeInv, AgreeInv, NEW t \in Threads, LostConnection(t)
  PROVE  AgreeInv'
<1> DEFINE l == Head(lostConnections)
           j == IF l.socket.id = NewOrNone.id THEN NoJob
                ELSE [NoJob EXCEPT !.at = "logout", !.socket = l.socket,
                                   !.why = l.why, !.new = NewOrNone]
<1>1. /\ j.new = NoSocket \/ j.new = NewOrNone
      /\ j.at \notin {"check", "recover", "count"}
  BY DEF NoJob
<1>2. job' = [job EXCEPT ![t] = j]
  BY DEF LostConnection
<1> HIDE DEF j
<1>3. /\ newConnections' = IF newConnections = <<>> THEN <<>> ELSE Tail(newConnections)
      /\ UNCHANGED <<peers, link, client, player, queSocketIds, mixed>>
  BY DEF LostConnection, maps
<1> QED
  BY <1>1, <1>2, <1>3, TakeStep, SameMapsAgree DEF AgreeInv

LEMMA NewConnectionAgree ==
  ASSUME TypeInv, AgreeInv, NEW t \in Threads, NewConnection(t)
  PROVE  AgreeInv'
<1> DEFINE j == [NoJob EXCEPT !.at = "insert", !.new = Head(newConnections)]
<1>1. j.new = NewOrNone /\ j.at \notin {"check", "recover", "count"}
  BY DEF NoJob, NewOrNone, NewConnection
<1>2. job' = [job EXCEPT ![t] = j]
  BY DEF NewConnection
<1> HIDE DEF j
<1>3. /\ newConnections' = IF newConnections = <<>> THEN <<>> ELSE Tail(newConnections)
      /\ UNCHANGED <<peers, link, client, player, queSocketIds, mixed>>
  BY DEF NewConnection, maps
<1> QED
  BY <1>1, <1>2, <1>3, TakeStep, SameMapsAgree DEF AgreeInv

LEMMA AfterLogoutJob ==
  ASSUME TypeInv, NEW t \in Threads, AfterLogout(t)
  PROVE  \E j : /\ job' = [job EXCEPT ![t] = j]
                /\ j.new = NoSocket \/ j.new = job[t].new
                /\ j.at \notin {"check", "recover", "count"}
<1> DEFINE j == IF job[t].new = NoSocket THEN NoJob
                ELSE [NoJob EXCEPT !.at = "insert", !.new = job[t].new]
<1>1. /\ j.new = NoSocket \/ j.new = job[t].new
      /\ j.at \notin {"check", "recover", "count"}
  BY DEF NoJob
<1>2. job' = [job EXCEPT ![t] = j]
  BY DEF AfterLogout, TypeInv, JobType
<1> QED
  BY <1>1, <1>2

LEMMA SetDelayLogoutAgree ==
  ASSUME TypeInv, AgreeInv, NEW t \in Threads, SetDelayLogout(t)
  PROVE  AgreeInv'
<1>1. AfterLogout(t)
  BY DEF SetDelayLogout
<1>2. PICK j : /\ job' = [job EXCEPT ![t] = j]
               /\ j.new = NoSocket \/ j.new = job[t].new
               /\ j.at \notin {"check", "recover", "count"}
  BY <1>1, AfterLogoutJob
<1>3. UNCHANGED <<peers, link, newConnections, client, player, queSocketIds, mixed>>
  BY DEF SetDelayLogout, network
<1> QED
  BY <1>2, <1>3, KeepStep, SameMapsAgree DEF AgreeInv

LEMMA LogoutNowAgree ==
  ASSUME TypeInv, AgreeInv, NEW t \in Threads, LogoutNow(t)
  PROVE  AgreeInv'
<1>1. AfterLogout(t) /\ job[t].socket.id \in Ids /\ RemoveSocketId(job[t].socket.id)
  BY SocketLemma DEF LogoutNow, TypeInv, JobType, JobOK
<1>2. PICK j : /\ job' = [job EXCEPT ![t] = j]
               /\ j.new = NoSocket \/ j.new = job[t].new
               /\ j.at \notin {"check", "recover", "count"}
  BY <1>1, AfterLogoutJob
<1>3. UNCHANGED <<peers, link, newConnections, queSocketIds, mixed>>
  BY DEF LogoutNow, network
<1>4. /\ \A u \in Users : client'[u] = client[u] \/ client'[u] = NoSocket
      /\ Agree => Agree'
  BY <1>1, RemoveSocketIdAgree
<1> QED
  BY <1>2, <1>3, <1>4, KeepStep DEF AgreeInv

LEMMA InsertSocketIdAgree ==
  ASSUME TypeInv, AgreeInv, NEW t \in Threads, InsertSocketId(t)
  PROVE  AgreeInv'
<1> DEFINE s == job[t].new
           i == s.id
           b == IF player[i] = Absent THEN One(s) ELSE EmptyBag
<1>1. s \in Sockets /\ s # NoSocket /\ i \in Ids
  BY SocketLemma DEF InsertSocketId, TypeInv, JobType, JobOK
<1>2. /\ player' = [player EXCEPT ![i] = Anonymous]
      /\ job' = [job EXCEPT ![t] = NoJob] /\ queSocketIds' = queSocketIds (+) b
      /\ UNCHANGED <<peers, link, newConnections, client, mixed>>
  BY DEF InsertSocketId, network
<1>3. BagToSet(b) \subseteq {s}
  BY BagParts
<1> HIDE DEF b
<1>4. BagToSet(queSocketIds') \subseteq BagToSet(queSocketIds) \cup {s}
  BY <1>2, <1>3, BagParts
<1>5. NoJob.new = NoSocket /\ NoJob.at \notin {"check", "recover", "count"}
  BY DEF NoJob
<1>6. Numbered'
  <2>1. \A r \in BagToSet(queSocketIds') : r \in BagToSet(queSocketIds) \/ r.peer <= peers
    BY <1>1, <1>4 DEF AgreeInv, Numbered
  <2> QED
    BY <1>2, <1>5, <2>1, KeepStep DEF AgreeInv
<1>7. ASSUME ~mixed' PROVE Unique' /\ Behind' /\ Agree'
  <2>1. Unique /\ Behind /\ Agree
    BY <1>2, <1>7 DEF AgreeInv
  <2>2. Unique'
    BY <1>2, <1>5, <2>1, KeepStep
  <2>3. \A h \in Ids : Pending(h)' => Pending(h) /\ h # i
    BY <1>1, <1>2, <1>5, <2>1, KeepStep
  <2>4. Behind'
    <3>1. \A v \in Threads : Logging(v)' => Logging(v) /\ job'[v] = job[v]
      BY <1>2, <1>5, KeepStep
    <3>2. \A h \in Ids : Pending(h)' =>
            \A r \in BagToSet(queSocketIds') : r.id = h /\ IsOpen(r)'
              => r \in BagToSet(queSocketIds) /\ IsOpen(r)
      BY <1>2, <1>4, <2>3 DEF IsOpen
    <3> QED
      BY <1>2, <2>1, <2>3, <3>1, <3>2, BehindKeeps
  <2>5. Pending(i)
    BY DEF Pending
  <2>6. \A u \in Users : client[u].id # i
    BY <1>1, <2>1, <2>5 DEF Behind
  <2>7. \A u \in Users : client[u] # NoSocket => client[u].id \in Ids
    BY SocketLemma DEF TypeInv, ClientType
  <2>8. Anonymous \notin Users
    BY NullAssumption DEF NullAssumption
  <2>9. Agree'
    BY <1>1, <1>2, <2>1, <2>6, <2>7, <2>8 DEF Agree, TypeInv, PlayerType
  <2> QED
    BY <2>2, <2>4, <2>9
<1> QED
  BY <1>6, <1>7 DEF AgreeInv

LEMMA HandleLoginAgree ==
  ASSUME TypeInv, AgreeInv, NEW t \in Threads, NEW s \in Sockets, NEW u \in Users,
         HandleLogin(t, s, u)
  PROVE  AgreeInv'
<1> DEFINE j == [NoJob EXCEPT !.at = IF client[u] = NoSocket THEN "check" ELSE "recover",
                              !.socket = s, !.user = u]
<1>1. j.new = NoSocket /\ j.socket = s
  BY DEF NoJob
<1>2. job' = [job EXCEPT ![t] = j]
  BY DEF HandleLogin
<1> HIDE DEF j
<1>3. UNCHANGED <<peers, link, newConnections, client, player, mixed>>
  BY DEF HandleLogin, network, maps
<1>4. BagToSet(queSocketIds') \subseteq BagToSet(queSocketIds) \cup {s}
  BY BagParts DEF HandleLogin
<1>5. s \in BagToSet(queSocketIds) /\ IsOpen(s) /\ s.id \in Ids
  BY SocketLemma DEF HandleLogin, BagIn
<1>6. s.peer <= peers /\ (Behind => ~Pending(s.id))
  BY <1>5 DEF AgreeInv, Numbered, Behind
<1> QED
  BY <1>1, <1>2, <1>3, <1>4, <1>6, LoginStep, SameMapsAgree DEF AgreeInv

\* The thread of a login does its next step.
LEMMA LoginAgree ==
  ASSUME TypeInv, AgreeInv, NEW t \in Threads, job[t].at \in {"check", "recover", "count"},
         NEW j, job' = [job EXCEPT ![t] = j],
         j.new = NoSocket \/ j.new = job[t].new,
         j.at \in {"check", "recover", "count"} => j.socket = job[t].socket,
         UNCHANGED <<peers, link, newConnections>>,
         BagToSet(queSocketIds') \subseteq BagToSet(queSocketIds) \cup {job[t].socket},
         \A u \in Users : client'[u] = client[u] \/ client'[u] = job[t].socket,
         ~mixed' => ~mixed /\ (Agree => Agree')
  PROVE  AgreeInv'
<1> DEFINE s == job[t].socket
<1>1. s \in Sockets /\ s.peer <= peers /\ (Behind => ~Pending(s.id))
  BY LoginLemma, LoggingLemma DEF AgreeInv
<1>2. /\ j.at \in {"check", "recover", "count"} => j.socket = s
      /\ BagToSet(queSocketIds') \subseteq BagToSet(queSocketIds) \cup {s}
      /\ \A u \in Users : client'[u] = client[u] \/ client'[u] = s
  OBVIOUS
<1> HIDE DEF s
<1>3. Numbered' /\ (Unique => Unique') /\ (Behind => Behind')
  BY <1>1, <1>2, LoginStep DEF AgreeInv
<1> QED
  BY <1>3 DEF AgreeInv

LEMMA LoginRefusedAgree ==
  ASSUME TypeInv, AgreeInv, NEW t \in Threads, LoginRefused(t)
  PROVE  AgreeInv'
<1>1. /\ job' = [job EXCEPT ![t] = NoJob] /\ job[t].at = "check"
      /\ UNCHANGED <<peers, link, newConnections, client, player, mixed>>
  BY DEF LoginRefused, network, maps
<1>2. BagToSet(queSocketIds') \subseteq BagToSet(queSocketIds) \cup {job[t].socket}
  <2>1. queSocketIds' = queSocketIds (+) PutBack(job[t].socket)
    BY DEF LoginRefused
  <2>2. BagToSet(queSocketIds') = BagToSet(queSocketIds) \cup BagToSet(PutBack(job[t].socket))
    BY <2>1, BagParts
  <2> QED
    BY <2>2, BagParts
<1>3. NoJob.new = NoSocket /\ NoJob.at \notin {"check", "recover", "count"}
  BY DEF NoJob
<1> QED
  BY <1>1, <1>2, <1>3, LoginAgree, SameMapsAgree

LEMMA CountClientAgree ==
  ASSUME TypeInv, AgreeInv, NEW t \in Threads, CountClient(t)
  PROVE  AgreeInv'
<1>1. /\ job' = [job EXCEPT ![t] = NoJob] /\ job[t].at = "count"
      /\ UNCHANGED <<peers, link, newConnections, client, player, mixed>>
  BY DEF CountClient, network, maps
<1>2. BagToSet(queSocketIds') \subseteq BagToSet(queSocketIds) \cup {job[t].socket}
  <2>1. queSocketIds' = queSocketIds (+) PutBack(job[t].socket)
    BY DEF CountClient
  <2>2. BagToSet(queSocketIds') = BagToSet(queSocketIds) \cup BagToSet(PutBack(job[t].socket))
    BY <2>1, BagParts
  <2> QED
    BY <2>2, BagParts
<1>3. NoJob.new = NoSocket /\ NoJob.at \notin {"check", "recover", "count"}
  BY DEF NoJob
<1> QED
  BY <1>1, <1>2, <1>3, LoginAgree, SameMapsAgree

\* What Replaced does to the thread and the queue.
LEMMA ReplacedJob ==
  ASSUME TypeInv, NEW t \in Threads, NEW ok \in BOOLEAN, NEW b, Replaced(t, ok, b),
         BagToSet(b) \subseteq {job[t].socket}
  PROVE  /\ BagToSet(queSocketIds') \subseteq BagToSet(queSocketIds) \cup {job[t].socket}
         /\ \E j : /\ job' = [job EXCEPT ![t] = j]
                   /\ j.new = NoSocket \/ j.new = job[t].new
                   /\ j.at \in {"check", "recover", "count"} => j.socket = job[t].socket
<1>1. CASE ok /\ job[t].at = "check"
  <2> DEFINE j == [job[t] EXCEPT !.at = "count"]
  <2>1. job[t] \in Jobs
    BY DEF TypeInv, JobType
  <2>2. j.new = job[t].new /\ j.socket = job[t].socket
    BY <2>1 DEF Jobs
  <2>3. job' = [job EXCEPT ![t] = j] /\ queSocketIds' = queSocketIds (+) b
    BY <1>1 DEF Replaced, Goto
  <2> HIDE DEF j
  <2>4. BagToSet(queSocketIds') = BagToSet(queSocketIds) \cup BagToSet(b)
    BY <2>3, BagParts
  <2>5. BagToSet(queSocketIds') \subseteq BagToSet(queSocketIds) \cup {job[t].socket}
    BY <2>4
  <2>6. \E k : /\ job' = [job EXCEPT ![t] = k]
               /\ k.new = NoSocket \/ k.new = job[t].new
               /\ k.at \in {"check", "recover", "count"} => k.socket = job[t].socket
    BY <2>2, <2>3
  <2> QED
    BY <2>5, <2>6
<1>2. CASE ~(ok /\ job[t].at = "check")
  <2>1. /\ job' = [job EXCEPT ![t] = NoJob]
        /\ queSocketIds' = (queSocketIds (+) b) (+) PutBack(job[t].socket)
    BY <1>2 DEF Replaced
  <2>2. NoJob.new = NoSocket /\ NoJob.at \notin {"check", "recover", "count"}
    BY DEF NoJob
  <2>3. BagToSet(queSocketIds') =
          (BagToSet(queSocketIds) \cup BagToSet(b)) \cup BagToSet(PutBack(job[t].socket))
    BY <2>1, BagParts
  <2> QED
    BY <2>1, <2>2, <2>3, BagParts
<1> QED
  BY <1>1, <1>2

\* ReplaceSocketId keeps the agreement if its map updates do.
LEMMA ReplaceAgree ==
  ASSUME TypeInv, AgreeInv, NEW t \in Threads, job[t].at \in {"check", "recover"},
         NEW ok \in BOOLEAN, NEW b, Replaced(t, ok, b),
         BagToSet(b) \subseteq {job[t].socket},
         UNCHANGED network,
         \A u \in Users : client'[u] = client[u] \/ client'[u] = job[t].socket,
         ~mixed' => ~mixed /\ (Agree => Agree')
  PROVE  AgreeInv'
<1>1. /\ BagToSet(queSocketIds') \subseteq BagToSet(queSocketIds) \cup {job[t].socket}
      /\ \E j : /\ job' = [job EXCEPT ![t] = j]
                /\ j.new = NoSocket \/ j.new = job[t].new
                /\ j.at \in {"check", "recover", "count"} => j.socket = job[t].socket
  BY ReplacedJob
<1>2. UNCHANGED <<peers, link, newConnections>>
  BY DEF network
<1> QED
  BY <1>1, <1>2, LoginAgree

LEMMA NewClientAgree ==
  ASSUME TypeInv, AgreeInv, SessionInv, NEW t \in Threads, NewClient(t)
  PROVE  AgreeInv'
<1> DEFINE s == job[t].socket
           u == job[t].user
           b == IF player[s.id] = Absent THEN One(s) ELSE EmptyBag
<1>1. /\ s \in Sockets /\ s.id \in Ids /\ u \in Users
      /\ job[t].at \in {"check", "recover"}
  BY LoginLemma DEF NewClient
<1>2. /\ client[u] = NoSocket /\ client' = [client EXCEPT ![u] = s]
      /\ player' = [player EXCEPT ![s.id] = u]
      /\ Replaced(t, TRUE, b) /\ UNCHANGED network
  BY DEF NewClient, EnterPlayer
<1>3. BagToSet(b) \subseteq {s}
  BY BagParts
<1> HIDE DEF b
<1>4. \A v \in Users : client'[v] = client[v] \/ client'[v] = s
  BY <1>1, <1>2 DEF TypeInv, ClientType
<1>5. ASSUME ~mixed' PROVE ~mixed /\ (Agree => Agree')
  <2>1. ~mixed /\ ~SecondUser(s, u)
    BY <1>5 DEF NewClient
  <2>2. \A v \in Users \ {u} : player[s.id] # v /\ client[v].id # s.id
    BY <2>1 DEF SecondUser
  <2>3. \A i \in Ids : player[i] # u
    BY <1>1, <1>2 DEF SessionInv, KnownUser
  <2>4. \A v \in Users : client[v] # NoSocket => client[v].id \in Ids
    BY SocketLemma DEF TypeInv, ClientType
  <2>5. ASSUME Agree, NEW v \in Users, client'[v] # NoSocket
        PROVE  player'[client'[v].id] = v
    BY <1>1, <1>2, <2>2, <2>4, <2>5 DEF Agree, TypeInv, PlayerType, ClientType
  <2>6. ASSUME Agree, NEW i \in Ids, player'[i] \in Users
        PROVE  client'[player'[i]].id = i
    BY <1>1, <1>2, <2>3, <2>6 DEF Agree, TypeInv, PlayerType, ClientType
  <2> QED
    BY <2>1, <2>5, <2>6 DEF Agree
<1> QED
  BY <1>1, <1>2, <1>3, <1>4, <1>5, ReplaceAgree

\* What the three steps for a user with a client entry need.
LEMMA FoundAgree ==
  ASSUME TypeInv, NEW t \in Threads, FoundClient(t)
  PROVE  /\ UNCHANGED network /\ job[t].at \in {"check", "recover"}
         /\ BagToSet(EmptyBag) \subseteq {job[t].socket}
         /\ ~mixed' => ~mixed /\ ~SecondUser(job[t].socket, job[t].user)
BY BagParts DEF FoundClient

LEMMA SameSocketAgree ==
  ASSUME TypeInv, AgreeInv, NEW t \in Threads, SameSocket(t)
  PROVE  AgreeInv'
<1>1. /\ FoundClient(t) /\ Replaced(t, FALSE, EmptyBag)
      /\ UNCHANGED <<player, client>>
  BY DEF SameSocket
<1>2. ~mixed' => ~mixed /\ (Agree => Agree')
  BY <1>1, FoundAgree, SameMapsAgree
<1>3. \A u \in Users : client'[u] = client[u] \/ client'[u] = job[t].socket
  BY <1>1
<1> QED
  BY <1>1, <1>2, <1>3, FoundAgree, ReplaceAgree

LEMMA LostEntryAgree ==
  ASSUME TypeInv, AgreeInv, NEW t \in Threads, LostEntry(t)
  PROVE  AgreeInv'
<1> DEFINE u == job[t].user
<1>1. /\ FoundClient(t) /\ Replaced(t, FALSE, EmptyBag) /\ u \in Users
      /\ client[u] # NoSocket /\ player[client[u].id] = Absent
      /\ client' = [client EXCEPT ![u] = job[t].socket]
  BY FoundClientType DEF LostEntry, FoundClient
<1>2. ~Agree
  BY <1>1, NullAssumption DEF NullAssumption, Agree
<1>3. \A v \in Users : client'[v] = client[v] \/ client'[v] = job[t].socket
  BY <1>1 DEF TypeInv, ClientType
<1>4. ~mixed' => ~mixed /\ (Agree => Agree')
  BY <1>1, <1>2, FoundAgree
<1> QED
  BY <1>1, <1>3, <1>4, FoundAgree, ReplaceAgree

LEMMA MoveClientAgree ==
  ASSUME TypeInv, AgreeInv, NEW t \in Threads, MoveClient(t)
  PROVE  AgreeInv'
<1> DEFINE s == job[t].socket
           u == job[t].user
           old == client[u].id
<1>1. /\ FoundClient(t) /\ Replaced(t, TRUE, EmptyBag)
      /\ s.id \in Ids /\ u \in Users /\ old \in Ids /\ old # s.id /\ client[u] # NoSocket
  BY FoundClientType DEF MoveClient, FoundClient
<1>2. /\ client' = [client EXCEPT ![u] = s]
      /\ player' = [player EXCEPT ![old] = Absent, ![s.id] = player[old]]
  BY DEF MoveClient, MovePlayer
<1>3. \A v \in Users : client'[v] = client[v] \/ client'[v] = s
  BY <1>1, <1>2 DEF TypeInv, ClientType
<1>4. ASSUME ~mixed' PROVE ~mixed /\ (Agree => Agree')
  <2>1. ~mixed /\ ~SecondUser(s, u)
    BY <1>1, <1>4, FoundAgree
  <2>2. \A v \in Users \ {u} : player[s.id] # v /\ client[v].id # s.id
    BY <2>1 DEF SecondUser
  <2>3. Absent \notin Users
    BY NullAssumption DEF NullAssumption
  <2>4. \A v \in Users : client[v] # NoSocket => client[v].id \in Ids
    BY SocketLemma DEF TypeInv, ClientType
  <2>5. ASSUME Agree PROVE Agree'
    <3>1. player[old] = u
      BY <1>1, <2>5 DEF Agree
    <3> HIDE DEF s, u, old
    <3>2. /\ player'[s.id] = u /\ player'[old] = Absent
          /\ \A i \in Ids \ {s.id, old} : player'[i] = player[i]
      BY <1>1, <1>2, <3>1 DEF TypeInv, PlayerType
    <3>3. client'[u] = s /\ \A v \in Users \ {u} : client'[v] = client[v]
      BY <1>1, <1>2 DEF TypeInv, ClientType
    <3>4. \A v \in Users \ {u} : client[v] # NoSocket =>
            client[v].id \in Ids \ {s.id, old} /\ player[client[v].id] = v
      BY <2>2, <2>4, <2>5, <3>1 DEF Agree
    <3>5. \A v \in Users : client'[v] # NoSocket => player'[client'[v].id] = v
      BY <3>2, <3>3, <3>4
    <3>6. \A i \in Ids \ {s.id, old} : player[i] \in Users =>
            player[i] # u /\ client[player[i]].id = i
      BY <1>1, <2>5 DEF Agree, old
    <3>7. \A i \in Ids : player'[i] \in Users => client'[player'[i]].id = i
      BY <1>1, <2>3, <3>2, <3>3, <3>6
    <3> QED
      BY <3>5, <3>7 DEF Agree
  <2> QED
    BY <2>1, <2>5
<1> QED
  BY <1>1, <1>3, <1>4, FoundAgree, ReplaceAgree

LEMMA InitAgree == Init => AgreeInv
<1> SUFFICES ASSUME Init
             PROVE  AgreeInv
  OBVIOUS
<1>1. \A t \in Threads : job[t].at = "idle" /\ job[t].new = NoSocket
  BY DEF Init, NoJob
<1>2. BagToSet(queSocketIds) = {}
  BY BagParts DEF Init
<1>3. NoSocket.id \notin Ids
  BY SocketLemma, NullAssumption DEF NullAssumption
<1>4. Numbered /\ Unique /\ Behind
  BY <1>1, <1>2, <1>3 DEF Init, Numbered, Unique, Behind, Pending, Logging
<1>5. Agree
  BY NullAssumption DEF NullAssumption, Init, Agree
<1> QED
  BY <1>4, <1>5 DEF AgreeInv

LEMMA NextAgree ==
  ASSUME TypeInv, SessionInv, AgreeInv, [Next]_vars
  PROVE  AgreeInv'
<1>1. ASSUME NEW i \in Ids, Accept(i) \/ RemoveSocketLink(i)
      PROVE  AgreeInv'
  BY <1>1, AcceptAgree, RemoveSocketLinkAgree
<1>2. ASSUME NEW r \in armed, Expire(r)
      PROVE  AgreeInv'
  BY <1>2, CalmAgree DEF Expire, network, maps, IsOpen
<1>3. ASSUME NEW r \in fired, OnLoginTimeout(r)
      PROVE  AgreeInv'
  BY <1>3, CloseConnectionOpen, CalmAgree DEF OnLoginTimeout, maps
<1>4. ASSUME NEW u \in Users, KickLogged(u) \/ CloseClient(u)
      PROVE  AgreeInv'
  BY <1>4, CalmAgree DEF KickLogged, CloseClient, network, maps, IsOpen
<1>5. ASSUME NEW s \in Sockets, DropSocket(s)
      PROVE  AgreeInv'
  BY <1>5, BagParts, CalmAgree DEF DropSocket, network, maps, IsOpen
<1>6. ASSUME NEW s \in Sockets, HandleDefault(s)
      PROVE  AgreeInv'
  BY <1>6, BagParts, CloseConnectionOpen, CalmAgree DEF HandleDefault, maps
<1>7. ASSUME NEW t \in Threads, Event(t)
      PROVE  AgreeInv'
  BY <1>7, LostConnectionAgree, NewConnectionAgree, InsertSocketIdAgree,
     SetDelayLogoutAgree, LogoutNowAgree DEF Event
<1>8. ASSUME NEW t \in Threads, NEW s \in Sockets, NEW u \in Logins[s.peer],
             HandleLogin(t, s, u)
      PROVE  AgreeInv'
  BY <1>8, HandleLoginAgree, LoginsLemma
<1>9. ASSUME NEW t \in Threads, LoginRefused(t) \/ ReplaceSocketId(t) \/ CountClient(t)
      PROVE  AgreeInv'
  BY <1>9, LoginRefusedAgree, NewClientAgree, SameSocketAgree, LostEntryAgree,
     MoveClientAgree, CountClientAgree DEF ReplaceSocketId
<1>10. ASSUME NEW c \in closed, DisconnectCallback(c)
       PROVE  AgreeInv'
  BY <1>10, CalmAgree DEF DisconnectCallback, maps, IsOpen
<1>11. CASE UNCHANGED vars
  BY <1>11, CalmAgree DEF vars, network, maps, IsOpen
<1> QED
  BY <1>1, <1>2, <1>3, <1>4, <1>5, <1>6, <1>7, <1>8, <1>9, <1>10, <1>11,
     OnLogoutCallbackAgree
  DEF Next

LEMMA AgreeInvariant == Spec => []AgreeInv
<1>1. TypeInv /\ SessionInv /\ AgreeInv /\ [Next]_vars => AgreeInv'
  BY NextAgree
<1> QED
  BY <1>1, InitAgree, TypeInvariant, SessionInvariant, PTL DEF Spec

\* A user's client entry and the player entry of his connection name each other,
\* so that what the server sends him and what he sends go over one connection,
\* as long as no socket id was given again while the agent still knew it, no
\* connection named a second user, and no timer id was taken for another.
THEOREM MapsAgree == Spec => []SessionsAgree
<1>1. AgreeInv => SessionsAgree
  BY DEF AgreeInv, Agree, SessionsAgree
<1> QED
  BY <1>1, AgreeInvariant, PTL
=============================================================================
