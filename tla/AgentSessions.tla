--------------------------- MODULE AgentSessions --------------------------
(***************************************************************************)
(* CAgentLogic: which user is logged in on which client connection.        *)
(*                                                                         *)
(* m_mapPlayers maps a socket to its user, m_mapClients a user to his      *)
(* socket; pool threads, timer callbacks and calls from other nodes change *)
(* both under m_socketIdsLock.  A step is one section under that lock, one *)
(* read of an event queue, or one step of the network.                     *)
(*                                                                         *)
(* A socket has an id (SocketID::index and fd) and a peer (address and     *)
(* port).  SocketID::operator== and the maps compare ids; the network      *)
(* layer also compares peers.  An id is given again once its connection is *)
(* closed; peers are counted, each is one connection.  Left out: mapId,    *)
(* which only routes; m_runningCount, which only delays OnRun.             *)
(***************************************************************************)
EXTENDS Integers, Sequences, FiniteSets, Bags

CONSTANTS
  Ids,          \* SocketID::index and fd
  Users,        \* user ids
  Threads,      \* pool threads that execute OnRun
  Anonymous,    \* DEFAULT_USERID
  Absent,       \* no entry in m_mapPlayers
  NoId,         \* SOCKETID_INDEX_NULL
  NoTimer,      \* ID_NULL
  Logins,       \* the users that the packets of each connection name
  MaxPeers,     \* bound: connections
  MaxTimers,    \* bound: timers for one socket id or user that are known
  MaxClosings   \* bound: KickLogged and CloseClient from other nodes

\* A timer's id is for whom it is set and a number.
TimerIds == (Ids \cup Users) \X (1 .. MaxTimers)

ASSUME NullAssumption ==
  /\ Anonymous \notin Users /\ Absent \notin Users /\ Anonymous # Absent
  /\ NoId \notin Ids /\ NoTimer \notin TimerIds
ASSUME BoundAssumption ==
  MaxPeers \in Nat /\ MaxTimers \in Nat /\ MaxClosings \in Nat
ASSUME LoginsAssumption == Logins \in [1 .. MaxPeers -> SUBSET Users]
ASSUME FiniteAssumption == IsFiniteSet(Users) /\ IsFiniteSet(Threads)

VARIABLES
  link,         \* m_pSktLinks: peer of the open connection or 0, lostReason
  peers,        \* connections so far
  closed,       \* links that are gone, DisconnectCallback is still to come
  newConnections, lostConnections,  \* the queues OnRun reads
  player,       \* m_mapPlayers: userId
  loginTimer,   \* m_mapPlayers: timerId
  client,       \* m_mapClients: socketId
  logoutTimer,  \* m_mapClients: logoutTimerId
  queSocketIds, \* m_queSocketIds, a bag
  armed, fired, \* timers that run; callbacks the pool is to execute
  job,          \* what each thread does and with which socket and user
  clientCount,  \* m_clientCount
  closings,     \* KickLogged and CloseClient so far
  mixed,        \* history: an id stood for two of what it names
  stale         \* history: what a login had found was no longer so

network == <<link, peers, closed, newConnections, lostConnections>>
maps == <<player, loginTimer, client, logoutTimer>>
timers == <<armed, fired>>
vars == <<network, maps, timers, queSocketIds, job, clientCount, closings,
          mixed, stale>>

Socket(i, p) == [id |-> i, peer |-> p]
NoSocket == Socket(NoId, 0)
Sockets == [id : Ids, peer : 1 .. MaxPeers]
\* LOGOUT_OFFLINE is 0; every other reason is treated alike.
Reasons == {"offline", "forced"}
NoJob == [at |-> "idle", socket |-> NoSocket, why |-> "offline",
          new |-> NoSocket, user |-> Anonymous]

Goto(t, l) == job' = [job EXCEPT ![t].at = l]
One(s) == SetToBag({s})
IsOpen(s) == s.id \in Ids /\ link[s.id].peer = s.peer
UsedTimers ==
  {loginTimer[i] : i \in Ids} \cup {logoutTimer[u] : u \in Users}
    \cup {r.id : r \in armed \cup fired}
FreeTimers(x) == {n \in 1 .. MaxTimers : <<x, n>> \notin UsedTimers}
NewTimer(x) == <<x, CHOOSE n \in FreeTimers(x) : TRUE>>
Timer(n, call, s, why) == [id |-> n, call |-> call, socket |-> s, why |-> why]
Without(ids) == {r \in armed : r.id = NoTimer \/ r.id \notin ids}

Init ==
  /\ link = [i \in Ids |-> [peer |-> 0, why |-> "offline"]]
  /\ peers = 0 /\ closed = {} /\ newConnections = <<>> /\ lostConnections = <<>>
  /\ player = [i \in Ids |-> Absent] /\ loginTimer = [i \in Ids |-> NoTimer]
  /\ client = [u \in Users |-> NoSocket] /\ logoutTimer = [u \in Users |-> NoTimer]
  /\ queSocketIds = EmptyBag
  /\ armed = {} /\ fired = {}
  /\ job = [t \in Threads |-> NoJob]
  /\ clientCount = 0 /\ closings = 0
  /\ mixed = FALSE /\ stale = FALSE

-----------------------------------------------------------------------------
(* The network.                                                            *)

\* Somebody would take a new connection with id i for an earlier one.
Known(i) ==
  \/ player[i] # Absent
  \/ \E u \in Users : client[u].id = i
  \/ \E k \in DOMAIN newConnections : newConnections[k].id = i
  \/ \E c \in closed : c.socket.id = i
  \/ \E k \in DOMAIN lostConnections : lostConnections[k].socket.id = i
  \/ \E t \in Threads : i \in {job[t].socket.id, job[t].new.id}
  \/ \E r \in armed \cup fired : r.call = "OnLogoutCallback" /\ r.socket.id = i

Accept(i) ==
  /\ link[i].peer = 0 /\ peers < MaxPeers
  /\ peers' = peers + 1
  /\ link' = [link EXCEPT ![i] = [peer |-> peers + 1, why |-> "offline"]]
  /\ newConnections' = Append(newConnections, Socket(i, peers + 1))
  /\ mixed' = (mixed \/ Known(i))
  /\ UNCHANGED <<closed, lostConnections, maps, timers, queSocketIds, job,
                 clientCount, closings, stale>>

\* The client closed the connection, or CloseConnection shut it down; from
\* here on the id may be given again.
RemoveSocketLink(i) ==
  /\ link[i].peer # 0
  /\ link' = [link EXCEPT ![i] = [peer |-> 0, why |-> "offline"]]
  /\ closed' = closed \cup {[socket |-> Socket(i, link[i].peer), why |-> link[i].why]}
  /\ UNCHANGED <<peers, newConnections, lostConnections, maps, timers,
                 queSocketIds, job, clientCount, closings, mixed, stale>>

DisconnectCallback(c) ==
  /\ c \in closed
  /\ closed' = closed \ {c}
  /\ lostConnections' = Append(lostConnections, c)
  /\ UNCHANGED <<link, peers, newConnections, maps, timers, queSocketIds, job,
                 clientCount, closings, mixed, stale>>

\* Mutant: the reason is kept, the connection stays as it is.
MutCloseConnection(s, nWhy) == link' = link

CloseConnection(s, nWhy) ==
  link' = IF IsOpen(s) THEN [link EXCEPT ![s.id].why = nWhy] ELSE link

-----------------------------------------------------------------------------
(* OnRun: at most one lost and one new connection.                         *)

NewOrNone == IF newConnections = <<>> THEN NoSocket ELSE Head(newConnections)

\* If the two have the same id, neither is handled.
LostConnection(t) ==
  /\ job[t].at = "idle" /\ lostConnections # <<>>
  /\ lostConnections' = Tail(lostConnections)
  /\ newConnections' = IF newConnections = <<>> THEN <<>> ELSE Tail(newConnections)
  /\ job' = [job EXCEPT ![t] =
       IF Head(lostConnections).socket.id = NewOrNone.id THEN NoJob
       ELSE [NoJob EXCEPT !.at = "logout", !.socket = Head(lostConnections).socket,
                          !.why = Head(lostConnections).why, !.new = NewOrNone]]
  /\ UNCHANGED <<link, peers, closed, maps, timers, queSocketIds, clientCount,
                 closings, mixed, stale>>

NewConnection(t) ==
  /\ job[t].at = "idle" /\ lostConnections = <<>> /\ newConnections # <<>>
  /\ newConnections' = Tail(newConnections)
  /\ job' = [job EXCEPT ![t] =
       [NoJob EXCEPT !.at = "insert", !.new = Head(newConnections)]]
  /\ UNCHANGED <<link, peers, closed, lostConnections, maps, timers, queSocketIds,
                 clientCount, closings, mixed, stale>>

\* After the lost connection the new one, if there is one.
AfterLogout(t) ==
  job' = [job EXCEPT ![t] = IF @.new = NoSocket THEN NoJob
                            ELSE [NoJob EXCEPT !.at = "insert", !.new = job[t].new]]

\* A reused entry keeps its place in the queue, if it has one there.
InsertSocketId(t) ==
  LET s == job[t].new  n == NewTimer(s.id)
  IN /\ job[t].at = "insert" /\ FreeTimers(s.id) # {}
     /\ player' = [player EXCEPT ![s.id] = Anonymous]
     /\ loginTimer' = [loginTimer EXCEPT ![s.id] = n]
     /\ armed' = Without({loginTimer[s.id]})
                   \cup {Timer(n, "OnLoginTimeout", s, "forced")}
     /\ queSocketIds' = queSocketIds (+)
          (IF player[s.id] = Absent THEN One(s) ELSE EmptyBag)
     /\ job' = [job EXCEPT ![t] = NoJob]
     /\ UNCHANGED <<network, client, logoutTimer, fired, clientCount, closings,
                    mixed, stale>>

\* The user whose session ends with the entry of id i.
Leaving(i) == {u \in Users : player[i] = u /\ client[u].id = i}

\* Mutant: the counter is decremented for every entry.
MutEraseCount(i) ==
  /\ client' = [u \in Users |-> IF u \in Leaving(i) THEN NoSocket ELSE client[u]]
  /\ logoutTimer' = [u \in Users |-> IF u \in Leaving(i) THEN NoTimer ELSE logoutTimer[u]]
  /\ clientCount' = IF player[i] = Absent THEN clientCount ELSE clientCount - 1

\* Mutant: only the counter is decremented.
MutEraseNothing(i) ==
  /\ UNCHANGED <<client, logoutTimer>>
  /\ clientCount' = IF Leaving(i) = {} THEN clientCount ELSE clientCount - 1

\* Mutant: the client goes, its timer stays.
MutEraseTimer(i) ==
  /\ client' = [u \in Users |-> IF u \in Leaving(i) THEN NoSocket ELSE client[u]]
  /\ UNCHANGED logoutTimer
  /\ clientCount' = IF Leaving(i) = {} THEN clientCount ELSE clientCount - 1

EraseClient(i) ==
  /\ client' = [u \in Users |-> IF u \in Leaving(i) THEN NoSocket ELSE client[u]]
  /\ logoutTimer' = [u \in Users |-> IF u \in Leaving(i) THEN NoTimer ELSE logoutTimer[u]]
  /\ clientCount' = IF Leaving(i) = {} THEN clientCount ELSE clientCount - 1

\* The logout timer of the user goes on.
RemoveSocketId(i) ==
  /\ EraseClient(i)
  /\ player' = [player EXCEPT ![i] = Absent]
  /\ loginTimer' = [loginTimer EXCEPT ![i] = NoTimer]
  /\ armed' = Without({loginTimer[i]})

\* HandleLogout: a client that closed the connection has time to come back.
SetDelayLogout(t) ==
  LET s == job[t].socket
      Delayed(u) == player[s.id] = u /\ client[u] # NoSocket /\ logoutTimer[u] = NoTimer
  IN /\ job[t].at = "logout" /\ job[t].why = "offline"
     /\ AfterLogout(t)
     /\ \/ \E u \in Users :
             /\ Delayed(u) /\ FreeTimers(u) # {}
             /\ logoutTimer' = [logoutTimer EXCEPT ![u] = NewTimer(u)]
             /\ armed' = armed \cup {Timer(NewTimer(u), "OnLogoutCallback", s, "offline")}
        \/ /\ \A u \in Users : ~Delayed(u)
           /\ UNCHANGED <<logoutTimer, armed>>
     /\ UNCHANGED <<network, player, loginTimer, client, fired, queSocketIds,
                    clientCount, closings, mixed, stale>>

LogoutNow(t) ==
  /\ job[t].at = "logout" /\ job[t].why # "offline"
  /\ RemoveSocketId(job[t].socket.id)
  /\ AfterLogout(t)
  /\ UNCHANGED <<network, fired, queSocketIds, closings, mixed, stale>>

-----------------------------------------------------------------------------
(* Timers, their callbacks and the calls of other nodes.                   *)

Expire(r) ==
  /\ r \in armed
  /\ armed' = armed \ {r} /\ fired' = fired \cup {r}
  /\ UNCHANGED <<network, maps, queSocketIds, job, clientCount, closings,
                 mixed, stale>>

\* OnLoginTimeout; also what CloseClient does after it found the socket.
OnLoginTimeout(r) ==
  /\ r \in fired /\ r.call = "OnLoginTimeout"
  /\ fired' = fired \ {r}
  /\ CloseConnection(r.socket, r.why)
  /\ UNCHANGED <<peers, closed, newConnections, lostConnections, maps, armed,
                 queSocketIds, job, clientCount, closings, mixed, stale>>

OnLogoutCallback(r) ==
  /\ r \in fired /\ r.call = "OnLogoutCallback"
  /\ fired' = fired \ {r}
  /\ RemoveSocketId(r.socket.id)
  /\ UNCHANGED <<network, queSocketIds, job, closings, mixed, stale>>

\* A user who logs in elsewhere is closed after KEEP_FOR_CLOSE_CONNECTION.
\* Nobody keeps the id of that timer.
KickLogged(u) ==
  /\ client[u] # NoSocket /\ closings < MaxClosings
  /\ closings' = closings + 1
  /\ armed' = armed \cup {Timer(NoTimer, "OnLoginTimeout", client[u], "forced")}
  /\ UNCHANGED <<network, maps, fired, queSocketIds, job, clientCount, mixed, stale>>

\* CloseAllClients does this for every user.
CloseClient(u) ==
  /\ client[u] # NoSocket /\ closings < MaxClosings
  /\ closings' = closings + 1
  /\ fired' = fired \cup {Timer(NoTimer, "OnLoginTimeout", client[u], "forced")}
  /\ UNCHANGED <<network, maps, armed, queSocketIds, job, clientCount, mixed, stale>>

-----------------------------------------------------------------------------
(* ReceivePacket: a thread takes a socket from the queue and puts it back  *)
(* when it has read and handled what there is.                             *)

DropSocket(s) ==
  /\ ~IsOpen(s)
  /\ BagIn(s, queSocketIds)
  /\ queSocketIds' = queSocketIds (-) One(s)
  /\ UNCHANGED <<network, maps, timers, job, clientCount, closings, mixed, stale>>

\* Another packet than a login: a socket without an entry is not validated.
HandleDefault(s) ==
  /\ IsOpen(s) /\ player[s.id] = Absent
  /\ BagIn(s, queSocketIds)
  /\ queSocketIds' = queSocketIds (-) One(s)
  /\ CloseConnection(s, "forced")
  /\ UNCHANGED <<peers, closed, newConnections, lostConnections, maps, timers, job,
                 clientCount, closings, mixed, stale>>

HandleLogin(t, s, u) ==
  /\ job[t].at = "idle" /\ IsOpen(s)
  /\ BagIn(s, queSocketIds)
  /\ queSocketIds' = queSocketIds (-) One(s)
  /\ job' = [job EXCEPT ![t] =
       [NoJob EXCEPT !.at = IF client[u] = NoSocket THEN "check" ELSE "recover",
                     !.socket = s, !.user = u]]
  /\ UNCHANGED <<network, maps, timers, clientCount, closings, mixed, stale>>

\* Mutant: a socket whose login was handled is not queued again.
MutPutBack(s) == EmptyBag

\* Nothing is read any more from a connection that was closed meanwhile.
PutBack(s) == IF IsOpen(s) THEN One(s) ELSE EmptyBag

\* CheckUser fails or the session key is wrong.
LoginRefused(t) ==
  /\ job[t].at = "check"
  /\ queSocketIds' = queSocketIds (+) PutBack(job[t].socket)
  /\ job' = [job EXCEPT ![t] = NoJob]
  /\ UNCHANGED <<network, maps, timers, clientCount, closings, mixed, stale>>

\* ReplaceSocketId returned ok; inserted is what it put into the queue.
Replaced(t, ok, inserted) ==
  IF ok /\ job[t].at = "check"
    THEN Goto(t, "count") /\ queSocketIds' = queSocketIds (+) inserted
    ELSE /\ job' = [job EXCEPT ![t] = NoJob]
         /\ queSocketIds' = (queSocketIds (+) inserted) (+) PutBack(job[t].socket)

\* Another user has the socket already.
SecondUser(s, u) ==
  \/ player[s.id] \in Users \ {u}
  \/ \E v \in Users \ {u} : client[v].id = s.id

\* Mutant: an entry that is there keeps its user.
MutEnterPlayer(i, u) == player' = [player EXCEPT ![i] = IF @ = Absent THEN u ELSE @]

EnterPlayer(i, u) == player' = [player EXCEPT ![i] = u]

\* ReplaceSocketId for a user without client entry.  The timer id of a new
\* player entry is not initialised.
NewClient(t) ==
  LET s == job[t].socket  u == job[t].user
  IN /\ job[t].at \in {"check", "recover"} /\ client[u] = NoSocket
     /\ client' = [client EXCEPT ![u] = s]
     /\ EnterPlayer(s.id, u)
     /\ \E n \in IF player[s.id] = Absent
                   THEN {NoTimer} \cup {r.id : r \in armed} ELSE {NoTimer} :
          /\ loginTimer' = [loginTimer EXCEPT ![s.id] = n]
          /\ mixed' = (mixed \/ SecondUser(s, u) \/ n # NoTimer)
     /\ armed' = Without({loginTimer[s.id]})
     /\ stale' = (stale \/ job[t].at = "recover")
     /\ Replaced(t, TRUE, IF player[s.id] = Absent THEN One(s) ELSE EmptyBag)
     /\ UNCHANGED <<network, logoutTimer, fired, clientCount, closings>>

\* ReplaceSocketId for a user with a client entry, up to line 266: the logout
\* timer is removed; a socket with the same id is not taken.
FoundClient(t) ==
  LET u == job[t].user
  IN /\ job[t].at \in {"check", "recover"} /\ client[u] # NoSocket
     /\ logoutTimer' = [logoutTimer EXCEPT ![u] = NoTimer]
     /\ stale' = (stale \/ job[t].at = "check")
     /\ mixed' = (mixed \/ SecondUser(job[t].socket, u))
     /\ UNCHANGED <<network, fired, clientCount, closings>>

SameSocket(t) ==
  /\ FoundClient(t)
  /\ client[job[t].user].id = job[t].socket.id
  /\ armed' = Without({logoutTimer[job[t].user]})
  /\ Replaced(t, FALSE, EmptyBag)
  /\ UNCHANGED <<player, loginTimer, client>>

\* The old socket has no player entry any more.
LostEntry(t) ==
  LET s == job[t].socket  u == job[t].user
  IN /\ FoundClient(t)
     /\ client[u].id # s.id /\ player[client[u].id] = Absent
     /\ client' = [client EXCEPT ![u] = s]
     /\ armed' = Without({logoutTimer[u]})
     /\ Replaced(t, FALSE, EmptyBag)
     /\ UNCHANGED <<player, loginTimer>>

\* Mutant: the old entry is not erased.
MutMovePlayer(old, i) == player' = [player EXCEPT ![i] = player[old]]

MovePlayer(old, i) == player' = [player EXCEPT ![old] = Absent, ![i] = player[old]]

\* The player entry moves from the old socket to the new one.
MoveClient(t) ==
  LET s == job[t].socket  u == job[t].user  old == client[u].id
  IN /\ FoundClient(t)
     /\ old # s.id /\ player[old] # Absent
     /\ client' = [client EXCEPT ![u] = s]
     /\ MovePlayer(old, s.id)
     /\ loginTimer' = [loginTimer EXCEPT ![old] = NoTimer, ![s.id] = NoTimer]
     /\ armed' = Without({logoutTimer[u], loginTimer[old], loginTimer[s.id]})
     /\ Replaced(t, TRUE, EmptyBag)

CountClient(t) ==
  /\ job[t].at = "count"
  /\ clientCount' = clientCount + 1
  /\ queSocketIds' = queSocketIds (+) PutBack(job[t].socket)
  /\ job' = [job EXCEPT ![t] = NoJob]
  /\ UNCHANGED <<network, maps, timers, closings, mixed, stale>>

-----------------------------------------------------------------------------
Event(t) ==
  \/ LostConnection(t) \/ NewConnection(t)
  \/ InsertSocketId(t) \/ SetDelayLogout(t) \/ LogoutNow(t)

ReplaceSocketId(t) ==
  NewClient(t) \/ SameSocket(t) \/ LostEntry(t) \/ MoveClient(t)

Next ==
  \/ \E i \in Ids : Accept(i) \/ RemoveSocketLink(i)
  \/ \E c \in closed : DisconnectCallback(c)
  \/ \E r \in armed : Expire(r)
  \/ \E r \in fired : OnLoginTimeout(r) \/ OnLogoutCallback(r)
  \/ \E u \in Users : KickLogged(u) \/ CloseClient(u)
  \/ \E s \in Sockets : DropSocket(s) \/ HandleDefault(s)
  \/ \E t \in Threads :
       \/ Event(t)
       \/ \E s \in Sockets : \E u \in Logins[s.peer] : HandleLogin(t, s, u)
       \/ LoginRefused(t) \/ ReplaceSocketId(t) \/ CountClient(t)

Spec == Init /\ [][Next]_vars

-----------------------------------------------------------------------------
(* Properties.                                                             *)

TimerRecords ==
  [id : TimerIds \cup {NoTimer}, call : {"OnLoginTimeout", "OnLogoutCallback"},
   socket : Sockets, why : Reasons]
Jobs ==
  [at : {"idle", "logout", "insert", "check", "recover", "count"},
   socket : Sockets \cup {NoSocket}, why : Reasons,
   new : Sockets \cup {NoSocket}, user : Users \cup {Anonymous}]

\* The variables have their types, entries that are absent have no timers, and
\* a thread that works for a login or an event has what it works with.
TypeOK ==
  /\ link \in [Ids -> [peer : 0 .. MaxPeers, why : Reasons]]
  /\ peers \in 0 .. MaxPeers /\ closings \in 0 .. MaxClosings
  /\ closed \subseteq [socket : Sockets, why : Reasons]
  /\ newConnections \in Seq(Sockets)
  /\ lostConnections \in Seq([socket : Sockets, why : Reasons])
  /\ player \in [Ids -> Users \cup {Anonymous, Absent}]
  /\ loginTimer \in [Ids -> TimerIds \cup {NoTimer}]
  /\ client \in [Users -> Sockets \cup {NoSocket}]
  /\ logoutTimer \in [Users -> TimerIds \cup {NoTimer}]
  /\ IsABag(queSocketIds) /\ BagToSet(queSocketIds) \subseteq Sockets
  /\ armed \subseteq TimerRecords /\ fired \subseteq TimerRecords
  /\ job \in [Threads -> Jobs]
  /\ clientCount \in Int /\ mixed \in BOOLEAN /\ stale \in BOOLEAN
  /\ \A i \in Ids : player[i] = Absent => loginTimer[i] = NoTimer
  /\ \A u \in Users : client[u] = NoSocket => logoutTimer[u] = NoTimer
  /\ \A t \in Threads :
       /\ job[t].at \in {"check", "recover", "count"} =>
            job[t].socket \in Sockets /\ job[t].user \in Users
       /\ job[t].at = "logout" => job[t].socket \in Sockets
       /\ job[t].at = "insert" => job[t].new \in Sockets

\* Whatever happens to socket ids, packets of at most one connection are taken
\* for those of a user, and he is a client: HandleDefault routes them by the
\* player entry, and only RemoveSocketId ends a session.
OneConnection ==
  \A i, j \in Ids : player[i] = player[j] /\ player[i] \in Users => i = j
KnownUser == \A i \in Ids : player[i] \in Users => client[player[i]] # NoSocket

\* GetClientCount, which the master balances by, is the number of clients but
\* for the logins between ReplaceSocketId and the increment, as long as each
\* login finds in ReplaceSocketId what FindSocketId told it.
CountMatches ==
  ~stale => clientCount + Cardinality({t \in Threads : job[t].at = "count"})
              = Cardinality({u \in Users : client[u] # NoSocket})

\* The two maps agree as long as no id stood for two: SendToClient(userId)
\* reaches the connection whose packets are routed for that user.
SessionsAgree ==
  ~mixed =>
    /\ \A u \in Users : client[u] # NoSocket => player[client[u].id] = u
    /\ \A i \in Ids : player[i] \in Users => client[player[i]].id = i

\* A connection that has not logged in is going to be closed.
AnonymousIsTimed ==
  ~mixed =>
    \A i \in Ids : player[i] = Anonymous /\ link[i].peer # 0 =>
      \/ link[i].why = "forced"
      \/ \E r \in armed \cup fired :
           r.call = "OnLoginTimeout" /\ r.socket = Socket(i, link[i].peer)

\* A connection that OnRun has entered is in the queue or with a thread, so
\* that its packets are read, until it is closed.
Heard ==
  ~mixed =>
    \A i \in Ids : player[i] # Absent /\ link[i].peer # 0 /\ link[i].why = "offline" =>
      LET s == Socket(i, link[i].peer)
      IN \/ BagIn(s, queSocketIds)
         \/ \E t \in Threads :
              job[t].at \in {"check", "recover", "count"} /\ job[t].socket = s

\* A user whose logout is delayed is logged out by the timer, unless he comes
\* back: it runs, or its callback waits, for the socket he has.
LogoutIsTimed ==
  ~mixed =>
    \A u \in Users : logoutTimer[u] # NoTimer =>
      \E r \in armed \cup fired :
        /\ r.call = "OnLogoutCallback" /\ r.id = logoutTimer[u]
        /\ r.socket.id = client[u].id
=============================================================================
