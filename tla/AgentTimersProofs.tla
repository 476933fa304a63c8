------------------------- MODULE AgentTimersProofs ------------------------
(***************************************************************************)
(* For any socket ids, users, threads and numbers of connections and       *)
(* timers, while no id stood for two of what it names: a connection that   *)
(* has not logged in has its timeout coming, an entered connection is in   *)
(* the queue or with a thread, and a delayed logout has its timer.         *)
(***************************************************************************)
EXTENDS AgentSessionsProofs

(* Timer ids: whose timer an armed id is.                                  *)

\* OnLoginTimeout and CloseClient close the connection for good.
Forced == \A r \in armed \cup fired : r.call = "OnLoginTimeout" => r.why = "forced"

\* The id in an entry is that of its own login timer, or of no running one.
LoginOwn ==
  \A i \in Ids : loginTimer[i] # NoTimer =>
    \A r \in armed : r.id = loginTimer[i] =>
      r.call = "OnLoginTimeout" /\ r.socket.id = i

\* The id in a client entry is that of a logout timer, and in no other entry.
LogoutOwn ==
  \A u \in Users : logoutTimer[u] # NoTimer =>
    /\ \A r \in armed : r.id = logoutTimer[u] => r.call = "OnLogoutCallback"
    /\ \A v \in Users : logoutTimer[v] = logoutTimer[u] => v = u

LEMMA WithoutIn ==
  ASSUME NEW S, NEW r \in armed
  PROVE  r \in Without(S) \/ (r.id \in S /\ r.id # NoTimer)
BY DEF Without

LEMMA WithoutArmed ==
  ASSUME NEW S
  PROVE  Without(S) \subseteq armed
BY DEF Without

\* A new timer has an id that nobody knows.
LEMMA NewTimerUnused ==
  ASSUME NEW x \in Ids \cup Users, FreeTimers(x) # {}
  PROVE  /\ NewTimer(x) # NoTimer
         /\ \A i \in Ids : loginTimer[i] # NewTimer(x)
         /\ \A u \in Users : logoutTimer[u] # NewTimer(x)
         /\ \A r \in armed \cup fired : r.id # NewTimer(x)
<1>1. (CHOOSE n \in FreeTimers(x) : TRUE) \in FreeTimers(x)
  OBVIOUS
<1>2. NewTimer(x) \notin UsedTimers
  BY <1>1 DEF NewTimer, FreeTimers
<1>3. NewTimer(x) # NoTimer
  BY NewTimerLemma, NullAssumption DEF NullAssumption
<1> QED
  BY <1>2, <1>3 DEF UsedTimers

\* Timers are removed, or set under no id, and ids forgotten.
LEMMA OwnKept ==
  ASSUME LoginOwn, LogoutOwn,
         \A r \in armed' : r \in armed \/ r.id = NoTimer,
         \A i \in Ids : loginTimer'[i] \in {loginTimer[i], NoTimer},
         \A u \in Users : logoutTimer'[u] \in {logoutTimer[u], NoTimer}
  PROVE  LoginOwn' /\ LogoutOwn'
<1>1. LoginOwn'
  BY DEF LoginOwn
<1>2. LogoutOwn'
  BY DEF LogoutOwn
<1> QED
  BY <1>1, <1>2

LEMMA RemoveSocketIdTimers ==
  ASSUME TypeInv, NEW i \in Ids, RemoveSocketId(i)
  PROVE  /\ player' = [player EXCEPT ![i] = Absent]
         /\ armed' = Without({loginTimer[i]})
         /\ \A j \in Ids : loginTimer'[j] \in {loginTimer[j], NoTimer}
         /\ \A u \in Users : logoutTimer'[u] \in {logoutTimer[u], NoTimer}
<1>1. loginTimer' = [loginTimer EXCEPT ![i] = NoTimer]
  BY DEF RemoveSocketId
<1>2. \A j \in Ids : loginTimer'[j] \in {loginTimer[j], NoTimer}
  BY <1>1 DEF TypeInv, PlayerType
<1>3. \A u \in Users : logoutTimer'[u] \in {logoutTimer[u], NoTimer}
  BY DEF RemoveSocketId, EraseClient
<1> QED
  BY <1>2, <1>3 DEF RemoveSocketId

LEMMA RemovedOwn ==
  ASSUME TypeInv, LoginOwn, LogoutOwn, NEW i \in Ids, RemoveSocketId(i)
  PROVE  LoginOwn' /\ LogoutOwn'
<1>1. armed' = Without({loginTimer[i]})
  BY DEF RemoveSocketId
<1>2. armed' \subseteq armed
  BY <1>1, WithoutArmed
<1>3. /\ \A j \in Ids : loginTimer'[j] \in {loginTimer[j], NoTimer}
      /\ \A u \in Users : logoutTimer'[u] \in {logoutTimer[u], NoTimer}
  BY RemoveSocketIdTimers
<1> QED
  BY <1>2, <1>3, OwnKept

\* A timer of a connection, or of a logout, belongs to its socket.
LEMMA FiredSocket ==
  ASSUME TypeInv, NEW r \in armed \cup fired
  PROVE  r.socket \in Sockets /\ r.socket.id \in Ids
BY SocketLemma DEF TypeInv, TimerType, TimerRecords

LEMMA InsertSocketIdOwn ==
  ASSUME TypeInv, LoginOwn, LogoutOwn, NEW t \in Threads, InsertSocketId(t)
  PROVE  LoginOwn' /\ LogoutOwn'
<1> DEFINE s == job[t].new
           n == NewTimer(s.id)
           r == Timer(n, "OnLoginTimeout", s, "forced")
<1>1. s \in Sockets /\ s.id \in Ids /\ FreeTimers(s.id) # {}
  BY SocketLemma DEF InsertSocketId, TypeInv, JobType, JobOK
<1>2. /\ n # NoTimer
      /\ \A i \in Ids : loginTimer[i] # n
      /\ \A u \in Users : logoutTimer[u] # n
      /\ \A q \in armed \cup fired : q.id # n
  BY <1>1, NewTimerUnused
<1>3. /\ loginTimer' = [loginTimer EXCEPT ![s.id] = n] /\ logoutTimer' = logoutTimer
      /\ armed' = Without({loginTimer[s.id]}) \cup {r}
  BY DEF InsertSocketId
<1>4. r.id = n /\ r.call = "OnLoginTimeout" /\ r.socket = s
  BY DEF Timer
<1> HIDE DEF s, n, r
<1>5. \A q \in armed' : q \in armed \/ q = r
  BY <1>3, WithoutArmed
<1>6. loginTimer'[s.id] = n /\ \A i \in Ids \ {s.id} : loginTimer'[i] = loginTimer[i]
  BY <1>1, <1>3 DEF TypeInv, PlayerType
<1>7. LoginOwn'
  BY <1>2, <1>4, <1>5, <1>6 DEF LoginOwn
<1>8. LogoutOwn'
  BY <1>2, <1>3, <1>4, <1>5 DEF LogoutOwn
<1> QED
  BY <1>7, <1>8

\* What SetDelayLogout does to the timers.
LEMMA SetDelayLogoutTimers ==
  ASSUME TypeInv, NEW t \in Threads, SetDelayLogout(t)
  PROVE  \/ UNCHANGED <<logoutTimer, armed>>
         \/ \E u \in Users :
              /\ player[job[t].socket.id] = u /\ client[u] # NoSocket
              /\ logoutTimer[u] = NoTimer /\ FreeTimers(u) # {}
              /\ logoutTimer' = [logoutTimer EXCEPT ![u] = NewTimer(u)]
              /\ armed' = armed \cup
                   {Timer(NewTimer(u), "OnLogoutCallback", job[t].socket, "offline")}
BY DEF SetDelayLogout

LEMMA SetDelayLogoutOwn ==
  ASSUME TypeInv, LoginOwn, LogoutOwn, NEW t \in Threads, SetDelayLogout(t)
  PROVE  LoginOwn' /\ LogoutOwn'
<1>1. loginTimer' = loginTimer
  BY DEF SetDelayLogout
<1>2. CASE UNCHANGED <<logoutTimer, armed>>
  BY <1>1, <1>2, OwnKept
<1>3. ASSUME NEW u \in Users, FreeTimers(u) # {},
             logoutTimer' = [logoutTimer EXCEPT ![u] = NewTimer(u)],
             armed' = armed \cup
               {Timer(NewTimer(u), "OnLogoutCallback", job[t].socket, "offline")}
      PROVE  LoginOwn' /\ LogoutOwn'
  <2> DEFINE n == NewTimer(u)
             r == Timer(n, "OnLogoutCallback", job[t].socket, "offline")
  <2>1. /\ n # NoTimer
        /\ \A i \in Ids : loginTimer[i] # n
        /\ \A v \in Users : logoutTimer[v] # n
        /\ \A q \in armed \cup fired : q.id # n
    BY <1>3, NewTimerUnused
  <2>2. r.id = n /\ r.call = "OnLogoutCallback"
    BY DEF Timer
  <2>3. logoutTimer' = [logoutTimer EXCEPT ![u] = n] /\ armed' = armed \cup {r}
    BY <1>3
  <2> HIDE DEF n, r
  <2>4. logoutTimer'[u] = n /\ \A v \in Users \ {u} : logoutTimer'[v] = logoutTimer[v]
    BY <2>3 DEF TypeInv, ClientType
  <2>5. LoginOwn'
    BY <1>1, <2>1, <2>2, <2>3 DEF LoginOwn
  <2>6. LogoutOwn'
    BY <2>1, <2>2, <2>3, <2>4 DEF LogoutOwn
  <2> QED
    BY <2>5, <2>6
<1> QED
  BY <1>2, <1>3, SetDelayLogoutTimers

\* ReplaceSocketId removes timers and sets none.
LEMMA ReplaceArmed ==
  ASSUME NEW t \in Threads, ReplaceSocketId(t)
  PROVE  armed' \subseteq armed /\ fired' = fired
<1>1. CASE NewClient(t)
  BY <1>1, WithoutArmed DEF NewClient
<1>2. CASE SameSocket(t)
  BY <1>2, WithoutArmed DEF SameSocket, FoundClient
<1>3. CASE LostEntry(t)
  BY <1>3, WithoutArmed DEF LostEntry, FoundClient
<1>4. CASE MoveClient(t)
  BY <1>4, WithoutArmed DEF MoveClient, FoundClient
<1> QED
  BY <1>1, <1>2, <1>3, <1>4 DEF ReplaceSocketId

\* Unless ids are mixed up, it forgets ids and takes none.
LEMMA ReplaceTimers ==
  ASSUME TypeInv, NEW t \in Threads, ReplaceSocketId(t), ~mixed'
  PROVE  /\ ~mixed
         /\ \A i \in Ids : loginTimer'[i] \in {loginTimer[i], NoTimer}
         /\ \A u \in Users : logoutTimer'[u] \in {logoutTimer[u], NoTimer}
<1>1. CASE NewClient(t)
  <2> DEFINE s == job[t].socket
  <2>1. logoutTimer' = logoutTimer
    BY <1>1 DEF NewClient
  <2>2. PICK n \in (IF player[s.id] = Absent
                      THEN {NoTimer} \cup {r.id : r \in armed} ELSE {NoTimer}) :
          /\ loginTimer' = [loginTimer EXCEPT ![s.id] = n]
          /\ mixed' = (mixed \/ SecondUser(s, job[t].user) \/ n # NoTimer)
    BY <1>1 DEF NewClient
  <2>3. ~mixed /\ n = NoTimer
    BY <2>2
  <2> HIDE DEF s
  <2>4. \A i \in Ids : loginTimer'[i] \in {loginTimer[i], NoTimer}
    BY <2>2, <2>3 DEF TypeInv, PlayerType
  <2> QED
    BY <2>1, <2>3, <2>4
<1>2. ASSUME FoundClient(t)
      PROVE  ~mixed /\ \A u \in Users : logoutTimer'[u] \in {logoutTimer[u], NoTimer}
  BY <1>2 DEF FoundClient, TypeInv, ClientType
<1>3. CASE SameSocket(t) \/ LostEntry(t)
  BY <1>2, <1>3 DEF SameSocket, LostEntry
<1>4. CASE MoveClient(t)
  BY <1>2, <1>4 DEF MoveClient, TypeInv, PlayerType
<1> QED
  BY <1>1, <1>3, <1>4 DEF ReplaceSocketId

\* Threads that take an event, a login or its answer leave the timers alone.
LEMMA OtherTimers ==
  ASSUME \/ \E i \in Ids : Accept(i) \/ RemoveSocketLink(i)
         \/ \E c \in closed : DisconnectCallback(c)
         \/ \E s \in Sockets : DropSocket(s) \/ HandleDefault(s)
         \/ \E t \in Threads :
              \/ LostConnection(t) \/ NewConnection(t) \/ LoginRefused(t) \/ CountClient(t)
              \/ \E s \in Sockets, u \in Users : HandleLogin(t, s, u)
         \/ UNCHANGED vars
  PROVE  UNCHANGED <<maps, timers>>
BY DEF Accept, RemoveSocketLink, DisconnectCallback, DropSocket, HandleDefault,
       LostConnection, NewConnection, LoginRefused, CountClient, HandleLogin, vars

\* The steps of Next: those that leave the timers alone, and the others.
LEMMA NextSplit ==
  ASSUME TypeInv, [Next]_vars
  PROVE  \/ \E i \in Ids : Accept(i) \/ RemoveSocketLink(i)
         \/ \E c \in closed : DisconnectCallback(c)
         \/ \E s \in Sockets : DropSocket(s) \/ HandleDefault(s)
         \/ \E t \in Threads :
              \/ LostConnection(t) \/ NewConnection(t) \/ LoginRefused(t) \/ CountClient(t)
              \/ \E s \in Sockets, u \in Users : HandleLogin(t, s, u)
         \/ UNCHANGED vars
         \/ \E r \in armed : Expire(r)
         \/ \E r \in fired : OnLoginTimeout(r) \/ OnLogoutCallback(r)
         \/ \E u \in Users : KickLogged(u) \/ CloseClient(u)
         \/ \E t \in Threads :
              InsertSocketId(t) \/ SetDelayLogout(t) \/ LogoutNow(t) \/ ReplaceSocketId(t)
BY LoginsLemma DEF Next, Event

LEMMA NextForced ==
  ASSUME TypeInv, [Next]_vars, Forced
  PROVE  Forced'
<1>1. ASSUME NEW n, NEW call, NEW s, NEW why
      PROVE  Timer(n, call, s, why).call = call /\ Timer(n, call, s, why).why = why
  BY DEF Timer
<1>2. CASE UNCHANGED <<maps, timers>>
  BY <1>2 DEF Forced, timers
<1>3. ASSUME NEW r \in armed, Expire(r)
      PROVE  Forced'
  BY <1>3 DEF Expire, Forced
<1>4. ASSUME NEW r \in fired, OnLoginTimeout(r) \/ OnLogoutCallback(r)
      PROVE  Forced'
  BY <1>4, WithoutArmed DEF OnLoginTimeout, OnLogoutCallback, RemoveSocketId, Forced
<1>5. ASSUME NEW u \in Users, KickLogged(u) \/ CloseClient(u)
      PROVE  Forced'
  BY <1>1, <1>5 DEF KickLogged, CloseClient, Forced
<1>6. ASSUME NEW t \in Threads, InsertSocketId(t)
      PROVE  Forced'
  <2> DEFINE r == Timer(NewTimer(job[t].new.id), "OnLoginTimeout", job[t].new, "forced")
  <2>1. armed' = Without({loginTimer[job[t].new.id]}) \cup {r} /\ fired' = fired
    BY <1>6 DEF InsertSocketId
  <2>2. r.why = "forced"
    BY <1>1
  <2> HIDE DEF r
  <2> QED
    BY <2>1, <2>2, WithoutArmed DEF Forced
<1>7. ASSUME NEW t \in Threads, SetDelayLogout(t)
      PROVE  Forced'
  <2>1. fired' = fired
    BY <1>7 DEF SetDelayLogout
  <2>2. \A r \in armed' : r \in armed \/ r.call = "OnLogoutCallback"
    BY <1>1, <1>7, SetDelayLogoutTimers
  <2> QED
    BY <2>1, <2>2 DEF Forced
<1>8. ASSUME NEW t \in Threads, LogoutNow(t)
      PROVE  Forced'
  BY <1>8, WithoutArmed DEF LogoutNow, RemoveSocketId, Forced
<1>9. ASSUME NEW t \in Threads, ReplaceSocketId(t)
      PROVE  Forced'
  BY <1>9, ReplaceArmed DEF Forced
<1> QED
  BY <1>2, <1>3, <1>4, <1>5, <1>6, <1>7, <1>8, <1>9, NextSplit, OtherTimers

LEMMA NextOwn ==
  ASSUME TypeInv, [Next]_vars, ~mixed', LoginOwn, LogoutOwn
  PROVE  LoginOwn' /\ LogoutOwn'
<1>1. CASE UNCHANGED <<maps, timers>>
  BY <1>1, OwnKept DEF maps, timers
<1>2. ASSUME NEW r \in armed, Expire(r)
      PROVE  LoginOwn' /\ LogoutOwn'
  BY <1>2, OwnKept DEF Expire, maps
<1>3. ASSUME NEW r \in fired, OnLoginTimeout(r)
      PROVE  LoginOwn' /\ LogoutOwn'
  BY <1>3, OwnKept DEF OnLoginTimeout, maps
<1>4. ASSUME NEW r \in fired, OnLogoutCallback(r)
      PROVE  LoginOwn' /\ LogoutOwn'
  <2>1. r.socket.id \in Ids /\ RemoveSocketId(r.socket.id)
    BY <1>4, FiredSocket DEF OnLogoutCallback
  <2> QED
    BY <2>1, RemovedOwn
<1>5. ASSUME NEW u \in Users, KickLogged(u) \/ CloseClient(u)
      PROVE  LoginOwn' /\ LogoutOwn'
  <2>1. \A r \in armed' : r \in armed \/ r.id = NoTimer
    BY <1>5 DEF KickLogged, CloseClient, Timer
  <2> QED
    BY <1>5, <2>1, OwnKept DEF KickLogged, CloseClient, maps
<1>6. ASSUME NEW t \in Threads, LogoutNow(t)
      PROVE  LoginOwn' /\ LogoutOwn'
  <2>1. job[t].socket.id \in Ids /\ RemoveSocketId(job[t].socket.id)
    BY <1>6, SocketLemma DEF LogoutNow, TypeInv, JobType, JobOK
  <2> QED
    BY <2>1, RemovedOwn
<1>7. ASSUME NEW t \in Threads, ReplaceSocketId(t)
      PROVE  LoginOwn' /\ LogoutOwn'
  BY <1>7, OwnKept, ReplaceArmed, ReplaceTimers
<1> QED
  BY <1>1, <1>2, <1>3, <1>4, <1>5, <1>6, <1>7, NextSplit, OtherTimers,
     InsertSocketIdOwn, SetDelayLogoutOwn

-----------------------------------------------------------------------------
(* The connections that are accepted and not yet entered, or work for which *)
(* a thread has begun: their sockets are those of the open connections.     *)

Expected ==
  {newConnections[k] : k \in DOMAIN newConnections} \cup {job[t].new : t \in Threads}
Working == {job[t].socket : t \in {v \in Threads : Logging(v)}}

\* A connection that waits to be entered has no entry.
Fresh == \A s \in Expected : s.id \in Ids => player[s.id] = Absent

\* No later connection has the id of one that somebody still works for.
Current ==
  \A s \in Expected \cup Working : s.id \in Ids => link[s.id].peer \in {0, s.peer}

\* A connection stays open, closed, or as it is but for the reason to close it.
Lasting ==
  \A i \in Ids : link[i].peer' # 0 =>
    /\ link[i].peer' = link[i].peer
    /\ link[i].why' # link[i].why => link[i].why' = "forced"

LEMMA ExpectedPending ==
  ASSUME NEW s \in Expected, s.id \in Ids
  PROVE  Pending(s.id)
BY DEF Expected, Pending

LEMMA SameJobs ==
  ASSUME UNCHANGED <<newConnections, job>>
  PROVE  Expected' = Expected /\ Working' = Working
BY DEF Expected, Working, Logging

\* One thread takes up, goes on with or ends its work.
LEMMA JobStep ==
  ASSUME TypeInv, NEW t \in Threads, NEW j, job' = [job EXCEPT ![t] = j],
         j.new = NoSocket \/ j.new \in Expected,
         j.at \in {"check", "recover", "count"} =>
           j.socket \in Working \/ (j.socket \in Sockets /\ IsOpen(j.socket)),
         \A k \in DOMAIN newConnections' :
           \E l \in DOMAIN newConnections : newConnections'[k] = newConnections[l]
  PROVE  /\ Expected' \subseteq Expected \cup {NoSocket}
         /\ \A s \in Working' : s \in Working \/ (s \in Sockets /\ IsOpen(s))
<1>1. job'[t] = j /\ \A v \in Threads \ {t} : job'[v] = job[v]
  BY JobAt
<1>2. Expected' \subseteq Expected \cup {NoSocket}
  BY <1>1 DEF Expected
<1>3. ASSUME NEW v \in Threads, Logging(v)'
      PROVE  \/ job'[v].socket \in Working
             \/ job'[v].socket \in Sockets /\ IsOpen(job'[v].socket)
  BY <1>1, <1>3 DEF Working, Logging
<1>4. \A s \in Working' : \E v \in Threads : Logging(v)' /\ s = job'[v].socket
  BY DEF Working
<1> QED
  BY <1>2, <1>3, <1>4

LEMMA LoggingWorks ==
  ASSUME NEW t \in Threads, job[t].at \in {"check", "recover", "count"}
  PROVE  job[t].socket \in Working
BY DEF Working, Logging

\* What every step but Accept does to those sockets.
LEMMA NextJobs ==
  ASSUME TypeInv, [Next]_vars, \A i \in Ids : ~Accept(i)
  PROVE  /\ Expected' \subseteq Expected \cup {NoSocket}
         /\ \A s \in Working' : s \in Working \/ (s \in Sockets /\ IsOpen(s))
<1> DEFINE Goal ==
             /\ Expected' \subseteq Expected \cup {NoSocket}
             /\ \A s \in Working' : s \in Working \/ (s \in Sockets /\ IsOpen(s))
           Tails == newConnections' = IF newConnections = <<>> THEN <<>>
                                      ELSE Tail(newConnections)
<1>1. CASE UNCHANGED <<newConnections, job>>
  BY <1>1, SameJobs
<1>2. Tails \/ newConnections' = newConnections =>
        \A k \in DOMAIN newConnections' :
          \E l \in DOMAIN newConnections : newConnections'[k] = newConnections[l]
  <2>1. newConnections \in Seq(Sockets)
    BY DEF TypeInv, NetworkType
  <2>2. ASSUME newConnections # <<>>, NEW k \in DOMAIN Tail(newConnections)
        PROVE  \E l \in DOMAIN newConnections : Tail(newConnections)[k] = newConnections[l]
    <3>1. k + 1 \in DOMAIN newConnections /\ Tail(newConnections)[k] = newConnections[k + 1]
      BY <2>1, <2>2
    <3> QED
      BY <3>1
  <2>3. CASE newConnections = <<>>
    BY <2>3
  <2>4. CASE newConnections # <<>>
    BY <2>2, <2>4
  <2> QED
    BY <2>3, <2>4
<1>3. NewOrNone = NoSocket \/ NewOrNone \in Expected
  <2>1. newConnections # <<>> => 1 \in DOMAIN newConnections /\ NewOrNone = newConnections[1]
    BY DEF NewOrNone, TypeInv, NetworkType
  <2> QED
    BY <2>1 DEF NewOrNone, Expected
<1>4. \A t \in Threads : job[t].new \in Expected
  BY DEF Expected
<1>5. NoJob.new = NoSocket /\ NoJob.at = "idle"
  BY DEF NoJob
<1>6. ASSUME NEW t \in Threads, LostConnection(t) PROVE Goal
  <2> DEFINE l == Head(lostConnections)
             j == IF l.socket.id = NewOrNone.id THEN NoJob
                  ELSE [NoJob EXCEPT !.at = "logout", !.socket = l.socket,
                                     !.why = l.why, !.new = NewOrNone]
  <2>1. /\ j.new = NoSocket \/ j.new = NewOrNone
        /\ j.at \notin {"check", "recover", "count"}
    BY DEF NoJob
  <2>2. job' = [job EXCEPT ![t] = j] /\ Tails
    BY <1>6 DEF LostConnection
  <2> HIDE DEF j
  <2> QED
    BY <1>2, <1>3, <2>1, <2>2, JobStep
<1>7. ASSUME NEW t \in Threads, NewConnection(t) PROVE Goal
  <2> DEFINE j == [NoJob EXCEPT !.at = "insert", !.new = Head(newConnections)]
  <2>1. j.new = NewOrNone /\ j.at \notin {"check", "recover", "count"}
    BY <1>7 DEF NoJob, NewOrNone, NewConnection
  <2>2. job' = [job EXCEPT ![t] = j] /\ Tails
    BY <1>7 DEF NewConnection
  <2> HIDE DEF j
  <2> QED
    BY <1>2, <1>3, <2>1, <2>2, JobStep
<1>8. ASSUME NEW t \in Threads, SetDelayLogout(t) \/ LogoutNow(t) PROVE Goal
  <2>1. AfterLogout(t) /\ newConnections' = newConnections
    BY <1>8 DEF SetDelayLogout, LogoutNow, network
  <2>2. PICK j : /\ job' = [job EXCEPT ![t] = j]
                 /\ j.new = NoSocket \/ j.new = job[t].new
                 /\ j.at \notin {"check", "recover", "count"}
    BY <2>1, AfterLogoutJob
  <2> QED
    BY <1>2, <1>4, <2>1, <2>2, JobStep
<1>9. ASSUME NEW t \in Threads,
             InsertSocketId(t) \/ LoginRefused(t) \/ CountClient(t)
      PROVE  Goal
  <2>1. job' = [job EXCEPT ![t] = NoJob] /\ newConnections' = newConnections
    BY <1>9 DEF InsertSocketId, LoginRefused, CountClient, network
  <2> QED
    BY <1>2, <1>5, <2>1, JobStep
<1>10. ASSUME NEW t \in Threads, NEW s \in Sockets, NEW u \in Users, HandleLogin(t, s, u)
       PROVE  Goal
  <2> DEFINE j == [NoJob EXCEPT !.at = IF client[u] = NoSocket THEN "check" ELSE "recover",
                                !.socket = s, !.user = u]
  <2>1. j.new = NoSocket /\ j.socket = s
    BY DEF NoJob
  <2>2. job' = [job EXCEPT ![t] = j] /\ newConnections' = newConnections /\ IsOpen(s)
    BY <1>10 DEF HandleLogin, network
  <2> HIDE DEF j
  <2> QED
    BY <1>2, <2>1, <2>2, JobStep
<1>11. ASSUME NEW t \in Threads, ReplaceSocketId(t) PROVE Goal
  <2>1. newConnections' = newConnections /\ job[t].at \in {"check", "recover"}
    BY <1>11 DEF ReplaceSocketId, NewClient, SameSocket, LostEntry, MoveClient,
                 FoundClient, network
  <2>2. \E ok \in BOOLEAN : \E b : Replaced(t, ok, b)
    BY <1>11, Zenon DEF ReplaceSocketId, NewClient, SameSocket, LostEntry, MoveClient
  <2>3. \E j : /\ job' = [job EXCEPT ![t] = j]
               /\ j.new = NoSocket \/ j.new = job[t].new
               /\ j.at \in {"check", "recover", "count"} => j.socket = job[t].socket
    <3>1. CASE job' = [job EXCEPT ![t] = NoJob]
      BY <1>5, <3>1
    <3>2. CASE Goto(t, "count")
      <4> DEFINE j == [job[t] EXCEPT !.at = "count"]
      <4>1. j.new = job[t].new /\ j.socket = job[t].socket
        BY DEF TypeInv, JobType, Jobs
      <4>2. job' = [job EXCEPT ![t] = j]
        BY <3>2 DEF Goto
      <4> HIDE DEF j
      <4> QED
        BY <4>1, <4>2
    <3> QED
      BY <2>2, <3>1, <3>2 DEF Replaced
  <2>4. job[t].socket \in Working
    BY <2>1, LoggingWorks
  <2> QED
    BY <1>2, <1>4, <2>1, <2>3, <2>4, JobStep
<1>12. (\E i \in Ids : RemoveSocketLink(i)) \/ (\E c \in closed : DisconnectCallback(c))
         \/ (\E s \in Sockets : DropSocket(s) \/ HandleDefault(s))
         \/ (\E r \in armed : Expire(r)) \/ (\E u \in Users : KickLogged(u) \/ CloseClient(u))
         \/ (\E r \in fired : OnLoginTimeout(r) \/ OnLogoutCallback(r)) \/ UNCHANGED vars
         => UNCHANGED <<newConnections, job>>
  BY DEF RemoveSocketLink, DisconnectCallback, DropSocket, HandleDefault, Expire,
         KickLogged, CloseClient, OnLoginTimeout, OnLogoutCallback, network, vars
<1> HIDE DEF Goal, Tails
<1> QED
  <2>1. Goal
    BY <1>1, <1>6, <1>7, <1>8, <1>9, <1>10, <1>11, <1>12, NextSplit DEF Goal
  <2> QED
    BY <2>1 DEF Goal

LEMMA CloseConnectionLasting ==
  ASSUME TypeInv, NEW s, CloseConnection(s, "forced")
  PROVE  Lasting
BY DEF CloseConnection, IsOpen, Lasting, TypeInv, NetworkType

LEMMA NextLasting ==
  ASSUME TypeInv, Forced, [Next]_vars, \A i \in Ids : ~Accept(i)
  PROVE  Lasting
<1>1. CASE UNCHANGED link
  BY <1>1 DEF Lasting
<1>2. ASSUME NEW i \in Ids, RemoveSocketLink(i) PROVE Lasting
  BY <1>2 DEF RemoveSocketLink, Lasting, TypeInv, NetworkType
<1>3. ASSUME NEW s \in Sockets, HandleDefault(s) PROVE Lasting
  BY <1>3, CloseConnectionLasting DEF HandleDefault
<1>4. ASSUME NEW r \in fired, OnLoginTimeout(r) PROVE Lasting
  BY <1>4, CloseConnectionLasting DEF OnLoginTimeout, Forced
<1>5. ASSUME NEW t \in Threads,
             \/ LostConnection(t) \/ NewConnection(t) \/ LoginRefused(t) \/ CountClient(t)
             \/ InsertSocketId(t) \/ SetDelayLogout(t) \/ LogoutNow(t) \/ ReplaceSocketId(t)
      PROVE  UNCHANGED link
  BY <1>5 DEF LostConnection, NewConnection, LoginRefused, CountClient, InsertSocketId,
              SetDelayLogout, LogoutNow, ReplaceSocketId, NewClient, SameSocket,
              LostEntry, MoveClient, FoundClient, network
<1>6. ASSUME NEW t \in Threads, NEW s \in Sockets, NEW u \in Users, HandleLogin(t, s, u)
      PROVE  UNCHANGED link
  BY <1>6 DEF HandleLogin, network
<1>7. (\E s \in Sockets : DropSocket(s)) \/ (\E r \in armed : Expire(r))
        \/ (\E c \in closed : DisconnectCallback(c))
        \/ (\E u \in Users : KickLogged(u) \/ CloseClient(u))
        \/ (\E r \in fired : OnLogoutCallback(r)) \/ UNCHANGED vars
        => UNCHANGED link
  BY DEF DropSocket, Expire, KickLogged, CloseClient, OnLogoutCallback,
         DisconnectCallback, network, vars
<1> QED
  BY <1>1, <1>2, <1>3, <1>4, <1>5, <1>6, <1>7, NextSplit

\* Ids that are mixed up stay so.
LEMMA MixedStays ==
  ASSUME TypeInv, [Next]_vars, ~mixed'
  PROVE  ~mixed
<1>1. ASSUME NEW i \in Ids, Accept(i) PROVE ~mixed
  BY <1>1 DEF Accept
<1>2. ASSUME NEW t \in Threads, ReplaceSocketId(t) PROVE ~mixed
  BY <1>2, ReplaceTimers
<1>3. ASSUME NEW t \in Threads,
             \/ LostConnection(t) \/ NewConnection(t) \/ LoginRefused(t) \/ CountClient(t)
             \/ InsertSocketId(t) \/ SetDelayLogout(t) \/ LogoutNow(t)
      PROVE  ~mixed
  BY <1>3 DEF LostConnection, NewConnection, LoginRefused, CountClient, InsertSocketId,
              SetDelayLogout, LogoutNow
<1>4. ASSUME NEW t \in Threads, NEW s \in Sockets, NEW u \in Users, HandleLogin(t, s, u)
      PROVE  ~mixed
  BY <1>4 DEF HandleLogin
<1>5. (\E i \in Ids : RemoveSocketLink(i)) \/ (\E c \in closed : DisconnectCallback(c))
        \/ (\E s \in Sockets : DropSocket(s) \/ HandleDefault(s))
        \/ (\E r \in armed : Expire(r)) \/ (\E u \in Users : KickLogged(u) \/ CloseClient(u))
        \/ (\E r \in fired : OnLoginTimeout(r) \/ OnLogoutCallback(r)) \/ UNCHANGED vars
        => ~mixed
  BY DEF RemoveSocketLink, DisconnectCallback, DropSocket, HandleDefault, Expire,
         KickLogged, CloseClient, OnLoginTimeout, OnLogoutCallback, vars
<1> QED
  BY <1>1, <1>2, <1>3, <1>4, <1>5, NextSplit

\* Where an entry gets a user or none: InsertSocketId and ReplaceSocketId.
LEMMA NextPlayer ==
  ASSUME TypeInv, [Next]_vars, NEW i \in Ids
  PROVE  \/ player'[i] = player[i]
         \/ player'[i] = Absent
         \/ \E t \in Threads : InsertSocketId(t) /\ i = job[t].new.id
         \/ \E t \in Threads : NewClient(t) /\ i = job[t].socket.id
         \/ \E t \in Threads : MoveClient(t) /\ i = job[t].socket.id
<1> DEFINE Goal ==
             \/ player'[i] = player[i]
             \/ player'[i] = Absent
             \/ \E t \in Threads : InsertSocketId(t) /\ i = job[t].new.id
             \/ \E t \in Threads : NewClient(t) /\ i = job[t].socket.id
             \/ \E t \in Threads : MoveClient(t) /\ i = job[t].socket.id
<1>1. player \in [Ids -> Users \cup {Anonymous, Absent}]
  BY DEF TypeInv, PlayerType
<1>2. CASE UNCHANGED <<maps, timers>>
  BY <1>2 DEF maps
<1>3. ASSUME NEW k \in Ids, RemoveSocketId(k) PROVE Goal
  BY <1>1, <1>3 DEF RemoveSocketId
<1>4. ASSUME NEW t \in Threads, InsertSocketId(t) PROVE Goal
  BY <1>1, <1>4 DEF InsertSocketId
<1>5. ASSUME NEW t \in Threads, SetDelayLogout(t) PROVE Goal
  BY <1>5 DEF SetDelayLogout
<1>6. ASSUME NEW t \in Threads, ReplaceSocketId(t) PROVE Goal
  <2>1. CASE NewClient(t)
    BY <1>1, <2>1 DEF NewClient, EnterPlayer
  <2>2. CASE SameSocket(t) \/ LostEntry(t)
    BY <2>2 DEF SameSocket, LostEntry
  <2>3. CASE MoveClient(t)
    BY <1>1, <2>3 DEF MoveClient, MovePlayer
  <2> QED
    BY <1>6, <2>1, <2>2, <2>3 DEF ReplaceSocketId
<1>7. ASSUME NEW t \in Threads, LogoutNow(t) PROVE Goal
  BY <1>3, <1>7, SocketLemma DEF LogoutNow, TypeInv, JobType, JobOK
<1>8. ASSUME NEW r \in fired, OnLogoutCallback(r) PROVE Goal
  BY <1>3, <1>8, FiredSocket DEF OnLogoutCallback
<1>9. (\E r \in armed : Expire(r)) \/ (\E u \in Users : KickLogged(u) \/ CloseClient(u))
        \/ (\E r \in fired : OnLoginTimeout(r)) => Goal
  BY DEF Expire, KickLogged, CloseClient, OnLoginTimeout, maps
<1>10. ASSUME \/ \E k \in Ids : Accept(k) \/ RemoveSocketLink(k)
              \/ \E c \in closed : DisconnectCallback(c)
              \/ \E s \in Sockets : DropSocket(s) \/ HandleDefault(s)
              \/ \E t \in Threads :
                   \/ LostConnection(t) \/ NewConnection(t) \/ LoginRefused(t) \/ CountClient(t)
                   \/ \E s \in Sockets, u \in Users : HandleLogin(t, s, u)
              \/ UNCHANGED vars
       PROVE  Goal
  BY <1>2, <1>10, OtherTimers
<1> HIDE DEF Goal
<1>11. Goal
  BY <1>4, <1>5, <1>6, <1>7, <1>8, <1>9, <1>10, NextSplit
<1> QED
  BY <1>11 DEF Goal

\* A connection is accepted: nobody knows its id.
LEMMA AcceptOpen ==
  ASSUME TypeInv, NEW i \in Ids, Accept(i)
  PROVE  /\ peers \in Nat /\ UNCHANGED <<maps, timers, queSocketIds, job>>
         /\ newConnections \in Seq(Sockets)
         /\ newConnections' = Append(newConnections, Socket(i, peers + 1))
         /\ link'[i] = [peer |-> peers + 1, why |-> "offline"]
         /\ \A j \in Ids \ {i} : link'[j] = link[j]
         /\ ~mixed' => ~mixed /\ ~Known(i)
<1>1. /\ peers \in Nat /\ newConnections \in Seq(Sockets)
      /\ newConnections' = Append(newConnections, Socket(i, peers + 1))
  BY BoundAssumption DEF BoundAssumption, Accept, TypeInv, NetworkType
<1>2. UNCHANGED <<maps, timers, queSocketIds, job>>
  BY DEF Accept
<1>3. link' = [link EXCEPT ![i] = [peer |-> peers + 1, why |-> "offline"]]
  BY DEF Accept
<1>4. /\ link'[i] = [peer |-> peers + 1, why |-> "offline"]
      /\ \A j \in Ids \ {i} : link'[j] = link[j]
  BY <1>3 DEF TypeInv, NetworkType
<1>5. ~mixed' => ~mixed /\ ~Known(i)
  BY DEF Accept
<1> QED
  BY <1>1, <1>2, <1>4, <1>5

LEMMA AcceptPending ==
  ASSUME TypeInv, Fresh, Current, NEW i \in Ids, Accept(i), ~mixed'
  PROVE  Fresh' /\ Current'
<1> DEFINE s == Socket(i, peers + 1)
<1>1. s.id = i /\ s.peer = peers + 1
  BY DEF Socket
<1>2. newConnections' = Append(newConnections, s)
  BY AcceptOpen
<1> HIDE DEF s
<1>3. \A k \in DOMAIN newConnections' :
        \/ k \in DOMAIN newConnections /\ newConnections'[k] = newConnections[k]
        \/ newConnections'[k] = s
  BY <1>2, AcceptOpen
<1>4. Expected' \subseteq Expected \cup {s} /\ Working' = Working
  BY <1>3, AcceptOpen DEF Expected, Working, Logging
<1>5. /\ \A r \in Expected \cup Working : r.id # i
      /\ player[i] = Absent /\ player' = player
  <2>1. ~Known(i)
    BY AcceptOpen
  <2>2. /\ \A k \in DOMAIN newConnections : newConnections[k].id # i
        /\ \A t \in Threads : job[t].socket.id # i /\ job[t].new.id # i
        /\ player[i] = Absent
    BY <2>1 DEF Known
  <2> QED
    BY <2>2, AcceptOpen DEF Expected, Working, maps
<1>6. Fresh'
  BY <1>1, <1>4, <1>5 DEF Fresh
<1>7. ASSUME NEW r \in Expected' \cup Working', r.id \in Ids
      PROVE  link'[r.id].peer \in {0, r.peer}
  <2>1. CASE r = s
    BY <1>1, <2>1, AcceptOpen
  <2>2. CASE r # s
    <3>1. r \in Expected \cup Working /\ r.id # i
      BY <1>4, <1>5, <1>7, <2>2
    <3> QED
      BY <1>7, <3>1, AcceptOpen DEF Current
  <2> QED
    BY <2>1, <2>2
<1>8. Current'
  BY <1>7 DEF Current
<1> QED
  BY <1>6, <1>8

\* The socket that InsertSocketId enters is not expected any more.
LEMMA InsertedOnce ==
  ASSUME TypeInv, Unique, NEW t \in Threads, InsertSocketId(t)
  PROVE  \A i \in Ids : i = job[t].new.id => ~Pending(i)'
<1>1. job' = [job EXCEPT ![t] = NoJob] /\ UNCHANGED <<peers, link, newConnections>>
  BY DEF InsertSocketId, network
<1>2. NoJob.new = NoSocket /\ NoJob.at \notin {"check", "recover", "count"}
  BY DEF NoJob
<1> QED
  BY <1>1, <1>2, KeepStep

LEMMA NextPending ==
  ASSUME TypeInv, AgreeInv, Forced, Fresh, Current, [Next]_vars, ~mixed'
  PROVE  Fresh' /\ Current'
<1>1. ~mixed /\ Unique /\ Behind
  BY MixedStays DEF AgreeInv
<1>2. ASSUME NEW i \in Ids, Accept(i)
      PROVE  Fresh' /\ Current'
  BY <1>2, AcceptPending
<1>3. ASSUME \A i \in Ids : ~Accept(i)
      PROVE  Fresh' /\ Current'
  <2>1. /\ Expected' \subseteq Expected \cup {NoSocket}
        /\ \A s \in Working' : s \in Working \/ (s \in Sockets /\ IsOpen(s))
    BY <1>3, NextJobs
  <2>2. Lasting
    BY <1>3, NextLasting
  <2>3. NoSocket.id \notin Ids
    BY SocketLemma, NullAssumption DEF NullAssumption
  <2>4. ASSUME NEW s \in Expected', s.id \in Ids
        PROVE  player'[s.id] = Absent
    <3>1. s \in Expected /\ player[s.id] = Absent /\ Pending(s.id)
      BY <2>1, <2>3, <2>4, ExpectedPending DEF Fresh
    <3>2. Pending(s.id)'
      BY <2>4 DEF Expected, Pending
    <3>3. ASSUME NEW t \in Threads, NewClient(t) \/ MoveClient(t)
          PROVE  job[t].socket.id # s.id
      <4>1. job[t].at \in {"check", "recover", "count"}
        BY <3>3 DEF NewClient, MoveClient, FoundClient
      <4> QED
        BY <1>1, <3>1, <4>1, LoggingLemma
    <3>4. ASSUME NEW t \in Threads, InsertSocketId(t)
          PROVE  job[t].new.id # s.id
      <4>1. \A i \in Ids : i = job[t].new.id => ~Pending(i)'
        BY <1>1, <3>4, InsertedOnce
      <4> QED
        BY <2>4, <3>2, <4>1
    <3> QED
      BY <2>4, <3>1, <3>3, <3>4, NextPlayer
  <2>5. ASSUME NEW s \in Expected' \cup Working', s.id \in Ids
        PROVE  link'[s.id].peer \in {0, s.peer}
    <3>1. link[s.id].peer \in {0, s.peer}
      BY <2>1, <2>3, <2>5 DEF Current, IsOpen
    <3> QED
      BY <2>2, <2>5, <3>1 DEF Lasting
  <2> QED
    BY <2>4, <2>5 DEF Fresh, Current
<1> QED
  BY <1>2, <1>3

-----------------------------------------------------------------------------
(* A timer that is not there any more: its callback was executed, or it was *)
(* removed with the entry that keeps its id.                               *)

\* The entry of id i goes, or gets another user.
Entered(i) ==
  \/ player'[i] = Absent
  \/ \E t \in Threads : InsertSocketId(t) /\ i = job[t].new.id
  \/ \E t \in Threads : NewClient(t) /\ i = job[t].socket.id
  \/ \E t \in Threads : MoveClient(t) /\ i = job[t].socket.id

Lost(r) ==
  \/ r \in fired /\ (OnLoginTimeout(r) \/ OnLogoutCallback(r))
  \/ r.call = "OnLoginTimeout" /\ Entered(r.socket.id)
  \/ /\ r.call = "OnLogoutCallback"
     /\ \E u \in Users : r.id = logoutTimer[u] /\ logoutTimer'[u] = NoTimer

\* An armed timer that is removed is the one whose id an entry keeps.
LEMMA LostTimer ==
  ASSUME NEW r \in armed, NEW i \in Ids, LoginOwn, r \notin Without({loginTimer[i]})
  PROVE  r.call = "OnLoginTimeout" /\ r.socket.id = i
BY DEF Without, LoginOwn

LEMMA LostLogout ==
  ASSUME NEW r \in armed, NEW u \in Users, LogoutOwn, r \notin Without({logoutTimer[u]})
  PROVE  r.call = "OnLogoutCallback" /\ r.id = logoutTimer[u]
BY DEF Without, LogoutOwn

LEMMA LostWithEntry ==
  ASSUME TypeInv, LoginOwn, NEW i \in Ids, RemoveSocketId(i),
         NEW r \in armed, r \notin armed'
  PROVE  Lost(r)
<1>1. r \notin Without({loginTimer[i]}) /\ player' = [player EXCEPT ![i] = Absent]
  BY RemoveSocketIdTimers
<1>2. r.call = "OnLoginTimeout" /\ r.socket.id = i
  BY <1>1, LostTimer
<1>3. player'[i] = Absent
  BY <1>1 DEF TypeInv, PlayerType
<1> QED
  BY <1>2, <1>3 DEF Lost, Entered

LEMMA LostToReplace ==
  ASSUME TypeInv, Agree, LoginOwn, LogoutOwn, NEW t \in Threads, ReplaceSocketId(t),
         NEW r \in armed, r \notin armed'
  PROVE  Lost(r)
<1>1. job[t].socket.id \in Ids /\ job[t].user \in Users
  BY LoginLemma DEF ReplaceSocketId, NewClient, SameSocket, LostEntry, MoveClient,
                    FoundClient
<1>2. CASE NewClient(t)
  <2>1. r.call = "OnLoginTimeout" /\ r.socket.id = job[t].socket.id
    BY <1>1, <1>2, LostTimer DEF NewClient
  <2> QED
    BY <1>2, <2>1 DEF Lost, Entered
<1>3. ASSUME FoundClient(t), r \notin Without({logoutTimer[job[t].user]})
      PROVE  Lost(r)
  <2>1. r.call = "OnLogoutCallback" /\ r.id = logoutTimer[job[t].user]
    BY <1>1, <1>3, LostLogout
  <2>2. logoutTimer'[job[t].user] = NoTimer
    BY <1>1, <1>3 DEF FoundClient, TypeInv, ClientType
  <2> QED
    BY <1>1, <2>1, <2>2 DEF Lost
<1>4. CASE SameSocket(t) \/ LostEntry(t)
  BY <1>3, <1>4 DEF SameSocket, LostEntry
<1>5. CASE MoveClient(t)
  <2> DEFINE s == job[t].socket
             u == job[t].user
             old == client[u].id
  <2>1. /\ FoundClient(t) /\ old \in Ids /\ old # s.id
        /\ player' = [player EXCEPT ![old] = Absent, ![s.id] = player[old]]
        /\ armed' = Without({logoutTimer[u], loginTimer[old], loginTimer[s.id]})
    BY <1>5, FoundClientType DEF MoveClient, MovePlayer
  <2>2. player'[old] = Absent
    BY <1>1, <2>1 DEF TypeInv, PlayerType
  <2>3. \/ r \notin Without({logoutTimer[u]}) \/ r \notin Without({loginTimer[old]})
        \/ r \notin Without({loginTimer[s.id]})
    BY <2>1 DEF Without
  <2>4. CASE r \notin Without({logoutTimer[u]})
    BY <1>3, <2>1, <2>4
  <2>5. CASE r \notin Without({loginTimer[old]})
    BY <2>1, <2>2, <2>5, LostTimer DEF Lost, Entered
  <2>6. CASE r \notin Without({loginTimer[s.id]})
    <3>1. r.call = "OnLoginTimeout" /\ r.socket.id = s.id
      BY <1>1, <2>6, LostTimer
    <3> QED
      BY <1>5, <3>1 DEF Lost, Entered
  <2> QED
    BY <2>3, <2>4, <2>5, <2>6
<1> QED
  BY <1>2, <1>4, <1>5 DEF ReplaceSocketId

LEMMA NextLost ==
  ASSUME TypeInv, Agree, LoginOwn, LogoutOwn, [Next]_vars, ~mixed',
         NEW r \in armed \cup fired, r \notin armed' \cup fired'
  PROVE  Lost(r)
<1>1. ASSUME NEW t \in Threads, ReplaceSocketId(t)
      PROVE  Lost(r)
  BY <1>1, LostToReplace, ReplaceArmed
<1>2. ASSUME NEW t \in Threads, LogoutNow(t)
      PROVE  Lost(r)
  <2>1. job[t].socket.id \in Ids /\ RemoveSocketId(job[t].socket.id) /\ fired' = fired
    BY <1>2, SocketLemma DEF LogoutNow, TypeInv, JobType, JobOK
  <2> QED
    BY <2>1, LostWithEntry
<1>3. ASSUME NEW t \in Threads, InsertSocketId(t)
      PROVE  Lost(r)
  <2>1. job[t].new.id \in Ids
    BY <1>3, SocketLemma DEF InsertSocketId, TypeInv, JobType, JobOK
  <2>2. r \in armed /\ r \notin Without({loginTimer[job[t].new.id]})
    BY <1>3 DEF InsertSocketId
  <2>3. r.call = "OnLoginTimeout" /\ r.socket.id = job[t].new.id
    BY <2>1, <2>2, LostTimer
  <2> QED
    BY <1>3, <2>3 DEF Lost, Entered
<1>4. ASSUME NEW t \in Threads, SetDelayLogout(t)
      PROVE  FALSE
  BY <1>4 DEF SetDelayLogout
<1>5. ASSUME NEW q \in fired, OnLogoutCallback(q)
      PROVE  Lost(r)
  <2>1. q.socket.id \in Ids /\ RemoveSocketId(q.socket.id) /\ fired' = fired \ {q}
    BY <1>5, FiredSocket DEF OnLogoutCallback
  <2>2. CASE r \in armed
    BY <2>1, <2>2, LostWithEntry
  <2>3. CASE r = q
    BY <1>5, <2>3 DEF Lost
  <2> QED
    BY <2>1, <2>2, <2>3
<1>6. ASSUME NEW q \in fired, OnLoginTimeout(q)
      PROVE  Lost(r)
  BY <1>6 DEF OnLoginTimeout, Lost
<1>7. ASSUME (\E q \in armed : Expire(q)) \/ (\E u \in Users : KickLogged(u) \/ CloseClient(u))
      PROVE  FALSE
  BY <1>7 DEF Expire, KickLogged, CloseClient
<1>8. ASSUME UNCHANGED <<maps, timers>>
      PROVE  FALSE
  BY <1>8 DEF timers
<1> QED
  BY <1>1, <1>2, <1>3, <1>4, <1>5, <1>6, <1>7, <1>8, NextSplit, OtherTimers

-----------------------------------------------------------------------------
(* The three properties.                                                   *)

TimerInv ==
  /\ Forced
  /\ ~mixed => Fresh /\ Current /\ LoginOwn /\ LogoutOwn

\* What a step that does not accept a connection starts from.
LEMMA Before ==
  ASSUME TypeInv, AgreeInv, TimerInv, [Next]_vars, ~mixed', \A i \in Ids : ~Accept(i)
  PROVE  /\ ~mixed /\ Agree /\ Behind
         /\ Forced /\ Current /\ LoginOwn /\ LogoutOwn /\ Lasting
BY MixedStays, NextLasting DEF AgreeInv, TimerInv

\* A socket is its id and its peer.
LEMMA SocketOf ==
  ASSUME NEW s \in Sockets, NEW p, p = s.peer
  PROVE  s = Socket(s.id, p)
BY DEF Sockets, Socket

\* The user that a login brings to a socket.
LEMMA EnteredUser ==
  ASSUME TypeInv, Agree, NEW t \in Threads, NewClient(t) \/ MoveClient(t)
  PROVE  /\ job[t].socket.id \in Ids /\ job[t].at \in {"check", "recover"}
         /\ player'[job[t].socket.id] \in Users
<1>1. /\ job[t].at \in {"check", "recover"}
      /\ job[t].socket.id \in Ids /\ job[t].user \in Users
  BY LoginLemma DEF NewClient, MoveClient, FoundClient
<1>2. player \in [Ids -> Users \cup {Anonymous, Absent}]
  BY DEF TypeInv, PlayerType
<1>3. CASE NewClient(t)
  BY <1>1, <1>2, <1>3 DEF NewClient, EnterPlayer
<1>4. CASE MoveClient(t)
  <2> DEFINE old == client[job[t].user].id
  <2>1. /\ client[job[t].user] # NoSocket
        /\ player' = [player EXCEPT ![old] = Absent, ![job[t].socket.id] = player[old]]
    BY <1>4 DEF MoveClient, FoundClient, MovePlayer
  <2>2. player[old] = job[t].user
    BY <1>1, <2>1 DEF Agree
  <2> QED
    BY <1>1, <1>2, <2>1, <2>2
<1> QED
  BY <1>1, <1>3, <1>4

\* A new entry has its timeout.
LEMMA InsertSocketIdTimed ==
  ASSUME TypeInv, Current, NEW t \in Threads, InsertSocketId(t),
         link'[job[t].new.id].peer # 0
  PROVE  \E r \in armed' :
           /\ r.call = "OnLoginTimeout"
           /\ r.socket = Socket(job[t].new.id, link'[job[t].new.id].peer)
<1> DEFINE s == job[t].new
           r == Timer(NewTimer(s.id), "OnLoginTimeout", s, "forced")
<1>1. s \in Sockets /\ s.id \in Ids /\ link' = link
  BY SocketLemma DEF InsertSocketId, TypeInv, JobType, JobOK, network
<1>2. r \in armed' /\ r.call = "OnLoginTimeout" /\ r.socket = s
  BY DEF InsertSocketId, Timer
<1>3. s \in Expected
  BY DEF Expected
<1> HIDE DEF r
<1>4. link'[s.id].peer = s.peer
  BY <1>1, <1>3 DEF Current
<1> QED
  BY <1>1, <1>2, <1>4, SocketOf

LEMMA NextTimed ==
  ASSUME TypeInv, AgreeInv, TimerInv, AnonymousIsTimed, [Next]_vars
  PROVE  AnonymousIsTimed'
<1> SUFFICES ASSUME ~mixed', NEW i \in Ids, player'[i] = Anonymous, link'[i].peer # 0,
                    link'[i].why # "forced"
             PROVE  \E r \in armed' \cup fired' :
                      r.call = "OnLoginTimeout" /\ r.socket = Socket(i, link'[i].peer)
  BY DEF AnonymousIsTimed
<1>1. ~mixed
  BY MixedStays
<1>2. ASSUME NEW k \in Ids, Accept(k)
      PROVE  \E r \in armed' \cup fired' :
               r.call = "OnLoginTimeout" /\ r.socket = Socket(i, link'[i].peer)
  <2>1. k # i
    BY <1>2, AcceptOpen, NullAssumption DEF NullAssumption, Known, maps
  <2> QED
    BY <1>1, <1>2, <2>1, AcceptOpen DEF AnonymousIsTimed, maps, timers
<1>3. ASSUME \A k \in Ids : ~Accept(k)
      PROVE  \E r \in armed' \cup fired' :
               r.call = "OnLoginTimeout" /\ r.socket = Socket(i, link'[i].peer)
  <2>1. /\ Agree /\ Behind /\ Forced /\ Current /\ LoginOwn /\ LogoutOwn
        /\ link'[i].peer = link[i].peer /\ link[i].why # "forced"
    BY <1>3, Before DEF Lasting
  <2>2. ASSUME NEW t \in Threads, i = job[t].socket.id
        PROVE  ~NewClient(t) /\ ~MoveClient(t)
    BY <2>1, <2>2, EnteredUser, NullAssumption DEF NullAssumption
  <2>3. CASE \E t \in Threads : InsertSocketId(t) /\ i = job[t].new.id
    BY <2>1, <2>3, InsertSocketIdTimed
  <2>4. CASE ~\E t \in Threads : InsertSocketId(t) /\ i = job[t].new.id
    <3>1. player[i] = Anonymous
      BY <2>2, <2>4, NextPlayer, NullAssumption DEF NullAssumption
    <3>2. PICK r \in armed \cup fired :
            r.call = "OnLoginTimeout" /\ r.socket = Socket(i, link[i].peer)
      BY <1>1, <2>1, <3>1 DEF AnonymousIsTimed
    <3>3. r.socket.id = i /\ r.socket.peer = link[i].peer
      BY <3>2 DEF Socket
    <3>4. ~OnLoginTimeout(r)
      <4>1. ASSUME OnLoginTimeout(r)
            PROVE  link' = [link EXCEPT ![i].why = "forced"]
        BY <2>1, <3>3, <4>1 DEF OnLoginTimeout, CloseConnection, IsOpen, Forced
      <4> QED
        BY <4>1 DEF TypeInv, NetworkType
    <3>5. ~OnLogoutCallback(r)
      BY <3>2 DEF OnLogoutCallback
    <3>6. ~Entered(i)
      BY <2>2, <2>4, NullAssumption DEF NullAssumption, Entered
    <3>7. ~Lost(r)
      BY <3>2, <3>3, <3>4, <3>5, <3>6 DEF Lost
    <3>8. r \in armed' \cup fired'
      BY <2>1, <3>7, NextLost
    <3> QED
      BY <2>1, <3>2, <3>8
  <2> QED
    BY <2>3, <2>4
<1> QED
  BY <1>2, <1>3

\* A delayed logout goes on for the same client, or is set with its timer.
LEMMA NextDelayed ==
  ASSUME TypeInv, Agree, [Next]_vars, ~mixed', NEW u \in Users, logoutTimer'[u] # NoTimer
  PROVE  \/ logoutTimer'[u] = logoutTimer[u] /\ client'[u] = client[u]
         \/ \E r \in armed' :
              /\ r.call = "OnLogoutCallback" /\ r.id = logoutTimer'[u]
              /\ r.socket.id = client'[u].id
<1> DEFINE Same == logoutTimer'[u] = logoutTimer[u] /\ client'[u] = client[u]
           Goal == \/ Same
                   \/ \E r \in armed' :
                        /\ r.call = "OnLogoutCallback" /\ r.id = logoutTimer'[u]
                        /\ r.socket.id = client'[u].id
<1>1. /\ logoutTimer \in [Users -> TimerIds \cup {NoTimer}]
      /\ client \in [Users -> Sockets \cup {NoSocket}]
      /\ client[u] = NoSocket => logoutTimer[u] = NoTimer
  BY DEF TypeInv, ClientType
<1>2. ASSUME NEW i \in Ids, RemoveSocketId(i) PROVE Goal
  BY <1>2 DEF RemoveSocketId, EraseClient
<1>3. ASSUME NEW t \in Threads, SetDelayLogout(t) PROVE Goal
  <2>1. client' = client
    BY <1>3 DEF SetDelayLogout
  <2>2. CASE UNCHANGED logoutTimer
    BY <2>1, <2>2
  <2>3. ASSUME NEW v \in Users, player[job[t].socket.id] = v,
               logoutTimer' = [logoutTimer EXCEPT ![v] = NewTimer(v)],
               armed' = armed \cup
                 {Timer(NewTimer(v), "OnLogoutCallback", job[t].socket, "offline")}
        PROVE  Goal
    <3> DEFINE r == Timer(NewTimer(v), "OnLogoutCallback", job[t].socket, "offline")
    <3>1. /\ r \in armed' /\ r.call = "OnLogoutCallback"
          /\ r.id = NewTimer(v) /\ r.socket = job[t].socket
      BY <2>3 DEF Timer
    <3>2. job[t].socket.id \in Ids
      BY <1>3, SocketLemma DEF SetDelayLogout, TypeInv, JobType, JobOK
    <3>3. client[v].id = job[t].socket.id
      BY <2>3, <3>2 DEF Agree
    <3>4. CASE u = v
      BY <1>1, <2>1, <2>3, <3>1, <3>3, <3>4
    <3>5. CASE u # v
      BY <1>1, <2>1, <2>3, <3>5
    <3> QED
      BY <3>4, <3>5
  <2> QED
    BY <1>3, <2>2, <2>3, SetDelayLogoutTimers
<1>4. ASSUME NEW t \in Threads, ReplaceSocketId(t) PROVE Goal
  <2>1. job[t].user \in Users
    BY <1>4, LoginLemma DEF ReplaceSocketId, NewClient, SameSocket, LostEntry, MoveClient,
                            FoundClient
  <2>2. CASE NewClient(t)
    BY <1>1, <2>1, <2>2 DEF NewClient
  <2>3. ASSUME FoundClient(t)
        PROVE  u # job[t].user /\ logoutTimer'[u] = logoutTimer[u]
    BY <1>1, <2>1, <2>3 DEF FoundClient
  <2>4. CASE SameSocket(t)
    BY <2>3, <2>4 DEF SameSocket
  <2>5. CASE LostEntry(t) \/ MoveClient(t)
    BY <1>1, <2>1, <2>3, <2>5 DEF LostEntry, MoveClient
  <2> QED
    BY <1>4, <2>2, <2>4, <2>5 DEF ReplaceSocketId
<1>5. ASSUME NEW t \in Threads, InsertSocketId(t) PROVE Goal
  BY <1>5 DEF InsertSocketId
<1>6. ASSUME NEW t \in Threads, LogoutNow(t) PROVE Goal
  BY <1>2, <1>6, SocketLemma DEF LogoutNow, TypeInv, JobType, JobOK
<1>7. ASSUME NEW r \in fired, OnLogoutCallback(r) PROVE Goal
  BY <1>2, <1>7, FiredSocket DEF OnLogoutCallback
<1>8. (\E r \in armed : Expire(r)) \/ (\E v \in Users : KickLogged(v) \/ CloseClient(v))
        \/ (\E r \in fired : OnLoginTimeout(r)) => Goal
  BY DEF Expire, KickLogged, CloseClient, OnLoginTimeout, maps
<1>9. UNCHANGED <<maps, timers>> => Goal
  BY DEF maps
<1>10. ASSUME \/ \E k \in Ids : Accept(k) \/ RemoveSocketLink(k)
              \/ \E c \in closed : DisconnectCallback(c)
              \/ \E s \in Sockets : DropSocket(s) \/ HandleDefault(s)
              \/ \E t \in Threads :
                   \/ LostConnection(t) \/ NewConnection(t) \/ LoginRefused(t) \/ CountClient(t)
                   \/ \E s \in Sockets, v \in Users : HandleLogin(t, s, v)
              \/ UNCHANGED vars
       PROVE  Goal
  BY <1>9, <1>10, OtherTimers
<1> HIDE DEF Goal
<1>11. Goal
  BY <1>3, <1>4, <1>5, <1>6, <1>7, <1>8, <1>10, NextSplit
<1> QED
  BY <1>11 DEF Goal

LEMMA NextLogoutTimed ==
  ASSUME TypeInv, AgreeInv, TimerInv, LogoutIsTimed, [Next]_vars
  PROVE  LogoutIsTimed'
<1> SUFFICES ASSUME ~mixed', NEW u \in Users, logoutTimer'[u] # NoTimer
             PROVE  \E r \in armed' \cup fired' :
                      /\ r.call = "OnLogoutCallback" /\ r.id = logoutTimer'[u]
                      /\ r.socket.id = client'[u].id
  BY DEF LogoutIsTimed
<1>1. ~mixed /\ Agree /\ LoginOwn /\ LogoutOwn
  BY MixedStays DEF AgreeInv, TimerInv
<1>2. CASE logoutTimer'[u] = logoutTimer[u] /\ client'[u] = client[u]
  <2>1. PICK r \in armed \cup fired :
          /\ r.call = "OnLogoutCallback" /\ r.id = logoutTimer[u]
          /\ r.socket.id = client[u].id
    BY <1>1, <1>2 DEF LogoutIsTimed
  <2>2. ~OnLoginTimeout(r)
    BY <2>1 DEF OnLoginTimeout
  <2>3. ~OnLogoutCallback(r)
    <3>1. client[u] # NoSocket
      BY <1>2 DEF TypeInv, ClientType
    <3>2. player[client[u].id] = u
      BY <1>1, <3>1 DEF Agree
    <3>3. u \in Leaving(r.socket.id)
      BY <2>1, <3>2 DEF Leaving
    <3>4. ASSUME OnLogoutCallback(r)
          PROVE  logoutTimer'[u] = NoTimer
      BY <3>3, <3>4 DEF OnLogoutCallback, RemoveSocketId, EraseClient
    <3> QED
      BY <3>4
  <2>4. ASSUME NEW v \in Users, r.id = logoutTimer[v]
        PROVE  logoutTimer'[v] # NoTimer
    <3>1. v = u
      BY <1>1, <1>2, <2>1, <2>4 DEF LogoutOwn
    <3> QED
      BY <3>1
  <2>5. ~Lost(r)
    BY <2>1, <2>2, <2>3, <2>4 DEF Lost
  <2>6. r \in armed' \cup fired'
    BY <1>1, <2>5, NextLost
  <2> QED
    BY <1>2, <2>1, <2>6
<1> QED
  BY <1>1, <1>2, NextDelayed

-----------------------------------------------------------------------------
(* An entered connection is in the queue or with a thread.                 *)

Hears(s) == BagIn(s, queSocketIds) \/ s \in Working

LEMMA BagInParts ==
  ASSUME NEW b, NEW c, NEW s
  PROVE  /\ BagIn(s, b) \/ BagIn(s, c) => BagIn(s, b (+) c)
         /\ BagIn(s, One(s))
         /\ IsOpen(s) => BagIn(s, PutBack(s))
<1>1. BagToSet(b (+) c) = BagToSet(b) \cup BagToSet(c) /\ BagToSet(One(s)) = {s}
  BY BagParts
<1> QED
  BY <1>1 DEF BagIn, PutBack

LEMMA BagInOther ==
  ASSUME NEW b, SocketBag(b), NEW s, NEW q, BagIn(s, b), s # q
  PROVE  BagIn(s, b (-) One(q))
BY DEF SocketBag, IsABag, BagIn, BagToSet, One, SetToBag, (-)

\* A thread that does not log anybody in takes up something else, or ends.
LEMMA HearsJob ==
  ASSUME TypeInv, NEW t \in Threads, ~Logging(t), NEW j, job' = [job EXCEPT ![t] = j],
         NEW s, Hears(s), BagIn(s, queSocketIds) => BagIn(s, queSocketIds')
  PROVE  Hears(s)'
<1>1. \A v \in Threads \ {t} : job'[v] = job[v]
  BY JobAt
<1>2. s \in Working => s \in Working'
  BY <1>1 DEF Working, Logging
<1> QED
  BY <1>2 DEF Hears

\* A thread ends a login and puts its socket back.
LEMMA HearsEnd ==
  ASSUME TypeInv, NEW t \in Threads, job' = [job EXCEPT ![t] = NoJob],
         NEW b, queSocketIds' = b (+) PutBack(job[t].socket),
         NEW s, Hears(s), IsOpen(s), BagIn(s, queSocketIds) => BagIn(s, b)
  PROVE  Hears(s)'
<1>1. \A v \in Threads \ {t} : job'[v] = job[v]
  BY JobAt
<1>2. CASE BagIn(s, queSocketIds)
  BY <1>2, BagInParts DEF Hears
<1>3. ASSUME NEW v \in Threads, Logging(v), s = job[v].socket
      PROVE  Hears(s)'
  <2>1. CASE v = t
    BY <1>3, <2>1, BagInParts DEF Hears
  <2>2. CASE v # t
    BY <1>1, <1>3, <2>2 DEF Hears, Working, Logging
  <2> QED
    BY <2>1, <2>2
<1> QED
  BY <1>2, <1>3 DEF Hears, Working

LEMMA HearsReplaced ==
  ASSUME TypeInv, NEW t \in Threads, NEW ok \in BOOLEAN, NEW b, Replaced(t, ok, b),
         NEW s, Hears(s), IsOpen(s)
  PROVE  Hears(s)'
<1>1. BagIn(s, queSocketIds) => BagIn(s, queSocketIds (+) b)
  BY BagInParts
<1>2. CASE ok /\ job[t].at = "check"
  <2> DEFINE j == [job[t] EXCEPT !.at = "count"]
  <2>1. job' = [job EXCEPT ![t] = j] /\ queSocketIds' = queSocketIds (+) b
    BY <1>2 DEF Replaced, Goto
  <2>2. j.at = "count" /\ j.socket = job[t].socket
    BY DEF TypeInv, JobType, Jobs
  <2> HIDE DEF j
  <2>3. job'[t] = j /\ \A v \in Threads \ {t} : job'[v] = job[v]
    BY <2>1, JobAt
  <2>4. s \in Working => s \in Working'
    BY <2>2, <2>3 DEF Working, Logging
  <2> QED
    BY <1>1, <2>1, <2>4 DEF Hears
<1>3. CASE ~(ok /\ job[t].at = "check")
  BY <1>1, <1>3, HearsEnd DEF Replaced
<1> QED
  BY <1>2, <1>3

\* Whatever happens, an open connection is not forgotten, unless it is closed.
LEMMA NextHears ==
  ASSUME TypeInv, [Next]_vars, NEW s \in Sockets, Hears(s), IsOpen(s),
         link'[s.id].why # "forced"
  PROVE  Hears(s)'
<1>1. CASE UNCHANGED <<queSocketIds, job>>
  BY <1>1 DEF Hears, Working, Logging
<1>2. ASSUME NEW q \in Sockets, DropSocket(q) PROVE Hears(s)'
  <2>1. s # q /\ job' = job /\ queSocketIds' = queSocketIds (-) One(q)
    BY <1>2 DEF DropSocket
  <2>2. BagIn(s, queSocketIds) => BagIn(s, queSocketIds')
    BY <2>1, BagInOther DEF TypeInv
  <2> QED
    BY <2>1, <2>2 DEF Hears, Working, Logging
<1>3. ASSUME NEW q \in Sockets, HandleDefault(q) PROVE Hears(s)'
  <2>1. job' = job /\ queSocketIds' = queSocketIds (-) One(q)
    BY <1>3 DEF HandleDefault
  <2>2. s # q
    <3>1. ASSUME s = q
          PROVE  link' = [link EXCEPT ![s.id].why = "forced"]
      BY <1>3, <3>1 DEF HandleDefault, CloseConnection
    <3>2. s.id \in Ids
      BY SocketLemma
    <3> QED
      BY <3>1, <3>2 DEF TypeInv, NetworkType
  <2>3. BagIn(s, queSocketIds) => BagIn(s, queSocketIds')
    BY <2>1, <2>2, BagInOther DEF TypeInv
  <2> QED
    BY <2>1, <2>3 DEF Hears, Working, Logging
<1>4. ASSUME NEW t \in Threads, NEW q \in Sockets, NEW u \in Users, HandleLogin(t, q, u)
      PROVE  Hears(s)'
  <2> DEFINE j == [NoJob EXCEPT !.at = IF client[u] = NoSocket THEN "check" ELSE "recover",
                                !.socket = q, !.user = u]
  <2>1. /\ ~Logging(t) /\ queSocketIds' = queSocketIds (-) One(q)
        /\ job' = [job EXCEPT ![t] = j]
    BY <1>4 DEF HandleLogin, Logging
  <2>2. j.at \in {"check", "recover"} /\ j.socket = q
    BY DEF NoJob
  <2> HIDE DEF j
  <2>3. CASE s = q
    <3>1. job'[t] = j
      BY <2>1, JobAt
    <3> QED
      BY <2>2, <2>3, <3>1 DEF Hears, Working, Logging
  <2>4. CASE s # q
    <3>1. BagIn(s, queSocketIds) => BagIn(s, queSocketIds')
      BY <2>1, <2>4, BagInOther DEF TypeInv
    <3> QED
      BY <2>1, <3>1, HearsJob
  <2> QED
    BY <2>3, <2>4
<1>5. ASSUME NEW t \in Threads, LoginRefused(t) \/ CountClient(t) PROVE Hears(s)'
  BY <1>5, HearsEnd DEF LoginRefused, CountClient
<1>6. ASSUME NEW t \in Threads, ReplaceSocketId(t) PROVE Hears(s)'
  <2>1. \E ok \in BOOLEAN : \E b : Replaced(t, ok, b)
    BY <1>6, Zenon DEF ReplaceSocketId, NewClient, SameSocket, LostEntry, MoveClient
  <2> QED
    BY <2>1, HearsReplaced
<1>7. ASSUME NEW t \in Threads, InsertSocketId(t) PROVE Hears(s)'
  <2>1. /\ ~Logging(t) /\ job' = [job EXCEPT ![t] = NoJob]
        /\ queSocketIds' = queSocketIds (+)
             (IF player[job[t].new.id] = Absent THEN One(job[t].new) ELSE EmptyBag)
    BY <1>7 DEF InsertSocketId, Logging
  <2> QED
    BY <2>1, HearsJob, BagInParts
<1>8. ASSUME NEW t \in Threads,
             LostConnection(t) \/ NewConnection(t) \/ SetDelayLogout(t) \/ LogoutNow(t)
      PROVE  Hears(s)'
  <2>1. ~Logging(t) /\ queSocketIds' = queSocketIds
    BY <1>8 DEF LostConnection, NewConnection, SetDelayLogout, LogoutNow, Logging
  <2>2. \E j : job' = [job EXCEPT ![t] = j]
    <3>1. CASE LostConnection(t)
      BY <3>1 DEF LostConnection
    <3>2. CASE NewConnection(t)
      BY <3>2 DEF NewConnection
    <3>3. CASE SetDelayLogout(t) \/ LogoutNow(t)
      BY <3>3, AfterLogoutJob DEF SetDelayLogout, LogoutNow
    <3> QED
      BY <1>8, <3>1, <3>2, <3>3
  <2> QED
    BY <2>1, <2>2, HearsJob
<1>9. (\E i \in Ids : Accept(i) \/ RemoveSocketLink(i))
        \/ (\E c \in closed : DisconnectCallback(c)) \/ (\E r \in armed : Expire(r))
        \/ (\E u \in Users : KickLogged(u) \/ CloseClient(u))
        \/ (\E r \in fired : OnLoginTimeout(r) \/ OnLogoutCallback(r)) \/ UNCHANGED vars
        => Hears(s)'
  BY <1>1 DEF Accept, RemoveSocketLink, DisconnectCallback, Expire, KickLogged,
              CloseClient, OnLoginTimeout, OnLogoutCallback, vars
<1> QED
  BY <1>2, <1>3, <1>4, <1>5, <1>6, <1>7, <1>8, <1>9, NextSplit

LEMMA NextHeard ==
  ASSUME TypeInv, AgreeInv, TimerInv, Heard, [Next]_vars
  PROVE  Heard'
<1> SUFFICES ASSUME ~mixed', NEW i \in Ids, player'[i] # Absent, link'[i].peer # 0,
                    link'[i].why = "offline", NEW s, s = Socket(i, link'[i].peer)
             PROVE  Hears(s)'
  BY DEF Heard, Hears, Working, Logging
<1>1. ~mixed
  BY MixedStays
<1>2. player[i] # Absent /\ link[i].peer # 0 /\ link[i].why = "offline"
        => Hears(Socket(i, link[i].peer))
  BY <1>1 DEF Heard, Hears, Working, Logging
<1>3. ASSUME NEW k \in Ids, Accept(k)
      PROVE  Hears(s)'
  <2>1. k # i
    BY <1>3, AcceptOpen DEF Known, maps
  <2>2. link'[i] = link[i] /\ player'[i] = player[i]
    BY <1>3, <2>1, AcceptOpen DEF maps
  <2>3. Hears(s)
    BY <1>2, <2>2
  <2> QED
    BY <1>3, <2>3, AcceptOpen DEF Hears, Working, Logging
<1>4. ASSUME \A k \in Ids : ~Accept(k)
      PROVE  Hears(s)'
  <2>1. /\ Agree /\ Current /\ Fresh
        /\ link'[i].peer = link[i].peer /\ link[i].why = "offline"
    <3>1. link[i].why \in Reasons /\ link'[i].why # "forced"
      BY DEF TypeInv, NetworkType
    <3> QED
      BY <1>1, <1>4, <3>1, Before DEF Lasting, TimerInv, Reasons
  <2>2. s \in Sockets /\ s.id = i /\ s.peer = link[i].peer /\ IsOpen(s)
    <3>1. link[i].peer \in 1 .. MaxPeers
      BY <2>1, BoundAssumption DEF BoundAssumption, TypeInv, NetworkType
    <3> QED
      BY <2>1, <3>1, SocketLemma DEF IsOpen
  <2>3. ASSUME NEW q \in Sockets, q.id = i, q \in Expected \cup Working
        PROVE  q = s
    <3>1. q.peer = link[i].peer
      BY <2>1, <2>3 DEF Current
    <3> QED
      BY <2>1, <2>3, <3>1, SocketOf
  <2>4. Hears(s) => Hears(s)'
    BY <2>2, NextHears
  <2>5. CASE player'[i] = player[i]
    BY <1>2, <2>1, <2>4, <2>5
  <2>6. ASSUME NEW t \in Threads, InsertSocketId(t), i = job[t].new.id
        PROVE  Hears(s)'
    <3>1. job[t].new \in Sockets /\ job[t].new \in Expected
      BY <2>6 DEF InsertSocketId, TypeInv, JobType, JobOK, Expected
    <3>2. player[i] = Absent /\ job[t].new = s
      BY <2>1, <2>3, <2>6, <3>1 DEF Fresh
    <3>3. queSocketIds' = queSocketIds (+) One(s)
      BY <2>6, <3>2 DEF InsertSocketId
    <3> QED
      BY <3>3, BagInParts DEF Hears
  <2>7. ASSUME NEW t \in Threads, NewClient(t) \/ MoveClient(t), i = job[t].socket.id
        PROVE  Hears(s)'
    <3>1. job[t].at \in {"check", "recover", "count"}
      BY <2>1, <2>7, EnteredUser
    <3>2. job[t].socket \in Sockets /\ job[t].socket \in Working
      BY <3>1, LoginLemma, LoggingWorks
    <3> QED
      BY <2>3, <2>4, <2>7, <3>2 DEF Hears
  <2> QED
    BY <2>5, <2>6, <2>7, NextPlayer
<1> QED
  BY <1>3, <1>4

-----------------------------------------------------------------------------
(* The theorems.                                                           *)

LEMMA InitTimers == Init => TimerInv /\ AnonymousIsTimed /\ Heard /\ LogoutIsTimed
<1> SUFFICES ASSUME Init
             PROVE  TimerInv /\ AnonymousIsTimed /\ Heard /\ LogoutIsTimed
  OBVIOUS
<1>1. \A t \in Threads : job[t].at = "idle" /\ job[t].new = NoSocket
  BY DEF Init, NoJob
<1>2. Expected \cup Working \subseteq {NoSocket}
  BY <1>1 DEF Init, Expected, Working, Logging
<1>3. NoSocket.id \notin Ids
  BY SocketLemma, NullAssumption DEF NullAssumption
<1>4. TimerInv
  BY <1>2, <1>3 DEF Init, TimerInv, Forced, Fresh, Current, LoginOwn, LogoutOwn
<1> QED
  BY <1>4 DEF Init, AnonymousIsTimed, Heard, LogoutIsTimed

LEMMA NextTimers ==
  ASSUME TypeInv, AgreeInv, TimerInv, [Next]_vars
  PROVE  TimerInv'
<1>1. Forced'
  BY NextForced DEF TimerInv
<1>2. ASSUME ~mixed'
      PROVE  Fresh' /\ Current' /\ LoginOwn' /\ LogoutOwn'
  BY <1>2, MixedStays, NextPending, NextOwn DEF TimerInv
<1> QED
  BY <1>1, <1>2 DEF TimerInv

LEMMA TimerInvariant == Spec => [](TypeInv /\ AgreeInv /\ TimerInv)
<1>1. Init => TimerInv
  BY InitTimers
<1>2. TypeInv /\ AgreeInv /\ TimerInv /\ [Next]_vars => TimerInv'
  BY NextTimers
<1> QED
  BY <1>1, <1>2, TypeInvariant, AgreeInvariant, PTL DEF Spec

\* A connection that OnRun entered and that has not logged in is closed: its
\* timer runs or its callback waits to be executed, unless it was told to
\* close already, as long as no socket id or timer id stood for two.  So the
\* removal of a timer never stops that of another connection.
THEOREM AnonymousTimed == Spec => []AnonymousIsTimed
<1>1. TypeInv /\ AgreeInv /\ TimerInv /\ AnonymousIsTimed /\ [Next]_vars => AnonymousIsTimed'
  BY NextTimed
<1> QED
  BY <1>1, InitTimers, TimerInvariant, PTL DEF Spec

\* ReceivePacket never loses an open connection that OnRun entered: its socket
\* is in m_queSocketIds or with the thread that handles its login, which puts
\* it back or has it inserted again.
THEOREM ConnectionsHeard == Spec => []Heard
<1>1. TypeInv /\ AgreeInv /\ TimerInv /\ Heard /\ [Next]_vars => Heard'
  BY NextHeard
<1> QED
  BY <1>1, InitTimers, TimerInvariant, PTL DEF Spec

\* While a client entry has a logout timer, that timer runs, or its callback
\* waits to be executed, for the socket of the user: SetDelayLogout,
\* ReplaceSocketId and RemoveSocketId change the two together.
THEOREM LogoutTimed == Spec => []LogoutIsTimed
<1>1. TypeInv /\ AgreeInv /\ TimerInv /\ LogoutIsTimed /\ [Next]_vars => LogoutIsTimed'
  BY NextLogoutTimed
<1> QED
  BY <1>1, InitTimers, TimerInvariant, PTL DEF Spec
=============================================================================
