--------------------------- MODULE AsyncDatabase ---------------------------
(***************************************************************************)
(* The executor of database::Database: statements that callers leave in    *)
(* two queues, the threads of the pool that come to work them off, and the *)
(* connections they share with callers that execute at once.               *)
(*                                                                         *)
(* A step is one access to m_nCurThdCount, to a queue under its lock, or to*)
(* a connection.  The database is initialised and its connections are open.*)
(* EndThreads is only reached from the destructor, when no caller is left, *)
(* and m_threadState only matters to it; both are left out.                *)
(***************************************************************************)
EXTENDS Naturals, Sequences, FiniteSets

CONSTANTS
  Callers,      \* threads that use the database
  PoolThreads,  \* threads of ThreadPool
  MaxThdSize,   \* GetMaxThdSize: the number of connections
  Kinds,        \* the calls each caller makes: "execute", "query", "wait"
  MaxCalls      \* bound: calls in a behaviour

ASSUME ThreadsAssumption ==
  /\ IsFiniteSet(PoolThreads) /\ Callers \cap PoolThreads = {}
  /\ Kinds \in [Callers -> SUBSET {"execute", "query", "wait"}]
ASSUME SizeAssumption == MaxThdSize \in Nat /\ MaxCalls \in Nat

VARIABLES
  queExecute, queQuery,  \* the queues, as sequences of call numbers
  curThdCount,           \* m_nCurThdCount
  tasks,                 \* times this object stands in the pool's task queue
  using,                 \* threads that hold a connection
  wpc, left, cur,        \* pool threads: place, loop counter, statement
  cpc, call,             \* callers: place, kind and number of the call
  calls, done,           \* calls made; history: calls executed
  missed                 \* history: a caller counted only refused threads

queues == <<queExecute, queQuery>>
callers == <<cpc, call, calls>>
workers == <<wpc, left, cur>>
vars == <<queues, curThdCount, tasks, using, workers, callers, done, missed>>

WAt(w, l) == wpc[w] = l
WGoto(w, l) == wpc' = [wpc EXCEPT ![w] = l]
CAt(c, l) == cpc[c] = l
CGoto(c, l) == cpc' = [cpc EXCEPT ![c] = l]

NoCall == [kind |-> "none", nr |-> 0]
Return(c) == CGoto(c, "idle") /\ call' = [call EXCEPT ![c] = NoCall]

Init ==
  /\ queExecute = <<>> /\ queQuery = <<>>
  /\ curThdCount = 0 /\ tasks = 0 /\ using = {}
  /\ wpc = [w \in PoolThreads |-> "pool"]
  /\ left = [w \in PoolThreads |-> 0]
  /\ cur = [w \in PoolThreads |-> 0]
  /\ cpc = [c \in Callers |-> "idle"]
  /\ call = [c \in Callers |-> NoCall]
  /\ calls = 0 /\ done = {} /\ missed = FALSE

\* Mutant: a connection that is in use is taken.
MutGetFreeConnection(t) == using' = using \cup {t}

\* GetFreeConnection goes round the connections until one can be locked.
GetFreeConnection(t) == Cardinality(using) < MaxThdSize /\ using' = using \cup {t}
Unlock(t) == using' = using \ {t}

\* Threads that Run turned away and that have not yet taken their count back;
\* threads that are counted and work.
Refused == {w \in PoolThreads : WAt(w, "refused")}
WorkingAt == {"connect", "exesize", "exe", "send", "qrysize", "qry", "perform",
              "check", "checkqry", "dec"}
Working == {w \in PoolThreads : wpc[w] \in WorkingAt}

-----------------------------------------------------------------------------
(* Callers.                                                                *)

Call(c, kind) ==
  /\ CAt(c, "idle") /\ calls < MaxCalls
  /\ calls' = calls + 1
  /\ call' = [call EXCEPT ![c] = [kind |-> kind, nr |-> calls + 1]]
  /\ CGoto(c, kind)
  /\ UNCHANGED <<queues, curThdCount, tasks, using, workers, done, missed>>

\* ExecuteNA and AddAsyncQuery put the statement into their queue.
Queued(c, kind) ==
  /\ CAt(c, kind) /\ CGoto(c, "trigger")
  /\ UNCHANGED <<curThdCount, tasks, using, workers, call, calls, done, missed>>

ExecuteNA(c) ==
  /\ Queued(c, "execute")
  /\ queExecute' = Append(queExecute, call[c].nr) /\ UNCHANGED queQuery

AddAsyncQuery(c) ==
  /\ Queued(c, "query")
  /\ queQuery' = Append(queQuery, call[c].nr) /\ UNCHANGED queExecute

\* A thread is asked for unless there seem to be enough of them.
TriggerRun(c) ==
  /\ CAt(c, "trigger")
  /\ tasks' = IF curThdCount < MaxThdSize THEN tasks + 1 ELSE tasks
  /\ missed' = (missed \/ (~(curThdCount < MaxThdSize) /\ Working = {}))
  /\ IF call[c].kind = "query"
       THEN CGoto(c, "waiting") /\ UNCHANGED call
       ELSE Return(c)
  /\ UNCHANGED <<queues, curThdCount, using, workers, calls, done>>

\* AsyncQueryWait::Wait has no timeout.
Wait(c) ==
  /\ CAt(c, "waiting") /\ call[c].nr \in done
  /\ Return(c)
  /\ UNCHANGED <<queues, curThdCount, tasks, using, workers, calls, done, missed>>

\* WaitExecuteNA takes a connection and sends the statement itself.
WaitExecuteNA(c) ==
  /\ CAt(c, "wait")
  /\ GetFreeConnection(c)
  /\ CGoto(c, "sending")
  /\ UNCHANGED <<queues, curThdCount, tasks, workers, call, calls, done, missed>>

WaitExecuted(c) ==
  /\ CAt(c, "sending")
  /\ done' = done \cup {call[c].nr}
  /\ Unlock(c)
  /\ Return(c)
  /\ UNCHANGED <<queues, curThdCount, tasks, workers, calls, missed>>

-----------------------------------------------------------------------------
(* Pool threads: Database::Run.                                            *)

\* A thread goes on from one place to the next.
Move(w, from, to) == WAt(w, from) /\ WGoto(w, to)

\* A free thread takes the task and counts itself.  Only the pool sees the
\* task taken, so that is no step of its own.
Run(w) ==
  /\ tasks > 0 /\ tasks' = tasks - 1
  /\ curThdCount' = curThdCount + 1
  /\ Move(w, "pool", IF curThdCount + 1 > MaxThdSize THEN "refused" ELSE "connect")
  /\ UNCHANGED <<queues, using, left, cur, callers, done, missed>>

\* atomic_inc and atomic_dec of m_nCurThdCount.
Count(w, from, to, n) ==
  /\ Move(w, from, to)
  /\ curThdCount' = n
  /\ UNCHANGED <<queues, tasks, using, left, cur, callers, done, missed>>

\* Mutant: a refused thread stays counted.
MutRefuse(w) == Count(w, "refused", "pool", curThdCount)

Refuse(w) == Count(w, "refused", "pool", curThdCount - 1)

Connect(w) ==
  /\ Move(w, "connect", "exesize")
  /\ GetFreeConnection(w)
  /\ UNCHANGED <<queues, curThdCount, tasks, left, cur, callers, done, missed>>

\* Each round works off as many statements as there were at its start; other
\* threads may have emptied the queue before that number is reached.
Round(w, from, to, n) ==
  /\ Move(w, from, to)
  /\ left' = [left EXCEPT ![w] = n]
  /\ UNCHANGED <<queues, curThdCount, tasks, using, cur, callers, done, missed>>

ExecuteSize(w) == Round(w, "exesize", "exe", Len(queExecute))
ExecutesDone(w) == /\ left[w] = 0 \/ queExecute = <<>>
                   /\ Round(w, "exe", "qrysize", left[w])
QuerySize(w) == Round(w, "qrysize", "qry", Len(queQuery))
QueriesDone(w) == /\ left[w] = 0 \/ queQuery = <<>>
                  /\ Round(w, "qry", "check", 0)

Take(w, que) ==
  /\ left[w] > 0 /\ que # <<>>
  /\ cur' = [cur EXCEPT ![w] = Head(que)]
  /\ left' = [left EXCEPT ![w] = @ - 1]
  /\ UNCHANGED <<curThdCount, tasks, using, callers, done, missed>>

TakeExecute(w) ==
  /\ Move(w, "exe", "send") /\ Take(w, queExecute)
  /\ queExecute' = Tail(queExecute) /\ UNCHANGED queQuery

TakeQuery(w) ==
  /\ Move(w, "qry", "perform") /\ Take(w, queQuery)
  /\ queQuery' = Tail(queQuery) /\ UNCHANGED queExecute

\* The statement is sent, whatever the database answers.
Sent(w, from, to) ==
  /\ Move(w, from, to)
  /\ done' = done \cup {cur[w]}
  /\ cur' = [cur EXCEPT ![w] = 0]
  /\ UNCHANGED <<queues, curThdCount, tasks, using, left, callers, missed>>

SendQuery(w) == Sent(w, "send", "exe")
PerformAsyncQuery(w) == Sent(w, "perform", "qry")

\* Both queues empty: give the place up, then look again.  A thread that finds
\* work then takes its place back, whoever has it by now.
Look(w, from, que, empty, found) ==
  /\ Move(w, from, IF que = <<>> THEN empty ELSE found)
  /\ UNCHANGED <<queues, curThdCount, tasks, using, left, cur, callers, done, missed>>

Check(w) == Look(w, "check", queExecute, "checkqry", "exesize")
CheckQuery(w) == Look(w, "checkqry", queQuery, "dec", "exesize")
GiveUpPlace(w) == Count(w, "dec", "recheck", curThdCount - 1)

\* Mutant: no second look at the first queue.
MutRecheck(w) == Look(w, "recheck", <<>>, "recheckqry", "rejoin")

Recheck(w) == Look(w, "recheck", queExecute, "recheckqry", "rejoin")
RecheckQuery(w) == Look(w, "recheckqry", queQuery, "release", "rejoin")
Rejoin(w) == Count(w, "rejoin", "exesize", curThdCount + 1)

\* Mutant: the connection is not given back.
MutRelease(w) ==
  /\ Move(w, "release", "pool")
  /\ UNCHANGED <<queues, curThdCount, tasks, using, left, cur, callers, done, missed>>

Release(w) ==
  /\ Move(w, "release", "pool")
  /\ Unlock(w)
  /\ UNCHANGED <<queues, curThdCount, tasks, left, cur, callers, done, missed>>

-----------------------------------------------------------------------------
CallerStep(c) == ExecuteNA(c) \/ AddAsyncQuery(c) \/ TriggerRun(c) \/ Wait(c)
                   \/ WaitExecuteNA(c) \/ WaitExecuted(c)
WorkerStep(w) == Run(w) \/ Refuse(w) \/ Connect(w)
                   \/ ExecuteSize(w) \/ TakeExecute(w) \/ SendQuery(w)
                   \/ ExecutesDone(w) \/ QuerySize(w) \/ TakeQuery(w)
                   \/ PerformAsyncQuery(w) \/ QueriesDone(w) \/ Check(w)
                   \/ CheckQuery(w) \/ GiveUpPlace(w) \/ Recheck(w)
                   \/ RecheckQuery(w) \/ Rejoin(w) \/ Release(w)

Next == \/ \E c \in Callers : \E kind \in Kinds[c] : Call(c, kind)
        \/ \E c \in Callers : CallerStep(c)
        \/ \E w \in PoolThreads : WorkerStep(w)

Spec == Init /\ [][Next]_vars

\* Threads keep running; nobody needs to call.  As calls are finite in number,
\* so are the threads asked for, and a connection that comes free for good is
\* found by whoever still looks for one.
FairSpec ==
  /\ Spec
  /\ \A c \in Callers : WF_vars(CallerStep(c))
  /\ \A w \in PoolThreads : WF_vars(WorkerStep(w))
-----------------------------------------------------------------------------
(* Properties.                                                             *)

WorkerPlaces == WorkingAt \cup
  {"pool", "refused", "recheck", "recheckqry", "rejoin", "release"}
CallerPlaces == {"idle", "execute", "query", "wait", "trigger", "waiting", "sending"}
CallKinds == {"none", "execute", "query", "wait"}

TypeOK ==
  /\ queExecute \in Seq(Nat) /\ queQuery \in Seq(Nat)
  /\ curThdCount \in Nat /\ tasks \in Nat
  /\ using \subseteq PoolThreads \cup Callers
  /\ wpc \in [PoolThreads -> WorkerPlaces]
  /\ left \in [PoolThreads -> Nat] /\ cur \in [PoolThreads -> Nat]
  /\ cpc \in [Callers -> CallerPlaces]
  /\ call \in [Callers -> [kind : CallKinds, nr : Nat]]
  /\ calls \in Nat /\ done \subseteq Nat /\ missed \in BOOLEAN

\* m_nCurThdCount is the number of threads that are working or being refused,
\* so it never falls below zero and is zero when all have left.
PlacesCounted == curThdCount = Cardinality(Working \cup Refused)

CountInv == TypeOK /\ PlacesCounted

\* A thread that will still look at the queue: it is before its last look.
LooksAtExecute(w) == wpc[w] \in WorkingAt \cup {"recheck", "rejoin"}
LooksAtQuery(w) == wpc[w] \in WorkingAt \cup {"recheck", "recheckqry", "rejoin"}

\* A thread is asked for and would not be refused; a caller will ask for one.
Coming == curThdCount < MaxThdSize /\ tasks > 0
Asking == \E c \in Callers : CAt(c, "trigger")

\* No statement is left behind: while one is queued, some thread will look at
\* that queue again, or one is coming.  Only a caller that counted none but
\* refused threads may leave its statement without one.
NoneLeftBehind ==
  ~missed =>
    /\ queExecute # <<>> =>
         Coming \/ Asking \/ \E w \in PoolThreads : LooksAtExecute(w)
    /\ queQuery # <<>> =>
         Coming \/ Asking \/ \E w \in PoolThreads : LooksAtQuery(w)

\* The executor takes no step that Executor does not allow: the statements of a
\* queue are taken up in their order, whichever threads do it, each call is
\* executed once, queued or at once, and never more than there are connections.
executing ==
  {cur[w] : w \in {v \in PoolThreads : wpc[v] \in {"send", "perform"}}}
    \cup {call[c].nr : c \in {d \in Callers : CAt(d, "sending")}}
Promise == INSTANCE Executor WITH
  Calls <- 1 .. MaxCalls, Queues <- {"execute", "query"}, MaxRunning <- MaxThdSize,
  queued <- [q \in {"execute", "query"} |->
               IF q = "execute" THEN queExecute ELSE queQuery],
  running <- executing, ended <- done
ImplementsExecutor == Promise!Spec

\* Every call is executed: a statement that Execute or AddAsyncQuery accepted,
\* or that WaitExecute sends itself.
CallsExecuted == \A i \in 1 .. MaxCalls : (i <= calls) ~> (i \in done)

\* The same as long as no caller counts none but refused threads.
CallsExecutedUnlessMissed == []~missed => CallsExecuted
=============================================================================
