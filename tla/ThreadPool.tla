---------------------------- MODULE ThreadPool -----------------------------
(***************************************************************************)
(* CThreadPool: threads that take tasks from one queue, wait in an idle    *)
(* area when there are none and are posted by the callers of ExecuteTask.  *)
(*                                                                         *)
(* A step is one use of the queue, of the array of threads under its lock, *)
(* of a thread's semaphore or status, or of m_bShutdown or m_thdsToExit.   *)
(* Idle times are left out: whether the last idle thread waited too long   *)
(* is a choice.  Left out as well: OnShutdown, which only reaches the      *)
(* tasks; m_thdsEaten, which is only printed; StartThreadEx, which nobody  *)
(* calls; the index of a thread outside the array, which nobody reads.     *)
(***************************************************************************)
EXTENDS Integers, Sequences, FiniteSets

CONSTANTS
  Threads,      \* Thread structures there is memory for
  Callers,      \* threads that hand over tasks
  Tasks,        \* the tasks they hand over, each of them once
  NoTask,       \* exeTarget == NULL
  NoThread,     \* an empty place of m_arrThreads
  MaxThreads,   \* THREAD_MAX_SIZE
  Reserve,      \* the count given to Startup
  SemValueMax   \* the largest value of a semaphore

ASSUME NullAssumption == NoTask \notin Tasks /\ NoThread \notin Threads
ASSUME SizeAssumption ==
  MaxThreads \in Nat /\ Reserve \in Nat /\ SemValueMax \in Nat
ASSUME FiniteAssumption == IsFiniteSet(Threads)
\* A thread can be posted at all.
ASSUME PostAssumption == SemValueMax > 0

VARIABLES
  queue,        \* m_pTbQueue
  pool,         \* m_arrThreads, Thread::index, m_nOffset, m_nCurSize
  status,       \* Thread::thdStatus
  sema,         \* the semaphore of each thread's controller
  target,       \* Thread::exeTarget
  pc,           \* threads: place in thread_proc
  cpc, task,    \* callers: place in ExecuteTask, its argument
  main, count,  \* the server's main thread: place, what it counted
  isShutdown,   \* m_bShutdown
  thdsToExit,   \* m_thdsToExit
  done,         \* history: tasks that were run
  missed        \* history: the array was found full of threads that end

callers == <<cpc, task>>
exits == <<isShutdown, thdsToExit>>
mains == <<main, count>>
vars == <<queue, pool, status, sema, target, pc, callers, mains, exits, done,
          missed>>

At(t, l) == pc[t] = l
Goto(t, l) == pc' = [pc EXCEPT ![t] = l]
CAt(c, l) == cpc[c] = l
CGoto(c, l) == cpc' = [cpc EXCEPT ![c] = l]

Slots == 0 .. (MaxThreads - 1)
Active == 0 .. pool.offset
Idle == (pool.offset + 1) .. (pool.size - 1)

Init ==
  /\ queue = <<>>
  /\ pool = [arr |-> [i \in Slots |-> NoThread], index |-> [t \in Threads |-> -1],
             offset |-> -1, size |-> 0]
  /\ status = [t \in Threads |-> "ACTIVE"]
  /\ sema = [t \in Threads |-> 0]
  /\ target = [t \in Threads |-> NoTask]
  /\ pc = [t \in Threads |-> "none"]
  /\ cpc = [c \in Callers |-> "idle"] /\ task = [c \in Callers |-> NoTask]
  /\ main = "startup" /\ count = Reserve
  /\ isShutdown = FALSE /\ thdsToExit = 0
  /\ done = {} /\ missed = FALSE

-----------------------------------------------------------------------------
(* The array: active threads stand in front, up to offset, idle threads    *)
(* behind them.  Each operator is one critical section of m_pArrLock.      *)

Place(p, t, i) ==
  [arr |-> [p.arr EXCEPT ![i] = t], index |-> [p.index EXCEPT ![t] = i],
   offset |-> p.offset, size |-> p.size]
Sized(p, offset, size) ==
  [arr |-> p.arr, index |-> p.index, offset |-> offset, size |-> size]
Remove(p, t, i) ==
  [arr |-> [p.arr EXCEPT ![i] = NoThread], index |-> [p.index EXCEPT ![t] = -1],
   offset |-> p.offset, size |-> p.size]

\* The first idle thread makes room at the end of the array.
InsertActiveThread(p, t) ==
  LET q == IF p.offset + 1 < p.size
             THEN Place(p, p.arr[p.offset + 1], p.size) ELSE p
  IN Sized(Place(q, t, p.offset + 1), p.offset + 1, p.size + 1)

\* Mutant: the thread that makes room keeps its old index.
MutMoveToIdle(p, t) ==
  IF p.index[t] \in 0 .. p.offset
    THEN LET q == [p EXCEPT !.arr = [@ EXCEPT ![p.index[t]] = p.arr[p.offset]]]
         IN Sized(Place(q, t, p.offset), p.offset - 1, p.size)
    ELSE p

\* The first part of EraseThread, and what ThreadExit does to its own place.
MoveToIdle(p, t) ==
  IF p.index[t] \in 0 .. p.offset
    THEN Sized(Place(Place(p, p.arr[p.offset], p.index[t]), t, p.offset),
               p.offset - 1, p.size)
    ELSE p

EraseIdleThread(p, t) ==
  IF p.index[t] \in (p.offset + 1) .. (p.size - 1)
    THEN Sized(Remove(Place(p, p.arr[p.size - 1], p.index[t]), t, p.size - 1),
               p.offset, p.size - 1)
    ELSE p

EraseThread(p, t) == EraseIdleThread(MoveToIdle(p, t), t)

CanPost(t) == sema[t] < SemValueMax
Resume(t) == sema' = [sema EXCEPT ![t] = @ + 1]

\* The structure of a thread that ended is as good as new: index -1, ACTIVE,
\* nothing posted.  Nobody has a place of the array for it any more.
Ended(p, t) ==
  /\ pool' = [p EXCEPT !.index[t] = -1]
  /\ status' = [status EXCEPT ![t] = "ACTIVE"]
  /\ sema' = [sema EXCEPT ![t] = 0]

\* Which structure a new thread gets does not matter.  The thread waits for
\* initFlag, which the same call sets.
Unused == {t \in Threads : At(t, "none")}
StartThread ==
  IF isShutdown
    THEN UNCHANGED pc
    ELSE Unused # {} /\ Goto(CHOOSE t \in Unused : TRUE, "init")

\* A thread that timed out or is to exit stands in the array until Erase.
Ending(t) == At(t, "erase") \/ (At(t, "exit") /\ status[t] = "TIMEOUT")
FullOfEnding ==
  pool.size >= MaxThreads /\ \A i \in 0 .. (pool.size - 1) : Ending(pool.arr[i])

-----------------------------------------------------------------------------
(* Callers.                                                                *)

\* A task that was not handed over before; which one does not matter.
Known == done \cup {queue[i] : i \in DOMAIN queue} \cup {task[c] : c \in Callers}
              \cup {target[t] : t \in Threads}
NewTask == CHOOSE k \in Tasks : k \notin Known

ExecuteTask(c, k) ==
  /\ CAt(c, "idle") /\ main # "startup" /\ ~isShutdown
  /\ Tasks \ Known # {} /\ k = NewTask
  /\ CGoto(c, "write") /\ task' = [task EXCEPT ![c] = k]
  /\ UNCHANGED <<queue, pool, status, sema, target, pc, mains, exits, done, missed>>

\* WriteLock to WriteUnlock.
WriteTask(c) ==
  /\ CAt(c, "write") /\ CGoto(c, "activate")
  /\ queue' = Append(queue, task[c]) /\ task' = [task EXCEPT ![c] = NoTask]
  /\ UNCHANGED <<pool, status, sema, target, pc, mains, exits, done, missed>>

Resumable == {i \in Idle : status[pool.arr[i]] = "FREE" /\ CanPost(pool.arr[i])}

\* The last idle thread that can be posted is posted.  It stays FREE until it
\* runs, so that the next call may post it once more.
ActivateFromIdle(c) ==
  /\ CAt(c, "activate")
  /\ IF Resumable = {}
       THEN /\ CGoto(c, "count")
            /\ UNCHANGED sema
       ELSE /\ \E i \in Resumable :
                 (\A j \in Resumable : j <= i) /\ Resume(pool.arr[i])
            /\ CGoto(c, "idle")
  /\ UNCHANGED <<queue, pool, status, target, pc, task, mains, exits, done, missed>>

GetThreadCount(c) ==
  /\ CAt(c, "count")
  /\ CGoto(c, IF pool.size < MaxThreads THEN "start" ELSE "idle")
  /\ missed' = (missed \/ FullOfEnding)
  /\ UNCHANGED <<queue, pool, status, sema, target, pc, task, mains, exits, done>>

CallerStarts(c) ==
  /\ CAt(c, "start") /\ CGoto(c, "idle")
  /\ StartThread
  /\ UNCHANGED <<queue, pool, status, sema, target, task, mains, exits, done, missed>>

-----------------------------------------------------------------------------
(* thread_proc.                                                            *)

Move(t, from, to) == At(t, from) /\ Goto(t, to)

\* A new thread or one that woke up; when the array is full it ends.
Insert(t) ==
  /\ pc[t] \in {"init", "insert"}
  /\ IF pool.size >= MaxThreads
       THEN Goto(t, "none") /\ Ended(pool, t)
       ELSE /\ Goto(t, "read")
            /\ pool' = InsertActiveThread(pool, t) /\ UNCHANGED <<status, sema>>
  /\ missed' = (missed \/ FullOfEnding)
  /\ UNCHANGED <<queue, target, callers, mains, exits, done>>

\* ReadLock to ReadUnlock.
ReadTask(t) ==
  /\ Move(t, "read", IF queue = <<>> /\ target[t] = NoTask THEN "size" ELSE "run")
  /\ IF queue = <<>>
       THEN UNCHANGED <<queue, target>>
       ELSE target' = [target EXCEPT ![t] = Head(queue)] /\ queue' = Tail(queue)
  /\ UNCHANGED <<pool, status, sema, callers, mains, exits, done, missed>>

\* Mutant: exeTarget is not reset after the task was run.
MutOnRun(t) ==
  /\ Move(t, "run", "size")
  /\ done' = done \cup {target[t]}
  /\ UNCHANGED <<queue, pool, status, sema, target, callers, mains, exits, missed>>

OnRun(t) ==
  /\ Move(t, "run", "size")
  /\ done' = done \cup {target[t]}
  /\ target' = [target EXCEPT ![t] = NoTask]
  /\ UNCHANGED <<queue, pool, status, sema, callers, mains, exits, missed>>

Size(t) ==
  /\ Move(t, "size", IF queue = <<>> THEN "exit" ELSE "read")
  /\ UNCHANGED <<queue, pool, status, sema, target, callers, mains, exits, done, missed>>

\* Mutant: m_thdsToExit is taken down although nobody is to exit.
MutThreadExit(t) ==
  /\ Move(t, "exit", IF thdsToExit > 0 \/ status[t] = "TIMEOUT"
                       THEN "erase" ELSE "free")
  /\ thdsToExit' = thdsToExit - 1
  /\ UNCHANGED <<queue, pool, status, sema, target, callers, mains, isShutdown, done, missed>>

\* The first test of ThreadExit: AtomicDecUntilZero, then the status.
ThreadExit(t) ==
  /\ Move(t, "exit", IF thdsToExit > 0 \/ status[t] = "TIMEOUT"
                       THEN "erase" ELSE "free")
  /\ thdsToExit' = IF thdsToExit > 0 THEN thdsToExit - 1 ELSE thdsToExit
  /\ UNCHANGED <<queue, pool, status, sema, target, callers, mains, isShutdown, done, missed>>

Erase(t) ==
  /\ Move(t, "erase", "none")
  /\ Ended(EraseThread(pool, t), t)
  /\ UNCHANGED <<queue, target, callers, mains, exits, done, missed>>

\* The last thread may have waited too long, unless it only just came.
TimedOut(p, t) ==
  {s \in {p.arr[p.size - 1]} \ {t} : p.size > Reserve /\ p.offset < p.size - 1}

\* The status is set and the thread is moved; nobody reads the one before the
\* other.  A thread that cannot be posted is FREE again.
Free(t) ==
  /\ Move(t, "free", "recheck")
  /\ pool' = MoveToIdle(pool, t)
  /\ \E late \in SUBSET TimedOut(pool', t) :
       /\ status' = [s \in Threads |->
                       IF s = t \/ (s \in late /\ ~CanPost(s)) THEN "FREE"
                       ELSE IF s \in late THEN "TIMEOUT" ELSE status[s]]
       /\ sema' = [s \in Threads |->
                     IF s \in late /\ CanPost(s) THEN sema[s] + 1 ELSE sema[s]]
  /\ UNCHANGED <<queue, target, callers, mains, exits, done, missed>>

\* Mutant: the queue is not looked at again before the thread suspends.
MutRecheck(t) ==
  /\ Move(t, "recheck", "suspend")
  /\ UNCHANGED <<queue, pool, status, sema, target, callers, mains, exits, done, missed>>

Recheck(t) ==
  /\ Move(t, "recheck", IF queue = <<>> THEN "suspend" ELSE "wake")
  /\ UNCHANGED <<queue, pool, status, sema, target, callers, mains, exits, done, missed>>

Suspend(t) ==
  /\ Move(t, "suspend", "wake")
  /\ sema[t] > 0 /\ sema' = [sema EXCEPT ![t] = @ - 1]
  /\ UNCHANGED <<queue, pool, status, target, callers, mains, exits, done, missed>>

Wake(t) ==
  /\ Move(t, "wake", "eraseidle")
  /\ status' = [status EXCEPT ![t] = "ACTIVE"]
  /\ UNCHANGED <<queue, pool, sema, target, callers, mains, exits, done, missed>>

LeaveIdle(t) ==
  /\ Move(t, "eraseidle", "test")
  /\ pool' = EraseIdleThread(pool, t)
  /\ UNCHANGED <<queue, status, sema, target, callers, mains, exits, done, missed>>

TestShutdown(t) ==
  /\ IF isShutdown
       THEN Move(t, "test", "none") /\ Ended(pool, t)
       ELSE Move(t, "test", "insert") /\ UNCHANGED <<pool, status, sema>>
  /\ UNCHANGED <<queue, target, callers, mains, exits, done, missed>>

Thread(t) ==
  Insert(t) \/ ReadTask(t) \/ OnRun(t) \/ Size(t) \/ ThreadExit(t) \/ Erase(t)
  \/ Free(t) \/ Recheck(t) \/ Suspend(t) \/ Wake(t) \/ LeaveIdle(t) \/ TestShutdown(t)

-----------------------------------------------------------------------------
(* The server's main thread: Startup, later Shutdown.                      *)

MAt(l) == main = l
MMove(from, to) == main = from /\ main' = to

Startup ==
  /\ MAt("startup")
  /\ IF count = 0
       THEN main' = "up" /\ UNCHANGED <<count, pc>>
       ELSE count' = count - 1 /\ UNCHANGED main /\ StartThread
  /\ UNCHANGED <<queue, pool, status, sema, target, callers, exits, done, missed>>

Shutdown ==
  /\ MMove("up", "idlecount")
  /\ isShutdown' = TRUE
  /\ UNCHANGED <<queue, pool, status, sema, target, pc, callers, count, thdsToExit, done, missed>>

\* GetIdleThreadCount and GetActiveThreadCount, each before it is used.
CountIdle ==
  /\ MMove("idlecount", "kill") /\ count' = Cardinality(Idle)
  /\ UNCHANGED <<queue, pool, status, sema, target, pc, callers, exits, done, missed>>

\* Each idle thread in turn, until so many were posted.
KillIdleThreads ==
  LET Visited == {i \in Idle :
        Cardinality({j \in Idle : j < i /\ CanPost(pool.arr[j])}) < count}
      Posted == {pool.arr[i] : i \in Visited}
  IN /\ MMove("kill", "activecount")
     /\ thdsToExit' = thdsToExit + Cardinality(Visited)
     /\ sema' = [t \in Threads |->
                   IF t \in Posted /\ CanPost(t) THEN sema[t] + 1 ELSE sema[t]]
     /\ UNCHANGED <<queue, pool, status, target, pc, callers, count, isShutdown, done, missed>>

CountActive ==
  /\ MMove("activecount", "exits") /\ count' = pool.offset + 1
  /\ UNCHANGED <<queue, pool, status, sema, target, pc, callers, exits, done, missed>>

ExitActive ==
  /\ MMove("exits", "loop") /\ thdsToExit' = thdsToExit + count /\ count' = 0
  /\ UNCHANGED <<queue, pool, status, sema, target, pc, callers, isShutdown, done, missed>>

\* Mutant: Shutdown waits for the threads without posting the idle ones again.
MutAwaitThreads ==
  /\ MMove("loop", IF pool.size <= 0 THEN "down" ELSE "loop")
  /\ UNCHANGED <<queue, pool, status, sema, target, pc, callers, count, exits, done, missed>>

\* The loop of Shutdown: a thread may have gone to sleep after KillIdleThreads.
\* The two counts before the lock only save a round.
AwaitThreads ==
  LET Posted == {pool.arr[i] : i \in Idle}
  IN /\ MMove("loop", IF pool.size <= 0 THEN "down" ELSE "loop")
     /\ thdsToExit' = IF thdsToExit = 0 THEN Cardinality(Idle) ELSE thdsToExit
     /\ sema' = [t \in Threads |->
                   IF t \in Posted /\ CanPost(t) THEN sema[t] + 1 ELSE sema[t]]
     /\ UNCHANGED <<queue, pool, status, target, pc, callers, count, isShutdown, done, missed>>

MainThread ==
  Startup \/ CountIdle \/ KillIdleThreads \/ CountActive \/ ExitActive \/ AwaitThreads

CallerStep(c) ==
  WriteTask(c) \/ ActivateFromIdle(c) \/ GetThreadCount(c) \/ CallerStarts(c)

Next ==
  \/ \E c \in Callers, k \in Tasks : ExecuteTask(c, k)
  \/ \E c \in Callers : CallerStep(c)
  \/ \E t \in Threads : Thread(t)
  \/ MainThread \/ Shutdown

Spec == Init /\ [][Next]_vars

\* Every thread is scheduled, tasks end, a call that was begun is ended.  No
\* fairness for the beginning of a call or of Shutdown.
FairSpec ==
  /\ Spec
  /\ \A t \in Threads : WF_vars(Thread(t))
  /\ \A c \in Callers : WF_vars(CallerStep(c))
  /\ WF_vars(MainThread)

-----------------------------------------------------------------------------
(* What must hold.                                                         *)

ThreadPlaces == {"none", "init", "read", "run", "size", "exit", "erase", "free",
                 "recheck", "suspend", "wake", "eraseidle", "test", "insert"}
InActive == {"read", "run", "size", "exit", "erase", "free"}
InIdle == {"recheck", "suspend", "wake", "eraseidle"}

Pools == [arr : [Slots -> Threads \cup {NoThread}], index : [Threads -> -1 .. (MaxThreads - 1)],
          offset : -1 .. (MaxThreads - 1), size : 0 .. MaxThreads]

TypeOK ==
  /\ queue \in Seq(Tasks)
  /\ pool \in Pools
  /\ status \in [Threads -> {"ACTIVE", "FREE", "TIMEOUT"}]
  /\ sema \in [Threads -> 0 .. SemValueMax]
  /\ target \in [Threads -> Tasks \cup {NoTask}]
  /\ pc \in [Threads -> ThreadPlaces]
  /\ cpc \in [Callers -> {"idle", "write", "activate", "count", "start"}]
  /\ task \in [Callers -> Tasks \cup {NoTask}]
  /\ main \in {"startup", "up", "idlecount", "kill", "activecount", "exits", "loop", "down"}
  /\ count \in Nat /\ thdsToExit \in Nat
  /\ isShutdown \in BOOLEAN /\ done \subseteq Tasks /\ missed \in BOOLEAN

\* The threads A stand in front, the threads I behind them, each once and with
\* its index, and nobody else does.
Arranged(p, A, I) ==
  /\ p.offset < p.size
  /\ \A i \in 0 .. p.offset : p.arr[i] \in A /\ p.index[p.arr[i]] = i
  /\ \A i \in (p.offset + 1) .. (p.size - 1) : p.arr[i] \in I /\ p.index[p.arr[i]] = i
  /\ \A t \in A : p.index[t] \in 0 .. p.offset /\ p.arr[p.index[t]] = t
  /\ \A t \in I : p.index[t] \in (p.offset + 1) .. (p.size - 1) /\ p.arr[p.index[t]] = t

ActiveThreads == {t \in Threads : pc[t] \in InActive}
IdleThreads == {t \in Threads : pc[t] \in InIdle}

\* The area of the array a thread stands in is the one its place in thread_proc
\* says.  The swaps of InsertActiveThread, ThreadExit, EraseThread and
\* EraseIdleThread keep it in whatever order the threads come.
ArrayInv == Arranged(pool, ActiveThreads, IdleThreads)

\* A task is in one place at most: with its caller, in the queue, with one
\* thread, or run.
OnePlace ==
  /\ \A c \in Callers : task[c] # NoTask <=> CAt(c, "write")
  /\ \A t \in Threads : target[t] # NoTask <=> At(t, "run")
  /\ \A i, j \in DOMAIN queue : queue[i] = queue[j] => i = j
  /\ \A c, d \in Callers : task[c] = task[d] /\ task[c] # NoTask => c = d
  /\ \A t, u \in Threads : target[t] = target[u] /\ target[t] # NoTask => t = u
  /\ \A c \in Callers, t \in Threads : task[c] # NoTask => task[c] # target[t]
  /\ \A i \in DOMAIN queue :
       /\ \A c \in Callers : queue[i] # task[c]
       /\ \A t \in Threads : queue[i] # target[t]
       /\ queue[i] \notin done
  /\ \A c \in Callers : task[c] \notin done
  /\ \A t \in Threads : target[t] \notin done

\* Threads on their way to the queue; one that timed out ends in ThreadExit.
Looking(t) ==
  \/ pc[t] \in {"init", "read", "run", "size", "free", "recheck", "wake",
               "eraseidle", "test", "insert"}
  \/ At(t, "exit") /\ status[t] # "TIMEOUT"
  \/ At(t, "suspend") /\ sema[t] > 0

\* Before Shutdown no task is left in the queue unless a caller is still in
\* the call that brings a thread, or a thread is on its way to look or was
\* posted: no wakeup is lost.  The exception: all places of the array belong to
\* threads that timed out and end, so that a caller starts none and a thread
\* that comes is turned away.
NoLostWakeup ==
  queue # <<>> /\ ~isShutdown /\ ~missed =>
    \/ \E c \in Callers : cpc[c] # "idle"
    \/ \E t \in Threads : Looking(t)

\* The pool takes no step that TaskPool does not allow: tasks are taken up in
\* the order they were handed over, each is run once, at most MaxThreads at a
\* time.
running == {target[t] : t \in Threads} \ {NoTask}
Promise == INSTANCE TaskPool WITH
  waiting <- queue, running <- running, ended <- done,
  closed <- isShutdown \/ missed
TakesTaskPoolSteps == Promise!SafeSpec

\* For tasks that end it does all that TaskPool promises: while the pool is not
\* shut down and nobody found it full of threads that end, no task waits for
\* ever.
ImplementsTaskPool == Promise!Spec

\* Shutdown ends: its loop posts the threads that went to sleep too late for
\* KillIdleThreads.
ShutdownEnds == isShutdown ~> main = "down"

=============================================================================
