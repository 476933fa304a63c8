# QuixNet: specifications and proofs

QuixNet is a framework for distributed game servers: a master, servants that
start nodes, agents that hold the clients' connections, login and game servers
that do the work, and cache servers that keep rows of MySQL tables in memory and
write them back later. This directory holds TLA+ models of its core, the TLC runs
that check them, and TLAPS proofs. File names below are relative to `src/`.

## The system

### Components

| Component | State | Operations | Modelled |
|---|---|---|---|
| **Cache record** `cache_server/src/CacheMemory.{h,cpp}`, marks in `shared/source/utility/StoreStream.cpp` | value, update mark of each field, cas code, increments since the last flush, change type, `m_bLock`, a reader-writer lock | `SetValue`, `CheckAndSetValue`, `GetValueAndChgType`, `RecoverChgType`, `LoadFromDB`, `LoadCasFromDB`, `UpdateToDB`, `AddToDB`, `DeleteFromDB` | `CacheMemory`, `WriteBack` |
| **Cache table** `CacheMemoryManager.{h,cpp}` | map from key to record, array of records with back-index, round-robin counter, timer | find, insert, add, remove, load all, `CheckAndUpdate`, `CheckUpdateAndReloadRecord`, `Dispose` | `CacheMemory`, one key |
| **Cache requests** `CacheServiceImp.cpp` | none of its own | `HandleGet`, `HandleGets`, `HandleSet`, `HandleCAS`, `HandleAdd`, `HandleDel`, `HandleLoad`, `HandleLoadAll`, `HandleStore` (without values it flushes), the `HandleDB...` ones that bypass the record, the choice of the database | `CacheMemory`, all but the `HandleDB...` and the choice |
| **Spinning lock** `shared/include/threading/SpinRWLock.h`, `SpinLock.h`, `IRWLock.h` | ticket word, reader count, hand-shake of the destructor | lock, try, timed, unlock, upgrade, degrade | `SpinRWLock`, `RWLock` |
| **Database choice** `CacheDBManager.cpp`, `DBIDManager.h` | id of the database per user or server | ask all databases in parallel, take the least loaded | planned |
| **Database executor** `shared/source/database/Database.cpp` | statement queue, query queue, count of workers, connections | execute, query, worker loop, end | `AsyncDatabase`, `Executor`, all but the end |
| **MySQL connection** `MySQLDatabase.cpp` | connection, reconnect | `SendQuery` | its outcomes only |
| **Master's registry** `master_server/src/framework/MasterServiceImp.cpp` | keys of registered servers, module tables, count of global caches, keep-alive timers | register, keep, remove, timeout | planned |
| **Routing** `ChannelManager.h`, `CacheModule.cpp`, `WorkerModule.cpp` | channels, users per channel, counters | add, remove, choose, route | planned |
| **Client sessions** `agent_server/src/AgentLogic.cpp` | socket to player, user to client, login and logout timers, client counter | accept, disconnect, login, replace, delayed logout, timeout, kick, close | `AgentSessions`, all but map ids |
| **Game records** `game_server/src/framework/CacheRecordPool.h` | records of players, timer | as the cache table, against the cache server | planned |
| **Thread pool** `shared/source/threading/ThreadPool.cpp`, `ThreadPool.h`, `ThreadController.h` | task queue, array of threads with an active and an idle area, a semaphore and a status per thread, number of threads to exit | start up, hand over, run, go idle, time out, shut down | `ThreadPool`, `TaskPool` |
| **Timers, queues, reference counts** `TimerEvent.cpp`, `CircleQueue.h`, `AutoPointer.h` | timer lists and mailboxes; nodes; counters | add, remove, fire; read and write locks | planned; of `CAutoPointer` only when a record's address is free; the modules above use a timer as "fires later", a queue as a sequence under a lock |
| **TCP network** `shared/source/network/TCPSocketLinux.cpp`, `TCPLinkInterface.cpp` | table of links, queues of new and lost connections | accept, close, remove, callbacks; send, receive | `AgentSessions`, without the bytes |
| **Node placement, login, modules, HTTP, utilities** | | | not modelled, see below |

### How they interact

A client's message comes in at an agent, is routed to a worker, which sends cache
requests to the cache server that the routing tables give for the user. The cache
server's worker threads run the handlers of `CCacheServiceImp` concurrently. A
handler looks the key up in the table of the user's database, works on the record
under the record's lock, and queries the database **outside** that lock. One timer
thread goes round the table: it removes records that expired and writes changed
ones back. All of these tables and records are guarded by `CSpinRWLock`.

Everything runs on the threads of `CThreadPool`: the handlers, the callbacks of
timers, the workers of `Database` and the agent's `OnRun`. A socket's id is the
agent's name for a connection. The network gives it again once the connection is
closed, while events, timers and table entries with the old meaning are still about.

### What is hard

* **Interleavings.** Between two lock sections of one handler any other may run.
  `LoadCacheRecord` shows an empty record to others while it waits for the
  database; the reply to a CAS reads the code after the update; a record may be
  removed from the table between a handler's find and its set.
* **Failures.** A query may fail, its answer may be lost, or the connection layer
  may send it twice. What was taken out of the record must be handed back, and
  must not undo a set that came in meanwhile.
* **Retries.** A write-back refused by its cas guard loads the cas code and tries
  again; one that finds no row inserts it.
* **Spinning.** Lock words are read and written one at a time, `ticket++` is not
  locked, and `Unlock` does not know who calls it.
* **Progress.** Every change must reach the database some time; every writer must
  get its lock.
* **Sleep and wakeup.** A thread or a worker that finds no work goes idle in steps;
  work that arrives between them must still find somebody (`Database.cpp`,
  `ThreadPool.cpp`). Threads swap their places in the array with threads that are
  themselves in the middle of something.
* **Names given again.** A login spans calls to other nodes; meanwhile the
  connection may close, its id may be given again, the login timer may fire, and the
  user may log in elsewhere (`AgentLogic.cpp`).
* Elsewhere: late answers after a timeout (`CacheDBManager.cpp`), keep-alive timeouts
  against re-registration (`MasterServiceImp.cpp`). `PROJECT.json` lists each hazard
  at its line.

### What makes each part correct

* Lock: a writer is alone; queued writers keep their order; it is a reader-writer
  lock for its callers; a writer that waits gets in.
* Record and table: one flush at a time, and none left locked; a marked field is
  scheduled for the timer; an acknowledged set is not lost; a record without marks
  equals its row; the row never goes back; in the end it has the last values; a cas
  code vouches for one value. (The end is reached only if every wait for a lock ends.)
* Database choice: one database per user. Executor: no statement is left without a
  worker; statements of a queue are taken up in order, each call is executed once, and
  a connection serves one at a time. Registry: the set of keys and the module tables agree, and a timeout
  removes only a server that stopped keeping alive.
* Thread pool: tasks are taken up in order, each once, never more than
  `THREAD_MAX_SIZE` at a time; the array agrees with what its threads do; no wakeup is
  lost and every task is run, unless the pool is shut down or full of threads that end; `Shutdown` ends.
* Sessions: packets of one connection at most are routed for a user; the two maps and
  the counter agree; an open connection is read; one that has not logged in, or whose
  user was given time to come back, is ended by its timer.

## The modules

### RWLock and SpinRWLock

`RWLock` is what `IRWLock` promises: many readers or one writer, a writer may
degrade, an upgrade gives the read lock up first. `SpinRWLock` is `CSpinRWLock`
over `CSpinLock` with one access to `ticket`/`users` (one 32-bit word) or to
`m_readers` per step. `ticket`, `users`, `readers` are those variables; `pc`, `me`
and `seen` are each thread's place in the code, its ticket and what it loaded in
`ticket++`. `lost` is a history variable: the read locks whose `Unlock` took the
writer's branch.

| Code | Actions |
|---|---|
| `LockWrite` | `LockWrite` (draws the ticket), `LockTaken` (served, or the lock looks free), `EnterWrite` (readers gone) |
| `TryLockWrite` | `TryLockWrite`, `TryLockWriteLock`, `TryLockWriteCheck` |
| `LockRead` | `LockRead`, `SeeLockable`, `SpeculateRead`, `Recheck`, `UndoRead` |
| `TryLockRead` | `TryLockRead`, `TryRecheck`, `TryUndo` |
| `Unlock` | `Unlock` (the guess), then `UnlockRead`, or `LoadTicket` and `StoreTicket` |
| `UpgradeLockRead`, `DegradeLockWrite` | `UpgradeLockRead`, `UpgradeTryLock`; `DegradeLockWrite`, `LoadTicket`, `StoreTicket` |

Memory: loads and stores of one word are atomic and appear in one order, which the
locked instructions and x86 give the code; `ticket++` is a separate load and store.
`m_readers` is a natural number: the proof of `ReaderCount` bounds it by the number
of threads and lost read locks. `TryLock` may fail spuriously, because it reads
`users` before it compares.

### WriteBack and CacheMemory

`WriteBack` is what a cached record owes the database behind it: clients set fields at
any time; a flush takes the marked fields, all at once; the database stores what was
taken, perhaps twice or without the flush learning of it; and the flush restores the
marks or forgets what it took. `CacheMemory` implements it while the record stays in
the table (`ImplementsWriteBack`): `cache` and `marked` are the value and the marks of
the record in the table, `taken` what the timer holds in its locals between
`GetValueAndChgType` and the end of `UpdateToDB`, `disk` the row.

`CacheMemory` is one key of one table: the row, the record objects at their addresses,
the table's entry, a program counter and locals (`job`) for each client thread and the
timer. A step is one section under a lock (a method of the record or of the table), or one
query. Keys share nothing but the table's lock and the timer's order, so other keys
would add nothing to what one key's threads can do to each other.

A field's value is the number of the write it came from (`stamp`); 0 is the empty
value of a record that was never filled and 1 is the row at the start. A cas code is
a counter: `cas` the code of the row the record knows, `inc` the sets since. `token`
is what a client knows: a code and the value it came with; `latest` the last value
set in each field. The last two and `stamp` are history variables and guard nothing
but the code that a CAS request carries. A new record starts `Blank`, whatever was at its
address before: the constructors start value, marks, codes, change type and `m_bLock` afresh.

| Code | Actions |
|---|---|
| requests and their end | `Request`, `Finish` (drops the pointers; an object nobody holds is free again) |
| table | `FindMemoryRecord`, `InsertMemoryRecord`, `AddCacheRecord`, `RemoveMemoryRecord` |
| `LoadFromDB`, `SelectAllFromDB` | `LoadFromDB` then `Fill`; `SelectAllFromDB` then `InsertCacheRecord` |
| answers | `ServeGet`, `ServeSet`, `ServeCas`, `CasMismatch` (reload and one more try), `CasReloadFailed`, `ReplyCas`, `StoreTemporary`, `StoreApply` |
| `CheckUpdateAndReloadRecord` | `TryBusy`, `TryTaken`, `CheckChange`, then `TakeValue` ... `Query`, `RecoverChgType`, `LoadCasFromDB`, `ChangeCas`, `Unlock` |
| `UpdateToDB`, `AddToDB` | `TakeValue`, `TakeChgType` (the two halves of `GetValueAndChgType`, which runs under the read lock), `GetDBCas`, `FlushDBCas`, `Query`, `RecoverChgType` |
| `DeleteFromDB` | `DeleteFromDB`, `ResetChgType` |
| `CheckAndUpdate` | `TimerFires` (a live record is swept, an expired one removed and flushed) |

A query has one of the outcomes of `Outcomes`: it ran; it failed before it ran; it
ran and the answer was lost; it ran twice (`MySQLDatabase.cpp:249` sends it again
after a reconnect). `Writable` says that a method under the write lock waits for a
thread inside `GetValueAndChgType`; beyond that the lock is the abstract
reader-writer lock that `SpinRWLock` is shown to implement, so a section is a step.
What is shown is the lock's safety. That a waiting thread gets in is false in general:
the locks of records and of the table have readers
(`GetValue`, `GetValueAndChgType`, `FindMemoryRecord`) and writers (`SetValue`,
`FlushDBCas`, `RecoverChgType`), and `spin_stuck` is how such a lock holds its writers
out for ever. The safety properties of `CacheMemory` do not depend on it, since a thread
may stop anywhere; `EventuallyStored` does, see Fairness.

### Executor and AsyncDatabase

`Executor` is what callers of `Database` rely on: a statement is taken up after those
that were in its queue before it, or executed at once beside the queues, each call once,
and at most `MaxRunning` at a time, since each needs a connection of its own. In
`AsyncDatabase` the calls being executed are the statement in a pool thread's `cur`
between taking it and `Sent`, and the call of a caller in `sending`.

The executor of `Database`: `queExecute` and `queQuery` are the two queues,
`curThdCount` is `m_nCurThdCount`, `using` the holders of a connection, `tasks` how
often the database stands in the thread pool's queue. A step is one access to the
counter, one lock section of a queue, or one query. A call is a number, so `done`
tells which were executed. `missed` is a history variable: a caller found
`m_nCurThdCount` full when every thread in it was being refused.

| Code | Actions |
|---|---|
| `Execute`, `ExecuteNA`; `AddAsyncQuery` | `ExecuteNA`; `AddAsyncQuery`; then `TriggerRun`; a query's caller then waits in `Wait` |
| `WaitExecute`, `WaitExecuteNA`, `Query` | `WaitExecuteNA` (finds a connection), `WaitExecuted` |
| `Run`, lines 228-233 | `Run` (with the pool's hand-over), `Refuse`, `Connect` |
| `Run`, the two inner loops | `ExecuteSize`, `TakeExecute`, `SendQuery`, `ExecutesDone`; `QuerySize`, `TakeQuery`, `PerformAsyncQuery`, `QueriesDone` |
| `Run`, lines 263-277 | `Check`, `CheckQuery`, `GiveUpPlace`, `Recheck`, `RecheckQuery`, `Rejoin`, `Release` |

A failed `SendQuery` is a call that was made: the executor does not look at the
result. The thread pool and `CCircleQueue` are taken as what their callers use of
them: a task is run once by some thread, a queue is a sequence under a lock.

### TaskPool and ThreadPool

`TaskPool` is what callers of `CThreadPool` rely on: a queue of tasks, a bounded set
of running ones, and, until the pool is closed, every waiting task is started.
`ThreadPool` is the code: `queue` is `m_pTbQueue`; `pool` is the array with `m_nOffset`
(the last active place), `m_nCurSize` and each thread's `index`; `sema` the semaphore
that a suspended thread waits on, which can be full; `status`, `target`, `isShutdown`
and `thdsToExit` are the fields of these names; `pc` a thread's place in
`thread_proc`, `cpc` a caller's in `ExecuteTask`, `main` that of the server's main
thread. A step is one use of the queue, one section under `m_pArrLock`, one use of a
semaphore or a flag.

| Code | Actions |
|---|---|
| `ExecuteTask` | `ExecuteTask`, `WriteTask`, `ActivateFromIdle` (posts the last idle thread that can be posted), `GetThreadCount`, `CallerStarts` |
| `thread_proc`, start | `Insert` (`InsertActiveThread`, or the thread ends when the array is full) |
| `thread_proc`, tasks | `ReadTask`, `OnRun`, `Size` |
| `ThreadExit` | `ThreadExit`, then `Erase`, or `Free` (idle area, last idle thread timed out), `Recheck`, `Suspend` |
| `thread_proc`, after the wait | `Wake`, `LeaveIdle` (`EraseIdleThread`), `TestShutdown` |
| `Startup`, `Shutdown` | `Startup`; `Shutdown`, `CountIdle`, `KillIdleThreads`, `CountActive`, `ExitActive`, `AwaitThreads` |

Time is left out: whether the last idle thread waited longer than `DESTORY_THREAD_TIME`
is a choice. `done` and `missed` are history variables; `missed` says that the array
was found full of threads that end: each has read `TIMEOUT` or was told to exit, and
has not left the array. A caller then starts no thread (`ThreadPool.cpp:151`), one
that comes is turned away (303), and a task stays in the queue until the next call.
It takes as many timeouts in the window between `Wake` and `EraseIdleThread` as there
are places, so with the 1008 of the code it is remote; with two places TLC finds it.
`TaskPool` counts this as closed. Three things the model makes plain and no
property of the code forbids. `Wake` sets the status of a woken thread to active
again, also one that timed out, so that it ends only if it meets `TIMEOUT` in the few
steps before (`ThreadPool.cpp:555`). Two calls may post the same idle thread; if its
first task takes long the second waits, although another thread is idle. `Shutdown` may
return while a thread stands between `EraseIdleThread` and its test of `m_bShutdown`,
outside the array that is counted.

### AgentSessions

The sessions of `CAgentLogic`. `player` and `loginTimer` are the entries of
`m_mapPlayers`, `client` and `logoutTimer` those of `m_mapClients`; `queSocketIds` the
queue `ReceivePacket` works on; `link` is the network's table of open connections with
the reason it was given for closing, `closed` the connections whose link is gone and
whose loss is not queued yet, `newConnections` and `lostConnections` the queues
that `OnRun` reads. `armed` are the timers that run and `fired` the callbacks handed to
the pool, which no `Remove` reaches any more; `job` is what each pool thread has read
and not yet finished. A socket is an id and a peer: the maps and
`SocketID::operator==` compare the id, the network compares both, and an id is given
again after its connection closed: from `RemoveSocketLink` on, even before the loss is
queued, because the thread that accepts is not the one that removes
(`TCPSocketLinux.cpp:701-707`).

| Code | Actions |
|---|---|
| network | `Accept`, `RemoveSocketLink` (the id is free), `DisconnectCallback` |
| `OnRun`, its two event queues | `LostConnection` (with the new connection read beside it), `NewConnection`, `InsertSocketId` |
| `HandleLogout` | `SetDelayLogout`, `LogoutNow` (`RemoveSocketId`) |
| timers | `Expire`, `OnLoginTimeout`, `OnLogoutCallback` |
| calls of other nodes | `KickLogged`, `CloseClient` |
| `ReceivePacket`, `HandleDefault` | `DropSocket`, `HandleDefault` |
| `HandleLogin` | `HandleLogin` (`FindSocketId`), `LoginRefused`, `ReplaceSocketId`, `CountClient` |
| `ReplaceSocketId` | `NewClient`, `SameSocket`, `LostEntry`, `MoveClient` |

A new player entry's timer id is not initialised in `ReplaceSocketId`
(`AgentLogic.cpp:230`): `NewClient` takes none or the id of any timer that runs.

Two history variables say when the code can be held to an agreement. `mixed`: an id
stood for two of what it names, because a connection was accepted under an id that an
entry, an event, a thread or a logout timer still uses, or two users came to one
socket, or the uninitialised timer id was that of a timer. `stale`: a login did not
find in `ReplaceSocketId` what `FindSocketId` had told it. What happens then:

* A client that closes the connection during the calls of its own `HandleLogin` is
  entered after its logout was handled; nobody removes the entry (lines 635, 895).
* A connection under an id whose entry is still there is not queued by
  `InsertSocketId` (303-308): its packets are not read until the login timeout closes
  it. A user who comes back on the id he had is refused as "same socket" (260-264).
* A lost and a new connection of the same id read by one `OnRun` are both dropped
  (108-110).
* `NewClient` puts a socket into the queue that its own thread puts back as well, so
  two threads may handle packets of one connection at once (236-239).
* After two overlapping logins of one user `m_clientCount` is off for good (666).
  `CountMatches` excludes this by `stale`: what it shows is that disconnects, timeouts,
  kicks and removals, in any order, leave the counter right.

`OneConnection` and `KnownUser` hold in all of these cases.

## The runs

| Run | Instance | Checks |
|---|---|---|
| `spin_safety` | 3 threads, tickets modulo 4, all entry points | `LockInv`, `MutualExclusion`, `ImplementsRWLock`, `FirstComeFirstServed` hold |
| `spin_writers` | 3 threads, `LockWrite` only, fair | `WriterEnters` holds, no deadlock |
| `spin_stuck` | 3 threads, `LockWrite` and `LockRead`, fair | `WriterEnters` is **violated** |
| `cache_all` | 2 clients, timer, 9 kinds of request, 1 field, 2 requests or expiries, 1 fault | `TypeOK`, `FlushLock`, `DirtyIsScheduled` hold |
| `cache_kept` | 2 clients, timer, get, gets and set, 2 fields, 3 requests, 1 fault, fair | `LatestKept`, `CleanMatchesRow`, `ImplementsWriteBack`, `RowMovesForward`, `EventuallyStored` hold for a record that is cached |
| `cache_cold` | get and set, 1 field, nothing cached | `LatestKept` is **violated** |
| `cache_cas` | gets, set, cas, 6 requests | `CasGuards` is **violated** |
| `db_served` | 2 callers (one executes and waits, one queries), 3 pool threads, 2 connections, 3 calls, fair | `CountInv`, `NoneLeftBehind`, `ImplementsExecutor`, `CallsExecutedUnlessMissed` hold |
| `db_left` | 2 callers that query, 3 pool threads, 1 connection, 3 calls, fair | `CallsExecuted` is **violated** |
| `threadpool_safe` | 1 caller, 2 tasks, 3 threads for 2 places, 1 reserved | `TypeOK`, `ArrayInv`, `OnePlace`, `NoLostWakeup`, `TakesTaskPoolSteps` hold |
| `threadpool_served` | 2 callers, 3 tasks, 3 threads for 1 place, fair | `ImplementsTaskPool`, `ShutdownEnds` hold |
| `agent_sessions` | 2 connections, 2 ids, 2 users, 2 threads, 1 kick or close | `TypeOK`, `OneConnection`, `KnownUser`, `CountMatches`, `SessionsAgree`, `AnonymousIsTimed`, `Heard`, `LogoutIsTimed` hold |

Bounds. Three threads are the fewest at which a writer waits for a reader while
another thread moves the tickets; the tickets are counted modulo 4, the smallest
wheel that three threads cannot fill, so they wrap within a few steps.
`MaxRequests` bounds the requests and the expiries of the record, not the sweeps
of the timer; `MaxFaults` the queries that go wrong. Two requests of any kind on
two threads, with the timer as a third, give every pair of handlers in every
interleaving; three requests in `cache_kept` give two sets and a get around a
write-back and its retry. Seven objects are more than two for each of the three
threads (`ObjectsAssumption`): a thread holds two records at most, so a new record
always finds a free address, and `InsertMemoryRecord` never has to wait for one. In `db_served` two
threads work at the same time, share the queues and meet a third that is refused.
With two connections it takes more than three calls to make a caller count refused
threads only; that case is what `db_left` shows, with one connection, and
`NothingLeftBehind` is proved for any number. Two fields let one be marked while
another is being written back. The pool has one thread more than places, so that a
thread finds the array full and ends, and a second post finds a semaphore that takes
it (`SemValueMax` 2) while a third does not. In `threadpool_served` the limit is one
thread: a caller at the limit starts none, so its task must be found by the one that
is there, which never times out. In `threadpool_safe` threads do, and `missed` becomes
true; it takes a third task to be left behind, and the proof covers any number. Two connections are the fewest for every disagreement of the session maps:
at the same time on two ids, or one after the other on one id. The first logs in one
user, the second the same or another; `MaxTimers` 3 always leaves a free number, one
kick or close meets every step of a login. Ids and threads are symmetric: nothing
compares them but for equality. Stamps and cas codes follow from these bounds and
are in `TypeOK`.

`CHECK_DEADLOCK FALSE` is set where the clients may be silent: in the `db_` and
`threadpool_` runs once the calls are made, in `agent_sessions` once the connections
are used up, in `spin_stuck` and `spin_safety` because of the stuck
writer, in the cache runs without sets left and no record to sweep because the
server then just waits. `spin_writers` and `cache_kept` check deadlock.

Fairness. `SpinRWLock`: `WF_vars(Progress(t))` for each thread: a spinning thread is
scheduled again and again (it calls `cpu_relax`, which yields), and a thread that
holds the lock runs to its `Unlock`, as the scoped locks do. Calls are not fair: no
thread needs to lock. `CacheMemory`: each thread's own steps are weakly fair, and so
is the timer, because `CTimerManager` re-arms the interval of `CheckAndUpdate`.
Requests are not fair, and a query always returns, if only with an error. This
fairness supposes more than the code guarantees: that every section under a record's or
the table's lock is entered in the end. After a reader's `Unlock` took the writer's
branch (`spin_stuck`) that is false: the next `SetValue`, `FlushDBCas` or
`RecoverChgType` spins for ever and the row stays behind. `EventuallyStored` therefore
says that the logic of the cache writes everything back in the executions in which every
wait for such a lock ends; in the others the code does not promise it. The queues and
arrays of the other two models are under `CSpinLock`, which has no readers, and
connections under a mutex.
`AsyncDatabase`: each thread of the pool and each caller inside a call is weakly
fair. That is enough for `GetFreeConnection`, a spin over try-locks: with a finite
number of calls a finite number of threads is asked for, so a connection comes free
that nobody takes away. `ThreadPool`: `FairSpec` schedules every pool thread, every
caller inside a call and the main thread inside `Startup` or `Shutdown`; a thread that
waits on its semaphore is not enabled. It supposes that tasks end. Neither a call nor
`Shutdown` need ever begin. `AgentSessions` states no fairness and no liveness: clients
owe nothing, and that a timer or a thread stands ready for each case is stated as an
invariant.

### What the violated runs show

* **`spin_stuck`.** `Unlock` tests whether the ticket lock is free to find out
  whether a reader or a writer calls. A reader that leaves while a writer holds a
  ticket returns the writer's ticket and stays counted in `m_readers`; the writer
  waits for a reader that is gone. The records and tables of the cache server have
  such locks, so `EventuallyStored` holds only without this. Safety survives: `WriterAlone` shows that nobody
  writes any more once a read lock was lost.
* **`cache_cold`.** A set that meets the empty record of a load still in progress is
  acknowledged and then overwritten by the row.
* **`cache_cas`.** The cas code of a successful CAS is read after the lock was
  released and may be that of another client's later set.

* **`db_left`.** `Run` counts a thread in `m_nCurThdCount` before it turns it away.
  With the last working thread gone after its second look, a caller that still reads
  the refused one asks the pool for none; its query stays in the queue until somebody
  calls again, and `AsyncQueryWait::Wait` has no timeout.

## What is proved

`SpinRWLockProofs` proves, for every finite set `Threads`, every `TicketMod` larger
than their number and every set `Ops` of entry points (assumptions
`ThreadsAssumption` and `TicketAssumption`; the real `TicketMod` is 2^16):

| Theorem | Statement |
|---|---|
| `TypeCorrect` | `Spec => []TypeOK` |
| `LockInvariant` | `Spec => []LockInv` |
| `Mutex` | `Spec => []MutualExclusion` |
| `Refinement` | `Spec => ImplementsRWLock` |
| `TicketOrder` | `Spec => FirstComeFirstServed` |

The argument. Mutual exclusion is not inductive: it needs to know that a writer in
its section has seen `m_readers = 0` **and** that the count is right. `LockInv` is
`TypeOK` and three facts:

* `ReaderCount`: `m_readers` is the number of threads between their increment and
  decrement, plus `lost`;
* `TicketQueue`: while `lost = 0`, the tickets from `ticket` to `users` are exactly
  those of the queued threads, all different, and a holder's is the one being served;
* `WriterAlone`: a writer in its section has no reader beside it and `lost = 0`.

`lost` makes the second fact conditional. After a reader's `Unlock` took the
writer's branch the tickets no longer belong to the threads that drew them, and two
writers may hold the ticket lock at once. They still do not write together, since
`m_readers` never falls to zero again: `ReaderCount` gives `readers >= lost > 0`, and
`EnterWrite` waits for zero. The proof has one lemma per action and fact, over
lemmas on tickets modulo `TicketMod` (`Dist`, `Inc`) and on cardinalities of sets of
threads. The refinement maps `pc` to what a thread holds, and each step to a step or
a stutter of `RWLock`; the ticket order is a consequence of `TicketQueue`.

`AsyncDatabaseProofs` proves, for every set of callers, every finite set of pool
threads, none of which is a caller, and every number of connections
(`ThreadsAssumption`, `SizeAssumption`):

| Theorem | Statement |
|---|---|
| `PlacesAreCounted` | `Spec => []CountInv` |
| `NothingLeftBehind` | `Spec => []NoneLeftBehind` |
| `ExecutorSteps` | `Spec => ImplementsExecutor` |

`CountInv` is `TypeOK` and `curThdCount = Cardinality(Working \cup Refused)`; the two
need each other, since the counter is a natural number only because a thread that
decrements it is in the set. `NoneLeftBehind` is inductive beside `TypeOK`. A thread
that has not had its last look at a queue keeps the statement from being left; one
that passes its last look found the queue empty. `TriggerRun` either makes a thread
come that will not be refused, or reads a full counter; then some thread in it works,
and has its last looks before it, or `missed` is set.

The refinement of `Executor` rests on where calls and connections are.
`NumberInv`: numbers are given out once and none is known that was not given out.
`SingleInv` and `ApartInv`: a call is with its caller, once in one queue, with one
thread or caller that executes it, or executed, and never at two of these places.
`ConnInv`: `using` is the threads between `Connect` and `Release` and the callers in
`sending`. A thread that takes up a statement holds a connection and executes nothing
yet, and whoever executes has a connection of his own, so fewer than `MaxThdSize` are
being executed (`RoomToExecute`). Each action changes the places in one of a few ways
(`WorkerTakes`, `CallerHands`, ...), from which both the invariant and the step of
`Executor` follow.

`ThreadPoolProofs` proves, for any finite set of threads, any callers, any tasks and
any `MaxThreads`, `Reserve` and `SemValueMax` (`NullAssumption`, `SizeAssumption`,
`FiniteAssumption`):

| Theorem | Statement |
|---|---|
| `PoolInvariant` | `Spec => [](TypeOK /\ ArrayInv /\ OnePlace)` |
| `TypeCorrect`, `TaskInOnePlace` | `Spec => []TypeOK`, `Spec => []OnePlace`, its parts |
| `TaskPoolSteps` | `Spec => TakesTaskPoolSteps` |
| `NoWakeupLost` | `Spec => []NoLostWakeup` (with `PostAssumption`: a semaphore can be posted) |

`TypeOK` and `ArrayInv` are inductive together: the size and the border stay in their
ranges only because the threads in each area are those whose place in `thread_proc`
says so. `InsertLemma`, `MoveLemma`, `EraseIdleLemma` and `EraseLemma` say of each
operation what it does to an array with areas `A` and `I`; no step needs the order of
the others. `OnePlace` is inductive beside them. For the refinement the only question
is whether there is room when a task is taken up: the threads that run a task stand in
different active places, and so does the thread that takes one and runs none
(`RoomToRun`), hence fewer than `MaxThreads` tasks run. `NoLostWakeup` is not
inductive: a caller that found nobody to post and a thread that was just turned away
must not count on a thread that sleeps. `Coming` names who will look: a caller about to
post, a thread in the array, one that will find a place there, or, if `Awake` (no
thread waits unposted), one that may not. `Awake` holds when a caller finds nobody to
post, because a thread that waits is `FREE` or was posted (`CanBePosted`), and it stays
so until the queue is empty.

`AgentSessionsProofs` proves, for any ids, finite sets of users and threads, and any
number of connections, timers and closings (`NullAssumption`, `BoundAssumption`,
`LoginsAssumption`, `FiniteAssumption`):

| Theorem | Statement |
|---|---|
| `TypeCorrect` | `Spec => []TypeOK` |
| `RoutedOnce` | `Spec => []OneConnection` |
| `RoutedIsClient` | `Spec => []KnownUser` |
| `ClientsCounted` | `Spec => []CountMatches` |
| `MapsAgree` | `Spec => []SessionsAgree` |

The first two properties of the maps need each other. A user gets a player entry in
`NewClient`, when he is no client and so, by `KnownUser`, has none; in `MoveClient` the
entry moves. `RemoveSocketId` takes the client away only together with his player
entry, which by `OneConnection` is his only one. `CountMatches` follows with the
cardinalities of clients and of threads at the increment. `SessionsAgree` is not
inductive: what breaks the agreement is `InsertSocketId` for a connection with the id
of a client. The strengthening `AgreeInv` follows the ids that were accepted and are
not yet entered: while `mixed` is false each is pending once (`Unique`), and no client,
login or queued open socket has it (`Behind`). Connections are numbered in the order in
which they were accepted (`Numbered`), so an open one is not what an older socket of its
id stands for. `Accept` keeps this because the new connection's id is then unknown to
all of them, or `mixed` becomes true.

`AgentTimersProofs` goes on, from the same assumptions:

| Theorem | Statement |
|---|---|
| `AnonymousTimed` | `Spec => []AnonymousIsTimed` |
| `ConnectionsHeard` | `Spec => []Heard` |
| `LogoutTimed` | `Spec => []LogoutIsTimed` |

The danger for the first and the third is a `Remove` that hits another timer. `TimerInv`
is what excludes it: while `mixed` is false the id in a player entry is that of its own
login timer or of no running one (`LoginOwn`), the id in a client entry that of a logout
timer, and no two entries have the same (`LogoutOwn`). Hence a timer is gone only when
its callback was executed, when the entry it belongs to went or changed, or when its id
was forgotten (`NextLost`), and in each of these cases nobody needs it any more. Two
more parts relate events to connections: one that waits to be entered has no entry yet
(`Fresh`), and no later connection has the id of one that somebody works for
(`Current`), so that a late login or disconnect reaches the connection it was meant for.
For `Heard`, each step leaves an open socket in the queue or with a thread (`NextHears`).

`CacheMemoryProofs` proves, for any finite sets of clients and addresses, any fields,
any kinds of request, and any number of requests and faults (`WorkersAssumption`,
`BoundsAssumption`, `OpsAssumption`, `ObjectsAssumption`):

| Theorem | Statement |
|---|---|
| `TypeCorrect` | `Spec => []TypeOK` |
| `WriteBackLocked` | `Spec => []FlushLock` |
| `MarksScheduled` | `Spec => []DirtyIsScheduled` |

`TypeOK` bounds stamps and cas codes by the number of requests, so it is not inductive
alone: a set that is still to be served must count. `CountType` says
`stamp + Cardinality(Writers) <= requests + 1`, where `Writers` are the clients whose
request has its write ahead, and the types in `TypeInv` are bounded by `stamp` itself.
`PlaceOK` ties each place in a handler to the request, the phase and the record that a
thread there can have; `RoomLemma` finds a free address by counting. The other two are
inductive beside `TypeInv`. `LockInv` reads `FlushLock` in both directions: a thread in
the region finds `m_bLock` set, no other is there on the same record, and a lock that
is set has its owner. `MarkInv` says what would take a change type from under its
marks and why it does not: between the halves of `GetValueAndChgType` no field is
marked, since `Writable` keeps every setter out, and a record that `DeleteFromDB`
resets has left the table. `RecoverChgType` puts marks and change type back together.

`WriteBackProofs` proves of the abstract buffer, for any set of fields, that nothing is
forgotten (`NothingForgotten`) and that no store goes back (`NeverBack`). Its inductive
invariant is `Caught` (a field without a mark has what was taken of it, or else what the
database has) and `Ordered` (the database is behind what was taken, and that behind the
cache). `CacheKeptProofs` proves that `CacheMemory` implements that buffer, and from it,
for any clients, fields, numbers of requests and faults:

| Theorem | Statement, under `CachedCase` |
|---|---|
| `CachedImplements` | `Spec => ImplementsWriteBack` |
| `CleanIsStored` | `Spec => []CleanMatchesRow` |
| `CachedIsLatest` | `Spec => []LatestKept` |
| `RowNeverBack` | `Spec => RowMovesForward` |

`CachedCase` is the case that `cache_kept` is an instance of: the record is cached at
the start, the clients get (with or without the code) and set it, and the timer sweeps
but does not find it expired. The hypothesis is needed: `cache_cold`
shows an acknowledged set overwritten by a load, and the hazards without a property name
the other requests that overwrite or remove a value that was not written. `Kept` is the invariant: the record in the table
stays there with the last values set; a client has that record and stands at a place of
a get or a set; the timer has something taken only between `GetValueAndChgType` and the
end of `UpdateToDB`; while it has, its change type is `UPDATE`, so that a failed query is
recovered, and its new cas code is not below the one its query asks for. Each step is one
of the buffer: a query whose answer was lost is a `Store` that keeps what was taken, until
`Restore` marks it again; so is one that ran twice, whose second run the cas guard refuses
when the first has raised the code.

Only model-checked: liveness (`WriterEnters`, `EventuallyStored`,
`CallsExecutedUnlessMissed`, `ShutdownEnds`, the fairness of `ImplementsTaskPool`), which
is outside what the prover does. Every invariant, action property and refinement that a
passing run checks is also proved.

## Not modelled

* The destructor's hand-shake and the timed entry points of `CSpinRWLock`: no caller
  uses the timed ones, and a lock is destroyed with its record, when nobody holds it.
* `Select` and stored procedures: they bypass the cache.
* The text of queries, serialisation, logs, the order of columns.
* Of `CThreadPool`: `StartThreadEx`, which nobody calls; `OnShutdown`, which only reaches
  the tasks; `ShowStats`; a `pthread_create` that fails; idle times, as a choice.
* Of `CAgentLogic`: map ids (`ChangeMapId`), which only route; the calls to master, cache
  and workers but for the time they take and whether they fail; `m_runningCount`, which
  only delays `OnRun`; packets that are neither a login nor from a socket without an
  entry. `OnRun` reads its two queues in one step, and `HandleLogin` takes the socket and
  looks the user up in one, which commute; serialising a login's answer is taken
  as not failing; `CloseAllClients` is `CloseClient` for each user. `Remove` of a timer
  leaves a callback that was handed to the pool; `Modify` changes only when it fires.
* Node placement on the servants and the login server: short chains of calls over
  other components' state. HTTP, CSV and log code: I/O or sequential formatting.
* Of the network library all but the opening and closing of connections, its reasons and
  the two event queues, which are in `AgentSessions`. `Accept` enters the link and queues
  the new connection in one step: an event queued later is like one that a thread has read
  and not yet handled (`insert`), which the model has for any number of threads.
* `third_party`, generated protobuf code, `login-web`, SQL and scripts.

## Plan

1. *(done)* `RWLock`, `SpinRWLock`, their proofs; `CacheMemory` with its runs.
2. *(done)* `CacheMemory` proofs of `TypeOK`, `FlushLock` and `DirtyIsScheduled`;
   `WriteBack`, which the cached case implements, and the proofs of that case. Left:
   removal, store and an absent row against what the replies said.
3. `RecordIndex`: table, array and back-index for several keys, the timer's round
   robin, `Dispose`. Invariant: array and table hold the same records and
   `arr[i].index = i`; proved for every set of keys.
4. *(done)* `AsyncDatabase` with `Executor` and the proofs. Left: `CCircleQueue` with
   its node reuse as a module that implements the sequence, the end of the threads.
5. `DBRouting`: `GetDBID` with its parallel queries, late answers and the
   check-then-act. Property: one database per user.
6. `MasterRegistry`: register, keep-alive, timeout, remove and count of global
   caches; invariant between the key set, the modules and the timers.
7. *(done)* `TaskPool` and `ThreadPool`, with refinement, liveness and proofs;
   `AgentSessions` with the proofs of all its properties.
