---------------------------- MODULE SpinRWLock ----------------------------
(***************************************************************************)
(* CSpinRWLock over the ticket lock CSpinLock: the lock of every record,   *)
(* cache, route and channel table of the servers.  A step is one access to *)
(* the shared words ticket/users (one 32-bit word) or m_readers, so the    *)
(* threads interleave between a test and the update that relies on it.     *)
(* The destructor's m_waitDone hand-shake and the Timed* variants, which   *)
(* no caller uses, are left out.                                           *)
(***************************************************************************)
EXTENDS Naturals, FiniteSets

CONSTANTS
  Threads,     \* the threads that share one lock
  TicketMod,   \* 2^16: ticket and users are uint16_t
  Ops          \* the entry points the threads call

ThreadsAssumption == IsFiniteSet(Threads)
TicketAssumption  == TicketMod \in Nat /\ Cardinality(Threads) < TicketMod
ASSUME ThreadsAssumption
ASSUME TicketAssumption

VARIABLES
  ticket,    \* m_lock.s.ticket: the ticket being served
  users,     \* m_lock.s.users: the next ticket to hand out
  readers,   \* m_readers
  pc,        \* where each thread is in the lock's code
  me,        \* the ticket a thread drew
  seen,      \* the ticket a thread read in the middle of ticket++
  lost       \* history: read locks whose Unlock took the writer's branch

vars == <<ticket, users, readers, pc, me, seen, lost>>
word == <<ticket, users>>

Tickets == 0 .. TicketMod - 1

\* uint16_t arithmetic: x + 1, and how far b lies ahead of a.
Inc(x) == IF x + 1 = TicketMod THEN 0 ELSE x + 1
Dist(a, b) == IF a <= b THEN b - a ELSE b + TicketMod - a

Locations == {"idle", "ticket", "drain", "writing", "release", "store",
              "wait_lockable", "inc", "recheck", "undo", "reading", "dec",
              "upgrade", "degrade", "degrade_store",
              "try_recheck", "try_undo", "try_lock", "try_drained"}

At(t, l) == pc[t] = l
Goto(t, l) == pc' = [pc EXCEPT ![t] = l]

Lockable == ticket = users
AtomicIncReader == readers' = readers + 1
AtomicDecReader == readers' = IF readers = 0 THEN 0 ELSE readers - 1
DrawTicket(t) == users' = Inc(users) /\ me' = [me EXCEPT ![t] = users]

Init ==
  /\ ticket = 0 /\ users = 0 /\ readers = 0 /\ lost = 0
  /\ pc = [t \in Threads |-> "idle"]
  /\ me = [t \in Threads |-> 0]
  /\ seen = [t \in Threads |-> 0]

-----------------------------------------------------------------------------
(* Writers: LockWrite draws a ticket, waits for its turn, then for the     *)
(* readers to leave.                                                       *)

LockWrite(t) ==
  /\ "write" \in Ops /\ At(t, "idle")
  /\ DrawTicket(t) /\ Goto(t, "ticket")
  /\ UNCHANGED <<ticket, readers, seen, lost>>

\* Mutant: one ticket too early.
MutTicketServed(t) == me[t] \in {ticket, Inc(ticket)} \/ Lockable

\* CSpinLock::Lock leaves its loop when served, or when nobody is served.
TicketServed(t) == ticket = me[t] \/ Lockable

LockTaken(t) ==
  /\ At(t, "ticket") /\ TicketServed(t)
  /\ Goto(t, "drain")
  /\ UNCHANGED <<word, readers, me, seen, lost>>

\* Mutant: the writer does not wait for the readers.
MutReadersGone == TRUE

ReadersGone == readers = 0

EnterWrite(t) ==
  /\ At(t, "drain") /\ ReadersGone
  /\ Goto(t, "writing")
  /\ UNCHANGED <<word, readers, me, seen, lost>>

\* CSpinLock::TryLock swaps (n, n) for (n, n + 1): only a free lock is taken.
TryTake(t) == Lockable /\ DrawTicket(t)

TryLockWrite(t) ==
  /\ "trywrite" \in Ops /\ At(t, "idle") /\ readers = 0
  /\ Goto(t, "try_lock")
  /\ UNCHANGED <<word, readers, me, seen, lost>>

TryLockWriteLock(t) ==
  /\ At(t, "try_lock")
  /\ \/ TryTake(t) /\ Goto(t, "try_drained")
     \/ Goto(t, "idle") /\ UNCHANGED <<users, me>>   \* users read too early
  /\ UNCHANGED <<ticket, readers, seen, lost>>

\* "Oops, a reader started": give the ticket lock back.
TryLockWriteCheck(t) ==
  /\ At(t, "try_drained")
  /\ Goto(t, IF ReadersGone THEN "writing" ELSE "release")
  /\ UNCHANGED <<word, readers, me, seen, lost>>

-----------------------------------------------------------------------------
(* Readers: count themselves in, look again, and undo if a writer came.    *)

LockRead(t) ==
  /\ "read" \in Ops /\ At(t, "idle")
  /\ Goto(t, "wait_lockable")
  /\ UNCHANGED <<word, readers, me, seen, lost>>

SeeLockable(t) ==
  /\ At(t, "wait_lockable") /\ Lockable
  /\ Goto(t, "inc")
  /\ UNCHANGED <<word, readers, me, seen, lost>>

SpeculateRead(t) ==
  /\ At(t, "inc")
  /\ AtomicIncReader /\ Goto(t, "recheck")
  /\ UNCHANGED <<word, me, seen, lost>>

\* Mutant: the reader does not look again after counting itself in.
MutRecheck(t) ==
  /\ At(t, "recheck") /\ Goto(t, "reading")
  /\ UNCHANGED <<word, readers, me, seen, lost>>

Recheck(t) ==
  /\ At(t, "recheck")
  /\ Goto(t, IF Lockable THEN "reading" ELSE "undo")
  /\ UNCHANGED <<word, readers, me, seen, lost>>

\* Mutant: the reader goes back to waiting without counting itself out.
MutUndoRead(t) ==
  /\ At(t, "undo") /\ Goto(t, "wait_lockable")
  /\ UNCHANGED <<word, readers, me, seen, lost>>

UndoRead(t) ==
  /\ At(t, "undo")
  /\ AtomicDecReader /\ Goto(t, "wait_lockable")
  /\ UNCHANGED <<word, me, seen, lost>>

TryLockRead(t) ==
  /\ "tryread" \in Ops /\ At(t, "idle")
  /\ AtomicIncReader /\ Goto(t, "try_recheck")
  /\ UNCHANGED <<word, me, seen, lost>>

TryRecheck(t) ==
  /\ At(t, "try_recheck")
  /\ Goto(t, IF Lockable THEN "reading" ELSE "try_undo")
  /\ UNCHANGED <<word, readers, me, seen, lost>>

TryUndo(t) ==
  /\ At(t, "try_undo")
  /\ AtomicDecReader /\ Goto(t, "idle")
  /\ UNCHANGED <<word, me, seen, lost>>

-----------------------------------------------------------------------------
(* Unlock serves readers and writers alike: it guesses which one the       *)
(* caller is from whether the ticket lock is free.                         *)

UnlockIsWriters == ~Lockable

Unlock(t) ==
  /\ pc[t] \in {"reading", "writing"}
  /\ Goto(t, IF UnlockIsWriters THEN "release" ELSE "dec")
  /\ lost' = IF UnlockIsWriters /\ At(t, "reading") THEN lost + 1 ELSE lost
  /\ UNCHANGED <<word, readers, me, seen>>

UnlockRead(t) ==
  /\ At(t, "dec")
  /\ AtomicDecReader /\ Goto(t, "idle")
  /\ UNCHANGED <<word, me, seen, lost>>

\* CSpinLock::Unlock is a plain ticket++: a load and a store.
LoadTicket(t) ==
  /\ pc[t] \in {"release", "degrade"}
  /\ seen' = [seen EXCEPT ![t] = ticket]
  /\ Goto(t, IF At(t, "release") THEN "store" ELSE "degrade_store")
  /\ UNCHANGED <<word, readers, me, lost>>

\* Mutant: the ticket is stored back as it was loaded.
MutStoreTicket(t) ==
  /\ pc[t] \in {"store", "degrade_store"}
  /\ ticket' = seen[t]
  /\ Goto(t, IF At(t, "store") THEN "idle" ELSE "reading")
  /\ seen' = [seen EXCEPT ![t] = 0] /\ me' = [me EXCEPT ![t] = 0]
  /\ UNCHANGED <<users, readers, lost>>

StoreTicket(t) ==
  /\ pc[t] \in {"store", "degrade_store"}
  /\ ticket' = Inc(seen[t])
  /\ Goto(t, IF At(t, "store") THEN "idle" ELSE "reading")
  /\ seen' = [seen EXCEPT ![t] = 0]    \* the locals are out of scope
  /\ me' = [me EXCEPT ![t] = 0]
  /\ UNCHANGED <<users, readers, lost>>

\* A reader is no longer a reader while it waits to become the writer.
UpgradeLockRead(t) ==
  /\ "upgrade" \in Ops /\ At(t, "reading")
  /\ AtomicDecReader /\ Goto(t, "upgrade")
  /\ UNCHANGED <<word, me, seen, lost>>

UpgradeTryLock(t) ==
  /\ At(t, "upgrade")
  /\ TryTake(t) /\ Goto(t, "drain")
  /\ UNCHANGED <<ticket, readers, seen, lost>>

DegradeLockWrite(t) ==
  /\ "degrade" \in Ops /\ At(t, "writing") /\ ~Lockable
  /\ AtomicIncReader /\ Goto(t, "degrade")
  /\ UNCHANGED <<word, me, seen, lost>>

-----------------------------------------------------------------------------
WriterStep(t) == LockTaken(t) \/ EnterWrite(t) \/ TryLockWriteLock(t)
                   \/ TryLockWriteCheck(t) \/ UpgradeTryLock(t)
ReaderStep(t) == SeeLockable(t) \/ SpeculateRead(t) \/ Recheck(t)
                   \/ UndoRead(t) \/ TryRecheck(t) \/ TryUndo(t)
ReleaseStep(t) == Unlock(t) \/ UnlockRead(t) \/ LoadTicket(t) \/ StoreTicket(t)

\* The steps a running thread takes by itself once it has called the lock.
Progress(t) == WriterStep(t) \/ ReaderStep(t) \/ ReleaseStep(t)

Call(t) == LockWrite(t) \/ TryLockWrite(t) \/ LockRead(t) \/ TryLockRead(t)
             \/ UpgradeLockRead(t) \/ DegradeLockWrite(t)

Next == \E t \in Threads : Progress(t) \/ Call(t)

Spec == Init /\ [][Next]_vars

\* Every spinning thread keeps being scheduled and every holder unlocks.
FairSpec == Spec /\ \A t \in Threads : WF_vars(Progress(t))
-----------------------------------------------------------------------------
(* Properties.                                                             *)

TypeOK ==
  /\ ticket \in Tickets /\ users \in Tickets
  /\ readers \in Nat /\ lost \in Nat
  /\ pc \in [Threads -> Locations]
  /\ me \in [Threads -> Tickets]
  /\ seen \in [Threads -> Tickets]

Exclusive == {"writing", "degrade", "degrade_store"}

\* A thread in its write section is alone: no other thread reads or writes,
\* whatever the Unlock calls of readers did to the ticket lock before.
MutualExclusion ==
  \A t, u \in Threads : pc[t] \in Exclusive /\ t # u
                          => pc[u] \notin Exclusive \cup {"reading"}

\* The threads that m_readers counts, and those with a ticket not yet returned.
CountedAt == {"recheck", "undo", "reading", "dec", "try_recheck", "try_undo",
              "degrade", "degrade_store"}
HolderAt == {"drain", "writing", "degrade", "degrade_store", "try_drained",
             "release", "store"}
QueuedAt == HolderAt \cup {"ticket"}
Counted == {t \in Threads : pc[t] \in CountedAt}
Holders == {t \in Threads : pc[t] \in HolderAt}
Queued  == {t \in Threads : pc[t] \in QueuedAt}

\* m_readers is the number of counted threads, plus one for every read lock
\* whose Unlock released the ticket lock instead of leaving m_readers.
ReaderCount == readers = Cardinality(Counted) + lost

\* As long as no such Unlock happened, ticket..users are exactly the tickets
\* of the queued threads, all different, and a holder's is the one served.
TicketQueue ==
  lost = 0 =>
    /\ Dist(ticket, users) = Cardinality(Queued)
    /\ \A t \in Queued : Dist(ticket, me[t]) < Dist(ticket, users)
    /\ \A t, u \in Queued : t # u => me[t] # me[u]
    /\ \A t \in Holders : me[t] = ticket
    /\ \A t \in Threads : pc[t] \in {"store", "degrade_store"}
                            => seen[t] = ticket

\* A writer inside has no reader beside it and no lost read lock behind it.
WriterAlone ==
  \A t \in Threads : pc[t] \in Exclusive
     => lost = 0 /\ \A u \in Threads : pc[u] # "reading"

LockInv == TypeOK /\ ReaderCount /\ TicketQueue /\ WriterAlone

\* CSpinRWLock is a reader-writer lock in the sense of RWLock.
Holding == [t \in Threads |-> IF pc[t] \in Exclusive THEN "write"
                              ELSE IF pc[t] = "reading" THEN "read" ELSE "none"]
RW == INSTANCE RWLock WITH holding <- Holding
ImplementsRWLock == RW!Spec

\* Tickets are served in the order they were drawn: while the queue is sound,
\* a thread never gets the ticket lock over one that drew its ticket earlier.
FirstComeFirstServed ==
  [][\A t, u \in Threads :
       /\ lost = 0 /\ At(t, "ticket") /\ At(u, "ticket")
       /\ Dist(ticket, me[u]) < Dist(ticket, me[t])
       => pc'[t] = "ticket"]_vars

\* LockWrite blocks until the lock is acquired, and then it is: a thread that
\* drew a ticket reaches its write section.
WriterEnters == \A t \in Threads : At(t, "ticket") ~> At(t, "writing")
=============================================================================
