-------------------------- MODULE SpinRWLockProofs --------------------------
(***************************************************************************)
(* LockInv is an invariant of CSpinRWLock for any finite set of threads,   *)
(* any ticket width that numbers them and any choice of entry points; with *)
(* it the lock excludes writers and implements RWLock.                     *)
(***************************************************************************)
EXTENDS SpinRWLock, FiniteSetTheorems, TLAPS

\* Cardinality of the set of threads at one of the locations L, when t moves.
LEMMA CountMove ==
  ASSUME NEW L, NEW t \in Threads, NEW m,
         pc \in [Threads -> Locations], pc' = [pc EXCEPT ![t] = m]
  PROVE  LET S == {u \in Threads : pc[u] \in L}
             R == {u \in Threads : pc'[u] \in L}
         IN /\ Cardinality(S) \in Nat /\ Cardinality(R) \in Nat
            /\ Cardinality(S) <= Cardinality(Threads)
            /\ pc[t] \in L /\ m \in L => R = S /\ Cardinality(R) = Cardinality(S)
            /\ pc[t] \notin L /\ m \notin L
                 => R = S /\ Cardinality(R) = Cardinality(S)
            /\ pc[t] \notin L /\ m \in L
                 => /\ R = S \cup {t} /\ Cardinality(R) = Cardinality(S) + 1
                    /\ Cardinality(S) + 1 <= Cardinality(Threads)
            /\ pc[t] \in L /\ m \notin L
                 => /\ R = S \ {t} /\ Cardinality(R) = Cardinality(S) - 1
                    /\ Cardinality(S) > 0
<1> DEFINE S == {u \in Threads : pc[u] \in L}
           R == {u \in Threads : pc'[u] \in L}
<1>1. IsFiniteSet(S) /\ IsFiniteSet(R)
  <2>1. S \subseteq Threads /\ R \subseteq Threads
    OBVIOUS
  <2> QED
    BY <2>1, FS_Subset, ThreadsAssumption DEF ThreadsAssumption
<1>2. /\ Cardinality(S) \in Nat /\ Cardinality(R) \in Nat
      /\ Cardinality(S) <= Cardinality(Threads)
      /\ Cardinality(R) <= Cardinality(Threads)
  BY <1>1, FS_CardinalityType, FS_Subset, ThreadsAssumption DEF ThreadsAssumption
<1>3. ASSUME pc[t] \in L, m \in L PROVE R = S
  BY <1>3
<1>4. ASSUME pc[t] \notin L, m \notin L PROVE R = S
  BY <1>4
<1>5. ASSUME pc[t] \notin L, m \in L
      PROVE  R = S \cup {t} /\ Cardinality(R) = Cardinality(S) + 1
  <2>1. R = S \cup {t} /\ t \notin S
    BY <1>5
  <2> QED
    BY <2>1, <1>1, FS_AddElement
<1>6. ASSUME pc[t] \in L, m \notin L
      PROVE  R = S \ {t} /\ Cardinality(R) = Cardinality(S) - 1 /\ Cardinality(S) > 0
  <2>1. R = S \ {t} /\ t \in S
    BY <1>6
  <2>2. Cardinality(R) = Cardinality(S) - 1
    BY <2>1, <1>1, FS_RemoveElement
  <2> QED
    BY <2>1, <2>2, <1>2
<1> HIDE DEF S, R
<1>7. /\ pc[t] \in L /\ m \in L => R = S /\ Cardinality(R) = Cardinality(S)
      /\ pc[t] \notin L /\ m \notin L => R = S /\ Cardinality(R) = Cardinality(S)
  BY <1>3, <1>4
<1>8. /\ pc[t] \notin L /\ m \in L
           => /\ R = S \cup {t} /\ Cardinality(R) = Cardinality(S) + 1
              /\ Cardinality(S) + 1 <= Cardinality(Threads)
      /\ pc[t] \in L /\ m \notin L
           => /\ R = S \ {t} /\ Cardinality(R) = Cardinality(S) - 1
              /\ Cardinality(S) > 0
  BY <1>2, <1>5, <1>6
<1> QED
  BY <1>2, <1>7, <1>8 DEF S, R

\* The wheel of tickets: one ticket more, one ticket served.
LEMMA Wheel ==
  ASSUME NEW a \in Tickets, NEW b \in Tickets
  PROVE  /\ Inc(a) \in Tickets /\ Dist(a, b) \in Nat /\ Dist(a, b) < TicketMod
         /\ Dist(a, a) = 0
         /\ Dist(a, b) = 0 => a = b
         /\ Dist(a, b) + 1 < TicketMod => Dist(a, Inc(b)) = Dist(a, b) + 1
         /\ a # b => Dist(Inc(a), b) = Dist(a, b) - 1
BY TicketAssumption DEF TicketAssumption, Tickets, Inc, Dist
-----------------------------------------------------------------------------
(* Type correctness.                                                       *)

\* The initial words are in their ranges.
LEMMA TypeInit == Init => TypeOK
<1>1. 0 \in Tickets
  <2>1. Cardinality(Threads) \in Nat
    BY FS_CardinalityType, ThreadsAssumption DEF ThreadsAssumption
  <2> QED
    BY <2>1, TicketAssumption DEF TicketAssumption, Tickets
<1> QED
  BY <1>1 DEF Init, TypeOK, Locations

\* Every step keeps the words and the locals in their ranges.
LEMMA TypeStep == TypeOK /\ [Next]_vars => TypeOK'
<1> SUFFICES ASSUME TypeOK, [Next]_vars PROVE TypeOK'
  OBVIOUS
<1> USE DEF TypeOK, Locations
<1>1. CASE UNCHANGED vars
  BY <1>1 DEF vars
<1>2. \A x \in Tickets : Inc(x) \in Tickets
  BY Wheel
<1>3. ASSUME NEW t \in Threads, Call(t) PROVE TypeOK'
  <2>1. CASE LockWrite(t)
    BY <2>1, <1>2 DEF LockWrite, DrawTicket, Goto, At
  <2>2. CASE TryLockWrite(t)
    BY <2>2 DEF TryLockWrite, Goto, word
  <2>3. CASE LockRead(t)
    BY <2>3 DEF LockRead, Goto, word
  <2>4. CASE TryLockRead(t)
    BY <2>4 DEF TryLockRead, AtomicIncReader, Goto, word
  <2>5. CASE UpgradeLockRead(t)
    BY <2>5 DEF UpgradeLockRead, AtomicDecReader, Goto, word
  <2>6. CASE DegradeLockWrite(t)
    BY <2>6 DEF DegradeLockWrite, AtomicIncReader, Goto, word
  <2> QED
    BY <1>3, <2>1, <2>2, <2>3, <2>4, <2>5, <2>6 DEF Call
<1>4. ASSUME NEW t \in Threads, WriterStep(t) PROVE TypeOK'
  <2>1. CASE LockTaken(t)
    BY <2>1 DEF LockTaken, Goto, word
  <2>2. CASE EnterWrite(t)
    BY <2>2 DEF EnterWrite, Goto, word
  <2>3. CASE TryLockWriteLock(t)
    BY <2>3, <1>2 DEF TryLockWriteLock, TryTake, DrawTicket, Goto
  <2>4. CASE TryLockWriteCheck(t)
    BY <2>4 DEF TryLockWriteCheck, Goto, word
  <2>5. CASE UpgradeTryLock(t)
    BY <2>5, <1>2 DEF UpgradeTryLock, TryTake, DrawTicket, Goto
  <2> QED
    BY <1>4, <2>1, <2>2, <2>3, <2>4, <2>5 DEF WriterStep
<1>5. ASSUME NEW t \in Threads, ReaderStep(t) PROVE TypeOK'
  <2>1. CASE SeeLockable(t)
    BY <2>1 DEF SeeLockable, Goto, word
  <2>2. CASE SpeculateRead(t)
    BY <2>2 DEF SpeculateRead, AtomicIncReader, Goto, word
  <2>3. CASE Recheck(t)
    BY <2>3 DEF Recheck, Goto, word
  <2>4. CASE UndoRead(t)
    BY <2>4 DEF UndoRead, AtomicDecReader, Goto, word
  <2>5. CASE TryRecheck(t)
    BY <2>5 DEF TryRecheck, Goto, word
  <2>6. CASE TryUndo(t)
    BY <2>6 DEF TryUndo, AtomicDecReader, Goto, word
  <2> QED
    BY <1>5, <2>1, <2>2, <2>3, <2>4, <2>5, <2>6 DEF ReaderStep
<1>6. ASSUME NEW t \in Threads, ReleaseStep(t) PROVE TypeOK'
  <2>1. CASE Unlock(t)
    BY <2>1 DEF Unlock, Goto, word
  <2>2. CASE UnlockRead(t)
    BY <2>2 DEF UnlockRead, AtomicDecReader, Goto, word
  <2>3. CASE LoadTicket(t)
    BY <2>3 DEF LoadTicket, Goto, word
  <2>4. CASE StoreTicket(t)
    <3>1. 0 \in Tickets
      BY TicketAssumption DEF TicketAssumption, Tickets
    <3> QED
      BY <2>4, <3>1, <1>2 DEF StoreTicket, Goto
  <2> QED
    BY <1>6, <2>1, <2>2, <2>3, <2>4 DEF ReleaseStep
<1> QED
  BY <1>1, <1>3, <1>4, <1>5, <1>6 DEF Next, Progress

\* The words of the lock and the locals of the threads keep their ranges:
\* ticket and users never leave the 16-bit wheel.
THEOREM TypeCorrect == Spec => []TypeOK
<1>1. Init => TypeOK
  BY TypeInit
<1>2. TypeOK /\ [Next]_vars => TypeOK'
  BY TypeStep
<1> QED
  BY <1>1, <1>2, PTL DEF Spec
-----------------------------------------------------------------------------
(* The number of counted and of queued threads when t moves.               *)

\* The size of Counted when t moves to m.
LEMMA CountedMove ==
  ASSUME TypeOK, NEW t \in Threads, NEW m, Goto(t, m)
  PROVE  /\ Cardinality(Counted) \in Nat /\ Cardinality(Counted') \in Nat
         /\ (pc[t] \in CountedAt <=> m \in CountedAt)
              => Cardinality(Counted') = Cardinality(Counted)
         /\ pc[t] \notin CountedAt /\ m \in CountedAt
              => Cardinality(Counted') = Cardinality(Counted) + 1
         /\ pc[t] \in CountedAt /\ m \notin CountedAt
              => /\ Cardinality(Counted') = Cardinality(Counted) - 1
                 /\ Cardinality(Counted) > 0
<1>1. pc \in [Threads -> Locations] /\ pc' = [pc EXCEPT ![t] = m]
  BY DEF TypeOK, Goto
<1> QED
  BY <1>1, CountMove DEF Counted

\* The size of Queued when t moves to m; it stays below the ticket wheel.
LEMMA QueuedMove ==
  ASSUME TypeOK, NEW t \in Threads, NEW m, Goto(t, m)
  PROVE  /\ Cardinality(Queued) \in Nat
         /\ (pc[t] \in QueuedAt <=> m \in QueuedAt)
              => Queued' = Queued /\ Cardinality(Queued') = Cardinality(Queued)
         /\ pc[t] \notin QueuedAt /\ m \in QueuedAt
              => /\ Queued' = Queued \cup {t}
                 /\ Cardinality(Queued') = Cardinality(Queued) + 1
                 /\ Cardinality(Queued) + 1 < TicketMod
         /\ pc[t] \in QueuedAt /\ m \notin QueuedAt
              => /\ Queued' = Queued \ {t}
                 /\ Cardinality(Queued') = Cardinality(Queued) - 1
<1>1. pc \in [Threads -> Locations] /\ pc' = [pc EXCEPT ![t] = m]
  BY DEF TypeOK, Goto
<1>2. Cardinality(Threads) \in Nat
  BY FS_CardinalityType, ThreadsAssumption DEF ThreadsAssumption
<1>3. TicketMod \in Nat /\ Cardinality(Threads) < TicketMod
  BY TicketAssumption DEF TicketAssumption
<1>4. /\ Cardinality(Queued) \in Nat
      /\ (pc[t] \in QueuedAt <=> m \in QueuedAt)
           => Queued' = Queued /\ Cardinality(Queued') = Cardinality(Queued)
      /\ pc[t] \notin QueuedAt /\ m \in QueuedAt
           => /\ Queued' = Queued \cup {t}
              /\ Cardinality(Queued') = Cardinality(Queued) + 1
              /\ Cardinality(Queued) + 1 <= Cardinality(Threads)
      /\ pc[t] \in QueuedAt /\ m \notin QueuedAt
           => /\ Queued' = Queued \ {t}
              /\ Cardinality(Queued') = Cardinality(Queued) - 1
  BY <1>1, CountMove DEF Queued
<1> QED
  BY <1>2, <1>3, <1>4

-----------------------------------------------------------------------------
(* What LockInv says of one state.                                         *)

\* While the queue is sound, a free ticket lock has nobody queued for it.
LEMMA FreeMeansEmpty ==
  ASSUME LockInv, lost = 0, Lockable
  PROVE  Queued = {}
<1>1. \A t \in Queued : me[t] \in Tickets /\ Dist(ticket, me[t]) < Dist(ticket, users)
  <2>1. me \in [Threads -> Tickets] /\ Queued \subseteq Threads
    BY DEF LockInv, TypeOK, Queued
  <2>2. \A t \in Queued : Dist(ticket, me[t]) < Dist(ticket, users)
    BY DEF LockInv, TicketQueue
  <2> QED
    BY <2>1, <2>2
<1>2. ticket \in Tickets /\ users \in Tickets
  BY DEF LockInv, TypeOK
<1>3. Dist(ticket, users) = 0
  BY <1>2, Wheel DEF Lockable
<1>4. \A t \in Queued : Dist(ticket, me[t]) \in Nat
  BY <1>1, <1>2, Wheel
<1> QED
  BY <1>1, <1>3, <1>4

\* A writer inside keeps the ticket lock taken, so its own Unlock is a writer's.
LEMMA WriterHoldsTicket ==
  ASSUME LockInv, NEW t \in Threads, pc[t] \in Exclusive
  PROVE  ~Lockable /\ lost = 0 /\ t \in Holders /\ t \in Queued
<1>1. lost = 0
  BY DEF LockInv, WriterAlone
<1>2. t \in Holders /\ t \in Queued
  BY DEF Exclusive, Holders, HolderAt, Queued, QueuedAt
<1> QED
  BY <1>1, <1>2, FreeMeansEmpty

\* Only one thread holds the ticket lock while the queue is sound.
LEMMA OneHolder ==
  ASSUME LockInv, lost = 0, NEW t \in Holders, NEW u \in Holders
  PROVE  t = u
BY DEF LockInv, TicketQueue, Holders, Queued, QueuedAt

\* When m_readers is 0 no thread is counted and no read lock was lost.
LEMMA NoReaders ==
  ASSUME LockInv, readers = 0
  PROVE  Counted = {} /\ lost = 0
<1>1. IsFiniteSet(Counted)
  <2>1. Counted \subseteq Threads
    BY DEF Counted
  <2> QED
    BY <2>1, FS_Subset, ThreadsAssumption DEF ThreadsAssumption
<1>2. Cardinality(Counted) \in Nat /\ lost \in Nat /\ readers \in Nat
  BY <1>1, FS_CardinalityType DEF LockInv, TypeOK
<1>3. Cardinality(Counted) = 0 /\ lost = 0
  BY <1>2 DEF LockInv, ReaderCount
<1> QED
  BY <1>1, <1>3, FS_EmptySet

-----------------------------------------------------------------------------
(* Each part of LockInv is preserved by every step.                        *)

\* m_readers counts the counted threads and the lost read locks.
LEMMA ReaderCountStep == LockInv /\ [Next]_vars => ReaderCount'
<1> SUFFICES ASSUME LockInv, [Next]_vars PROVE ReaderCount'
  OBVIOUS
<1> USE DEF CountedAt
<1>a. /\ TypeOK /\ readers \in Nat /\ lost \in Nat
      /\ readers = Cardinality(Counted) + lost
  BY DEF LockInv, TypeOK, ReaderCount
<1>1. CASE UNCHANGED vars
  BY <1>1, <1>a DEF vars, Counted, ReaderCount
<1>2. ASSUME NEW t \in Threads, Call(t) PROVE ReaderCount'
  <2>1. CASE LockWrite(t)
    BY <2>1, <1>a, CountedMove DEF LockWrite, At, ReaderCount
  <2>2. CASE TryLockWrite(t)
    BY <2>2, <1>a, CountedMove DEF TryLockWrite, At, ReaderCount
  <2>3. CASE LockRead(t)
    BY <2>3, <1>a, CountedMove DEF LockRead, At, ReaderCount
  <2>4. CASE TryLockRead(t)
    BY <2>4, <1>a, CountedMove DEF TryLockRead, At, AtomicIncReader, ReaderCount
  <2>5. CASE UpgradeLockRead(t)
    BY <2>5, <1>a, CountedMove DEF UpgradeLockRead, At, AtomicDecReader, ReaderCount
  <2>6. CASE DegradeLockWrite(t)
    BY <2>6, <1>a, CountedMove DEF DegradeLockWrite, At, AtomicIncReader, ReaderCount
  <2> QED
    BY <1>2, <2>1, <2>2, <2>3, <2>4, <2>5, <2>6 DEF Call
<1>3. ASSUME NEW t \in Threads, WriterStep(t) PROVE ReaderCount'
  <2>1. CASE LockTaken(t)
    BY <2>1, <1>a, CountedMove DEF LockTaken, At, ReaderCount
  <2>2. CASE EnterWrite(t)
    BY <2>2, <1>a, CountedMove DEF EnterWrite, At, ReaderCount
  <2>3. CASE TryLockWriteLock(t)
    BY <2>3, <1>a, CountedMove DEF TryLockWriteLock, At, ReaderCount
  <2>4. CASE TryLockWriteCheck(t)
    BY <2>4, <1>a, CountedMove DEF TryLockWriteCheck, At, ReaderCount
  <2>5. CASE UpgradeTryLock(t)
    BY <2>5, <1>a, CountedMove DEF UpgradeTryLock, At, ReaderCount
  <2> QED
    BY <1>3, <2>1, <2>2, <2>3, <2>4, <2>5 DEF WriterStep
<1>4. ASSUME NEW t \in Threads, ReaderStep(t) PROVE ReaderCount'
  <2>1. CASE SeeLockable(t)
    BY <2>1, <1>a, CountedMove DEF SeeLockable, At, ReaderCount
  <2>2. CASE SpeculateRead(t)
    BY <2>2, <1>a, CountedMove DEF SpeculateRead, At, AtomicIncReader, ReaderCount
  <2>3. CASE Recheck(t)
    BY <2>3, <1>a, CountedMove DEF Recheck, At, ReaderCount
  <2>4. CASE UndoRead(t)
    BY <2>4, <1>a, CountedMove DEF UndoRead, At, AtomicDecReader, ReaderCount
  <2>5. CASE TryRecheck(t)
    BY <2>5, <1>a, CountedMove DEF TryRecheck, At, ReaderCount
  <2>6. CASE TryUndo(t)
    BY <2>6, <1>a, CountedMove DEF TryUndo, At, AtomicDecReader, ReaderCount
  <2> QED
    BY <1>4, <2>1, <2>2, <2>3, <2>4, <2>5, <2>6 DEF ReaderStep
<1>5. ASSUME NEW t \in Threads, ReleaseStep(t) PROVE ReaderCount'
  <2>1. CASE Unlock(t)
    BY <2>1, <1>a, CountedMove, WriterHoldsTicket
    DEF Unlock, UnlockIsWriters, At, Exclusive, ReaderCount
  <2>2. CASE UnlockRead(t)
    BY <2>2, <1>a, CountedMove DEF UnlockRead, At, AtomicDecReader, ReaderCount
  <2>3. CASE LoadTicket(t)
    BY <2>3, <1>a, CountedMove DEF LoadTicket, At, ReaderCount
  <2>4. CASE StoreTicket(t)
    BY <2>4, <1>a, CountedMove DEF StoreTicket, At, ReaderCount
  <2> QED
    BY <1>5, <2>1, <2>2, <2>3, <2>4 DEF ReleaseStep
<1> QED
  BY <1>1, <1>2, <1>3, <1>4, <1>5 DEF Next, Progress

\* A writer inside is alone, and the ticket queue behind it is sound.
LEMMA WriterAloneStep == LockInv /\ [Next]_vars => WriterAlone'
<1> SUFFICES ASSUME LockInv, [Next]_vars PROVE WriterAlone'
  OBVIOUS
<1> USE DEF Exclusive
<1>a. TypeOK /\ WriterAlone
  BY DEF LockInv
<1>b. pc \in [Threads -> Locations]
  BY <1>a DEF TypeOK
<1>1. CASE UNCHANGED vars
  BY <1>1, <1>a DEF vars, WriterAlone
<1>2. ASSUME NEW t \in Threads, Call(t) PROVE WriterAlone'
  <2>1. CASE LockWrite(t)
    BY <2>1, <1>a, <1>b DEF LockWrite, At, Goto, WriterAlone
  <2>2. CASE TryLockWrite(t)
    BY <2>2, <1>a, <1>b DEF TryLockWrite, At, Goto, WriterAlone
  <2>3. CASE LockRead(t)
    BY <2>3, <1>a, <1>b DEF LockRead, At, Goto, WriterAlone
  <2>4. CASE TryLockRead(t)
    BY <2>4, <1>a, <1>b DEF TryLockRead, At, Goto, WriterAlone
  <2>5. CASE UpgradeLockRead(t)
    BY <2>5, <1>a, <1>b DEF UpgradeLockRead, At, Goto, WriterAlone
  <2>6. CASE DegradeLockWrite(t)
    BY <2>6, <1>a, <1>b DEF DegradeLockWrite, At, Goto, WriterAlone
  <2> QED
    BY <1>2, <2>1, <2>2, <2>3, <2>4, <2>5, <2>6 DEF Call
<1>3. ASSUME NEW t \in Threads, WriterStep(t) PROVE WriterAlone'
  <2>1. CASE LockTaken(t)
    BY <2>1, <1>a, <1>b DEF LockTaken, At, Goto, WriterAlone
  <2>2. CASE EnterWrite(t)
    BY <2>2, <1>a, <1>b, NoReaders
    DEF EnterWrite, ReadersGone, At, Goto, WriterAlone, Counted, CountedAt
  <2>3. CASE TryLockWriteLock(t)
    BY <2>3, <1>a, <1>b DEF TryLockWriteLock, At, Goto, WriterAlone
  <2>4. CASE TryLockWriteCheck(t)
    BY <2>4, <1>a, <1>b, NoReaders
    DEF TryLockWriteCheck, ReadersGone, At, Goto, WriterAlone, Counted, CountedAt
  <2>5. CASE UpgradeTryLock(t)
    BY <2>5, <1>a, <1>b DEF UpgradeTryLock, At, Goto, WriterAlone
  <2> QED
    BY <1>3, <2>1, <2>2, <2>3, <2>4, <2>5 DEF WriterStep
<1>4. ASSUME NEW t \in Threads, ReaderStep(t) PROVE WriterAlone'
  <2>1. CASE SeeLockable(t)
    BY <2>1, <1>a, <1>b DEF SeeLockable, At, Goto, WriterAlone
  <2>2. CASE SpeculateRead(t)
    BY <2>2, <1>a, <1>b DEF SpeculateRead, At, Goto, WriterAlone
  <2>3. CASE Recheck(t)
    BY <2>3, <1>a, <1>b, WriterHoldsTicket DEF Recheck, At, Goto, WriterAlone
  <2>4. CASE UndoRead(t)
    BY <2>4, <1>a, <1>b DEF UndoRead, At, Goto, WriterAlone
  <2>5. CASE TryRecheck(t)
    BY <2>5, <1>a, <1>b, WriterHoldsTicket DEF TryRecheck, At, Goto, WriterAlone
  <2>6. CASE TryUndo(t)
    BY <2>6, <1>a, <1>b DEF TryUndo, At, Goto, WriterAlone
  <2> QED
    BY <1>4, <2>1, <2>2, <2>3, <2>4, <2>5, <2>6 DEF ReaderStep
<1>5. ASSUME NEW t \in Threads, ReleaseStep(t) PROVE WriterAlone'
  <2>1. CASE Unlock(t)
    BY <2>1, <1>a, <1>b DEF Unlock, At, Goto, WriterAlone
  <2>2. CASE UnlockRead(t)
    BY <2>2, <1>a, <1>b DEF UnlockRead, At, Goto, WriterAlone
  <2>3. CASE LoadTicket(t)
    BY <2>3, <1>a, <1>b DEF LoadTicket, At, Goto, WriterAlone
  <2>4. CASE StoreTicket(t)
    <3>1. ASSUME pc[t] = "degrade_store", NEW u \in Threads \ {t} PROVE pc[u] \notin Exclusive
      BY <3>1, WriterHoldsTicket, OneHolder
    <3> QED
      BY <2>4, <3>1, <1>a, <1>b DEF StoreTicket, At, Goto, WriterAlone
  <2> QED
    BY <1>5, <2>1, <2>2, <2>3, <2>4 DEF ReleaseStep
<1> QED
  BY <1>1, <1>2, <1>3, <1>4, <1>5 DEF Next, Progress

\* The queue of tickets when a step touches neither the tickets nor the locals.
LEMMA QueueFrame ==
  ASSUME LockInv, NEW t \in Threads, NEW m, Goto(t, m),
         UNCHANGED <<ticket, users, me, seen>>, lost' = lost,
         pc[t] \in QueuedAt <=> m \in QueuedAt,
         lost = 0 /\ m \in HolderAt => pc[t] \in HolderAt \/ me[t] = ticket,
         m \notin {"store", "degrade_store"}
  PROVE  TicketQueue'
<1> SUFFICES ASSUME lost = 0 PROVE TicketQueue'
  BY DEF TicketQueue
<1>1. TypeOK /\ TicketQueue /\ pc \in [Threads -> Locations]
  BY DEF LockInv, TypeOK
<1>2. Queued' = Queued /\ Cardinality(Queued') = Cardinality(Queued)
  BY <1>1, QueuedMove
<1>3. \A u \in Holders' : me[u] = ticket
  BY <1>1 DEF Goto, Holders, TicketQueue
<1>4. \A u \in Threads : pc'[u] \in {"store", "degrade_store"} => seen[u] = ticket
  BY <1>1 DEF Goto, TicketQueue
<1> QED
  BY <1>1, <1>2, <1>3, <1>4 DEF TicketQueue

\* A thread joins the queue: as the last in it, or as the holder of a free lock.
LEMMA QueueJoin ==
  ASSUME LockInv, lost = 0, NEW t \in Threads, NEW m, Goto(t, m), DrawTicket(t),
         UNCHANGED <<ticket, seen, lost>>, pc[t] \notin QueuedAt,
         m = "ticket" \/ (m \in {"drain", "try_drained"} /\ Lockable)
  PROVE  TicketQueue'
<1>1. /\ TypeOK /\ TicketQueue /\ pc \in [Threads -> Locations]
      /\ me \in [Threads -> Tickets] /\ ticket \in Tickets /\ users \in Tickets
  BY DEF LockInv, TypeOK
<1>2. /\ Queued' = Queued \cup {t} /\ t \notin Queued /\ Queued \subseteq Threads
      /\ Cardinality(Queued') = Cardinality(Queued) + 1
      /\ Cardinality(Queued) + 1 < TicketMod
  BY <1>1, QueuedMove DEF QueuedAt, HolderAt, Queued
<1>3. Dist(ticket, users) = Cardinality(Queued)
  BY <1>1 DEF TicketQueue
<1>4. Dist(ticket, Inc(users)) = Dist(ticket, users) + 1 /\ Dist(ticket, users) \in Nat
  BY <1>1, <1>2, <1>3, Wheel
<1>5. users' = Inc(users) /\ me' = [me EXCEPT ![t] = users]
  BY DEF DrawTicket
<1>6. /\ me'[t] = users
      /\ \A u \in Queued : /\ me'[u] = me[u] /\ me[u] \in Tickets
                           /\ Dist(ticket, me[u]) < Dist(ticket, users)
  BY <1>1, <1>2, <1>5 DEF TicketQueue
<1>7. \A u \in Queued' : Dist(ticket', me'[u]) < Dist(ticket', users')
  <2>1. \A u \in Queued : Dist(ticket, me[u]) \in Nat
    BY <1>1, <1>6, Wheel
  <2> QED
    BY <1>2, <1>4, <1>5, <1>6, <2>1
<1>8. \A u, v \in Queued' : u # v => me'[u] # me'[v]
  <2>1. \A u \in Queued : me[u] # users
    BY <1>4, <1>6
  <2> QED
    BY <1>1, <1>2, <1>6, <2>1 DEF TicketQueue
<1>9. \A u \in Holders' : me'[u] = ticket'
  <2>1. CASE m = "ticket"
    <3>1. Holders' = Holders /\ t \notin Holders
      BY <1>1, <2>1 DEF Goto, Holders, HolderAt, QueuedAt
    <3> QED
      BY <1>1, <1>5, <3>1 DEF TicketQueue, Holders
  <2>2. CASE m # "ticket"
    <3>1. Lockable /\ Queued = {}
      BY <2>2, FreeMeansEmpty
    <3>2. Holders' \subseteq Queued'
      BY DEF Holders, Queued, QueuedAt
    <3> QED
      BY <1>2, <1>6, <3>1, <3>2 DEF Lockable
  <2> QED
    BY <2>1, <2>2
<1>10. \A u \in Threads : pc'[u] \in {"store", "degrade_store"} => seen'[u] = ticket'
  BY <1>1 DEF Goto, TicketQueue
<1> QED
  BY <1>2, <1>3, <1>4, <1>5, <1>7, <1>8, <1>9, <1>10 DEF TicketQueue

\* The holder serves the next ticket and leaves the queue.
LEMMA QueueLeave ==
  ASSUME LockInv, lost = 0, NEW t \in Threads, StoreTicket(t)
  PROVE  TicketQueue'
<1>1. /\ TypeOK /\ TicketQueue /\ pc \in [Threads -> Locations]
      /\ me \in [Threads -> Tickets] /\ ticket \in Tickets /\ users \in Tickets
  BY DEF LockInv, TypeOK
<1>2. /\ pc[t] \in {"store", "degrade_store"} /\ t \in Holders /\ t \in Queued
      /\ seen[t] = ticket /\ me[t] = ticket
  BY <1>1 DEF StoreTicket, Holders, HolderAt, Queued, QueuedAt, TicketQueue
<1>3. /\ ticket' = Inc(ticket) /\ users' = users /\ lost' = lost
      /\ me' = [me EXCEPT ![t] = 0] /\ seen' = [seen EXCEPT ![t] = 0]
  BY <1>2 DEF StoreTicket
<1>4. Queued' = Queued \ {t} /\ Cardinality(Queued') = Cardinality(Queued) - 1
  <2>1. CASE pc[t] = "store"
    BY <1>1, <2>1, QueuedMove DEF StoreTicket, At, QueuedAt, HolderAt
  <2>2. CASE pc[t] = "degrade_store"
    BY <1>1, <2>2, QueuedMove DEF StoreTicket, At, QueuedAt, HolderAt
  <2> QED
    BY <1>2, <2>1, <2>2
<1>5. Holders' = {}
  <2>1. Holders' \subseteq Holders \ {t}
    BY <1>1, <1>2 DEF StoreTicket, At, Goto, Holders, HolderAt
  <2> QED
    BY <1>2, <2>1, OneHolder
<1>6. ticket # users
  <2>1. Dist(ticket, users) # 0
    BY <1>1, <1>2, Wheel DEF TicketQueue
  <2> QED
    BY <1>1, <2>1, Wheel
<1>7. Dist(ticket', users') = Dist(ticket, users) - 1
  BY <1>1, <1>3, <1>6, Wheel
<1>8. \A u \in Queued' : /\ u \in Queued /\ me'[u] = me[u] /\ me[u] \in Tickets
                        /\ me[u] # ticket
  <2>1. \A u \in Queued' : u \in Queued /\ u # t /\ u \in Threads
    BY <1>4 DEF Queued
  <2> QED
    BY <1>1, <1>2, <1>3, <2>1 DEF TicketQueue
<1>9. \A u \in Queued' : Dist(ticket', me'[u]) < Dist(ticket', users')
  <2>1. \A u \in Queued' : /\ Dist(ticket', me'[u]) = Dist(ticket, me[u]) - 1
                           /\ Dist(ticket, me[u]) < Dist(ticket, users)
                           /\ Dist(ticket, me[u]) \in Nat
    BY <1>1, <1>3, <1>8, Wheel DEF TicketQueue
  <2>2. Dist(ticket, users) \in Nat
    BY <1>1, Wheel
  <2> QED
    BY <1>7, <2>1, <2>2
<1>10. \A u, v \in Queued' : u # v => me'[u] # me'[v]
  BY <1>1, <1>8 DEF TicketQueue
<1>11. \A u \in Threads : pc'[u] \notin {"store", "degrade_store"}
  BY <1>5 DEF Holders, HolderAt
<1> QED
  BY <1>1, <1>4, <1>5, <1>7, <1>9, <1>10, <1>11 DEF TicketQueue

\* The tickets from ticket to users stay those of the queued threads.
LEMMA TicketQueueStep == LockInv /\ [Next]_vars => TicketQueue'
<1> SUFFICES ASSUME LockInv, [Next]_vars, lost' = 0 PROVE TicketQueue'
  BY DEF TicketQueue
<1> USE DEF QueuedAt, HolderAt
<1>a. TypeOK /\ TicketQueue /\ lost \in Nat
  BY DEF LockInv, TypeOK
<1>1. CASE UNCHANGED vars
  BY <1>1, <1>a DEF vars, TicketQueue, Queued, Holders
<1>2. ASSUME NEW t \in Threads, Call(t) PROVE TicketQueue'
  <2>1. CASE LockWrite(t)
    BY <2>1, QueueJoin DEF LockWrite, At
  <2>2. CASE TryLockWrite(t)
    BY <2>2, QueueFrame DEF TryLockWrite, At, word
  <2>3. CASE LockRead(t)
    BY <2>3, QueueFrame DEF LockRead, At, word
  <2>4. CASE TryLockRead(t)
    BY <2>4, QueueFrame DEF TryLockRead, At, word
  <2>5. CASE UpgradeLockRead(t)
    BY <2>5, QueueFrame DEF UpgradeLockRead, At, word
  <2>6. CASE DegradeLockWrite(t)
    BY <2>6, QueueFrame DEF DegradeLockWrite, At, word
  <2> QED
    BY <1>2, <2>1, <2>2, <2>3, <2>4, <2>5, <2>6 DEF Call
<1>3. ASSUME NEW t \in Threads, WriterStep(t) PROVE TicketQueue'
  <2>1. CASE LockTaken(t)
    <3>1. lost = 0 => me[t] = ticket
      BY <2>1, FreeMeansEmpty DEF LockTaken, TicketServed, At, Queued
    <3> QED
      BY <2>1, <3>1, QueueFrame DEF LockTaken, At, word
  <2>2. CASE EnterWrite(t)
    BY <2>2, QueueFrame DEF EnterWrite, At, word
  <2>3. CASE TryLockWriteLock(t)
    <3>1. CASE TryTake(t) /\ Goto(t, "try_drained")
      BY <2>3, <3>1, QueueJoin DEF TryLockWriteLock, TryTake, At
    <3>2. CASE Goto(t, "idle") /\ UNCHANGED <<users, me>>
      BY <2>3, <3>2, QueueFrame DEF TryLockWriteLock, At
    <3> QED
      BY <2>3, <3>1, <3>2 DEF TryLockWriteLock
  <2>4. CASE TryLockWriteCheck(t)
    BY <2>4, QueueFrame DEF TryLockWriteCheck, At, word
  <2>5. CASE UpgradeTryLock(t)
    BY <2>5, QueueJoin DEF UpgradeTryLock, TryTake, At
  <2> QED
    BY <1>3, <2>1, <2>2, <2>3, <2>4, <2>5 DEF WriterStep
<1>4. ASSUME NEW t \in Threads, ReaderStep(t) PROVE TicketQueue'
  <2>1. CASE SeeLockable(t)
    BY <2>1, QueueFrame DEF SeeLockable, At, word
  <2>2. CASE SpeculateRead(t)
    BY <2>2, QueueFrame DEF SpeculateRead, At, word
  <2>3. CASE Recheck(t)
    BY <2>3, QueueFrame DEF Recheck, At, word
  <2>4. CASE UndoRead(t)
    BY <2>4, QueueFrame DEF UndoRead, At, word
  <2>5. CASE TryRecheck(t)
    BY <2>5, QueueFrame DEF TryRecheck, At, word
  <2>6. CASE TryUndo(t)
    BY <2>6, QueueFrame DEF TryUndo, At, word
  <2> QED
    BY <1>4, <2>1, <2>2, <2>3, <2>4, <2>5, <2>6 DEF ReaderStep
<1>5. ASSUME NEW t \in Threads, ReleaseStep(t) PROVE TicketQueue'
  <2>1. CASE Unlock(t)
    <3>1. CASE pc[t] = "reading"
      BY <2>1, <1>a, <3>1, QueueFrame DEF Unlock, At, word
    <3>2. CASE pc[t] = "writing"
      BY <2>1, <3>2, WriterHoldsTicket, QueueFrame
      DEF Unlock, UnlockIsWriters, At, Exclusive, word
    <3> QED
      BY <2>1, <3>1, <3>2 DEF Unlock
  <2>2. CASE UnlockRead(t)
    BY <2>2, QueueFrame DEF UnlockRead, At, word
  <2>3. CASE LoadTicket(t)
    <3>1. Queued' = Queued /\ Cardinality(Queued') = Cardinality(Queued)
      BY <2>3, <1>a, QueuedMove DEF LoadTicket, At
    <3>2. /\ pc' \in [Threads -> Locations] /\ seen' = [seen EXCEPT ![t] = ticket]
          /\ UNCHANGED <<ticket, users, me, lost>>
      BY <2>3, <1>a, TypeStep DEF LoadTicket, TypeOK, word
    <3>3. Holders' = Holders
      BY <2>3, <1>a DEF LoadTicket, At, Goto, Holders, TypeOK
    <3>4. \A u \in Threads : pc'[u] \in {"store", "degrade_store"} => seen'[u] = ticket
      BY <2>3, <1>a, <3>2 DEF LoadTicket, At, Goto, TypeOK, TicketQueue
    <3> QED
      BY <1>a, <3>1, <3>2, <3>3, <3>4 DEF TicketQueue
  <2>4. CASE StoreTicket(t)
    BY <2>4, QueueLeave DEF StoreTicket
  <2> QED
    BY <1>5, <2>1, <2>2, <2>3, <2>4 DEF ReleaseStep
<1> QED
  BY <1>1, <1>2, <1>3, <1>4, <1>5 DEF Next, Progress

\* The lock starts free.
LEMMA LockInvInit == Init => LockInv
<1> SUFFICES ASSUME Init PROVE LockInv
  OBVIOUS
<1>1. TypeOK
  BY TypeInit
<1>2. Counted = {} /\ Queued = {} /\ Holders = {}
  BY DEF Init, Counted, CountedAt, Queued, QueuedAt, Holders, HolderAt
<1>3. Cardinality(Counted) = 0 /\ Cardinality(Queued) = 0
  BY <1>2, FS_EmptySet
<1>4. Dist(ticket, users) = 0
  BY DEF Init, Dist
<1>5. ReaderCount
  BY <1>3 DEF Init, ReaderCount
<1>6. TicketQueue
  BY <1>2, <1>3, <1>4 DEF Init, TicketQueue
<1>7. WriterAlone
  BY DEF Init, WriterAlone, Exclusive
<1> QED
  BY <1>1, <1>5, <1>6, <1>7 DEF LockInv

\* The inductive invariant: the range of every word, what m_readers counts,
\* whose the tickets from ticket to users are, and that a writer is alone.
THEOREM LockInvariant == Spec => []LockInv
<1>1. Init => LockInv
  BY LockInvInit
<1>2. LockInv /\ [Next]_vars => LockInv'
  BY TypeStep, ReaderCountStep, TicketQueueStep, WriterAloneStep DEF LockInv
<1> QED
  BY <1>1, <1>2, PTL DEF Spec

\* No thread reads or writes beside a writer, for any number of threads: the
\* Unlock calls that release somebody else's ticket never let a second one in.
THEOREM Mutex == Spec => []MutualExclusion
<1>1. LockInv => MutualExclusion
  <2> SUFFICES ASSUME LockInv, NEW t \in Threads, NEW u \in Threads,
                      pc[t] \in Exclusive, t # u
               PROVE  pc[u] \notin Exclusive \cup {"reading"}
    BY DEF MutualExclusion
  <2>1. pc[u] # "reading"
    BY DEF LockInv, WriterAlone
  <2>2. pc[u] \notin Exclusive
    BY WriterHoldsTicket, OneHolder
  <2> QED
    BY <2>1, <2>2
<1> QED
  BY <1>1, LockInvariant, PTL

-----------------------------------------------------------------------------
(* CSpinRWLock implements RWLock.                                          *)

\* What a thread at location l holds.
Hold(l) == IF l \in Exclusive THEN "write" ELSE IF l = "reading" THEN "read" ELSE "none"

\* When t moves to m, only what t holds changes.
LEMMA HoldingMove ==
  ASSUME TypeOK, NEW t \in Threads, NEW m, Goto(t, m)
  PROVE  /\ \A u \in Threads : Holding[u] = Hold(pc[u])
         /\ Holding' = [Holding EXCEPT ![t] = Hold(m)]
         /\ Hold(m) = Hold(pc[t]) => Holding' = Holding
<1>1. pc \in [Threads -> Locations] /\ pc' = [pc EXCEPT ![t] = m]
  BY DEF TypeOK, Goto
<1>2. \A u \in Threads : Holding[u] = Hold(pc[u])
  BY DEF Holding, Hold
<1>3. Holding' = [u \in Threads |-> Hold(pc'[u])]
  BY DEF Holding, Hold, Exclusive
<1>4. Holding = [u \in Threads |-> Hold(pc[u])]
  BY DEF Holding, Hold
<1>5. Holding' = [Holding EXCEPT ![t] = Hold(m)]
  BY <1>1, <1>3, <1>4
<1>6. ASSUME Hold(m) = Hold(pc[t]) PROVE Holding' = Holding
  <2>1. \A u \in Threads : Hold(pc'[u]) = Hold(pc[u])
    BY <1>1, <1>6
  <2> QED
    BY <1>3, <1>4, <2>1
<1> QED
  BY <1>2, <1>5, <1>6

\* A thread that finds no reader while it holds the ticket lock acquires the
\* write lock of RWLock.
LEMMA WriterAcquires ==
  ASSUME LockInv, NEW t \in Threads, pc[t] \in {"drain", "try_drained"},
         readers = 0, Goto(t, "writing")
  PROVE  RW!AcquireWrite(t)
<1>1. Counted = {} /\ lost = 0
  BY NoReaders
<1>2. ASSUME NEW u \in Threads PROVE Hold(pc[u]) = "none"
  <2>1. pc[u] # "reading" /\ pc[u] # "degrade" /\ pc[u] # "degrade_store"
    BY <1>1 DEF Counted, CountedAt
  <2>2. pc[u] # "writing"
    <3>1. t \in Holders
      BY DEF Holders, HolderAt
    <3>2. pc[u] = "writing" => u \in Holders
      BY DEF Holders, HolderAt
    <3> QED
      BY <1>1, <3>1, <3>2, OneHolder
  <2> QED
    BY <2>1, <2>2 DEF Hold, Exclusive
<1>3. TypeOK
  BY DEF LockInv
<1>4. Hold("writing") = "write"
  BY DEF Hold, Exclusive
<1> QED
  BY <1>2, <1>3, <1>4, HoldingMove DEF RW!AcquireWrite

\* A reader that still finds the ticket lock free acquires the read lock.
LEMMA ReaderAcquires ==
  ASSUME LockInv, NEW t \in Threads, pc[t] \in {"recheck", "try_recheck"},
         Lockable, Goto(t, "reading")
  PROVE  RW!AcquireRead(t)
<1>1. \A u \in Threads : Hold(pc[u]) # "write"
  BY WriterHoldsTicket DEF Hold
<1>2. TypeOK
  BY DEF LockInv
<1>3. Hold("reading") = "read" /\ Hold(pc[t]) = "none"
  BY DEF Hold, Exclusive
<1> QED
  BY <1>1, <1>2, <1>3, HoldingMove DEF RW!AcquireRead

\* Every step of the lock is a step of RWLock, or none that a caller sees.
LEMMA RefinementStep == LockInv /\ [Next]_vars => [RW!Next]_Holding
<1> SUFFICES ASSUME LockInv, [Next]_vars PROVE [RW!Next]_Holding
  OBVIOUS
<1> USE DEF Hold, Exclusive
<1>a. TypeOK
  BY DEF LockInv
<1>1. CASE UNCHANGED vars
  BY <1>1 DEF vars, Holding
<1>2. ASSUME NEW t \in Threads, Call(t) PROVE [RW!Next]_Holding
  <2>1. CASE LockWrite(t)
    BY <2>1, <1>a, HoldingMove DEF LockWrite, At
  <2>2. CASE TryLockWrite(t)
    BY <2>2, <1>a, HoldingMove DEF TryLockWrite, At
  <2>3. CASE LockRead(t)
    BY <2>3, <1>a, HoldingMove DEF LockRead, At
  <2>4. CASE TryLockRead(t)
    BY <2>4, <1>a, HoldingMove DEF TryLockRead, At
  <2>5. CASE UpgradeLockRead(t)
    <3>1. RW!Release(t)
      BY <2>5, <1>a, HoldingMove DEF UpgradeLockRead, At, RW!Release
    <3> QED
      BY <3>1 DEF RW!Next
  <2>6. CASE DegradeLockWrite(t)
    BY <2>6, <1>a, HoldingMove DEF DegradeLockWrite, At
  <2> QED
    BY <1>2, <2>1, <2>2, <2>3, <2>4, <2>5, <2>6 DEF Call
<1>3. ASSUME NEW t \in Threads, WriterStep(t) PROVE [RW!Next]_Holding
  <2>1. CASE LockTaken(t)
    BY <2>1, <1>a, HoldingMove DEF LockTaken, At
  <2>2. CASE EnterWrite(t)
    BY <2>2, WriterAcquires DEF EnterWrite, ReadersGone, At, RW!Next
  <2>3. CASE TryLockWriteLock(t)
    BY <2>3, <1>a, HoldingMove DEF TryLockWriteLock, At
  <2>4. CASE TryLockWriteCheck(t)
    <3>1. CASE ReadersGone
      BY <2>4, <3>1, WriterAcquires DEF TryLockWriteCheck, ReadersGone, At, RW!Next
    <3>2. CASE ~ReadersGone
      BY <2>4, <3>2, <1>a, HoldingMove DEF TryLockWriteCheck, At
    <3> QED
      BY <3>1, <3>2
  <2>5. CASE UpgradeTryLock(t)
    BY <2>5, <1>a, HoldingMove DEF UpgradeTryLock, At
  <2> QED
    BY <1>3, <2>1, <2>2, <2>3, <2>4, <2>5 DEF WriterStep
<1>4. ASSUME NEW t \in Threads, ReaderStep(t) PROVE [RW!Next]_Holding
  <2>1. CASE SeeLockable(t)
    BY <2>1, <1>a, HoldingMove DEF SeeLockable, At
  <2>2. CASE SpeculateRead(t)
    BY <2>2, <1>a, HoldingMove DEF SpeculateRead, At
  <2>3. CASE Recheck(t)
    <3>1. CASE Lockable
      BY <2>3, <3>1, ReaderAcquires DEF Recheck, At, RW!Next
    <3>2. CASE ~Lockable
      BY <2>3, <3>2, <1>a, HoldingMove DEF Recheck, At
    <3> QED
      BY <3>1, <3>2
  <2>4. CASE UndoRead(t)
    BY <2>4, <1>a, HoldingMove DEF UndoRead, At
  <2>5. CASE TryRecheck(t)
    <3>1. CASE Lockable
      BY <2>5, <3>1, ReaderAcquires DEF TryRecheck, At, RW!Next
    <3>2. CASE ~Lockable
      BY <2>5, <3>2, <1>a, HoldingMove DEF TryRecheck, At
    <3> QED
      BY <3>1, <3>2
  <2>6. CASE TryUndo(t)
    BY <2>6, <1>a, HoldingMove DEF TryUndo, At
  <2> QED
    BY <1>4, <2>1, <2>2, <2>3, <2>4, <2>5, <2>6 DEF ReaderStep
<1>5. ASSUME NEW t \in Threads, ReleaseStep(t) PROVE [RW!Next]_Holding
  <2>1. CASE Unlock(t)
    <3>1. RW!Release(t)
      BY <2>1, <1>a, HoldingMove DEF Unlock, RW!Release
    <3> QED
      BY <3>1 DEF RW!Next
  <2>2. CASE UnlockRead(t)
    BY <2>2, <1>a, HoldingMove DEF UnlockRead, At
  <2>3. CASE LoadTicket(t)
    BY <2>3, <1>a, HoldingMove DEF LoadTicket, At
  <2>4. CASE StoreTicket(t)
    <3>1. CASE At(t, "store")
      BY <2>4, <3>1, <1>a, HoldingMove DEF StoreTicket, At
    <3>2. CASE At(t, "degrade_store")
      <4>1. RW!Degrade(t)
        BY <2>4, <3>2, <1>a, HoldingMove DEF StoreTicket, At, RW!Degrade
      <4> QED
        BY <4>1 DEF RW!Next
    <3> QED
      BY <2>4, <3>1, <3>2 DEF StoreTicket, At
  <2> QED
    BY <1>5, <2>1, <2>2, <2>3, <2>4 DEF ReleaseStep
<1> QED
  BY <1>1, <1>2, <1>3, <1>4, <1>5 DEF Next, Progress

\* CSpinRWLock implements the reader-writer lock its callers rely on, for any
\* threads and any calls, Upgrade and Degrade included.
THEOREM Refinement == Spec => ImplementsRWLock
<1>1. Init => RW!Init
  BY DEF Init, RW!Init, Holding, Exclusive
<1>2. LockInv /\ [Next]_vars => [RW!Next]_Holding
  BY RefinementStep
<1> QED
  BY <1>1, <1>2, LockInvariant, PTL DEF Spec, ImplementsRWLock, RW!Spec

-----------------------------------------------------------------------------
(* Fairness among the writers.                                             *)

\* A step moves a waiting thread only by taking the lock for it.
LEMMA WaiterMoves ==
  ASSUME TypeOK, [Next]_vars, NEW t \in Threads, At(t, "ticket"), pc'[t] # "ticket"
  PROVE  LockTaken(t)
<1>1. pc \in [Threads -> Locations]
  BY DEF TypeOK
<1>2. PICK u \in Threads : Progress(u) \/ Call(u)
  BY DEF Next, vars, At
<1>3. u = t
  BY <1>1, <1>2 DEF At, Goto, Progress, Call, WriterStep, ReaderStep, ReleaseStep,
     LockWrite, TryLockWrite, LockRead, TryLockRead, UpgradeLockRead, DegradeLockWrite,
     LockTaken, EnterWrite, TryLockWriteLock, TryLockWriteCheck, UpgradeTryLock,
     SeeLockable, SpeculateRead, Recheck, UndoRead, TryRecheck, TryUndo,
     Unlock, UnlockRead, LoadTicket, StoreTicket
<1>4. ~Call(u) /\ ~ReaderStep(u) /\ ~ReleaseStep(u)
  BY <1>3 DEF At, Call, ReaderStep, ReleaseStep,
     LockWrite, TryLockWrite, LockRead, TryLockRead, UpgradeLockRead, DegradeLockWrite,
     SeeLockable, SpeculateRead, Recheck, UndoRead, TryRecheck, TryUndo,
     Unlock, UnlockRead, LoadTicket, StoreTicket
<1> QED
  BY <1>2, <1>3, <1>4 DEF Progress, WriterStep, At,
     EnterWrite, TryLockWriteLock, TryLockWriteCheck, UpgradeTryLock

\* While no read lock was lost, the ticket lock goes to the writers in the
\* order of their tickets.
THEOREM TicketOrder == Spec => FirstComeFirstServed
<1>1. ASSUME LockInv, [Next]_vars
      PROVE  [\A t, u \in Threads :
                /\ lost = 0 /\ At(t, "ticket") /\ At(u, "ticket")
                /\ Dist(ticket, me[u]) < Dist(ticket, me[t])
                => pc'[t] = "ticket"]_vars
  <2> SUFFICES ASSUME NEW t \in Threads, NEW u \in Threads,
                      lost = 0, At(t, "ticket"), At(u, "ticket"), pc'[t] # "ticket"
               PROVE  ~(Dist(ticket, me[u]) < Dist(ticket, me[t]))
    OBVIOUS
  <2>1. TypeOK /\ ticket \in Tickets /\ me[t] \in Tickets /\ me[u] \in Tickets
    BY <1>1 DEF LockInv, TypeOK
  <2>2. LockTaken(t)
    BY <1>1, <2>1, WaiterMoves
  <2>3. me[t] = ticket
    BY <1>1, <2>2, FreeMeansEmpty DEF LockTaken, TicketServed, At, Queued, QueuedAt
  <2>4. Dist(ticket, me[t]) = 0 /\ Dist(ticket, me[u]) \in Nat
    BY <2>1, <2>3, Wheel
  <2> QED
    BY <2>4
<1> QED
  BY <1>1, LockInvariant, PTL DEF Spec, FirstComeFirstServed
=============================================================================
