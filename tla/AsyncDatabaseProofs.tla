------------------------ MODULE AsyncDatabaseProofs ------------------------
(***************************************************************************)
(* For any callers, threads and number of connections: m_nCurThdCount      *)
(* counts the threads at work or being refused, and no statement is left   *)
(* in a queue that nobody will look at, unless a caller counted refused    *)
(* threads only; every step is one of Executor's, or none of its concern.  *)
(***************************************************************************)
EXTENDS AsyncDatabase, FiniteSetTheorems, TLAPS

CountedAt == WorkingAt \cup {"refused"}
Counted == {w \in PoolThreads : wpc[w] \in CountedAt}

LEMMA CountedIs == Counted = Working \cup Refused
  BY DEF Counted, CountedAt, Working, Refused, WAt

LEMMA CountedFinite == IsFiniteSet(Counted) /\ Cardinality(Counted) \in Nat
<1>1. Counted \subseteq PoolThreads
  BY DEF Counted
<1> QED
  BY <1>1, ThreadsAssumption, FS_Subset, FS_CardinalityType

(* A thread that goes on without crossing the counter.                     *)
LEMMA Stays ==
  ASSUME TypeOK, NEW w \in PoolThreads, NEW l, WGoto(w, l),
         wpc[w] \in CountedAt <=> l \in CountedAt
  PROVE  Counted' = Counted
  BY DEF TypeOK, WGoto, Counted

(* A thread that joins those counted.                                      *)
LEMMA Joins ==
  ASSUME TypeOK, NEW w \in PoolThreads, NEW l, WGoto(w, l),
         wpc[w] \notin CountedAt, l \in CountedAt
  PROVE  Cardinality(Counted') = Cardinality(Counted) + 1
<1>1. Counted' = Counted \cup {w} /\ w \notin Counted
  BY DEF TypeOK, WGoto, Counted, CountedAt
<1> QED
  BY <1>1, CountedFinite, FS_AddElement

(* A thread that leaves them; one is left to leave.                        *)
LEMMA Leaves ==
  ASSUME TypeOK, NEW w \in PoolThreads, NEW l, WGoto(w, l),
         wpc[w] \in CountedAt, l \notin CountedAt
  PROVE  /\ Cardinality(Counted') = Cardinality(Counted) - 1
         /\ Cardinality(Counted) > 0
<1>1. Counted' = Counted \ {w} /\ w \in Counted
  BY DEF TypeOK, WGoto, Counted, CountedAt
<1>2. Cardinality(Counted') = Cardinality(Counted) - 1
  BY <1>1, CountedFinite, FS_RemoveElement
<1>3. Cardinality(Counted) # 0
  BY <1>1, CountedFinite, FS_EmptySet
<1> QED
  BY <1>2, <1>3, CountedFinite

-----------------------------------------------------------------------------
LEMMA InitCount == Init => CountInv
<1> SUFFICES ASSUME Init PROVE CountInv
  OBVIOUS
<1>1. TypeOK
  <2>1. missed \in BOOLEAN
    BY Zenon DEF Init
  <2>2. call \in [Callers -> [kind : CallKinds, nr : Nat]]
    BY DEF Init, NoCall, CallKinds
  <2>3. queExecute \in Seq(Nat) /\ queQuery \in Seq(Nat)
    BY DEF Init
  <2> QED
    BY <2>1, <2>2, <2>3 DEF Init, TypeOK, WorkerPlaces, CallerPlaces
<1>2. Counted = {}
  BY DEF Init, Counted, CountedAt, WorkingAt
<1>3. PlacesCounted
  BY <1>2, CountedIs, FS_EmptySet DEF Init, PlacesCounted
<1> QED
  BY <1>1, <1>3 DEF CountInv

(* A caller's step keeps the type and moves no pool thread.                *)
LEMMA CallerCount ==
  ASSUME CountInv, NEW c \in Callers,
         CallerStep(c) \/ \E kind \in Kinds[c] : Call(c, kind)
  PROVE  CountInv'
<1> USE DEF Queued, CountInv, PlacesCounted, CAt, CGoto, Return, queues, workers,
            CallerPlaces, CallKinds, NoCall
<1>0. PlacesCounted' /\ wpc' = wpc
  BY DEF CallerStep, Call, ExecuteNA, AddAsyncQuery, TriggerRun, Wait,
     WaitExecuteNA, WaitExecuted, Working, Refused, WAt
<1>1. ASSUME NEW kind \in Kinds[c], Call(c, kind) PROVE TypeOK'
  <2>1. kind \in {"execute", "query", "wait"}
    BY <1>1, ThreadsAssumption
  <2> QED
    BY <1>1, <2>1 DEF Call, TypeOK
<1>2. CASE ExecuteNA(c)
  BY <1>0, <1>2 DEF ExecuteNA, TypeOK, callers
<1>3. CASE AddAsyncQuery(c)
  BY <1>0, <1>3 DEF AddAsyncQuery, TypeOK, callers
<1>4. CASE TriggerRun(c)
  <2>1. cpc' \in [Callers -> CallerPlaces] /\ call' \in [Callers -> [kind : CallKinds, nr : Nat]]
    <3>1. CASE call[c].kind = "query"
      <4>1. cpc' = [cpc EXCEPT ![c] = "waiting"] /\ call' = call
        BY <1>4, <3>1 DEF TriggerRun
      <4> QED
        BY <4>1 DEF TypeOK
    <3>2. CASE ~(call[c].kind = "query")
      <4>1. /\ cpc' = [cpc EXCEPT ![c] = "idle"]
            /\ call' = [call EXCEPT ![c] = NoCall]
        BY <1>4, <3>2, Zenon DEF TriggerRun
      <4> QED
        BY <4>1 DEF TypeOK
    <3> QED
      BY <3>1, <3>2
  <2>2. tasks' \in Nat
    BY <1>4, SizeAssumption DEF TriggerRun, TypeOK
  <2>3. missed' \in BOOLEAN
    <3>1. missed' = (missed \/ (~(curThdCount < MaxThdSize) /\ Working = {}))
      BY <1>4 DEF TriggerRun
    <3> QED
      BY <3>1, Zenon
  <2> QED
    BY <1>0, <1>4, <2>1, <2>2, <2>3 DEF TriggerRun, TypeOK
<1>5. CASE Wait(c)
  BY <1>0, <1>5 DEF Wait, TypeOK
<1>6. CASE WaitExecuteNA(c)
  BY <1>0, <1>6 DEF WaitExecuteNA, GetFreeConnection, TypeOK
<1>7. CASE WaitExecuted(c)
  BY <1>0, <1>7 DEF WaitExecuted, Unlock, TypeOK
<1> QED
  BY <1>0, <1>1, <1>2, <1>3, <1>4, <1>5, <1>6, <1>7 DEF CallerStep

(* A pool thread's step: the counter moves with the set of those counted.  *)
LEMMA WorkerCount ==
  ASSUME CountInv, NEW w \in PoolThreads, WorkerStep(w)
  PROVE  CountInv'
<1>1. TypeOK /\ curThdCount = Cardinality(Counted) /\ Cardinality(Counted) \in Nat
  BY CountedIs, CountedFinite DEF CountInv, PlacesCounted
<1>2. curThdCount' = Cardinality(Counted') => PlacesCounted'
  <2>1. (Counted = Working \cup Refused)'
    BY DEF Counted, CountedAt, Working, Refused, WAt
  <2> QED
    BY <2>1 DEF PlacesCounted
<1> USE DEF Move, Count, Round, Take, Sent, Look, WAt, CountedAt, WorkingAt, WorkerPlaces, queues, callers
<1>3. CASE Run(w)
  <2>1. Cardinality(Counted') = Cardinality(Counted) + 1
    BY <1>1, <1>3, Joins DEF Run
  <2>2. TypeOK'
    BY <1>1, <1>3 DEF Run, WGoto, TypeOK
  <2> QED
    BY <1>1, <1>2, <1>3, <2>1, <2>2 DEF Run, CountInv
<1>4. CASE Refuse(w)
  <2>1. Cardinality(Counted') = Cardinality(Counted) - 1 /\ Cardinality(Counted) > 0
    BY <1>1, <1>4, Leaves DEF Refuse
  <2>2. TypeOK'
    BY <1>1, <1>4, <2>1 DEF Refuse, WGoto, TypeOK
  <2> QED
    BY <1>1, <1>2, <1>4, <2>1, <2>2 DEF Refuse, CountInv
<1>5. CASE GiveUpPlace(w)
  <2>1. Cardinality(Counted') = Cardinality(Counted) - 1 /\ Cardinality(Counted) > 0
    BY <1>1, <1>5, Leaves DEF GiveUpPlace
  <2>2. TypeOK'
    BY <1>1, <1>5, <2>1 DEF GiveUpPlace, WGoto, TypeOK
  <2> QED
    BY <1>1, <1>2, <1>5, <2>1, <2>2 DEF GiveUpPlace, CountInv
<1>6. CASE Rejoin(w)
  <2>1. Cardinality(Counted') = Cardinality(Counted) + 1
    BY <1>1, <1>6, Joins DEF Rejoin
  <2>2. TypeOK'
    BY <1>1, <1>6 DEF Rejoin, WGoto, TypeOK
  <2> QED
    BY <1>1, <1>2, <1>6, <2>1, <2>2 DEF Rejoin, CountInv
<1>7. ASSUME Counted' = Counted, TypeOK', UNCHANGED curThdCount PROVE CountInv'
  BY <1>1, <1>2, <1>7 DEF CountInv
<1>8. CASE Connect(w)
  <2>1. Counted' = Counted
    BY <1>1, <1>8, Stays DEF Connect
  <2>2. TypeOK'
    BY <1>1, <1>8 DEF Connect, WGoto, TypeOK, GetFreeConnection
  <2> QED
    BY <1>7, <1>8, <2>1, <2>2 DEF Connect
<1>9. CASE ExecuteSize(w)
  <2>1. Counted' = Counted
    BY <1>1, <1>9, Stays DEF ExecuteSize
  <2>2. TypeOK'
    BY <1>1, <1>9 DEF ExecuteSize, WGoto, TypeOK
  <2> QED
    BY <1>7, <1>9, <2>1, <2>2 DEF ExecuteSize
<1>10. CASE TakeExecute(w)
  <2>1. Counted' = Counted
    BY <1>1, <1>10, Stays DEF TakeExecute
  <2>2. TypeOK'
    BY <1>1, <1>10 DEF TakeExecute, WGoto, TypeOK
  <2> QED
    BY <1>7, <1>10, <2>1, <2>2 DEF TakeExecute
<1>11. CASE SendQuery(w)
  <2>1. Counted' = Counted
    BY <1>1, <1>11, Stays DEF SendQuery
  <2>2. TypeOK'
    BY <1>1, <1>11 DEF SendQuery, WGoto, TypeOK
  <2> QED
    BY <1>7, <1>11, <2>1, <2>2 DEF SendQuery
<1>12. CASE ExecutesDone(w)
  <2>1. Counted' = Counted
    BY <1>1, <1>12, Stays DEF ExecutesDone
  <2>2. TypeOK'
    BY <1>1, <1>12 DEF ExecutesDone, WGoto, TypeOK
  <2> QED
    BY <1>7, <1>12, <2>1, <2>2 DEF ExecutesDone
<1>13. CASE QuerySize(w)
  <2>1. Counted' = Counted
    BY <1>1, <1>13, Stays DEF QuerySize
  <2>2. TypeOK'
    BY <1>1, <1>13 DEF QuerySize, WGoto, TypeOK
  <2> QED
    BY <1>7, <1>13, <2>1, <2>2 DEF QuerySize
<1>14. CASE TakeQuery(w)
  <2>1. Counted' = Counted
    BY <1>1, <1>14, Stays DEF TakeQuery
  <2>2. TypeOK'
    BY <1>1, <1>14 DEF TakeQuery, WGoto, TypeOK
  <2> QED
    BY <1>7, <1>14, <2>1, <2>2 DEF TakeQuery
<1>15. CASE PerformAsyncQuery(w)
  <2>1. Counted' = Counted
    BY <1>1, <1>15, Stays DEF PerformAsyncQuery
  <2>2. TypeOK'
    BY <1>1, <1>15 DEF PerformAsyncQuery, WGoto, TypeOK
  <2> QED
    BY <1>7, <1>15, <2>1, <2>2 DEF PerformAsyncQuery
<1>16. CASE QueriesDone(w)
  <2>1. Counted' = Counted
    BY <1>1, <1>16, Stays DEF QueriesDone
  <2>2. TypeOK'
    BY <1>1, <1>16 DEF QueriesDone, WGoto, TypeOK
  <2> QED
    BY <1>7, <1>16, <2>1, <2>2 DEF QueriesDone
<1>17. CASE Check(w)
  <2>1. Counted' = Counted
    BY <1>1, <1>17, Stays DEF Check
  <2>2. TypeOK'
    BY <1>1, <1>17 DEF Check, WGoto, TypeOK
  <2> QED
    BY <1>7, <1>17, <2>1, <2>2 DEF Check
<1>18. CASE CheckQuery(w)
  <2>1. Counted' = Counted
    BY <1>1, <1>18, Stays DEF CheckQuery
  <2>2. TypeOK'
    BY <1>1, <1>18 DEF CheckQuery, WGoto, TypeOK
  <2> QED
    BY <1>7, <1>18, <2>1, <2>2 DEF CheckQuery
<1>19. CASE Recheck(w)
  <2>1. Counted' = Counted
    BY <1>1, <1>19, Stays DEF Recheck
  <2>2. TypeOK'
    BY <1>1, <1>19 DEF Recheck, WGoto, TypeOK
  <2> QED
    BY <1>7, <1>19, <2>1, <2>2 DEF Recheck
<1>20. CASE RecheckQuery(w)
  <2>1. Counted' = Counted
    BY <1>1, <1>20, Stays DEF RecheckQuery
  <2>2. TypeOK'
    BY <1>1, <1>20 DEF RecheckQuery, WGoto, TypeOK
  <2> QED
    BY <1>7, <1>20, <2>1, <2>2 DEF RecheckQuery
<1>21. CASE Release(w)
  <2>1. Counted' = Counted
    BY <1>1, <1>21, Stays DEF Release
  <2>2. TypeOK'
    BY <1>1, <1>21 DEF Release, WGoto, TypeOK, Unlock
  <2> QED
    BY <1>7, <1>21, <2>1, <2>2 DEF Release
<1> QED
  BY <1>3, <1>4, <1>5, <1>6, <1>8, <1>9, <1>10, <1>11, <1>12, <1>13, <1>14,
     <1>15, <1>16, <1>17, <1>18, <1>19, <1>20, <1>21 DEF WorkerStep

LEMMA NextCount == CountInv /\ [Next]_vars => CountInv'
<1> SUFFICES ASSUME CountInv, [Next]_vars PROVE CountInv'
  OBVIOUS
<1>1. CASE UNCHANGED vars
  BY <1>1 DEF vars, queues, callers, workers, CountInv, TypeOK, PlacesCounted,
     Working, Refused, WAt
<1>2. ASSUME NEW c \in Callers, CallerStep(c) \/ \E kind \in Kinds[c] : Call(c, kind)
      PROVE  CountInv'
  BY <1>2, CallerCount
<1>3. ASSUME NEW w \in PoolThreads, WorkerStep(w) PROVE CountInv'
  BY <1>3, WorkerCount
<1> QED
  BY <1>1, <1>2, <1>3 DEF Next

(* m_nCurThdCount counts the threads that work and those Run turns away, in *)
(* every state: the atomic_inc and atomic_dec of Run balance.              *)
THEOREM PlacesAreCounted == Spec => []CountInv
<1>1. Init => CountInv
  BY InitCount
<1>2. CountInv /\ [Next]_vars => CountInv'
  BY NextCount
<1> QED
  BY <1>1, <1>2, PTL DEF Spec

-----------------------------------------------------------------------------
(* A thread before its last looks leaves nothing behind.                   *)
LEMMA LookerServes ==
  ASSUME NEW w \in PoolThreads, (LooksAtExecute(w) /\ LooksAtQuery(w))'
  PROVE  NoneLeftBehind'
  BY DEF NoneLeftBehind

(* Nor does the step of a thread that would look at no queue any more, as   *)
(* long as it does not keep a coming one out.                              *)
LEMMA NonLookerKeeps ==
  ASSUME NoneLeftBehind, TypeOK, NEW w \in PoolThreads, NEW l, WGoto(w, l),
         ~LooksAtExecute(w), ~LooksAtQuery(w), Coming => Coming',
         UNCHANGED <<queues, callers, missed>>
  PROVE  NoneLeftBehind'
<1>1. Asking => Asking'
  BY DEF Asking, CAt, callers
<1>2. \A u \in PoolThreads : LooksAtExecute(u) => LooksAtExecute(u)'
  BY DEF TypeOK, WGoto, LooksAtExecute
<1>3. \A u \in PoolThreads : LooksAtQuery(u) => LooksAtQuery(u)'
  BY DEF TypeOK, WGoto, LooksAtQuery
<1> QED
  BY <1>1, <1>2, <1>3 DEF NoneLeftBehind, queues

(* A caller leaves a statement with a thread at work, or asks for one.     *)
LEMMA CallerServes ==
  ASSUME NoneLeftBehind, TypeOK, NEW c \in Callers,
         CallerStep(c) \/ \E kind \in Kinds[c] : Call(c, kind)
  PROVE  NoneLeftBehind'
<1>1. CASE ExecuteNA(c) \/ AddAsyncQuery(c)
  <2>1. Asking'
    BY <1>1 DEF ExecuteNA, AddAsyncQuery, Queued, Asking, CAt, CGoto, TypeOK
  <2> QED
    BY <2>1 DEF NoneLeftBehind
<1>2. CASE TriggerRun(c)
  <2>1. CASE curThdCount < MaxThdSize
    <3>1. Coming'
      BY <1>2, <2>1 DEF TriggerRun, Coming, TypeOK
    <3> QED
      BY <3>1 DEF NoneLeftBehind
  <2>2. CASE ~(curThdCount < MaxThdSize) /\ Working = {}
    <3>1. missed'
      BY <1>2, <2>2, Zenon DEF TriggerRun
    <3> QED
      BY <3>1 DEF NoneLeftBehind
  <2>3. CASE Working # {}
    <3>1. PICK w \in PoolThreads : wpc[w] \in WorkingAt
      BY <2>3 DEF Working
    <3>2. (LooksAtExecute(w) /\ LooksAtQuery(w))'
      BY <1>2, <3>1 DEF TriggerRun, workers, LooksAtExecute, LooksAtQuery
    <3> QED
      BY <3>2, LookerServes
  <2> QED
    BY <2>1, <2>2, <2>3
<1>3. ASSUME ~CAt(c, "trigger"), UNCHANGED <<queues, curThdCount, tasks, wpc, missed>>,
             NEW l, CGoto(c, l)
      PROVE  NoneLeftBehind'
  <2>1. Asking => Asking'
    BY <1>3 DEF Asking, CAt, CGoto, TypeOK
  <2>2. (Coming => Coming') /\ \A w \in PoolThreads :
          /\ LooksAtExecute(w) => LooksAtExecute(w)'
          /\ LooksAtQuery(w) => LooksAtQuery(w)'
    BY <1>3 DEF Coming, LooksAtExecute, LooksAtQuery
  <2> QED
    BY <1>3, <2>1, <2>2 DEF NoneLeftBehind, queues
<1>4. ASSUME NEW kind \in Kinds[c], Call(c, kind) PROVE NoneLeftBehind'
  BY <1>3, <1>4 DEF Call, CAt, workers
<1>5. CASE Wait(c)
  BY <1>3, <1>5 DEF Wait, CAt, Return, workers
<1>6. CASE WaitExecuteNA(c)
  BY <1>3, <1>6 DEF WaitExecuteNA, CAt, workers
<1>7. CASE WaitExecuted(c)
  BY <1>3, <1>7 DEF WaitExecuted, CAt, Return, workers
<1> QED
  BY <1>1, <1>2, <1>4, <1>5, <1>6, <1>7 DEF CallerStep

(* A pool thread keeps looking until it has found a queue empty after it   *)
(* gave up its place.                                                      *)
LEMMA WorkerServes ==
  ASSUME NoneLeftBehind, TypeOK, NEW w \in PoolThreads, WorkerStep(w)
  PROVE  NoneLeftBehind'
<1> USE SizeAssumption DEF WAt, Move, Count, Round, Take, Sent, Look
<1>1. ASSUME NEW l \in WorkingAt \cup {"recheck", "rejoin"}, WGoto(w, l)
      PROVE  NoneLeftBehind'
  <2>1. (LooksAtExecute(w) /\ LooksAtQuery(w))'
    BY <1>1 DEF TypeOK, WGoto, LooksAtExecute, LooksAtQuery
  <2> QED
    BY <2>1, LookerServes
<1>2. CASE Run(w)
  <2>1. CASE curThdCount + 1 > MaxThdSize
    <3>1. WGoto(w, "refused") /\ ~Coming
      BY <1>2, <2>1 DEF Run, Coming, TypeOK
    <3>2. ~LooksAtExecute(w) /\ ~LooksAtQuery(w)
      BY <1>2 DEF Run, LooksAtExecute, LooksAtQuery, WorkingAt
    <3> QED
      BY <1>2, <3>1, <3>2, NonLookerKeeps DEF Run
  <2>2. CASE ~(curThdCount + 1 > MaxThdSize)
    BY <1>1, <1>2, <2>2 DEF Run, WorkingAt
  <2> QED
    BY <2>1, <2>2
<1>3. CASE Refuse(w)
  <2>1. Coming => Coming'
    BY <1>3 DEF Refuse, Coming, TypeOK
  <2>2. ~LooksAtExecute(w) /\ ~LooksAtQuery(w)
    BY <1>3 DEF Refuse, LooksAtExecute, LooksAtQuery, WorkingAt
  <2> QED
    BY <1>3, <2>1, <2>2, NonLookerKeeps DEF Refuse
<1>4. CASE Release(w)
  <2>1. Coming => Coming'
    BY <1>4 DEF Release, Coming
  <2>2. ~LooksAtExecute(w) /\ ~LooksAtQuery(w)
    BY <1>4 DEF Release, LooksAtExecute, LooksAtQuery, WorkingAt
  <2> QED
    BY <1>4, <2>1, <2>2, NonLookerKeeps DEF Release
<1>5. CASE Recheck(w)
  <2>1. CASE queExecute = <<>>
    <3>1. LooksAtQuery(w)'
      BY <1>5, <2>1 DEF Recheck, WGoto, TypeOK, LooksAtQuery
    <3> QED
      BY <1>5, <2>1, <3>1 DEF Recheck, NoneLeftBehind, queues
  <2>2. CASE queExecute # <<>>
    BY <1>1, <1>5, <2>2 DEF Recheck
  <2> QED
    BY <2>1, <2>2
<1>6. CASE RecheckQuery(w)
  <2>1. CASE queQuery = <<>>
    <3>1. \A u \in PoolThreads : LooksAtExecute(u) => LooksAtExecute(u)'
      BY <1>6 DEF RecheckQuery, WGoto, TypeOK, LooksAtExecute, WorkingAt
    <3>2. (Coming => Coming') /\ (Asking => Asking')
      BY <1>6 DEF RecheckQuery, Coming, Asking, CAt, callers
    <3> QED
      BY <1>6, <2>1, <3>1, <3>2 DEF RecheckQuery, NoneLeftBehind, queues
  <2>2. CASE queQuery # <<>>
    BY <1>1, <1>6, <2>2 DEF RecheckQuery
  <2> QED
    BY <2>1, <2>2
<1>7. CASE Connect(w) \/ ExecuteSize(w) \/ TakeExecute(w) \/ SendQuery(w)
  BY <1>1, <1>7 DEF Connect, ExecuteSize, TakeExecute, SendQuery, WorkingAt
<1>8. CASE ExecutesDone(w) \/ QuerySize(w) \/ TakeQuery(w) \/ PerformAsyncQuery(w)
  BY <1>1, <1>8 DEF ExecutesDone, QuerySize, TakeQuery, PerformAsyncQuery, WorkingAt
<1>9. CASE QueriesDone(w) \/ Check(w) \/ CheckQuery(w) \/ GiveUpPlace(w) \/ Rejoin(w)
  BY <1>1, <1>9 DEF QueriesDone, Check, CheckQuery, GiveUpPlace, Rejoin, WorkingAt
<1> QED
  BY <1>2, <1>3, <1>4, <1>5, <1>6, <1>7, <1>8, <1>9 DEF WorkerStep

LEMMA NextServes == CountInv /\ NoneLeftBehind /\ [Next]_vars => NoneLeftBehind'
<1> SUFFICES ASSUME CountInv, NoneLeftBehind, [Next]_vars PROVE NoneLeftBehind'
  OBVIOUS
<1>1. TypeOK
  BY DEF CountInv
<1>2. CASE UNCHANGED vars
  BY <1>2 DEF vars, queues, callers, workers, NoneLeftBehind, Coming, Asking,
     LooksAtExecute, LooksAtQuery, CAt, WAt
<1>3. ASSUME NEW c \in Callers, CallerStep(c) \/ \E kind \in Kinds[c] : Call(c, kind)
      PROVE  NoneLeftBehind'
  BY <1>1, <1>3, CallerServes
<1>4. ASSUME NEW w \in PoolThreads, WorkerStep(w) PROVE NoneLeftBehind'
  BY <1>1, <1>4, WorkerServes
<1> QED
  BY <1>2, <1>3, <1>4 DEF Next

(* No statement is left behind in a queue of the database, whatever the    *)
(* number of callers, pool threads and connections, unless TriggerRun took *)
(* refused threads for working ones: the recheck in Run closes the gap     *)
(* between the last look of a thread and giving up its place.              *)
THEOREM NothingLeftBehind == Spec => []NoneLeftBehind
<1>1. Init => NoneLeftBehind
  BY DEF Init, NoneLeftBehind
<1>2. CountInv /\ NoneLeftBehind /\ [Next]_vars => NoneLeftBehind'
  BY NextServes
<1> QED
  BY <1>1, <1>2, PlacesAreCounted, PTL DEF Spec

-----------------------------------------------------------------------------
(* Where a call stands: with its caller, in a queue, being executed, or    *)
(* executed.                                                               *)
Elems(q) == {q[i] : i \in DOMAIN q}
Distinct(q) == \A i, j \in DOMAIN q : q[i] = q[j] => i = j

Sending == {w \in PoolThreads : wpc[w] \in {"send", "perform"}}
Direct == {c \in Callers : cpc[c] = "sending"}
Holding == {c \in Callers : cpc[c] \in {"execute", "query", "wait"}}
Sends == {cur[w] : w \in Sending}
Directs == {call[c].nr : c \in Direct}
held == {call[c].nr : c \in Holding}

ConnectedAt == WorkerPlaces \ {"pool", "refused", "connect"}
Connected == {w \in PoolThreads : wpc[w] \in ConnectedAt}

(* The inductive invariant.  Numbers are given out once and each call      *)
(* stands at one place, with one thread or caller.                         *)
NumberInv ==
  /\ calls <= MaxCalls
  /\ \A c \in Callers : cpc[c] # "idle" => call[c].nr \in 1 .. calls
  /\ \A c \in Callers : cpc[c] = "idle" => call[c].nr = 0
  /\ Elems(queExecute) \cup Elems(queQuery) \cup Sends \cup done \subseteq 1 .. calls

SingleInv ==
  /\ \A c, d \in Callers : call[c].nr = call[d].nr /\ call[c].nr # 0 => c = d
  /\ \A w, v \in Sending : cur[w] = cur[v] => w = v

ApartInv ==
  /\ Distinct(queExecute) /\ Distinct(queQuery)
  /\ Elems(queExecute) \cap (Elems(queQuery) \cup Sends \cup Directs \cup done \cup held) = {}
  /\ Elems(queQuery) \cap (Sends \cup Directs \cup done \cup held) = {}
  /\ Sends \cap (Directs \cup done \cup held) = {}
  /\ Directs \cap (done \cup held) = {}
  /\ done \cap held = {}

(* A connection is held by the threads that got one and by the callers     *)
(* that send at once, by nobody else.                                      *)
ConnInv ==
  /\ using = Connected \cup Direct
  /\ IsFiniteSet(using) /\ Cardinality(using) <= MaxThdSize

PlaceInv == NumberInv /\ SingleInv /\ ApartInv

LEMMA ExecutingIs == executing = Sends \cup Directs
  BY DEF executing, Sends, Directs, Sending, Direct, CAt

LEMMA AppendElems ==
  ASSUME NEW q \in Seq(Nat), NEW n \in Nat
  PROVE  /\ Elems(Append(q, n)) = Elems(q) \cup {n}
         /\ Distinct(q) /\ n \notin Elems(q) => Distinct(Append(q, n))
<1>1. /\ DOMAIN Append(q, n) = DOMAIN q \cup {Len(q) + 1}
      /\ \A i \in DOMAIN q : Append(q, n)[i] = q[i]
      /\ Append(q, n)[Len(q) + 1] = n /\ Len(q) + 1 \notin DOMAIN q
  OBVIOUS
<1> QED
  BY <1>1 DEF Elems, Distinct

LEMMA TailElems ==
  ASSUME NEW q \in Seq(Nat), q # <<>>, Distinct(q)
  PROVE  /\ Head(q) \in Elems(q) /\ Head(q) \in Nat
         /\ Elems(Tail(q)) = Elems(q) \ {Head(q)} /\ Distinct(Tail(q))
<1>1. /\ DOMAIN q = 1 .. Len(q) /\ Len(q) \in Nat \ {0} /\ Head(q) = q[1]
      /\ DOMAIN Tail(q) = 1 .. Len(q) - 1 /\ q[1] \in Nat
      /\ \A i \in 1 .. Len(q) - 1 : Tail(q)[i] = q[i + 1]
  OBVIOUS
<1>2. \A i \in DOMAIN q : i # 1 => i - 1 \in DOMAIN Tail(q) /\ Tail(q)[i - 1] = q[i]
  BY <1>1
<1>3. \A i \in DOMAIN Tail(q) : i + 1 \in DOMAIN q /\ i + 1 # 1
  BY <1>1
<1>4. Elems(Tail(q)) \subseteq Elems(q) \ {Head(q)}
  BY <1>1, <1>3, 1 \in DOMAIN q DEF Elems, Distinct
<1>5. ASSUME NEW x \in Elems(q) \ {Head(q)} PROVE x \in Elems(Tail(q))
  <2>1. PICK i \in DOMAIN q : q[i] = x
    BY DEF Elems
  <2>2. i # 1
    BY <1>1, <2>1
  <2> QED
    BY <1>2, <2>1, <2>2 DEF Elems
<1>6. Distinct(Tail(q))
  BY <1>1, <1>3 DEF Distinct
<1>7. Head(q) \in Elems(q) /\ Head(q) \in Nat
  BY <1>1, 1 \in DOMAIN q DEF Elems
<1>8. Elems(Tail(q)) = Elems(q) \ {Head(q)}
  BY <1>4, <1>5
<1> QED
  BY <1>6, <1>7, <1>8

-----------------------------------------------------------------------------
(* How the places change when one thread or one caller moves.              *)
SendAt == {"send", "perform"}
HoldAt == {"execute", "query", "wait"}

LEMMA WorkerQuiet ==
  ASSUME TypeOK, NEW w \in PoolThreads, NEW l, WGoto(w, l), UNCHANGED <<cur, callers>>,
         wpc[w] \in SendAt <=> l \in SendAt
  PROVE  /\ Sending' = Sending /\ Sends' = Sends
         /\ Direct' = Direct /\ Directs' = Directs /\ held' = held
<1>1. Sending' = Sending
  BY DEF TypeOK, WGoto, Sending, SendAt
<1> QED
  BY <1>1 DEF Sends, Direct, Directs, Holding, held, callers

LEMMA WorkerTakes ==
  ASSUME TypeOK, NEW w \in PoolThreads, NEW l, NEW n, WGoto(w, l),
         cur' = [cur EXCEPT ![w] = n], UNCHANGED callers,
         wpc[w] \notin SendAt, l \in SendAt
  PROVE  /\ Sending' = Sending \cup {w} /\ Sends' = Sends \cup {n} /\ w \notin Sending
         /\ Direct' = Direct /\ Directs' = Directs /\ held' = held
<1>1. Sending' = Sending \cup {w} /\ w \notin Sending
  BY DEF TypeOK, WGoto, Sending, SendAt
<1>2. cur'[w] = n /\ \A v \in Sending : cur'[v] = cur[v]
  BY <1>1 DEF TypeOK, Sending
<1>3. Sends' = Sends \cup {n}
  BY <1>1, <1>2 DEF Sends
<1> QED
  BY <1>1, <1>3 DEF Direct, Directs, Holding, held, callers

LEMMA WorkerSent ==
  ASSUME TypeOK, SingleInv, NEW w \in PoolThreads, NEW l, NEW n, WGoto(w, l),
         cur' = [cur EXCEPT ![w] = n], UNCHANGED callers,
         wpc[w] \in SendAt, l \notin SendAt
  PROVE  /\ Sending' = Sending \ {w} /\ Sends' = Sends \ {cur[w]} /\ w \in Sending
         /\ Direct' = Direct /\ Directs' = Directs /\ held' = held
<1>1. Sending' = Sending \ {w} /\ w \in Sending
  BY DEF TypeOK, WGoto, Sending, SendAt
<1>2. \A v \in Sending \ {w} : cur'[v] = cur[v] /\ cur[v] # cur[w]
  BY <1>1 DEF TypeOK, Sending, SingleInv
<1>3. Sends' = Sends \ {cur[w]}
  BY <1>1, <1>2 DEF Sends
<1> QED
  BY <1>1, <1>3 DEF Direct, Directs, Holding, held, callers

LEMMA CallerKeepsSends ==
  ASSUME UNCHANGED workers
  PROVE  Sending' = Sending /\ Sends' = Sends
  BY DEF workers, Sending, Sends

LEMMA CallerQuiet ==
  ASSUME TypeOK, NEW c \in Callers, NEW l, CGoto(c, l),
         call' = call \/ call' = [call EXCEPT ![c] = NoCall],
         cpc[c] \notin HoldAt, cpc[c] # "sending", l \notin HoldAt, l # "sending"
  PROVE  Direct' = Direct /\ Directs' = Directs /\ held' = held
<1>1. Direct' = Direct /\ c \notin Direct /\ Holding' = Holding /\ c \notin Holding
  BY DEF TypeOK, CGoto, Direct, Holding, HoldAt
<1>2. \A d \in Callers \ {c} : call'[d] = call[d]
  BY DEF TypeOK
<1> QED
  BY <1>1, <1>2 DEF Directs, held, Direct, Holding

LEMMA CallerHolds ==
  ASSUME TypeOK, NEW c \in Callers, NEW l \in HoldAt, NEW r, CGoto(c, l),
         call' = [call EXCEPT ![c] = r], cpc[c] = "idle"
  PROVE  Direct' = Direct /\ Directs' = Directs /\ held' = held \cup {r.nr}
<1>1. Direct' = Direct /\ c \notin Direct /\ Holding' = Holding \cup {c} /\ c \notin Holding
  BY DEF TypeOK, CGoto, Direct, Holding, HoldAt
<1>2. call'[c] = r /\ \A d \in Callers \ {c} : call'[d] = call[d]
  BY DEF TypeOK
<1>3. Directs' = Directs
  BY <1>1, <1>2 DEF Directs, Direct
<1>4. held' = held \cup {r.nr}
  BY <1>1, <1>2 DEF held, Holding
<1> QED
  BY <1>1, <1>3, <1>4

LEMMA CallerHands ==
  ASSUME TypeOK, NumberInv, SingleInv, NEW c \in Callers, NEW l, CGoto(c, l), call' = call,
         cpc[c] \in HoldAt, l \notin HoldAt
  PROVE  /\ held' = held \ {call[c].nr} /\ call[c].nr \in held
         /\ l # "sending" => Direct' = Direct /\ Directs' = Directs
         /\ l = "sending" =>
              Direct' = Direct \cup {c} /\ Directs' = Directs \cup {call[c].nr}
<1>1. /\ Holding' = Holding \ {c} /\ c \in Holding /\ c \notin Direct
      /\ l # "sending" => Direct' = Direct
      /\ l = "sending" => Direct' = Direct \cup {c}
  BY DEF TypeOK, CGoto, Direct, Holding, HoldAt
<1>2. \A d \in Holding \ {c} : call[d].nr # call[c].nr
  <2>1. call[c].nr # 0
    BY DEF NumberInv, HoldAt
  <2> QED
    BY <2>1 DEF SingleInv, Holding
<1>3. held' = held \ {call[c].nr} /\ call[c].nr \in held
  BY <1>1, <1>2 DEF held
<1> QED
  BY <1>1, <1>3 DEF Directs

LEMMA CallerSent ==
  ASSUME TypeOK, NumberInv, SingleInv, NEW c \in Callers,
         cpc[c] = "sending", Return(c)
  PROVE  /\ Direct' = Direct \ {c} /\ c \in Direct
         /\ Directs' = Directs \ {call[c].nr} /\ call[c].nr \in Directs
         /\ held' = held
<1>1. Direct' = Direct \ {c} /\ c \in Direct /\ Holding' = Holding /\ c \notin Holding
  BY DEF TypeOK, Return, CGoto, Direct, Holding
<1>2. \A d \in Callers \ {c} : call'[d] = call[d]
  BY DEF TypeOK, Return
<1>3. \A d \in Direct \ {c} : call[d].nr # call[c].nr
  <2>1. call[c].nr # 0
    BY DEF NumberInv
  <2> QED
    BY <2>1 DEF SingleInv, Direct
<1>4. Directs' = Directs \ {call[c].nr} /\ call[c].nr \in Directs
  BY <1>1, <1>2, <1>3 DEF Directs, Direct
<1>5. held' = held
  BY <1>1, <1>2 DEF held, Holding
<1> QED
  BY <1>1, <1>4, <1>5

-----------------------------------------------------------------------------
(* The invariant: numbers and places.                                      *)
LEMMA InitPlaces == Init => PlaceInv
<1> SUFFICES ASSUME Init PROVE PlaceInv
  OBVIOUS
<1>1. /\ Elems(queExecute) = {} /\ Elems(queQuery) = {}
      /\ Distinct(queExecute) /\ Distinct(queQuery)
  BY DEF Init, Elems, Distinct
<1>2. Sending = {} /\ Direct = {} /\ Holding = {}
  BY DEF Init, Sending, Direct, Holding
<1>3. Sends = {} /\ Directs = {} /\ held = {}
  BY <1>2 DEF Sends, Directs, held
<1>4. NumberInv
  BY <1>1, <1>3, SizeAssumption DEF Init, NumberInv, NoCall
<1>5. SingleInv
  BY <1>2 DEF Init, SingleInv, NoCall
<1> QED
  BY <1>1, <1>3, <1>4, <1>5 DEF Init, ApartInv, PlaceInv

(* Callers keep their numbers apart: one that is given up becomes 0.       *)
LEMMA CallersKeep ==
  ASSUME TypeOK, PlaceInv, NEW c \in Callers, NEW l, CGoto(c, l), UNCHANGED calls,
         \/ call' = call /\ cpc[c] # "idle" /\ l # "idle"
         \/ call' = [call EXCEPT ![c] = NoCall] /\ l = "idle"
  PROVE  /\ \A d \in Callers : cpc'[d] # "idle" => call'[d].nr \in 1 .. calls'
         /\ \A d \in Callers : cpc'[d] = "idle" => call'[d].nr = 0
         /\ \A d, e \in Callers : call'[d].nr = call'[e].nr /\ call'[d].nr # 0 => d = e
<1>1. CASE call' = call /\ cpc[c] # "idle" /\ l # "idle"
  BY <1>1 DEF TypeOK, PlaceInv, NumberInv, SingleInv, CGoto
<1>2. CASE call' = [call EXCEPT ![c] = NoCall] /\ l = "idle"
  <2>1. call'[c].nr = 0 /\ \A d \in Callers \ {c} : call'[d] = call[d]
    BY <1>2 DEF TypeOK, NoCall
  <2>2. cpc'[c] = "idle" /\ \A d \in Callers \ {c} : cpc'[d] = cpc[d]
    BY <1>2 DEF TypeOK, CGoto
  <2> QED
    BY <2>1, <2>2 DEF PlaceInv, NumberInv, SingleInv
<1> QED
  BY <1>1, <1>2

LEMMA CallPlaces ==
  ASSUME TypeOK, PlaceInv, NEW c \in Callers, NEW kind \in Kinds[c], Call(c, kind)
  PROVE  PlaceInv'
<1> DEFINE n == calls + 1
<1>1. /\ cpc[c] = "idle" /\ calls < MaxCalls /\ calls' = n
      /\ call' = [call EXCEPT ![c] = [kind |-> kind, nr |-> n]]
      /\ CGoto(c, kind) /\ UNCHANGED <<queues, workers, done>>
  BY DEF Call, CAt
<1>2. kind \in HoldAt /\ calls \in Nat /\ n \notin 1 .. calls /\ 1 .. calls \subseteq 1 .. n
  <2>1. kind \in HoldAt
    BY ThreadsAssumption DEF HoldAt
  <2>2. calls \in Nat
    BY DEF TypeOK
  <2> QED
    BY <2>1, <2>2
<1>3. Directs' = Directs /\ held' = held \cup {n}
  <2> DEFINE r == [kind |-> kind, nr |-> n]
  <2>1. call' = [call EXCEPT ![c] = r] /\ r.nr = n
    BY <1>1
  <2> HIDE DEF r
  <2>2. Directs' = Directs /\ held' = held \cup {r.nr}
    BY <1>1, <1>2, <2>1, CallerHolds
  <2> QED
    BY <2>1, <2>2
<1>4. Sending' = Sending /\ Sends' = Sends
  BY <1>1, CallerKeepsSends
<1>5. /\ call'[c].nr = n /\ \A d \in Callers \ {c} : call'[d] = call[d]
      /\ cpc'[c] = kind /\ \A d \in Callers \ {c} : cpc'[d] = cpc[d]
  BY <1>1 DEF TypeOK, CGoto
<1>6. \A d \in Callers : call[d].nr \in 1 .. calls \/ call[d].nr = 0
  BY DEF PlaceInv, NumberInv
<1>7. NumberInv'
  <2>1. n <= MaxCalls /\ n \in 1 .. n /\ kind # "idle"
    BY <1>1, <1>2, SizeAssumption DEF HoldAt
  <2>2. \A d \in Callers : cpc'[d] # "idle" => call'[d].nr \in 1 .. n
    BY <1>2, <1>5, <2>1 DEF PlaceInv, NumberInv
  <2>3. \A d \in Callers : cpc'[d] = "idle" => call'[d].nr = 0
    BY <1>5, <2>1 DEF PlaceInv, NumberInv
  <2>4. (Elems(queExecute) \cup Elems(queQuery) \cup Sends \cup done)' \subseteq 1 .. n
    BY <1>1, <1>2, <1>4 DEF PlaceInv, NumberInv, queues
  <2> QED
    BY <1>1, <2>1, <2>2, <2>3, <2>4 DEF NumberInv
<1>8. SingleInv'
  <2>1. \A d \in Callers \ {c} : call'[d].nr # n
    BY <1>2, <1>5, <1>6
  <2>2. \A d, e \in Callers : call'[d].nr = call'[e].nr /\ call'[d].nr # 0 => d = e
    BY <1>5, <2>1 DEF PlaceInv, SingleInv
  <2> QED
    BY <1>1, <1>4, <2>2 DEF PlaceInv, SingleInv, workers
<1>9. n \notin Elems(queExecute) \cup Elems(queQuery) \cup Sends \cup Directs \cup done
  BY <1>2, <1>6 DEF PlaceInv, NumberInv, Directs, Direct
<1>10. ApartInv'
  BY <1>1, <1>3, <1>4, <1>9 DEF PlaceInv, ApartInv, queues
<1> QED
  BY <1>7, <1>8, <1>10 DEF PlaceInv

(* A call that leaves its caller's hands.                                  *)
LEMMA HandFact ==
  ASSUME TypeOK, PlaceInv, NEW c \in Callers, cpc[c] \in HoldAt
  PROVE  /\ call[c].nr \in held /\ call[c].nr \in 1 .. calls
         /\ call[c].nr \in Nat /\ call[c].nr \in 1 .. MaxCalls
         /\ call[c].nr \notin Elems(queExecute) \cup Elems(queQuery)
                                \cup Sends \cup Directs \cup done
<1>1. call[c].nr \in held /\ call[c].nr \in 1 .. calls
  BY DEF PlaceInv, NumberInv, held, Holding, HoldAt
<1>2. calls \in Nat /\ calls <= MaxCalls /\ call[c].nr \in Nat
  BY DEF TypeOK, PlaceInv, NumberInv
<1>3. call[c].nr \in 1 .. MaxCalls
  BY <1>1, <1>2, SizeAssumption
<1> QED
  BY <1>1, <1>2, <1>3 DEF PlaceInv, ApartInv

LEMMA QueuedPlaces ==
  ASSUME TypeOK, PlaceInv, NEW c \in Callers, ExecuteNA(c) \/ AddAsyncQuery(c)
  PROVE  PlaceInv'
<1> DEFINE n == call[c].nr
<1>1. /\ cpc[c] \in HoldAt /\ CGoto(c, "trigger")
      /\ UNCHANGED <<workers, call, calls, done>>
  BY DEF ExecuteNA, AddAsyncQuery, Queued, CAt, HoldAt
<1>2. held' = held \ {n} /\ Directs' = Directs
  BY <1>1, CallerHands DEF PlaceInv, HoldAt
<1>3. Sending' = Sending /\ Sends' = Sends
  BY <1>1, CallerKeepsSends
<1>4. /\ n \in held /\ n \in 1 .. calls /\ n \in Nat
      /\ n \notin Elems(queExecute) \cup Elems(queQuery) \cup Sends \cup Directs \cup done
  BY <1>1, HandFact
<1>5. /\ \A d \in Callers : cpc'[d] # "idle" => call'[d].nr \in 1 .. calls'
      /\ \A d \in Callers : cpc'[d] = "idle" => call'[d].nr = 0
      /\ \A d, e \in Callers : call'[d].nr = call'[e].nr /\ call'[d].nr # 0 => d = e
  BY <1>1, CallersKeep DEF HoldAt
<1>6. \/ /\ Elems(queExecute)' = Elems(queExecute) \cup {n} /\ Distinct(queExecute)'
         /\ queQuery' = queQuery
      \/ /\ Elems(queQuery)' = Elems(queQuery) \cup {n} /\ Distinct(queQuery)'
         /\ queExecute' = queExecute
  <2>1. CASE ExecuteNA(c)
    BY <1>4, <2>1, AppendElems DEF ExecuteNA, TypeOK, PlaceInv, ApartInv
  <2>2. CASE AddAsyncQuery(c)
    BY <1>4, <2>2, AppendElems DEF AddAsyncQuery, TypeOK, PlaceInv, ApartInv
  <2> QED
    BY <2>1, <2>2
<1>7. NumberInv'
  BY <1>1, <1>3, <1>4, <1>5, <1>6 DEF PlaceInv, NumberInv
<1>8. SingleInv'
  BY <1>1, <1>3, <1>5 DEF PlaceInv, SingleInv, workers
<1>9. ApartInv'
  BY <1>1, <1>2, <1>3, <1>4, <1>6 DEF PlaceInv, ApartInv
<1> QED
  BY <1>7, <1>8, <1>9 DEF PlaceInv

LEMMA WaitExecutePlaces ==
  ASSUME TypeOK, PlaceInv, NEW c \in Callers, WaitExecuteNA(c)
  PROVE  PlaceInv'
<1> DEFINE n == call[c].nr
<1>1. /\ cpc[c] \in HoldAt /\ CGoto(c, "sending")
      /\ UNCHANGED <<queues, workers, call, calls, done>>
  BY DEF WaitExecuteNA, CAt, HoldAt
<1>2. held' = held \ {n} /\ Directs' = Directs \cup {n}
  BY <1>1, CallerHands DEF PlaceInv, HoldAt
<1>3. Sending' = Sending /\ Sends' = Sends
  BY <1>1, CallerKeepsSends
<1>4. /\ n \in held
      /\ n \notin Elems(queExecute) \cup Elems(queQuery) \cup Sends \cup Directs \cup done
  BY <1>1, HandFact
<1>5. /\ \A d \in Callers : cpc'[d] # "idle" => call'[d].nr \in 1 .. calls'
      /\ \A d \in Callers : cpc'[d] = "idle" => call'[d].nr = 0
      /\ \A d, e \in Callers : call'[d].nr = call'[e].nr /\ call'[d].nr # 0 => d = e
  BY <1>1, CallersKeep DEF HoldAt
<1>6. NumberInv'
  BY <1>1, <1>3, <1>5 DEF PlaceInv, NumberInv, queues
<1>7. SingleInv'
  BY <1>1, <1>3, <1>5 DEF PlaceInv, SingleInv, workers
<1>8. ApartInv'
  BY <1>1, <1>2, <1>3, <1>4 DEF PlaceInv, ApartInv, queues
<1> QED
  BY <1>6, <1>7, <1>8 DEF PlaceInv

LEMMA WaitExecutedPlaces ==
  ASSUME TypeOK, PlaceInv, NEW c \in Callers, WaitExecuted(c)
  PROVE  PlaceInv'
<1> DEFINE n == call[c].nr
<1>1. /\ cpc[c] = "sending" /\ Return(c) /\ done' = done \cup {n}
      /\ UNCHANGED <<queues, workers, calls>>
  BY DEF WaitExecuted, CAt
<1>2. held' = held /\ Directs' = Directs \ {n} /\ n \in Directs
  BY <1>1, CallerSent DEF PlaceInv
<1>3. Sending' = Sending /\ Sends' = Sends
  BY <1>1, CallerKeepsSends
<1>4. n \in 1 .. calls
  BY <1>1 DEF PlaceInv, NumberInv
<1>5. /\ \A d \in Callers : cpc'[d] # "idle" => call'[d].nr \in 1 .. calls'
      /\ \A d \in Callers : cpc'[d] = "idle" => call'[d].nr = 0
      /\ \A d, e \in Callers : call'[d].nr = call'[e].nr /\ call'[d].nr # 0 => d = e
  BY <1>1, CallersKeep DEF Return
<1>6. NumberInv'
  BY <1>1, <1>3, <1>4, <1>5 DEF PlaceInv, NumberInv, queues
<1>7. SingleInv'
  BY <1>1, <1>3, <1>5 DEF PlaceInv, SingleInv, workers
<1>8. ApartInv'
  BY <1>1, <1>2, <1>3 DEF PlaceInv, ApartInv, queues
<1> QED
  BY <1>6, <1>7, <1>8 DEF PlaceInv

LEMMA QuietCallerPlaces ==
  ASSUME TypeOK, PlaceInv, NEW c \in Callers, TriggerRun(c) \/ Wait(c)
  PROVE  PlaceInv' /\ Sends' = Sends /\ Direct' = Direct /\ Directs' = Directs
<1>1. /\ cpc[c] \in {"trigger", "waiting"} /\ UNCHANGED <<queues, workers, calls, done>>
      /\ \/ CGoto(c, "waiting") /\ call' = call
         \/ CGoto(c, "idle") /\ call' = [call EXCEPT ![c] = NoCall]
  BY Zenon DEF TriggerRun, Wait, CAt, Return
<1>2. PICK l \in {"waiting", "idle"} :
        /\ CGoto(c, l)
        /\ \/ l = "waiting" /\ call' = call
           \/ l = "idle" /\ call' = [call EXCEPT ![c] = NoCall]
  BY <1>1
<1>3. Direct' = Direct /\ Directs' = Directs /\ held' = held
  BY <1>1, <1>2, CallerQuiet DEF HoldAt
<1>4. Sending' = Sending /\ Sends' = Sends
  BY <1>1, CallerKeepsSends
<1>5. /\ \A d \in Callers : cpc'[d] # "idle" => call'[d].nr \in 1 .. calls'
      /\ \A d \in Callers : cpc'[d] = "idle" => call'[d].nr = 0
      /\ \A d, e \in Callers : call'[d].nr = call'[e].nr /\ call'[d].nr # 0 => d = e
  BY <1>1, <1>2, CallersKeep
<1>6. NumberInv' /\ SingleInv'
  BY <1>1, <1>4, <1>5 DEF PlaceInv, NumberInv, SingleInv, queues, workers
<1>7. ApartInv'
  BY <1>1, <1>3, <1>4 DEF PlaceInv, ApartInv, queues
<1> QED
  BY <1>3, <1>4, <1>6, <1>7 DEF PlaceInv

(* A thread takes the head of a queue.                                     *)
LEMMA TakePlaces ==
  ASSUME TypeOK, PlaceInv, NEW w \in PoolThreads, TakeExecute(w) \/ TakeQuery(w)
  PROVE  PlaceInv'
<1>1. PICK l \in SendAt, que \in {queExecute, queQuery} :
        /\ wpc[w] \notin SendAt /\ WGoto(w, l) /\ que # <<>>
        /\ cur' = [cur EXCEPT ![w] = Head(que)]
        /\ UNCHANGED <<callers, done>>
        /\ \/ que = queExecute /\ queExecute' = Tail(que) /\ queQuery' = queQuery
           \/ que = queQuery /\ queQuery' = Tail(que) /\ queExecute' = queExecute
  BY DEF TakeExecute, TakeQuery, Take, Move, WAt, SendAt
<1> DEFINE n == Head(que)
<1>2. /\ n \in Elems(que) /\ Elems(Tail(que)) = Elems(que) \ {n} /\ Distinct(Tail(que))
  BY <1>1, TailElems DEF TypeOK, PlaceInv, ApartInv
<1>3. /\ Sending' = Sending \cup {w} /\ Sends' = Sends \cup {n} /\ w \notin Sending
      /\ Direct' = Direct /\ Directs' = Directs /\ held' = held
  BY <1>1, WorkerTakes
<1>4. n \notin Sends /\ n \in 1 .. calls
  BY <1>1, <1>2 DEF PlaceInv, NumberInv, ApartInv
<1>5. cur'[w] = n /\ \A v \in PoolThreads \ {w} : cur'[v] = cur[v]
  BY <1>1 DEF TypeOK
<1>6. \A v \in Sending : v # w /\ cur'[v] = cur[v] /\ cur'[v] # n
  BY <1>3, <1>4, <1>5 DEF Sending, Sends
<1>7. Elems(queExecute)' \subseteq Elems(queExecute) /\ Elems(queQuery)' \subseteq Elems(queQuery)
  BY <1>1, <1>2
<1>8. NumberInv'
  BY <1>1, <1>3, <1>4, <1>7 DEF PlaceInv, NumberInv, callers
<1>9. SingleInv'
  BY <1>1, <1>3, <1>5, <1>6 DEF PlaceInv, SingleInv, callers
<1>10. ApartInv'
  <2>1. CASE que = queExecute /\ queExecute' = Tail(que) /\ queQuery' = queQuery
    BY <1>1, <1>2, <1>3, <2>1 DEF PlaceInv, ApartInv
  <2>2. CASE que = queQuery /\ queQuery' = Tail(que) /\ queExecute' = queExecute
    BY <1>1, <1>2, <1>3, <2>2 DEF PlaceInv, ApartInv
  <2> QED
    BY <1>1, <2>1, <2>2
<1> QED
  BY <1>8, <1>9, <1>10 DEF PlaceInv

LEMMA SentPlaces ==
  ASSUME TypeOK, PlaceInv, NEW w \in PoolThreads, SendQuery(w) \/ PerformAsyncQuery(w)
  PROVE  PlaceInv'
<1>1. PICK l \in {"exe", "qry"} :
        /\ wpc[w] \in SendAt /\ WGoto(w, l)
        /\ done' = done \cup {cur[w]} /\ cur' = [cur EXCEPT ![w] = 0]
        /\ UNCHANGED <<queues, callers>>
  BY DEF SendQuery, PerformAsyncQuery, Sent, Move, WAt, SendAt
<1>2. /\ Sending' = Sending \ {w} /\ Sends' = Sends \ {cur[w]} /\ w \in Sending
      /\ Direct' = Direct /\ Directs' = Directs /\ held' = held
  BY <1>1, WorkerSent DEF PlaceInv, SendAt
<1>3. cur[w] \in Sends
  BY <1>2 DEF Sends
<1>4. \A v \in Sending' : v \in Sending /\ cur'[v] = cur[v]
  BY <1>1, <1>2 DEF TypeOK, Sending
<1>5. NumberInv'
  BY <1>1, <1>2, <1>3 DEF PlaceInv, NumberInv, callers, queues
<1>6. SingleInv'
  BY <1>1, <1>4 DEF PlaceInv, SingleInv, callers
<1>7. ApartInv'
  BY <1>1, <1>2, <1>3 DEF PlaceInv, ApartInv, queues
<1> QED
  BY <1>5, <1>6, <1>7 DEF PlaceInv

(* The other steps of Database::Run move no call.                          *)
QuietStep(w) ==
  \/ Run(w) \/ Refuse(w) \/ Connect(w) \/ ExecuteSize(w) \/ ExecutesDone(w)
  \/ QuerySize(w) \/ QueriesDone(w) \/ Check(w) \/ CheckQuery(w) \/ GiveUpPlace(w)
  \/ Recheck(w) \/ RecheckQuery(w) \/ Rejoin(w) \/ Release(w)

LEMMA QuietPlaces ==
  ASSUME TypeOK, PlaceInv, NEW w \in PoolThreads, QuietStep(w)
  PROVE  /\ PlaceInv' /\ Sends' = Sends /\ Direct' = Direct /\ Directs' = Directs
         /\ UNCHANGED <<queues, done>>
<1>1. \E l \in WorkerPlaces \ SendAt :
        /\ wpc[w] \notin SendAt /\ WGoto(w, l) /\ UNCHANGED <<queues, cur, callers, done>>
  BY DEF QuietStep, Run, Refuse, Connect, ExecuteSize, ExecutesDone, QuerySize,
     QueriesDone, Check, CheckQuery, GiveUpPlace, Recheck, RecheckQuery, Rejoin,
     Release, Count, Round, Look, Move, WAt, SendAt, WorkerPlaces, WorkingAt
<1>2. /\ Sending' = Sending /\ Sends' = Sends
      /\ Direct' = Direct /\ Directs' = Directs /\ held' = held
  BY <1>1, WorkerQuiet
<1>3. NumberInv' /\ SingleInv' /\ ApartInv'
  BY <1>1, <1>2 DEF PlaceInv, NumberInv, SingleInv, ApartInv, queues, callers
<1> QED
  BY <1>1, <1>2, <1>3 DEF PlaceInv

LEMMA NextPlaces ==
  ASSUME TypeOK, PlaceInv, [Next]_vars
  PROVE  PlaceInv'
<1>1. CASE UNCHANGED vars
  BY <1>1 DEF vars, queues, callers, workers, PlaceInv, NumberInv, SingleInv,
     ApartInv, Sends, Sending, Directs, Direct, held, Holding
<1>2. ASSUME NEW c \in Callers, NEW kind \in Kinds[c], Call(c, kind) PROVE PlaceInv'
  BY <1>2, CallPlaces
<1>3. ASSUME NEW c \in Callers, CallerStep(c) PROVE PlaceInv'
  BY <1>3, QueuedPlaces, WaitExecutePlaces, WaitExecutedPlaces, QuietCallerPlaces
     DEF CallerStep
<1>4. ASSUME NEW w \in PoolThreads, WorkerStep(w) PROVE PlaceInv'
  BY <1>4, TakePlaces, SentPlaces, QuietPlaces DEF WorkerStep, QuietStep
<1> QED
  BY <1>1, <1>2, <1>3, <1>4 DEF Next

-----------------------------------------------------------------------------
(* The invariant: connections.                                             *)
LEMMA InitConnections == Init => ConnInv
<1> SUFFICES ASSUME Init PROVE ConnInv
  OBVIOUS
<1>1. using = {} /\ Connected = {} /\ Direct = {}
  BY DEF Init, Connected, ConnectedAt, Direct
<1> QED
  BY <1>1, FS_EmptySet, SizeAssumption DEF ConnInv

LEMMA ConnectionTaken ==
  ASSUME ConnInv, NEW t, GetFreeConnection(t), (Connected \cup Direct)' = (Connected \cup Direct) \cup {t}
  PROVE  ConnInv'
<1>1. using' = using \cup {t} /\ Cardinality(using) < MaxThdSize
  BY DEF GetFreeConnection
<1>2. IsFiniteSet(using') /\ Cardinality(using) \in Nat
  BY <1>1, FS_AddElement, FS_CardinalityType DEF ConnInv
<1>3. Cardinality(using') \in {Cardinality(using), Cardinality(using) + 1}
  BY <1>1, FS_AddElement DEF ConnInv
<1> QED
  BY <1>1, <1>2, <1>3, SizeAssumption DEF ConnInv

LEMMA ConnectionGiven ==
  ASSUME ConnInv, NEW t, Unlock(t), (Connected \cup Direct)' = (Connected \cup Direct) \ {t}
  PROVE  ConnInv'
<1>1. using' = using \ {t}
  BY DEF Unlock
<1>2. /\ IsFiniteSet(using') /\ Cardinality(using') <= Cardinality(using)
      /\ Cardinality(using) \in Nat /\ Cardinality(using') \in Nat
  BY <1>1, FS_Subset, FS_CardinalityType DEF ConnInv
<1> QED
  BY <1>1, <1>2, SizeAssumption DEF ConnInv

LEMMA CallerConnections ==
  ASSUME TypeOK, ConnInv, NEW c \in Callers,
         CallerStep(c) \/ \E kind \in Kinds[c] : Call(c, kind)
  PROVE  ConnInv'
<1>1. Connected' = Connected /\ c \notin Connected
  BY ThreadsAssumption DEF CallerStep, Call, ExecuteNA, AddAsyncQuery, Queued, TriggerRun,
     Wait, WaitExecuteNA, WaitExecuted, workers, Connected
<1>2. CASE WaitExecuteNA(c)
  <2>1. Direct' = Direct \cup {c} /\ GetFreeConnection(c)
    BY <1>2 DEF WaitExecuteNA, CAt, CGoto, Direct, TypeOK
  <2> QED
    BY <1>1, <2>1, ConnectionTaken
<1>3. CASE WaitExecuted(c)
  <2>1. Direct' = Direct \ {c} /\ Unlock(c)
    BY <1>3 DEF WaitExecuted, CAt, Return, CGoto, Direct, TypeOK
  <2> QED
    BY <1>1, <2>1, ConnectionGiven
<1>4. ASSUME \E l \in CallerPlaces \ {"sending"} : CGoto(c, l), cpc[c] # "sending",
             using' = using
      PROVE  ConnInv'
  <2>1. Direct' = Direct
    BY <1>4 DEF CGoto, Direct, TypeOK
  <2> QED
    BY <1>1, <1>4, <2>1 DEF ConnInv
<1>5. ASSUME NEW kind \in Kinds[c], Call(c, kind) PROVE ConnInv'
  <2>1. kind \in CallerPlaces \ {"sending"}
    BY ThreadsAssumption DEF CallerPlaces
  <2> QED
    BY <1>4, <1>5, <2>1 DEF Call, CAt
<1>6. CASE ExecuteNA(c) \/ AddAsyncQuery(c)
  BY <1>4, <1>6 DEF ExecuteNA, AddAsyncQuery, Queued, CAt, CallerPlaces
<1>7. CASE TriggerRun(c) \/ Wait(c)
  <2>1. (CGoto(c, "waiting") \/ CGoto(c, "idle")) /\ cpc[c] # "sending" /\ using' = using
    BY <1>7, Zenon DEF TriggerRun, Wait, CAt, Return
  <2> QED
    BY <1>4, <2>1 DEF CallerPlaces
<1> QED
  BY <1>2, <1>3, <1>5, <1>6, <1>7 DEF CallerStep

LEMMA WorkerConnections ==
  ASSUME TypeOK, ConnInv, NEW w \in PoolThreads, WorkerStep(w)
  PROVE  ConnInv'
<1>1. Direct' = Direct /\ w \notin Direct
  BY ThreadsAssumption DEF WorkerStep, Run, Refuse, Connect, ExecuteSize, TakeExecute,
     SendQuery, ExecutesDone, QuerySize, TakeQuery, PerformAsyncQuery, QueriesDone,
     Check, CheckQuery, GiveUpPlace, Recheck, RecheckQuery, Rejoin, Release, Count,
     Round, Take, Sent, Look, callers, Direct
<1>2. CASE Connect(w)
  <2>1. Connected' = Connected \cup {w} /\ GetFreeConnection(w)
    BY <1>2 DEF Connect, Move, WAt, WGoto, Connected, ConnectedAt, WorkerPlaces, WorkingAt, TypeOK
  <2> QED
    BY <1>1, <2>1, ConnectionTaken
<1>3. CASE Release(w)
  <2>1. Connected' = Connected \ {w} /\ Unlock(w)
    BY <1>3 DEF Release, Move, WAt, WGoto, Connected, ConnectedAt, WorkerPlaces, WorkingAt, TypeOK
  <2> QED
    BY <1>1, <2>1, ConnectionGiven
<1>4. ASSUME \E l \in WorkerPlaces : WGoto(w, l) /\ (wpc[w] \in ConnectedAt <=> l \in ConnectedAt),
             using' = using
      PROVE  ConnInv'
  <2>1. Connected' = Connected
    BY <1>4 DEF WGoto, Connected, TypeOK
  <2> QED
    BY <1>1, <1>4, <2>1 DEF ConnInv
<1> USE DEF Move, WAt, Count, Round, Take, Sent, Look, ConnectedAt, WorkerPlaces, WorkingAt
<1>5. CASE Run(w) \/ Refuse(w) \/ ExecuteSize(w) \/ TakeExecute(w) \/ SendQuery(w)
  BY <1>4, <1>5 DEF Run, Refuse, ExecuteSize, TakeExecute, SendQuery
<1>6. CASE ExecutesDone(w) \/ QuerySize(w) \/ TakeQuery(w) \/ PerformAsyncQuery(w)
  BY <1>4, <1>6 DEF ExecutesDone, QuerySize, TakeQuery, PerformAsyncQuery
<1>7. CASE QueriesDone(w) \/ Check(w) \/ CheckQuery(w) \/ GiveUpPlace(w)
  BY <1>4, <1>7 DEF QueriesDone, Check, CheckQuery, GiveUpPlace
<1>8. CASE Recheck(w) \/ RecheckQuery(w) \/ Rejoin(w)
  BY <1>4, <1>8 DEF Recheck, RecheckQuery, Rejoin
<1> QED
  BY <1>2, <1>3, <1>5, <1>6, <1>7, <1>8 DEF WorkerStep

LEMMA NextConnections ==
  ASSUME TypeOK, ConnInv, [Next]_vars
  PROVE  ConnInv'
<1>1. CASE UNCHANGED vars
  BY <1>1 DEF vars, callers, workers, ConnInv, Connected, Direct
<1> QED
  BY <1>1, CallerConnections, WorkerConnections DEF Next

-----------------------------------------------------------------------------
(* The steps of Executor.                                                  *)
LEMMA SameCardinality ==
  ASSUME NEW S PROVE Promise!Cardinality(S) = Cardinality(S)
  BY DEF Promise!Cardinality, Cardinality

(* As many calls are being executed as there are threads and callers that  *)
(* hold a connection for one, at most.                                     *)
LEMMA ExecutingBound ==
  ASSUME IsFiniteSet(Sending \cup Direct)
  PROVE  /\ IsFiniteSet(executing) /\ Cardinality(executing) \in Nat
         /\ Cardinality(executing) <= Cardinality(Sending \cup Direct)
<1> DEFINE Who == Sending \cup Direct
           f == [t \in Who |-> IF t \in Sending THEN cur[t] ELSE call[t].nr]
<1>1. \A c \in Direct : c \notin Sending
  BY ThreadsAssumption DEF Sending, Direct
<1>2. executing = {f[t] : t \in Who}
  <2>1. \A w \in Sending : f[w] = cur[w]
    OBVIOUS
  <2>2. \A c \in Direct : f[c] = call[c].nr
    BY <1>1
  <2> QED
    BY <2>1, <2>2, ExecutingIs DEF Sends, Directs
<1>3. f \in Surjection(Who, executing)
  BY <1>2 DEF Surjection
<1> QED
  BY <1>3, FS_Surjection, FS_CardinalityType

LEMMA RoomToExecute ==
  ASSUME ConnInv
  PROVE  /\ Cardinality(using) < MaxThdSize => Cardinality(executing) < MaxThdSize
         /\ \A w \in Connected : w \notin Sending => Cardinality(executing) < MaxThdSize
<1>1. Sending \cup Direct \subseteq using /\ IsFiniteSet(using)
  BY DEF ConnInv, Sending, Connected, ConnectedAt, WorkerPlaces, WorkingAt
<1>2. /\ IsFiniteSet(Sending \cup Direct) /\ Cardinality(Sending \cup Direct) \in Nat
      /\ Cardinality(Sending \cup Direct) <= Cardinality(using) /\ Cardinality(using) \in Nat
  BY <1>1, FS_Subset, FS_CardinalityType
<1>3. Cardinality(executing) \in Nat /\ Cardinality(executing) <= Cardinality(Sending \cup Direct)
  BY <1>2, ExecutingBound
<1>4. ASSUME NEW w \in Connected, w \notin Sending
      PROVE  Cardinality(Sending \cup Direct) < Cardinality(using)
  <2>1. w \in using /\ w \notin Direct
    BY ThreadsAssumption DEF ConnInv, Connected, Direct
  <2>2. Sending \cup Direct \subseteq using /\ Sending \cup Direct # using
    BY <1>1, <1>4, <2>1
  <2> QED
    BY <1>1, <1>2, <2>2, FS_Subset
<1>5. Cardinality(using) <= MaxThdSize /\ MaxThdSize \in Nat
  BY SizeAssumption DEF ConnInv
<1>6. ASSUME NEW w \in Connected, w \notin Sending
      PROVE  Cardinality(executing) < MaxThdSize
  <2>1. Cardinality(Sending \cup Direct) < Cardinality(using)
    BY <1>4, <1>6
  <2> QED
    BY <1>2, <1>3, <1>5, <2>1
<1>7. Cardinality(using) < MaxThdSize => Cardinality(executing) < MaxThdSize
  BY <1>2, <1>3, <1>5
<1> QED
  BY <1>6, <1>7

LEMMA KnownIs ==
  Promise!Known = Elems(queExecute) \cup Elems(queQuery) \cup executing \cup done
<1> DEFINE Names == {"execute", "query"}
           que == [q \in Names |-> IF q = "execute" THEN queExecute ELSE queQuery]
           InQueues == UNION {Elems(que[q]) : q \in Names}
<1>1. que["execute"] = queExecute /\ que["query"] = queQuery
  OBVIOUS
<1>2. Promise!Known = InQueues \cup executing \cup done
  BY DEF Promise!Known, Elems
<1> HIDE DEF que
<1>3. InQueues = Elems(que["execute"]) \cup Elems(que["query"])
  OBVIOUS
<1> HIDE DEF InQueues
<1> QED
  BY <1>1, <1>2, <1>3

LEMMA SubmitIsNext ==
  ASSUME NEW n \in 1 .. MaxCalls, n \notin Promise!Known, executing' = executing, done' = done,
         \/ queExecute' = Append(queExecute, n) /\ queQuery' = queQuery
         \/ queQuery' = Append(queQuery, n) /\ queExecute' = queExecute
  PROVE  Promise!Next
<1>1. CASE queExecute' = Append(queExecute, n) /\ queQuery' = queQuery
  <2>1. Promise!Submit("execute", n)
    BY <1>1 DEF Promise!Submit
  <2> QED
    BY <2>1 DEF Promise!Next
<1>2. CASE queQuery' = Append(queQuery, n) /\ queExecute' = queExecute
  <2>1. Promise!Submit("query", n)
    BY <1>2 DEF Promise!Submit
  <2> QED
    BY <2>1 DEF Promise!Next
<1> QED
  BY <1>1, <1>2

LEMMA SubmitStep ==
  ASSUME TypeOK, PlaceInv, NEW c \in Callers, ExecuteNA(c) \/ AddAsyncQuery(c)
  PROVE  Promise!Next
<1> DEFINE n == call[c].nr
<1>1. /\ cpc[c] \in HoldAt /\ CGoto(c, "trigger") /\ UNCHANGED <<workers, call, done>>
  BY DEF ExecuteNA, AddAsyncQuery, Queued, CAt, HoldAt
<1>2. n \notin Promise!Known /\ n \in 1 .. MaxCalls
  BY <1>1, HandFact, KnownIs, ExecutingIs
<1>3. executing' = executing
  <2>1. Sends' = Sends
    BY <1>1, CallerKeepsSends
  <2>2. Directs' = Directs
    BY <1>1, CallerHands DEF PlaceInv, HoldAt
  <2>3. (executing = Sends \cup Directs)'
    BY DEF executing, Sends, Directs, Sending, Direct, CAt
  <2> QED
    BY <2>1, <2>2, <2>3, ExecutingIs
<1> QED
  BY <1>1, <1>2, <1>3, SubmitIsNext DEF ExecuteNA, AddAsyncQuery

LEMMA StartNowStep ==
  ASSUME TypeOK, PlaceInv, ConnInv, NEW c \in Callers, WaitExecuteNA(c)
  PROVE  Promise!Next
<1> DEFINE n == call[c].nr
<1>1. /\ cpc[c] \in HoldAt /\ CGoto(c, "sending") /\ GetFreeConnection(c)
      /\ UNCHANGED <<queues, workers, call, done>>
  BY DEF WaitExecuteNA, CAt, HoldAt
<1>2. n \notin Promise!Known /\ n \in 1 .. MaxCalls
  BY <1>1, HandFact, KnownIs, ExecutingIs
<1>3. executing' = executing \cup {n}
  <2>1. Sends' = Sends
    BY <1>1, CallerKeepsSends
  <2>2. Directs' = Directs \cup {n}
    BY <1>1, CallerHands DEF PlaceInv, HoldAt
  <2>3. (executing = Sends \cup Directs)'
    BY DEF executing, Sends, Directs, Sending, Direct, CAt
  <2> QED
    BY <2>1, <2>2, <2>3, ExecutingIs
<1>4. Cardinality(executing) < MaxThdSize
  BY <1>1, RoomToExecute DEF GetFreeConnection
<1>5. Promise!StartNow(n)
  BY <1>1, <1>2, <1>3, <1>4, SameCardinality DEF Promise!StartNow, queues
<1> QED
  BY <1>2, <1>5 DEF Promise!Next

LEMMA StartStep ==
  ASSUME TypeOK, PlaceInv, ConnInv, NEW w \in PoolThreads, TakeExecute(w) \/ TakeQuery(w)
  PROVE  Promise!Next
<1>1. /\ w \in Connected /\ w \notin Sending
  BY DEF TakeExecute, TakeQuery, Move, WAt, Connected, ConnectedAt, WorkerPlaces,
     WorkingAt, Sending
<1>2. Cardinality(executing) < MaxThdSize
  BY <1>1, RoomToExecute
<1>3. ASSUME NEW n, NEW l \in SendAt, WGoto(w, l), UNCHANGED callers,
             cur' = [cur EXCEPT ![w] = n], wpc[w] \notin SendAt
      PROVE  executing' = executing \cup {n}
  <2>1. Sends' = Sends \cup {n} /\ Directs' = Directs
    BY <1>3, WorkerTakes
  <2>2. (executing = Sends \cup Directs)'
    BY DEF executing, Sends, Directs, Sending, Direct, CAt
  <2> QED
    BY <2>1, <2>2, ExecutingIs
<1>4. CASE TakeExecute(w)
  <2>1. executing' = executing \cup {Head(queExecute)}
    BY <1>3, <1>4 DEF TakeExecute, Take, Move, WAt, SendAt
  <2>2. Promise!Start("execute")
    BY <1>2, <1>4, <2>1, SameCardinality DEF TakeExecute, Take, Promise!Start
  <2> QED
    BY <2>2 DEF Promise!Next
<1>5. CASE TakeQuery(w)
  <2>1. executing' = executing \cup {Head(queQuery)}
    BY <1>3, <1>5 DEF TakeQuery, Take, Move, WAt, SendAt
  <2>2. Promise!Start("query")
    BY <1>2, <1>5, <2>1, SameCardinality DEF TakeQuery, Take, Promise!Start
  <2> QED
    BY <2>2 DEF Promise!Next
<1> QED
  BY <1>4, <1>5

LEMMA EndStep ==
  ASSUME NEW n \in executing, executing' = executing \ {n}, done' = done \cup {n},
         UNCHANGED queues, n \in 1 .. MaxCalls
  PROVE  Promise!Next
<1>1. Promise!End(n)
  BY DEF Promise!End, queues
<1> QED
  BY <1>1 DEF Promise!Next

LEMMA CallerEndStep ==
  ASSUME TypeOK, PlaceInv, NEW c \in Callers, WaitExecuted(c)
  PROVE  Promise!Next
<1> DEFINE n == call[c].nr
<1>1. /\ cpc[c] = "sending" /\ Return(c) /\ done' = done \cup {n}
      /\ UNCHANGED <<queues, workers>>
  BY DEF WaitExecuted, CAt
<1>2. Directs' = Directs \ {n} /\ n \in Directs
  BY <1>1, CallerSent DEF PlaceInv
<1>3. Sends' = Sends
  BY <1>1, CallerKeepsSends
<1>4. n \notin Sends
  BY <1>2 DEF PlaceInv, ApartInv
<1>5. (executing = Sends \cup Directs)'
  BY DEF executing, Sends, Directs, Sending, Direct, CAt
<1>6. executing' = executing \ {n} /\ n \in executing
  BY <1>2, <1>3, <1>4, <1>5, ExecutingIs
<1>7. n \in 1 .. MaxCalls
  <2>1. n \in 1 .. calls /\ calls \in Nat /\ calls <= MaxCalls
    BY <1>1 DEF TypeOK, PlaceInv, NumberInv
  <2> QED
    BY <2>1, SizeAssumption
<1> QED
  BY <1>1, <1>6, <1>7, EndStep

LEMMA WorkerEndStep ==
  ASSUME TypeOK, PlaceInv, NEW w \in PoolThreads, SendQuery(w) \/ PerformAsyncQuery(w)
  PROVE  Promise!Next
<1> DEFINE n == cur[w]
<1>1. PICK l \in {"exe", "qry"} :
        /\ wpc[w] \in SendAt /\ WGoto(w, l)
        /\ done' = done \cup {n} /\ cur' = [cur EXCEPT ![w] = 0]
        /\ UNCHANGED <<queues, callers>>
  BY DEF SendQuery, PerformAsyncQuery, Sent, Move, WAt, SendAt
<1>2. Sends' = Sends \ {n} /\ w \in Sending /\ Directs' = Directs
  BY <1>1, WorkerSent DEF PlaceInv, SendAt
<1>3. n \in Sends /\ n \notin Directs
  BY <1>2 DEF PlaceInv, ApartInv, Sends
<1>4. (executing = Sends \cup Directs)'
  BY DEF executing, Sends, Directs, Sending, Direct, CAt
<1>5. executing' = executing \ {n} /\ n \in executing
  BY <1>2, <1>3, <1>4, ExecutingIs
<1>6. n \in 1 .. MaxCalls
  <2>1. n \in 1 .. calls /\ calls \in Nat /\ calls <= MaxCalls
    BY <1>3 DEF TypeOK, PlaceInv, NumberInv
  <2> QED
    BY <2>1, SizeAssumption
<1> QED
  BY <1>1, <1>5, <1>6, EndStep

LEMMA Stutter ==
  ASSUME Sends' = Sends, Directs' = Directs, UNCHANGED <<queues, done>>
  PROVE  UNCHANGED Promise!vars
<1>1. (executing = Sends \cup Directs)'
  BY DEF executing, Sends, Directs, Sending, Direct, CAt
<1>2. executing' = executing
  BY <1>1, ExecutingIs
<1> QED
  BY <1>2 DEF Promise!vars, queues

LEMMA CallStutter ==
  ASSUME TypeOK, PlaceInv, NEW c \in Callers, NEW kind \in Kinds[c], Call(c, kind)
  PROVE  UNCHANGED Promise!vars
<1> DEFINE r == [kind |-> kind, nr |-> calls + 1]
<1>1. /\ cpc[c] = "idle" /\ call' = [call EXCEPT ![c] = r] /\ CGoto(c, kind)
      /\ UNCHANGED <<queues, workers, done>>
  BY DEF Call, CAt
<1>2. kind \in HoldAt
  BY ThreadsAssumption DEF HoldAt
<1> HIDE DEF r
<1>3. Directs' = Directs
  BY <1>1, <1>2, CallerHolds
<1>4. Sends' = Sends
  BY <1>1, CallerKeepsSends
<1> QED
  BY <1>1, <1>3, <1>4, Stutter

LEMMA ExecutorStep ==
  CountInv /\ PlaceInv /\ ConnInv /\ [Next]_vars => [Promise!Next]_(Promise!vars)
<1> SUFFICES ASSUME CountInv, PlaceInv, ConnInv, [Next]_vars
             PROVE  Promise!Next \/ UNCHANGED Promise!vars
  OBVIOUS
<1>1. TypeOK
  BY DEF CountInv
<1>2. CASE UNCHANGED vars
  BY <1>2, Stutter DEF vars, queues, callers, workers, Sends, Sending, Directs, Direct
<1>3. ASSUME NEW c \in Callers, NEW kind \in Kinds[c], Call(c, kind)
      PROVE  UNCHANGED Promise!vars
  BY <1>1, <1>3, CallStutter
<1>4. ASSUME NEW c \in Callers, CallerStep(c)
      PROVE  Promise!Next \/ UNCHANGED Promise!vars
  <2>1. CASE TriggerRun(c) \/ Wait(c)
    <3>1. UNCHANGED <<queues, done>>
      BY <2>1 DEF TriggerRun, Wait
    <3> QED
      BY <1>1, <2>1, <3>1, QuietCallerPlaces, Stutter
  <2> QED
    BY <1>1, <1>4, <2>1, SubmitStep, StartNowStep, CallerEndStep DEF CallerStep
<1>5. ASSUME NEW w \in PoolThreads, WorkerStep(w)
      PROVE  Promise!Next \/ UNCHANGED Promise!vars
  <2>1. CASE QuietStep(w)
    BY <1>1, <2>1, QuietPlaces, Stutter
  <2> QED
    BY <1>1, <1>5, <2>1, StartStep, WorkerEndStep DEF WorkerStep, QuietStep
<1> QED
  BY <1>2, <1>3, <1>4, <1>5 DEF Next

(* The executor takes Executor's steps only, for any callers, threads and  *)
(* number of connections: no thread takes a statement out of turn or one   *)
(* that another has, Execute and WaitExecute do not execute a call twice,  *)
(* and no more are executed at a time than there are connections.          *)
THEOREM ExecutorSteps == Spec => ImplementsExecutor
<1>1. Init => CountInv /\ PlaceInv /\ ConnInv
  BY InitCount, InitPlaces, InitConnections
<1>2. CountInv /\ PlaceInv /\ ConnInv /\ [Next]_vars => (CountInv /\ PlaceInv /\ ConnInv)'
  <2> SUFFICES ASSUME CountInv, PlaceInv, ConnInv, [Next]_vars
               PROVE  CountInv' /\ PlaceInv' /\ ConnInv'
    OBVIOUS
  <2>1. TypeOK
    BY DEF CountInv
  <2> QED
    BY <2>1, NextCount, NextPlaces, NextConnections
<1>3. Init => Promise!Init
  <2> SUFFICES ASSUME Init PROVE Promise!Init
    OBVIOUS
  <2>1. Sends = {} /\ Directs = {}
    BY DEF Init, Sends, Sending, Directs, Direct
  <2>2. executing = {}
    BY <2>1, ExecutingIs
  <2> QED
    BY <2>2 DEF Init, Promise!Init
<1>4. CountInv /\ PlaceInv /\ ConnInv /\ [Next]_vars => [Promise!Next]_(Promise!vars)
  BY ExecutorStep
<1> QED
  BY <1>1, <1>2, <1>3, <1>4, PTL DEF Spec, ImplementsExecutor, Promise!Spec
=============================================================================
