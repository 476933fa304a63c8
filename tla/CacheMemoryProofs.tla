------------------------- MODULE CacheMemoryProofs -------------------------
(***************************************************************************)
(* For any clients, fields, records and bounds: the types of the cache of  *)
(* one key, m_bLock as a lock on the record, and that a changed field of a *)
(* cached record is known to the timer.                                    *)
(***************************************************************************)
EXTENDS CacheMemory, FiniteSetTheorems, TLAPS

(* The types, with values and cas codes bounded by the writes so far.      *)

Results == {None, "OK", "NOTFOUND", "EXISTS", "NOTSTORED"}
ChgTypes == {"NIL", "UPDATE"}
Vals(n) == [Fields -> 0 .. n]
RowsTo(n) == [there : BOOLEAN, val : Vals(n), cas : 0 .. n]
TokensTo(n) == [cas : 0 .. n, val : Vals(n)]
RecordsTo(n) ==
  [val : Vals(n), dirty : SUBSET Fields, cas : 0 .. n, inc : 0 .. n,
   chg : ChgTypes, busy : BOOLEAN]
JobsTo(n) ==
  [op : Ops \cup TimerOps \cup {None}, phase : Phases \cup {None},
   obj : Objects \cup {None}, old : Objects \cup {None},
   fields : SUBSET Fields, tok : TokensTo(n), took : Vals(n),
   chg : ChgTypes, memcas : 0 .. n, newcas : 0 .. n,
   read : RowsTo(n), res : Results, again : BOOLEAN]

RecordOK(n, r) == r \in RecordsTo(n) /\ r.cas + r.inc <= n

\* Where a thread is at work on a record.
Holding == {"select", "fill", "serve", "getcas", "apply", "reset", "try", "check",
            "take", "takechg", "memcas", "flushcas", "query", "recover",
            "loadcas", "setcas", "unlock"}

\* Thread w, at p with the locals j.
PlaceOK(w, p, j) ==
  /\ p \in Locations
  /\ j.op \in (IF w = Timer THEN TimerOps ELSE Ops) \cup {None}
  /\ p = "idle" => j = Idle
  /\ p \in Holding => j.obj \in Objects
  /\ p = "find" => ~j.again
  /\ p \in {"insert", "select"} /\ j.op = "cas" /\ j.again => j.old \in Objects
  /\ p = "giveup" => j.old \in Objects
  /\ p = "add" \/ j.phase = "add" => j.op = "add"
  /\ p = "apply" => j.op \in {"store", "storecas"}
  /\ p = "recover" => j.chg = "UPDATE"
ThreadOK(n, w, p, j) == j \in JobsTo(n) /\ PlaceOK(w, p, j)

\* Clients whose request has still to write.
ToWrite(p, j) ==
  \/ j.op \in {"set", "cas"} /\ p \in {"find", "insert", "select", "fill", "serve"}
  \/ j.op \in {"store", "storecas"} /\ p \in {"detach", "apply"}
  \/ j.op = "add" /\ p = "add"
Writers == {w \in Clients : ToWrite(pc[w], job[w])}

DataType ==
  /\ row \in RowsTo(stamp) /\ latest \in Vals(stamp)
  /\ mapped \in Objects \cup {None}
  /\ token \in [Clients -> TokensTo(stamp)]
HeapType == /\ heap \in [Objects -> RecordsTo(stamp)]
            /\ \A o \in Objects : RecordOK(stamp, heap[o])
ThreadType ==
  /\ pc \in [Workers -> Locations] /\ job \in [Workers -> JobsTo(stamp)]
  /\ \A w \in Workers : ThreadOK(stamp, w, pc[w], job[w])
CountType ==
  /\ stamp \in Nat /\ requests \in 0 .. MaxRequests
  /\ stamp + Cardinality(Writers) <= requests + 1

TypeInv == DataType /\ HeapType /\ ThreadType /\ CountType

-----------------------------------------------------------------------------
\* What was well typed after n writes is so after one more.
LEMMA GrowLemma ==
  ASSUME NEW n \in Nat, NEW m \in {n, n + 1}
  PROVE  /\ Vals(n) \subseteq Vals(m) /\ RowsTo(n) \subseteq RowsTo(m)
         /\ TokensTo(n) \subseteq TokensTo(m)
         /\ RecordsTo(n) \subseteq RecordsTo(m) /\ JobsTo(n) \subseteq JobsTo(m)
         /\ \A r : RecordOK(n, r) => RecordOK(m, r)
         /\ \A w, p, j : ThreadOK(n, w, p, j) => ThreadOK(m, w, p, j)
<1>0. m \in Nat /\ n <= m /\ 0 .. n \subseteq 0 .. m
  OBVIOUS
<1>1. Vals(n) \subseteq Vals(m)
  BY <1>0 DEF Vals
<1>2. RowsTo(n) \subseteq RowsTo(m) /\ TokensTo(n) \subseteq TokensTo(m)
  BY <1>0, <1>1 DEF RowsTo, TokensTo
<1>3. RecordsTo(n) \subseteq RecordsTo(m)
  BY <1>0, <1>1 DEF RecordsTo
<1>4. JobsTo(n) \subseteq JobsTo(m)
  BY <1>0, <1>1, <1>2 DEF JobsTo
<1>5. \A r : RecordOK(n, r) => RecordOK(m, r)
  <2> SUFFICES ASSUME NEW r, RecordOK(n, r)
               PROVE  RecordOK(m, r)
    OBVIOUS
  <2>1. r \in RecordsTo(m) /\ r.cas \in 0 .. n /\ r.inc \in 0 .. n /\ r.cas + r.inc <= n
    BY <1>3 DEF RecordOK, RecordsTo
  <2> QED
    BY <1>0, <2>1 DEF RecordOK
<1>6. \A w, p, j : ThreadOK(n, w, p, j) => ThreadOK(m, w, p, j)
  BY <1>4 DEF ThreadOK
<1> QED
  BY <1>1, <1>2, <1>3, <1>4, <1>5, <1>6

\* TypeOK follows: a write is counted by the request that asked for it.
LEMMA TypeInvLemma == TypeInv => TypeOK
<1> SUFFICES ASSUME TypeInv
             PROVE  TypeOK
  OBVIOUS
<1>1. IsFiniteSet(Writers) /\ Cardinality(Writers) \in Nat
  BY ObjectsAssumption, FS_Subset, FS_CardinalityType DEF ObjectsAssumption, Workers, Writers
<1>2. stamp \in Nat /\ stamp <= MaxRequests + 1
  BY <1>1, BoundsAssumption DEF BoundsAssumption, TypeInv, CountType
<1>3. 0 .. stamp \subseteq 0 .. MaxRequests + 1 /\ stamp \in Stamps
  BY <1>2, BoundsAssumption DEF BoundsAssumption, Stamps
<1>4. Vals(stamp) \subseteq Values
  BY <1>3 DEF Vals, Values, Stamps
<1>5. RowsTo(stamp) \subseteq Rows
  BY <1>3, <1>4 DEF RowsTo, Rows, Cases
<1>6. RecordsTo(stamp) \subseteq Records
  BY <1>3, <1>4 DEF RecordsTo, Records, Cases, ChgTypes
<1>7. heap \in [Objects -> Records]
  BY <1>6 DEF TypeInv, HeapType
<1>8. \A w \in Workers : /\ job[w].obj \in Objects \cup {None}
                         /\ job[w].took \in Vals(stamp) /\ job[w].read \in RowsTo(stamp)
  BY DEF TypeInv, ThreadType, JobsTo
<1> QED
  BY <1>3, <1>4, <1>5, <1>7, <1>8 DEF TypeInv, DataType, ThreadType, TypeOK

\* A thread holds two records at most, so an address is always free.
LEMMA RoomLemma ==
  ASSUME TypeInv, mapped = None
  PROVE  NewObject \in Objects /\ Unheld(NewObject)
<1> DEFINE held == {Obj(w) : w \in Workers} \cup {job[w].old : w \in Workers}
<1>1. /\ IsFiniteSet({Obj(w) : w \in Workers})
      /\ Cardinality({Obj(w) : w \in Workers}) <= Cardinality(Workers)
  <2> DEFINE f == [w \in Workers |-> Obj(w)]
  <2>1. f \in Surjection(Workers, {Obj(w) : w \in Workers})
    BY DEF Surjection
  <2> QED
    BY <2>1, FS_Surjection, ObjectsAssumption DEF ObjectsAssumption
<1>2. /\ IsFiniteSet({job[w].old : w \in Workers})
      /\ Cardinality({job[w].old : w \in Workers}) <= Cardinality(Workers)
  <2> DEFINE f == [w \in Workers |-> job[w].old]
  <2>1. f \in Surjection(Workers, {job[w].old : w \in Workers})
    BY DEF Surjection
  <2> QED
    BY <2>1, FS_Surjection, ObjectsAssumption DEF ObjectsAssumption
<1>3. IsFiniteSet(held) /\ Cardinality(held) <= 2 * Cardinality(Workers)
  <2>1. /\ IsFiniteSet(held)
        /\ Cardinality(held) = Cardinality({Obj(w) : w \in Workers})
             + Cardinality({job[w].old : w \in Workers})
             - Cardinality({Obj(w) : w \in Workers} \cap {job[w].old : w \in Workers})
    BY <1>1, <1>2, FS_Union
  <2>2. Cardinality({Obj(w) : w \in Workers} \cap {job[w].old : w \in Workers}) \in Nat
    BY <1>1, FS_Subset, FS_CardinalityType
  <2> QED
    BY <1>1, <1>2, <2>1, <2>2, FS_CardinalityType, ObjectsAssumption DEF ObjectsAssumption
<1>4. Objects \ held # {}
  <2> SUFFICES ASSUME Objects \subseteq held
               PROVE  FALSE
    OBVIOUS
  <2>1. Cardinality(Objects) <= Cardinality(held)
    BY <1>3, FS_Subset
  <2> QED
    BY <1>3, <2>1, FS_CardinalityType, ObjectsAssumption DEF ObjectsAssumption
<1>5. Objects \ held \subseteq Free
  BY WorkersAssumption DEF WorkersAssumption, Free, Unheld
<1>6. NewObject \in Free
  BY <1>4, <1>5 DEF NewObject
<1> QED
  BY <1>6 DEF Free
-----------------------------------------------------------------------------
(* What a step of one thread does to the parts of TypeInv.                 *)

\* Records with fields of the right types; a record kept whole keeps them.
JobFields == {"op", "phase", "obj", "old", "fields", "tok", "took", "chg", "memcas",
              "newcas", "read", "res", "again"}
RecordFields == {"val", "dirty", "cas", "inc", "chg", "busy"}
JobFieldsOK(n, j) ==
  /\ j.op \in Ops \cup TimerOps \cup {None} /\ j.phase \in Phases \cup {None}
  /\ j.obj \in Objects \cup {None} /\ j.old \in Objects \cup {None}
  /\ j.fields \in SUBSET Fields /\ j.tok \in TokensTo(n) /\ j.took \in Vals(n)
  /\ j.chg \in ChgTypes /\ j.memcas \in 0 .. n /\ j.newcas \in 0 .. n
  /\ j.read \in RowsTo(n) /\ j.res \in Results /\ j.again \in BOOLEAN
RecordFieldsOK(n, r) ==
  /\ r.val \in Vals(n) /\ r.dirty \in SUBSET Fields
  /\ r.cas \in 0 .. n /\ r.inc \in 0 .. n /\ r.cas + r.inc <= n
  /\ r.chg \in ChgTypes /\ r.busy \in BOOLEAN
Shape(j, fields) == j = [k \in fields |-> j[k]]

\* A thread's locals are a record with these fields, each in its type.
LEMMA JobTypeLemma ==
  ASSUME NEW n, NEW j
  PROVE  j \in JobsTo(n) <=> Shape(j, JobFields) /\ JobFieldsOK(n, j)
<1>1. ASSUME j \in JobsTo(n)
      PROVE  Shape(j, JobFields) /\ JobFieldsOK(n, j)
  <2>1. Shape(j, JobFields)
    BY <1>1 DEF Shape, JobFields, JobsTo
  <2>2. JobFieldsOK(n, j)
    BY <1>1 DEF JobFieldsOK, JobsTo
  <2> QED
    BY <2>1, <2>2
<1>2. ASSUME Shape(j, JobFields), JobFieldsOK(n, j)
      PROVE  j \in JobsTo(n)
  BY <1>2 DEF Shape, JobFields, JobFieldsOK, JobsTo
<1> QED
  BY <1>1, <1>2

\* The same for a record object.
LEMMA RecordTypeLemma ==
  ASSUME NEW n, NEW r
  PROVE  RecordOK(n, r) <=> Shape(r, RecordFields) /\ RecordFieldsOK(n, r)
<1>1. ASSUME RecordOK(n, r)
      PROVE  Shape(r, RecordFields) /\ RecordFieldsOK(n, r)
  <2>1. Shape(r, RecordFields)
    BY <1>1 DEF Shape, RecordFields, RecordOK, RecordsTo
  <2>2. RecordFieldsOK(n, r)
    BY <1>1 DEF RecordFieldsOK, RecordOK, RecordsTo
  <2> QED
    BY <2>1, <2>2
<1>2. ASSUME Shape(r, RecordFields), RecordFieldsOK(n, r)
      PROVE  RecordOK(n, r)
  BY <1>2 DEF Shape, RecordFields, RecordFieldsOK, RecordOK, RecordsTo
<1> QED
  BY <1>1, <1>2

\* A step of one thread keeps the threads' types and the count of writes ahead.
LEMMA ThreadStep ==
  ASSUME TypeInv, NEW w \in Workers,
         pc' = [pc EXCEPT ![w] = pc'[w]], job' = [job EXCEPT ![w] = job'[w]],
         ThreadOK(stamp', w, pc'[w], job'[w]),
         \/ /\ stamp' = stamp /\ requests' = requests
            /\ w \in Clients /\ ToWrite(pc'[w], job'[w]) => ToWrite(pc[w], job[w])
         \/ /\ stamp' = stamp + 1 /\ requests' = requests
            /\ w \in Clients /\ ToWrite(pc[w], job[w]) /\ ~ToWrite(pc'[w], job'[w])
         \/ stamp' = stamp /\ requests' = requests + 1 /\ requests < MaxRequests
  PROVE  ThreadType' /\ CountType'
<1>1. stamp \in Nat /\ stamp' \in {stamp, stamp + 1}
  BY DEF TypeInv, CountType
<1>2. ThreadType'
  <2>1. pc'[w] \in Locations /\ job'[w] \in JobsTo(stamp')
    BY DEF ThreadOK, PlaceOK
  <2>2. pc' \in [Workers -> Locations] /\ job' \in [Workers -> JobsTo(stamp')]
    BY <1>1, <2>1, GrowLemma DEF TypeInv, ThreadType
  <2>3. ASSUME NEW u \in Workers PROVE ThreadOK(stamp', u, pc'[u], job'[u])
    <3>1. CASE u = w
      BY <3>1 DEF TypeInv, ThreadType
    <3>2. CASE u # w
      <4>1. ThreadOK(stamp, u, pc[u], job[u]) /\ pc'[u] = pc[u] /\ job'[u] = job[u]
        BY <3>2 DEF TypeInv, ThreadType
      <4> QED
        BY <1>1, <4>1, GrowLemma
    <3> QED
      BY <3>1, <3>2
  <2> QED
    BY <2>2, <2>3 DEF ThreadType
<1>3. IsFiniteSet(Writers) /\ Cardinality(Writers) \in Nat
  BY ObjectsAssumption, FS_Subset, FS_CardinalityType DEF ObjectsAssumption, Workers, Writers
<1>4. \A u \in Clients : u # w => (u \in Writers' <=> u \in Writers)
  BY DEF TypeInv, ThreadType, Writers, Workers
<1>5. w \in Clients => /\ w \in Writers <=> ToWrite(pc[w], job[w])
                       /\ w \in Writers' <=> ToWrite(pc'[w], job'[w])
  BY DEF TypeInv, ThreadType, Writers
<1>6. Writers \subseteq Clients /\ Writers' \subseteq Clients
  BY DEF Writers
<1>7. CASE /\ stamp' = stamp /\ requests' = requests
           /\ w \in Clients /\ ToWrite(pc'[w], job'[w]) => ToWrite(pc[w], job[w])
  <2>1. Writers' \subseteq Writers
    BY <1>4, <1>5, <1>6, <1>7
  <2>2. Cardinality(Writers') <= Cardinality(Writers) /\ Cardinality(Writers') \in Nat
    BY <1>3, <2>1, FS_Subset, FS_CardinalityType
  <2>3. CountType'
    BY <1>3, <1>7, <2>2 DEF TypeInv, CountType
  <2> QED
    BY <1>2, <2>3
<1>8. CASE /\ stamp' = stamp + 1 /\ requests' = requests
           /\ w \in Clients /\ ToWrite(pc[w], job[w]) /\ ~ToWrite(pc'[w], job'[w])
  <2>1. Writers' \subseteq Writers \ {w} /\ w \in Writers
    BY <1>4, <1>5, <1>6, <1>8
  <2>2. /\ IsFiniteSet(Writers \ {w})
        /\ Cardinality(Writers \ {w}) = Cardinality(Writers) - 1
    BY <1>3, <2>1, FS_RemoveElement
  <2>3. Cardinality(Writers') <= Cardinality(Writers) - 1 /\ Cardinality(Writers') \in Nat
    BY <2>1, <2>2, FS_Subset, FS_CardinalityType
  <2>4. CountType'
    BY <1>3, <1>8, <2>3 DEF TypeInv, CountType
  <2> QED
    BY <1>2, <2>4
<1>9. CASE stamp' = stamp /\ requests' = requests + 1 /\ requests < MaxRequests
  <2>1. Writers' \subseteq Writers \cup {w}
    BY <1>4, <1>6
  <2>2. /\ IsFiniteSet(Writers \cup {w})
        /\ Cardinality(Writers \cup {w}) <= Cardinality(Writers) + 1
    <3>1. IsFiniteSet(Writers \cup {w}) /\ Cardinality(Writers \cup {w}) =
            IF w \in Writers THEN Cardinality(Writers) ELSE Cardinality(Writers) + 1
      BY <1>3, FS_AddElement
    <3> QED
      BY <1>3, <3>1
  <2>3. Cardinality(Writers') <= Cardinality(Writers) + 1 /\ Cardinality(Writers') \in Nat
    BY <1>3, <2>1, <2>2, FS_Subset, FS_CardinalityType
  <2>4. CountType'
    BY <1>3, <1>9, <2>3, BoundsAssumption DEF BoundsAssumption, TypeInv, CountType
  <2> QED
    BY <1>2, <2>4
<1> QED
  BY <1>7, <1>8, <1>9

\* One record object is replaced by a well-typed one.
LEMMA HeapPut ==
  ASSUME TypeInv, stamp' \in {stamp, stamp + 1}, NEW o \in Objects, NEW r,
         RecordOK(stamp', r), heap' = [heap EXCEPT ![o] = r]
  PROVE  HeapType'
<1>1. stamp \in Nat /\ \A x \in Objects : RecordOK(stamp', heap[x])
  BY GrowLemma DEF TypeInv, CountType, HeapType
<1>2. \A x \in Objects : RecordOK(stamp', heap'[x])
  BY <1>1 DEF TypeInv, HeapType
<1> QED
  BY <1>2 DEF TypeInv, HeapType, RecordOK

LEMMA DataSame ==
  ASSUME TypeInv, row' = row, mapped' = mapped, token' = token, latest' = latest,
         stamp' = stamp
  PROVE  DataType'
BY DEF TypeInv, DataType

LEMMA HeapSame ==
  ASSUME TypeInv, heap' = heap, stamp' = stamp
  PROVE  HeapType'
BY DEF TypeInv, HeapType

LEMMA BlankLemma ==
  ASSUME NEW n \in Nat
  PROVE  /\ RecordOK(n, Blank) /\ Nothing \in Vals(n) /\ NoRow \in RowsTo(n)
         /\ NoToken \in TokensTo(n) /\ Idle \in JobsTo(n)
<1>1. Nothing \in Vals(n)
  BY DEF Nothing, Vals
<1>2. NoRow \in RowsTo(n) /\ NoToken \in TokensTo(n)
  BY <1>1 DEF NoRow, RowsTo, NoToken, TokensTo
<1>3. RecordOK(n, Blank)
  BY <1>1 DEF Blank, RecordOK, RecordsTo, ChgTypes
<1>4. Idle \in JobsTo(n)
  BY <1>1, <1>2 DEF Idle, JobsTo, ChgTypes, Results
<1> QED
  BY <1>1, <1>2, <1>3, <1>4

LEMMA InitType == Init => TypeInv
<1> SUFFICES ASSUME Init
             PROVE  TypeInv
  OBVIOUS
<1>1. /\ FirstRow \in RowsTo(1) /\ NoRow \in RowsTo(1) /\ Nothing \in Vals(1)
      /\ FirstRow.val \in Vals(1) /\ NoRow.val \in Vals(1) /\ FirstRow.cas = 1
  BY BlankLemma DEF FirstRow, NoRow, RowsTo, Vals
<1>2. stamp = 1 /\ requests = 0 /\ row \in RowsTo(1) /\ latest \in Vals(1)
  BY <1>1 DEF Init
<1>3. Objects # {}
  BY FS_EmptySet, FS_CardinalityType, ObjectsAssumption DEF ObjectsAssumption
<1>4. FirstObject \in Objects
  BY <1>3 DEF FirstObject
<1>5. token \in [Clients -> TokensTo(1)]
  BY <1>1 DEF Init, TokensTo
<1>6. DataType
  BY <1>2, <1>4, <1>5 DEF Init, DataType
<1>7. HeapType
  <2>1. RecordOK(1, Blank) /\ row.val \in Vals(1) /\ row.cas \in 0 .. 1
    BY <1>2, BlankLemma DEF RowsTo
  <2>2. RecordOK(1, [Blank EXCEPT !.val = row.val, !.cas = row.cas])
    <3> DEFINE r == [Blank EXCEPT !.val = row.val, !.cas = row.cas]
    <3>1. Shape(r, RecordFields)
      BY DEF Shape, RecordFields, Blank
    <3>2. RecordFieldsOK(1, r)
      BY <2>1 DEF RecordFieldsOK, Blank, ChgTypes
    <3> QED
      BY <3>1, <3>2, RecordTypeLemma
  <2>3. \A o \in Objects :
          heap[o] \in {Blank, [Blank EXCEPT !.val = row.val, !.cas = row.cas]}
    BY <1>4 DEF Init
  <2>4. \A o \in Objects : RecordOK(1, heap[o])
    BY <2>1, <2>2, <2>3
  <2>5. heap = [o \in Objects |-> heap[o]]
    BY DEF Init
  <2> QED
    BY <1>2, <2>4, <2>5 DEF HeapType, RecordOK
<1>8. ThreadType
  <2>1. \A w \in Workers : ThreadOK(1, w, "idle", Idle)
    BY BlankLemma DEF ThreadOK, PlaceOK, Locations, Holding, Idle, None
  <2>2. "idle" \in Locations /\ Idle \in JobsTo(1)
    BY BlankLemma DEF Locations
  <2> QED
    BY <1>2, <2>1, <2>2 DEF Init, ThreadType
<1>9. CountType
  <2>1. Writers = {}
    BY DEF Init, Writers, ToWrite, Idle, None, Workers
  <2> QED
    BY <1>2, <2>1, FS_EmptySet, BoundsAssumption DEF BoundsAssumption, CountType
<1> QED
  BY <1>6, <1>7, <1>8, <1>9 DEF TypeInv
-----------------------------------------------------------------------------
(* Every step of a client or the timer keeps the types.                    *)

\* What the types say of the thread that moves.
LEMMA Facts ==
  ASSUME TypeInv, NEW w \in Workers
  PROVE  /\ stamp \in Nat /\ requests \in Nat
         /\ pc \in [Workers -> Locations] /\ job = [u \in Workers |-> job[u]]
         /\ Shape(job[w], JobFields) /\ JobFieldsOK(stamp, job[w])
         /\ PlaceOK(w, pc[w], job[w])
BY JobTypeLemma, BoundsAssumption
   DEF BoundsAssumption, TypeInv, ThreadType, CountType, ThreadOK

\* What the types say of one record object.
LEMMA RecordFacts ==
  ASSUME TypeInv, NEW o \in Objects
  PROVE  /\ heap \in [Objects -> RecordsTo(stamp)] /\ RecordOK(stamp, heap[o])
         /\ Shape(heap[o], RecordFields) /\ RecordFieldsOK(stamp, heap[o])
BY RecordTypeLemma DEF TypeInv, HeapType

\* Which counters a step of w moves: none, the write it still had to do, or
\* the request it takes.
Counted(w) ==
  \/ /\ stamp' = stamp /\ requests' = requests
     /\ w \in Clients /\ ToWrite(pc'[w], job'[w]) => ToWrite(pc[w], job[w])
  \/ /\ stamp' = stamp + 1 /\ requests' = requests
     /\ w \in Clients /\ ToWrite(pc[w], job[w]) /\ ~ToWrite(pc'[w], job'[w])
  \/ stamp' = stamp /\ requests' = requests + 1 /\ requests < MaxRequests

\* ThreadStep, with the locals given field by field.
LEMMA StepType ==
  ASSUME TypeInv, NEW w \in Workers,
         pc' = [pc EXCEPT ![w] = pc'[w]], job' = [job EXCEPT ![w] = job'[w]],
         Shape(job'[w], JobFields), JobFieldsOK(stamp', job'[w]),
         PlaceOK(w, pc'[w], job'[w]), Counted(w)
  PROVE  ThreadType' /\ CountType'
<1>1. ThreadOK(stamp', w, pc'[w], job'[w])
  BY JobTypeLemma DEF ThreadOK
<1> QED
  BY <1>1, ThreadStep DEF Counted

LEMMA RequestType ==
  ASSUME TypeInv, NEW w \in Workers, NEW op \in Ops, Request(w, op)
  PROVE  TypeInv'
<1>1. /\ pc[w] = "idle" /\ job[w] = Idle /\ w \in Clients /\ w # Timer
      /\ stamp' = stamp /\ stamp \in Nat /\ requests' = requests + 1
      /\ requests < MaxRequests
  BY Facts, WorkersAssumption DEF WorkersAssumption, Request, At, PlaceOK
<1>2. PICK F \in SUBSET Fields :
        job' = [job EXCEPT ![w].op = op, ![w].fields = F,
                  ![w].tok = IF op \in CasChecked THEN token[w] ELSE NoToken]
  BY DEF Request
<1>3. /\ job' = [job EXCEPT ![w] = job'[w]] /\ job'[w] =
           [Idle EXCEPT !.op = op, !.fields = F,
              !.tok = IF op \in CasChecked THEN token[w] ELSE NoToken]
      /\ pc' = [pc EXCEPT ![w] = pc'[w]] /\ pc'[w] = Entry(op)
  BY <1>1, <1>2, Facts DEF Request, Goto
<1>4. (IF op \in CasChecked THEN token[w] ELSE NoToken) \in TokensTo(stamp)
  BY <1>1, BlankLemma DEF TypeInv, DataType
<1>5. Shape(job'[w], JobFields) /\ JobFieldsOK(stamp, job'[w])
  <2>1. Shape(Idle, JobFields) /\ JobFieldsOK(stamp, Idle)
    BY <1>1, BlankLemma, JobTypeLemma
  <2>2. Shape(job'[w], JobFields)
    BY <1>3, <2>1 DEF Shape, JobFields
  <2>3. JobFieldsOK(stamp, job'[w])
    BY <1>3, <1>4, <2>1 DEF Shape, JobFields, JobFieldsOK
  <2> QED
    BY <2>2, <2>3
<1>6. PlaceOK(w, pc'[w], job'[w])
  <2>1. job'[w].op = op /\ job'[w].again = FALSE /\ job'[w].phase = None
    BY <1>1, <1>3, Facts, BlankLemma, JobTypeLemma DEF Idle, Shape, JobFields
  <2>2. /\ pc'[w] \in {"find", "insert", "selectall", "detach", "add"}
        /\ pc'[w] = "add" => op = "add"
    BY <1>3, OpsAssumption DEF OpsAssumption, Entry
  <2> QED
    BY <1>1, <2>1, <2>2 DEF PlaceOK, Locations, Holding, None
<1>7. ThreadType' /\ CountType'
  BY <1>1, <1>3, <1>5, <1>6, StepType DEF Counted
<1>8. DataType' /\ HeapType'
  BY <1>1, DataSame, HeapSame DEF Request
<1> QED
  BY <1>7, <1>8 DEF TypeInv

LEMMA TimerType ==
  ASSUME TypeInv, NEW op \in TimerOps, TimerFires(op)
  PROVE  TypeInv'
<1>0. Timer \in Workers /\ Timer \notin Clients
  BY WorkersAssumption DEF WorkersAssumption, Workers
<1>1. /\ pc[Timer] = "idle" /\ mapped \in Objects /\ stamp' = stamp
      /\ stamp \in Nat
  BY <1>0, Facts DEF TimerFires, At, TypeInv, DataType
<1>2. /\ job' = [job EXCEPT ![Timer] = job'[Timer]] /\ job'[Timer].op = op
      /\ \/ job'[Timer] = [job[Timer] EXCEPT !.op = op, !.obj = mapped]
            /\ pc'[Timer] = "try" /\ requests' = requests
         \/ job'[Timer] = [job[Timer] EXCEPT !.op = op]
            /\ pc'[Timer] = "detach"
            /\ requests' = requests + 1 /\ requests < MaxRequests
      /\ pc' = [pc EXCEPT ![Timer] = pc'[Timer]]
  <2>1. Shape(job[Timer], JobFields)
    BY <1>0, Facts
  <2>2. CASE /\ job' = [job EXCEPT ![Timer].op = op, ![Timer].obj = mapped]
             /\ Goto(Timer, "try") /\ UNCHANGED requests
    BY <1>0, <2>1, <2>2, Facts DEF Goto, Shape, JobFields
  <2>3. CASE /\ requests < MaxRequests /\ job' = [job EXCEPT ![Timer].op = op]
             /\ Goto(Timer, "detach") /\ requests' = requests + 1
    BY <1>0, <2>1, <2>3, Facts DEF Goto, Shape, JobFields
  <2> QED
    BY <2>2, <2>3 DEF TimerFires
<1>3. Shape(job'[Timer], JobFields) /\ JobFieldsOK(stamp', job'[Timer])
  <2>1. Shape(job[Timer], JobFields) /\ JobFieldsOK(stamp, job[Timer])
    BY <1>0, Facts
  <2>2. Shape(job'[Timer], JobFields)
    BY <1>2, <2>1 DEF Shape, JobFields
  <2>3. JobFieldsOK(stamp, job'[Timer])
    BY <1>1, <1>2, <2>1 DEF Shape, JobFields, JobFieldsOK
  <2> QED
    BY <1>1, <2>2, <2>3
<1>4. PlaceOK(Timer, pc'[Timer], job'[Timer])
  <2>1. pc'[Timer] = "try" => job'[Timer].obj \in Objects
    BY <1>0, <1>1, <1>2, Facts DEF Shape, JobFields
  <2>2. job'[Timer].phase = None
    <3>1. job[Timer] = Idle /\ Idle.phase = None
      BY <1>0, <1>1, Facts DEF PlaceOK, Idle
    <3>2. job'[Timer].phase = job[Timer].phase
      BY <1>0, <1>2, Facts DEF Shape, JobFields
    <3> QED
      BY <3>1, <3>2
  <2> QED
    BY <1>2, <2>1, <2>2 DEF PlaceOK, Locations, Holding, None
<1>5. ThreadType' /\ CountType'
  BY <1>0, <1>1, <1>2, <1>3, <1>4, StepType DEF Counted
<1>6. DataType' /\ HeapType'
  BY <1>1, DataSame, HeapSame DEF TimerFires
<1> QED
  BY <1>5, <1>6 DEF TypeInv

LEMMA FinishType ==
  ASSUME TypeInv, NEW w \in Workers, Finish(w)
  PROVE  TypeInv'
<1>1. /\ stamp' = stamp /\ stamp \in Nat /\ requests' = requests
      /\ job' = [job EXCEPT ![w] = job'[w]] /\ job'[w] = Idle
      /\ pc' = [pc EXCEPT ![w] = pc'[w]] /\ pc'[w] = "idle"
  BY Facts DEF Finish, Goto, ghost
<1>2. Shape(Idle, JobFields) /\ JobFieldsOK(stamp, Idle)
  BY <1>1, BlankLemma, JobTypeLemma
<1>3. PlaceOK(w, "idle", Idle)
  BY DEF PlaceOK, Locations, Holding, Idle, None
<1>4. ThreadType' /\ CountType'
  BY <1>1, <1>2, <1>3, StepType DEF Counted, ToWrite
<1>5. HeapType'
  <2>1. /\ heap' = [o \in Objects |-> heap'[o]]
        /\ \A o \in Objects : heap'[o] \in {Blank, heap[o]}
    BY DEF Finish
  <2>2. \A o \in Objects : RecordOK(stamp, heap'[o])
    BY <1>1, <2>1, BlankLemma, RecordFacts
  <2> QED
    BY <1>1, <2>1, <2>2 DEF HeapType, RecordOK
<1>6. DataType'
  BY <1>1, DataSame DEF Finish, ghost
<1> QED
  BY <1>4, <1>5, <1>6 DEF TypeInv
\* Steps that leave the locals alone: where the thread goes is what matters.
LEMMA MoveType ==
  ASSUME TypeInv, NEW w \in Workers, NEW l \in Locations, Goto(w, l), job' = job,
         PlaceOK(w, l, job[w]), requests' = requests, stamp' = stamp,
         w \in Clients /\ ToWrite(l, job[w]) => ToWrite(pc[w], job[w])
  PROVE  ThreadType' /\ CountType'
<1>1. /\ pc' = [pc EXCEPT ![w] = pc'[w]] /\ pc'[w] = l
      /\ job' = [job EXCEPT ![w] = job'[w]] /\ job'[w] = job[w]
  BY Facts DEF Goto
<1> QED
  BY <1>1, Facts, StepType DEF Counted

LEMMA FindType ==
  ASSUME TypeInv, NEW w \in Workers, FindMemoryRecord(w)
  PROVE  TypeInv'
<1>1. /\ stamp' = stamp /\ requests' = requests /\ pc[w] = "find"
      /\ job' = [job EXCEPT ![w] = job'[w]]
      /\ job'[w] = [job[w] EXCEPT !.obj = mapped]
      /\ pc' = [pc EXCEPT ![w] = pc'[w]]
      /\ pc'[w] = IF mapped = None THEN "insert" ELSE "serve"
  BY Facts DEF FindMemoryRecord, Goto, ghost, At
<1>2. mapped \in Objects \cup {None}
  BY DEF TypeInv, DataType
<1>3. Shape(job'[w], JobFields)
  BY <1>1, Facts DEF Shape, JobFields
<1>4. JobFieldsOK(stamp', job'[w])
  BY <1>1, <1>2, Facts DEF Shape, JobFields, JobFieldsOK
<1>5. /\ job'[w].op = job[w].op /\ job'[w].phase = job[w].phase /\ job'[w].again = job[w].again
      /\ job'[w].obj = mapped
  BY <1>1, Facts DEF Shape, JobFields
<1>6. PlaceOK(w, pc'[w], job'[w])
  BY <1>1, <1>2, <1>5, Facts DEF PlaceOK, Locations, Holding
<1>7. Counted(w)
  BY <1>1, <1>5 DEF Counted, ToWrite
<1>8. ThreadType' /\ CountType'
  BY <1>1, <1>3, <1>4, <1>6, <1>7, StepType
<1>9. DataType' /\ HeapType'
  BY <1>1, DataSame, HeapSame DEF FindMemoryRecord, ghost
<1> QED
  BY <1>8, <1>9 DEF TypeInv

LEMMA InsertType ==
  ASSUME TypeInv, NEW w \in Workers, InsertMemoryRecord(w)
  PROVE  TypeInv'
<1> DEFINE o == IF mapped = None THEN NewObject ELSE mapped
           cas == IF job[w].op = "cas" THEN job[w].tok.cas ELSE 0
<1>1. o \in Objects
  BY RoomLemma DEF TypeInv, DataType
<1>2. /\ stamp' = stamp /\ requests' = requests /\ pc[w] = "insert"
      /\ job' = [job EXCEPT ![w].obj = o] /\ Goto(w, "select")
      /\ mapped' = o
      /\ heap' = IF mapped = None THEN [heap EXCEPT ![o] = [Blank EXCEPT !.cas = cas]]
                 ELSE heap
  BY DEF InsertMemoryRecord, ghost, At
<1> HIDE DEF o
<1>3. /\ job' = [job EXCEPT ![w] = job'[w]] /\ job'[w] = [job[w] EXCEPT !.obj = o]
      /\ pc' = [pc EXCEPT ![w] = pc'[w]] /\ pc'[w] = "select"
  BY <1>2, Facts DEF Goto
<1>4. Shape(job'[w], JobFields)
  BY <1>3, Facts DEF Shape, JobFields
<1>5. JobFieldsOK(stamp', job'[w])
  <2>1. stamp' = stamp
    BY <1>2
  <2> QED
    BY <1>1, <1>3, <2>1, Facts DEF Shape, JobFields, JobFieldsOK
<1>6. /\ job'[w].op = job[w].op /\ job'[w].phase = job[w].phase /\ job'[w].again = job[w].again
      /\ job'[w].old = job[w].old /\ job'[w].obj = o
  BY <1>3, Facts DEF Shape, JobFields
<1>7. PlaceOK(w, pc'[w], job'[w])
  BY <1>1, <1>2, <1>3, <1>6, Facts DEF PlaceOK, Locations, Holding
<1>8. Counted(w)
  BY <1>2, <1>3, <1>6 DEF Counted, ToWrite
<1>9. ThreadType' /\ CountType'
  BY <1>3, <1>4, <1>5, <1>7, <1>8, StepType
<1>10. RecordOK(stamp, [Blank EXCEPT !.cas = cas])
  <2> DEFINE r == [Blank EXCEPT !.cas = cas]
  <2>1. cas \in 0 .. stamp /\ stamp \in Nat
    BY Facts DEF JobFieldsOK, TokensTo
  <2> HIDE DEF cas
  <2>2. Shape(r, RecordFields)
    BY DEF Shape, RecordFields, Blank
  <2>3. RecordFieldsOK(stamp, r)
    BY <2>1, BlankLemma DEF RecordFieldsOK, Blank, ChgTypes
  <2> QED
    BY <2>2, <2>3, RecordTypeLemma
<1>11. HeapType'
  <2> HIDE DEF cas
  <2>1. CASE mapped = None
    BY <1>1, <1>2, <1>10, <2>1, HeapPut
  <2>2. CASE mapped # None
    BY <1>2, <2>2, HeapSame
  <2> QED
    BY <2>1, <2>2
<1>12. DataType'
  BY <1>1, <1>2 DEF InsertMemoryRecord, ghost, TypeInv, DataType
<1> QED
  BY <1>9, <1>11, <1>12 DEF TypeInv

\* A SELECT that is answered, or is not.
LEMMA ReadType ==
  ASSUME TypeInv, NEW w \in Workers, NEW found \in Locations, NEW missing \in Locations,
         Read(w, found, missing),
         \A j : /\ j.op = job[w].op /\ j.phase = job[w].phase /\ j.again = job[w].again
                /\ j.obj = job[w].obj /\ j.old = job[w].old
                => \A l \in {found, missing} :
                     /\ PlaceOK(w, l, j)
                     /\ w \in Clients /\ ToWrite(l, j) => ToWrite(pc[w], job[w])
  PROVE  TypeInv'
<1>1. /\ stamp' = stamp /\ requests' = requests
      /\ job' = [job EXCEPT ![w] = job'[w]]
      /\ \/ job'[w] = [job[w] EXCEPT !.read = row]
         \/ job'[w] = [job[w] EXCEPT !.res = "NOTFOUND"]
      /\ pc' = [pc EXCEPT ![w] = pc'[w]] /\ pc'[w] \in {found, missing}
  BY Facts DEF Read, Goto
<1>2. row \in RowsTo(stamp)
  BY DEF TypeInv, DataType
<1>3. Shape(job'[w], JobFields)
  BY <1>1, Facts DEF Shape, JobFields
<1>4. JobFieldsOK(stamp', job'[w])
  BY <1>1, <1>2, Facts DEF Shape, JobFields, JobFieldsOK, Results
<1>5. /\ job'[w].op = job[w].op /\ job'[w].phase = job[w].phase /\ job'[w].again = job[w].again
      /\ job'[w].old = job[w].old /\ job'[w].obj = job[w].obj
  BY <1>1, Facts DEF Shape, JobFields
<1>6. PlaceOK(w, pc'[w], job'[w]) /\ Counted(w)
  BY <1>1, <1>5 DEF Counted
<1>7. ThreadType' /\ CountType'
  BY <1>1, <1>3, <1>4, <1>6, StepType
<1>8. DataType' /\ HeapType'
  BY <1>1, DataSame, HeapSame DEF Read
<1> QED
  BY <1>7, <1>8 DEF TypeInv

LEMMA LoadType ==
  ASSUME TypeInv, NEW w \in Workers,
         LoadFromDB(w) \/ SelectAllFromDB(w) \/ LoadCasFromDB(w)
  PROVE  TypeInv'
<1>0. PlaceOK(w, pc[w], job[w])
  BY Facts
<1>1. CASE LoadFromDB(w)
  <2>1. pc[w] = "select" /\ Read(w, "fill", LoadMissed(job[w]))
    BY <1>1 DEF LoadFromDB, At
  <2>2. /\ LoadMissed(job[w]) \in {"giveup", "done"}
        /\ LoadMissed(job[w]) = "giveup" => job[w].old \in Objects
    BY <1>0, <2>1 DEF LoadMissed, PlaceOK
  <2>3. "fill" \in Locations /\ LoadMissed(job[w]) \in Locations
    BY <2>2 DEF Locations
  <2>4. \A j : /\ j.op = job[w].op /\ j.phase = job[w].phase /\ j.again = job[w].again
               /\ j.obj = job[w].obj /\ j.old = job[w].old
               => \A l \in {"fill", LoadMissed(job[w])} :
                    /\ PlaceOK(w, l, j)
                    /\ w \in Clients /\ ToWrite(l, j) => ToWrite(pc[w], job[w])
    BY <1>0, <2>1, <2>2 DEF PlaceOK, Locations, Holding, ToWrite
  <2> QED
    BY <2>1, <2>3, <2>4, ReadType
<1>2. CASE SelectAllFromDB(w)
  <2>1. pc[w] = "selectall" /\ Read(w, "fillall", "done")
    BY <1>2 DEF SelectAllFromDB, At
  <2>2. "fillall" \in Locations /\ "done" \in Locations
    BY DEF Locations
  <2>3. \A j : /\ j.op = job[w].op /\ j.phase = job[w].phase /\ j.again = job[w].again
               /\ j.obj = job[w].obj /\ j.old = job[w].old
               => \A l \in {"fillall", "done"} :
                    /\ PlaceOK(w, l, j)
                    /\ w \in Clients /\ ToWrite(l, j) => ToWrite(pc[w], job[w])
    BY <1>0 DEF PlaceOK, Locations, Holding, ToWrite
  <2> QED
    BY <2>1, <2>2, <2>3, ReadType
<1>3. CASE LoadCasFromDB(w)
  <2>1. pc[w] = "loadcas" /\ Read(w, "setcas", "unlock")
    BY <1>3 DEF LoadCasFromDB, At
  <2>2. "setcas" \in Locations /\ "unlock" \in Locations
    BY DEF Locations
  <2>3. \A j : /\ j.op = job[w].op /\ j.phase = job[w].phase /\ j.again = job[w].again
               /\ j.obj = job[w].obj /\ j.old = job[w].old
               => \A l \in {"setcas", "unlock"} :
                    /\ PlaceOK(w, l, j)
                    /\ w \in Clients /\ ToWrite(l, j) => ToWrite(pc[w], job[w])
    BY <1>0, <2>1 DEF PlaceOK, Locations, Holding, ToWrite
  <2> QED
    BY <2>1, <2>2, <2>3, ReadType
<1> QED
  BY <1>1, <1>2, <1>3
-----------------------------------------------------------------------------
(* The record's methods keep its types.                                    *)

LEMMA WrittenType ==
  ASSUME NEW n \in Nat, NEW r, RecordOK(n, r), NEW F \in SUBSET Fields
  PROVE  RecordOK(n + 1, Written(r, F, n + 1))
<1> DEFINE s == Written(r, F, n + 1)
<1>1. Shape(r, RecordFields) /\ RecordFieldsOK(n, r)
  BY RecordTypeLemma
<1>2. Shape(s, RecordFields)
  BY <1>1 DEF Shape, RecordFields, Written
<1>3. /\ s.val = [f \in Fields |-> IF f \in F THEN n + 1 ELSE r.val[f]]
      /\ s.dirty = r.dirty \cup F /\ s.cas = r.cas /\ s.inc = r.inc + 1
      /\ s.chg = "UPDATE" /\ s.busy = r.busy
  BY <1>1 DEF Shape, RecordFields, Written
<1> HIDE DEF s
<1>4. s.val \in Vals(n + 1)
  BY <1>1, <1>3 DEF RecordFieldsOK, Vals
<1>5. RecordFieldsOK(n + 1, s)
  BY <1>1, <1>3, <1>4 DEF RecordFieldsOK, ChgTypes
<1>6. RecordOK(n + 1, s)
  BY <1>2, <1>5, RecordTypeLemma
<1> QED
  BY <1>6 DEF s

LEMMA FilledType ==
  ASSUME NEW n \in Nat, NEW r, RecordOK(n, r), NEW read \in RowsTo(n),
         NEW withCas \in BOOLEAN
  PROVE  RecordOK(n, Filled(r, read, withCas))
<1> DEFINE s == Filled(r, read, withCas)
<1>1. Shape(r, RecordFields) /\ RecordFieldsOK(n, r)
  BY RecordTypeLemma
<1>2. Shape(s, RecordFields)
  BY <1>1 DEF Shape, RecordFields, Filled
<1>3. /\ s.val = read.val /\ s.dirty = {} /\ s.chg = "NIL" /\ s.busy = r.busy
      /\ s.cas = (IF withCas THEN read.cas ELSE r.cas)
      /\ s.inc = (IF withCas THEN 0 ELSE r.inc)
  BY <1>1 DEF Shape, RecordFields, Filled
<1> HIDE DEF s
<1>4. read.val \in Vals(n) /\ read.cas \in 0 .. n
  BY DEF RowsTo
<1>5. RecordFieldsOK(n, s)
  BY <1>1, <1>3, <1>4 DEF RecordFieldsOK, ChgTypes
<1>6. RecordOK(n, s)
  BY <1>2, <1>5, RecordTypeLemma
<1> QED
  BY <1>6 DEF s

LEMMA RecoveredType ==
  ASSUME NEW n \in Nat, NEW r, RecordOK(n, r), NEW took, NEW chg
  PROVE  RecordOK(n, Recovered(r, took, chg))
<1> DEFINE s == Recovered(r, took, chg)
<1>1. Shape(r, RecordFields) /\ RecordFieldsOK(n, r)
  BY RecordTypeLemma
<1>2. Shape(s, RecordFields)
  BY <1>1 DEF Shape, RecordFields, Recovered
<1>3. /\ s.val = r.val /\ s.dirty = r.dirty \cup {f \in Fields : took[f] # 0}
      /\ s.cas = r.cas /\ s.inc = r.inc /\ s.busy = r.busy
      /\ s.chg = (IF chg = "UPDATE" THEN "UPDATE" ELSE r.chg)
  BY <1>1 DEF Shape, RecordFields, Recovered
<1> HIDE DEF s
<1>4. RecordFieldsOK(n, s)
  BY <1>1, <1>3 DEF RecordFieldsOK, ChgTypes
<1>5. RecordOK(n, s)
  BY <1>2, <1>4, RecordTypeLemma
<1> QED
  BY <1>5 DEF s

LEMMA CasFlushedType ==
  ASSUME NEW n \in Nat, NEW r, RecordOK(n, r)
  PROVE  RecordOK(n, CasFlushed(r))
<1> DEFINE s == CasFlushed(r)
<1>1. Shape(r, RecordFields) /\ RecordFieldsOK(n, r)
  BY RecordTypeLemma
<1>2. Shape(s, RecordFields)
  BY <1>1 DEF Shape, RecordFields, CasFlushed
<1>3. /\ s.val = r.val /\ s.dirty = r.dirty /\ s.cas = r.cas + r.inc /\ s.inc = 0
      /\ s.chg = r.chg /\ s.busy = r.busy
  BY <1>1 DEF Shape, RecordFields, CasFlushed
<1> HIDE DEF s
<1>4. RecordFieldsOK(n, s)
  BY <1>1, <1>3 DEF RecordFieldsOK
<1>5. RecordOK(n, s)
  BY <1>2, <1>4, RecordTypeLemma
<1> QED
  BY <1>5 DEF s

LEMMA DataGrow ==
  ASSUME TypeInv, row' = row, mapped' \in Objects \cup {None}, token' = token,
         latest' \in Vals(stamp'), stamp' = stamp + 1
  PROVE  DataType'
<1>1. /\ stamp \in Nat /\ RowsTo(stamp) \subseteq RowsTo(stamp')
      /\ TokensTo(stamp) \subseteq TokensTo(stamp')
  BY GrowLemma DEF TypeInv, CountType
<1> QED
  BY <1>1 DEF TypeInv, DataType

LEMMA WroteType ==
  ASSUME TypeInv, NEW F \in SUBSET Fields, Wrote(F)
  PROVE  stamp' = stamp + 1 /\ latest' \in Vals(stamp')
<1>1. stamp \in Nat /\ latest \in Vals(stamp) /\ stamp' = stamp + 1
  BY DEF TypeInv, DataType, CountType, Wrote
<1> QED
  BY <1>1 DEF Wrote, Vals

LEMMA SetValueType ==
  ASSUME TypeInv, NEW w \in Workers, NEW o \in Objects, SetValue(w, o),
         row' = row, mapped' = mapped, token' = token
  PROVE  stamp' = stamp + 1 /\ HeapType' /\ DataType'
<1>1. stamp \in Nat /\ job[w].fields \in SUBSET Fields /\ RecordOK(stamp, heap[o])
  BY Facts, RecordFacts DEF JobFieldsOK
<1>2. stamp' = stamp + 1 /\ latest' \in Vals(stamp')
  BY <1>1, WroteType DEF SetValue
<1>3. RecordOK(stamp', Written(heap[o], job[w].fields, stamp + 1))
  BY <1>1, <1>2, WrittenType
<1>4. heap' = [heap EXCEPT ![o] = Written(heap[o], job[w].fields, stamp + 1)]
  BY DEF SetValue
<1>5. HeapType'
  BY <1>2, <1>3, <1>4, HeapPut
<1>6. DataType'
  BY <1>2, DataGrow DEF TypeInv, DataType
<1> QED
  BY <1>2, <1>5, <1>6

\* When the number of writes grows, what a thread knows stays well typed.
LEMMA JobGrow ==
  ASSUME TypeInv, NEW w \in Workers, stamp' \in {stamp, stamp + 1}
  PROVE  JobFieldsOK(stamp', job[w])
BY GrowLemma, JobTypeLemma DEF TypeInv, ThreadType, CountType
-----------------------------------------------------------------------------
(* Loading, and answering from the record.                                 *)

LEMMA FillType ==
  ASSUME TypeInv, NEW w \in Workers, Fill(w)
  PROVE  TypeInv'
<1>1. /\ stamp' = stamp /\ requests' = requests /\ pc[w] = "fill" /\ stamp \in Nat
      /\ job' = [job EXCEPT ![w] = job'[w]]
      /\ job'[w] = [job[w] EXCEPT !.old = None, !.read = NoRow]
      /\ pc' = [pc EXCEPT ![w] = pc'[w]]
      /\ pc'[w] = IF job[w].op = "add" THEN "done" ELSE "serve"
  BY Facts DEF Fill, Goto, ghost, At
<1>2. Shape(job'[w], JobFields)
  BY <1>1, Facts DEF Shape, JobFields
<1>3. JobFieldsOK(stamp', job'[w])
  <2>1. /\ \A k \in JobFields \ {"old", "read"} : job'[w][k] = job[w][k]
        /\ job'[w].old = None /\ job'[w].read = NoRow
    BY <1>1, Facts DEF Shape, JobFields
  <2>2. NoRow \in RowsTo(stamp)
    BY <1>1, BlankLemma
  <2> QED
    BY <1>1, <2>1, <2>2, Facts DEF JobFields, JobFieldsOK
<1>4. job'[w].op = job[w].op /\ job'[w].phase = job[w].phase /\ job'[w].obj = job[w].obj
  BY <1>1, Facts DEF Shape, JobFields
<1>5. Obj(w) \in Objects /\ PlaceOK(w, pc[w], job[w])
  BY <1>1, Facts DEF PlaceOK, Holding, Obj
<1>6. PlaceOK(w, pc'[w], job'[w])
  BY <1>1, <1>4, <1>5 DEF PlaceOK, Locations, Holding, Obj
<1>7. Counted(w)
  BY <1>1, <1>4 DEF Counted, ToWrite
<1>8. ThreadType' /\ CountType'
  BY <1>1, <1>2, <1>3, <1>6, <1>7, StepType
<1>9. HeapType'
  <2> DEFINE b == job[w].op \in LoadsCas
  <2>1. job[w].read \in RowsTo(stamp) /\ RecordOK(stamp, heap[Obj(w)])
    BY <1>5, Facts, RecordFacts DEF JobFieldsOK
  <2>2. b \in BOOLEAN
    OBVIOUS
  <2>3. RecordOK(stamp', Filled(heap[Obj(w)], job[w].read, b))
    <3> HIDE DEF b
    <3> QED
      BY <1>1, <2>1, <2>2, FilledType
  <2>4. heap' = [heap EXCEPT ![Obj(w)] = Filled(heap[Obj(w)], job[w].read, b)]
    BY DEF Fill
  <2> QED
    BY <1>1, <1>5, <2>3, <2>4, HeapPut
<1>10. DataType'
  BY <1>1, DataSame DEF Fill, ghost
<1> QED
  BY <1>8, <1>9, <1>10 DEF TypeInv

LEMMA InsertCacheType ==
  ASSUME TypeInv, NEW w \in Workers, InsertCacheRecord(w)
  PROVE  TypeInv'
<1> DEFINE o == IF mapped = None THEN NewObject ELSE mapped
           r == IF mapped = None THEN Blank ELSE heap[o]
<1>1. o \in Objects /\ stamp \in Nat
  BY RoomLemma, Facts DEF TypeInv, DataType
<1>2. RecordOK(stamp, r)
  BY <1>1, BlankLemma, RecordFacts
<1>3. /\ stamp' = stamp /\ requests' = requests /\ job' = job /\ mapped' = o
      /\ heap' = [heap EXCEPT ![o] = Filled(r, job[w].read, TRUE)]
      /\ Goto(w, "done")
  BY DEF InsertCacheRecord, ghost
<1> HIDE DEF o, r
<1>4. HeapType'
  <2>1. job[w].read \in RowsTo(stamp)
    BY Facts DEF JobFieldsOK
  <2>2. RecordOK(stamp', Filled(r, job[w].read, TRUE))
    BY <1>1, <1>2, <1>3, <2>1, FilledType
  <2> QED
    BY <1>1, <1>3, <2>2, HeapPut
<1>5. PlaceOK(w, "done", job[w]) /\ "done" \in Locations
  BY Facts DEF PlaceOK, Locations, Holding
<1>6. ThreadType' /\ CountType'
  BY <1>3, <1>5, MoveType DEF ToWrite
<1>7. DataType'
  BY <1>1, <1>3 DEF InsertCacheRecord, ghost, TypeInv, DataType
<1> QED
  BY <1>4, <1>6, <1>7 DEF TypeInv

\* Replies: a client learns a cas code.
LEMMA TokenType ==
  ASSUME TypeInv, NEW w \in Clients, NEW v \in Vals(stamp), NEW o \in Objects,
         token' = [token EXCEPT ![w] = [cas |-> Cas(o), val |-> v]],
         row' = row, mapped' = mapped, latest' = latest, stamp' = stamp
  PROVE  DataType'
<1>1. Cas(o) \in 0 .. stamp
  BY RecordFacts, Facts, WorkersAssumption DEF RecordFieldsOK, Cas, Workers
<1>2. [cas |-> Cas(o), val |-> v] \in TokensTo(stamp)
  BY <1>1 DEF TokensTo
<1> QED
  BY <1>2 DEF TypeInv, DataType

LEMMA ReplyType ==
  ASSUME TypeInv, NEW w \in Workers, ServeGet(w) \/ ReplyCas(w)
  PROVE  TypeInv'
<1>1. /\ stamp' = stamp /\ requests' = requests /\ job' = job /\ heap' = heap
      /\ row' = row /\ mapped' = mapped /\ latest' = latest
      /\ pc[w] \in {"serve", "getcas"} /\ Goto(w, "done")
  BY DEF ServeGet, ReplyCas, At
<1>2. PlaceOK(w, pc[w], job[w]) /\ JobFieldsOK(stamp, job[w])
  BY Facts
<1>3. PlaceOK(w, "done", job[w]) /\ "done" \in Locations /\ Obj(w) \in Objects
  BY <1>1, <1>2 DEF PlaceOK, Locations, Holding, Obj
<1>4. ThreadType' /\ CountType'
  BY <1>1, <1>3, MoveType DEF ToWrite
<1>5. HeapType'
  BY <1>1, HeapSame
<1>6. heap[Obj(w)].val \in Vals(stamp) /\ job[w].tok.val \in Vals(stamp)
  BY <1>2, <1>3, RecordFacts DEF JobFieldsOK, RecordFieldsOK, TokensTo
<1>7. DataType'
  <2>1. CASE w \in Clients
    <3>1. CASE token' = token
      BY <1>1, <3>1, DataSame
    <3>2. CASE token' = [token EXCEPT ![w] =
                           [cas |-> Cas(Obj(w)), val |-> heap[Obj(w)].val]]
      BY <1>1, <1>3, <1>6, <2>1, <3>2, TokenType
    <3>3. CASE token' = [token EXCEPT ![w] =
                           [cas |-> Cas(Obj(w)), val |-> job[w].tok.val]]
      BY <1>1, <1>3, <1>6, <2>1, <3>3, TokenType
    <3> QED
      BY <3>1, <3>2, <3>3 DEF ServeGet, ReplyCas
  <2>2. CASE w \notin Clients
    <3>1. token \in [Clients -> TokensTo(stamp)]
      BY DEF TypeInv, DataType
    <3>2. \A x : [token EXCEPT ![w] = x] = token
      BY <2>2, <3>1
    <3>3. token' = token
      BY <3>2 DEF ServeGet, ReplyCas
    <3> QED
      BY <1>1, <3>3, DataSame
  <2> QED
    BY <2>1, <2>2
<1> QED
  BY <1>4, <1>5, <1>7 DEF TypeInv

\* Only a client's request writes.
LEMMA ClientWrites ==
  ASSUME TypeInv, NEW w \in Workers, job[w].op \in {"set", "cas", "store", "storecas", "add"}
  PROVE  w \in Clients
<1>1. job[w].op \in (IF w = Timer THEN TimerOps ELSE Ops) \cup {None}
  BY Facts DEF PlaceOK
<1> QED
  BY <1>1, OpsAssumption DEF OpsAssumption, None, Workers

LEMMA ServeSetType ==
  ASSUME TypeInv, NEW w \in Workers, ServeSet(w)
  PROVE  TypeInv'
<1>1. /\ pc[w] = "serve" /\ job[w].op = "set" /\ w \in Clients /\ job' = job
      /\ requests' = requests /\ Goto(w, "done") /\ SetValue(w, Obj(w))
      /\ row' = row /\ mapped' = mapped /\ token' = token
  BY ClientWrites DEF ServeSet, At
<1>2. Obj(w) \in Objects
  BY <1>1, Facts DEF PlaceOK, Holding, Obj
<1>3. stamp' = stamp + 1 /\ HeapType' /\ DataType'
  BY <1>1, <1>2, SetValueType
<1>4. /\ pc' = [pc EXCEPT ![w] = pc'[w]] /\ pc'[w] = "done"
      /\ job' = [job EXCEPT ![w] = job'[w]] /\ job'[w] = job[w]
  BY <1>1, Facts DEF Goto
<1>5. PlaceOK(w, pc'[w], job'[w])
  BY <1>4, Facts DEF PlaceOK, Locations, Holding
<1>6. Counted(w)
  BY <1>1, <1>3, <1>4 DEF Counted, ToWrite
<1>7. ThreadType' /\ CountType'
  BY <1>3, <1>4, <1>5, <1>6, JobGrow, Facts, StepType
<1> QED
  BY <1>3, <1>7 DEF TypeInv

LEMMA ServeCasType ==
  ASSUME TypeInv, NEW w \in Workers, ServeCas(w)
  PROVE  TypeInv'
<1> DEFINE v == [f \in Fields |-> IF f \in job[w].fields THEN stamp + 1
                                  ELSE job[w].tok.val[f]]
<1>1. /\ pc[w] = "serve" /\ job[w].op = "cas" /\ w \in Clients
      /\ requests' = requests /\ Goto(w, "getcas") /\ SetValue(w, Obj(w))
      /\ row' = row /\ mapped' = mapped /\ token' = token
  BY ClientWrites DEF ServeCas, At
<1>2. Obj(w) \in Objects /\ PlaceOK(w, pc[w], job[w])
  BY <1>1, Facts DEF PlaceOK, Holding, Obj
<1>3. stamp' = stamp + 1 /\ HeapType' /\ DataType' /\ stamp \in Nat
  BY <1>1, <1>2, SetValueType, Facts
<1>4. job[w].tok \in TokensTo(stamp) /\ job[w].tok.val \in Vals(stamp)
  BY Facts DEF JobFieldsOK, TokensTo
<1>5. job' = [job EXCEPT ![w].res = "OK", ![w].tok.val = v]
  BY DEF ServeCas
<1>6. v \in Vals(stamp + 1)
  BY <1>3, <1>4 DEF Vals
<1> HIDE DEF v
<1>7. /\ pc' = [pc EXCEPT ![w] = pc'[w]] /\ pc'[w] = "getcas"
      /\ job' = [job EXCEPT ![w] = job'[w]]
      /\ job'[w] = [job[w] EXCEPT !.res = "OK", !.tok = [job[w].tok EXCEPT !.val = v]]
  <2>1. pc' = [pc EXCEPT ![w] = pc'[w]] /\ pc'[w] = "getcas"
    BY <1>1, Facts DEF Goto
  <2>2. job'[w] = [job[w] EXCEPT !.res = "OK", !.tok = [job[w].tok EXCEPT !.val = v]]
    BY <1>5, Facts DEF Shape, JobFields
  <2>3. job' = [job EXCEPT ![w] = job'[w]]
    BY <1>5, Facts
  <2> QED
    BY <2>1, <2>2, <2>3
<1>8. [job[w].tok EXCEPT !.val = v] \in TokensTo(stamp + 1)
  BY <1>3, <1>4, <1>6 DEF TokensTo
<1>9. Shape(job'[w], JobFields)
  BY <1>7, Facts DEF Shape, JobFields
<1>10. JobFieldsOK(stamp', job'[w])
  <2>1. JobFieldsOK(stamp', job[w]) /\ stamp' = stamp + 1
    BY <1>3, JobGrow
  <2> QED
    BY <1>7, <1>8, <2>1, Facts DEF Shape, JobFields, JobFieldsOK, Results
<1>11. job'[w].op = job[w].op /\ job'[w].phase = job[w].phase /\ job'[w].obj = job[w].obj
  BY <1>7, Facts DEF Shape, JobFields
<1>12. PlaceOK(w, pc'[w], job'[w])
  BY <1>2, <1>7, <1>11 DEF PlaceOK, Locations, Holding, Obj
<1>13. Counted(w)
  BY <1>1, <1>3, <1>7, <1>11 DEF Counted, ToWrite
<1>14. ThreadType' /\ CountType'
  BY <1>7, <1>9, <1>10, <1>12, <1>13, StepType
<1> QED
  BY <1>3, <1>14 DEF TypeInv
LEMMA MismatchType ==
  ASSUME TypeInv, NEW w \in Workers, CasMismatch(w) \/ CasReloadFailed(w)
  PROVE  TypeInv'
<1>1. /\ stamp' = stamp /\ requests' = requests /\ heap' = heap
      /\ row' = row /\ mapped' = mapped /\ latest' = latest /\ token' = token
  BY DEF CasMismatch, CasReloadFailed, ghost
<1>2. PlaceOK(w, pc[w], job[w]) /\ JobFieldsOK(stamp, job[w])
  BY Facts
<1>3. /\ job' = [job EXCEPT ![w] = job'[w]] /\ pc' = [pc EXCEPT ![w] = pc'[w]]
      /\ \/ /\ pc[w] = "serve" /\ job[w].op = "cas"
            /\ job'[w] = [job[w] EXCEPT !.res = "EXISTS"] /\ pc'[w] = "getcas"
         \/ /\ pc[w] = "serve" /\ job[w].op = "cas" /\ pc'[w] = "insert"
            /\ job'[w] = [job[w] EXCEPT !.again = TRUE, !.old = Obj(w)]
         \/ /\ pc[w] = "giveup" /\ pc'[w] = "getcas"
            /\ job'[w] = [job[w] EXCEPT !.obj = job[w].old, !.res = "EXISTS"]
  BY Facts DEF CasMismatch, CasReloadFailed, Goto, At
<1>4. Shape(job'[w], JobFields)
  BY <1>3, Facts DEF Shape, JobFields
<1>5. Obj(w) \in Objects \cup {None} /\ (pc[w] = "serve" => Obj(w) \in Objects)
  BY <1>2 DEF Obj, JobFieldsOK, PlaceOK, Holding
<1>6. JobFieldsOK(stamp', job'[w])
  <2>1. \A k \in JobFields \ {"res", "again", "old", "obj"} : job'[w][k] = job[w][k]
    BY <1>3, Facts DEF Shape, JobFields
  <2>2. /\ job'[w].res \in {job[w].res, "EXISTS"} /\ job'[w].again \in {job[w].again, TRUE}
        /\ job'[w].old \in {job[w].old, Obj(w)} /\ job'[w].obj \in {job[w].obj, job[w].old}
    BY <1>3, Facts DEF Shape, JobFields
  <2> QED
    BY <1>1, <1>2, <1>5, <2>1, <2>2 DEF JobFields, JobFieldsOK, Results
<1>7. /\ job'[w].op = job[w].op /\ job'[w].phase = job[w].phase
      /\ pc'[w] = "insert" => job'[w].old = Obj(w)
      /\ pc'[w] = "getcas" => job'[w].obj \in {Obj(w), job[w].old}
      /\ pc'[w] = "getcas" /\ pc[w] = "serve" => job'[w].obj = Obj(w)
      /\ pc'[w] = "getcas" /\ pc[w] = "giveup" => job'[w].obj = job[w].old
  BY <1>3, Facts DEF Shape, JobFields, Obj
<1>8. PlaceOK(w, pc'[w], job'[w])
  BY <1>2, <1>3, <1>5, <1>7 DEF PlaceOK, Locations, Holding
<1>9. Counted(w)
  BY <1>1, <1>3, <1>7 DEF Counted, ToWrite
<1>10. ThreadType' /\ CountType'
  BY <1>3, <1>4, <1>6, <1>8, <1>9, StepType
<1>11. DataType' /\ HeapType'
  BY <1>1, DataSame, HeapSame
<1> QED
  BY <1>10, <1>11 DEF TypeInv

LEMMA TemporaryType ==
  ASSUME TypeInv, NEW w \in Workers, pc[w] = "detach", mapped = None,
         job[w].op \in {"store", "storecas"}, StoreTemporary(w)
  PROVE  TypeInv'
<1> DEFINE o == NewObject
           cas == IF job[w].op = "storecas" THEN job[w].tok.cas ELSE 0
           b == [Blank EXCEPT !.cas = cas]
           r == Written(b, job[w].fields, stamp + 1)
<1>1. /\ o \in Objects /\ w \in Clients /\ stamp \in Nat
      /\ JobFieldsOK(stamp, job[w]) /\ PlaceOK(w, pc[w], job[w])
  BY RoomLemma, ClientWrites, Facts
<1>2. /\ requests' = requests /\ row' = row /\ mapped' = mapped /\ token' = token
      /\ heap' = [heap EXCEPT ![o] = r]
      /\ job' = [job EXCEPT ![w].obj = o, ![w].phase = job[w].op]
      /\ Wrote(job[w].fields) /\ Goto(w, "take")
  BY DEF StoreTemporary
<1>3. stamp' = stamp + 1 /\ latest' \in Vals(stamp') /\ job[w].fields \in SUBSET Fields
  BY <1>1, <1>2, WroteType DEF JobFieldsOK
<1>4. RecordOK(stamp, b)
  <2>1. cas \in 0 .. stamp
    BY <1>1 DEF JobFieldsOK, TokensTo
  <2> HIDE DEF cas
  <2>2. Shape(b, RecordFields)
    BY DEF Shape, RecordFields, Blank
  <2>3. RecordFieldsOK(stamp, b)
    BY <1>1, <2>1, BlankLemma DEF RecordFieldsOK, Blank, ChgTypes
  <2> QED
    BY <2>2, <2>3, RecordTypeLemma
<1>5. RecordOK(stamp', r)
  <2> HIDE DEF b
  <2> QED
    BY <1>1, <1>3, <1>4, WrittenType
<1> HIDE DEF o, r
<1>6. HeapType'
  BY <1>1, <1>2, <1>3, <1>5, HeapPut
<1>7. /\ job' = [job EXCEPT ![w] = job'[w]] /\ pc' = [pc EXCEPT ![w] = pc'[w]]
      /\ pc'[w] = "take"
      /\ job'[w] = [job[w] EXCEPT !.obj = o, !.phase = job[w].op]
  BY <1>2, Facts DEF Goto, Shape, JobFields
<1>8. Shape(job'[w], JobFields)
  BY <1>7, Facts DEF Shape, JobFields
<1>9. JobFieldsOK(stamp', job'[w])
  <2>1. JobFieldsOK(stamp', job[w])
    BY <1>3, JobGrow
  <2>2. job[w].op \in Phases
    BY DEF Phases
  <2> QED
    BY <1>1, <1>7, <2>1, <2>2, Facts DEF Shape, JobFields, JobFieldsOK
<1>10. job'[w].op = job[w].op /\ job'[w].phase = job[w].op /\ job'[w].obj = o
  BY <1>7, Facts DEF Shape, JobFields
<1>11. PlaceOK(w, pc'[w], job'[w])
  BY <1>1, <1>7, <1>10 DEF PlaceOK, Locations, Holding
<1>12. Counted(w)
  BY <1>1, <1>2, <1>3, <1>7, <1>10 DEF Counted, ToWrite
<1>13. ThreadType' /\ CountType'
  BY <1>7, <1>8, <1>9, <1>11, <1>12, StepType
<1>14. DataType'
  BY <1>2, <1>3, DataGrow DEF TypeInv, DataType
<1> QED
  BY <1>6, <1>13, <1>14 DEF TypeInv

LEMMA RemoveType ==
  ASSUME TypeInv, NEW w \in Workers, RemoveMemoryRecord(w)
  PROVE  TypeInv'
<1>1. pc[w] = "detach"
  BY DEF RemoveMemoryRecord, At
<1>2. CASE mapped = None /\ job[w].op \in {"store", "storecas"}
  BY <1>1, <1>2, TemporaryType DEF RemoveMemoryRecord
<1>3. CASE ~(mapped = None /\ job[w].op \in {"store", "storecas"})
  <2> DEFINE l == CASE job[w].op \in {"store", "storecas"} -> "apply"
                    [] job[w].op = "del" -> "delete"
                    [] OTHER -> IF mapped = None THEN "done" ELSE "try"
  <2>1. /\ mapped' = None /\ job' = [job EXCEPT ![w].obj = mapped] /\ Goto(w, l)
        /\ row' = row /\ heap' = heap /\ token' = token /\ latest' = latest
        /\ stamp' = stamp /\ requests' = requests
    BY <1>3 DEF RemoveMemoryRecord, ghost
  <2>2. /\ l \in {"apply", "delete", "done", "try"}
        /\ l = "apply" => job[w].op \in {"store", "storecas"} /\ mapped # None
        /\ l = "try" => mapped # None
    BY <1>3
  <2> HIDE DEF l
  <2>3. /\ job' = [job EXCEPT ![w] = job'[w]] /\ pc' = [pc EXCEPT ![w] = pc'[w]]
        /\ pc'[w] = l /\ job'[w] = [job[w] EXCEPT !.obj = mapped]
    BY <2>1, Facts DEF Goto
  <2>4. mapped \in Objects \cup {None}
    BY DEF TypeInv, DataType
  <2>5. Shape(job'[w], JobFields)
    BY <2>3, Facts DEF Shape, JobFields
  <2>6. JobFieldsOK(stamp', job'[w])
    <3>1. stamp' = stamp
      BY <2>1
    <3> QED
      BY <2>3, <2>4, <3>1, Facts DEF Shape, JobFields, JobFieldsOK
  <2>7. job'[w].op = job[w].op /\ job'[w].phase = job[w].phase /\ job'[w].obj = mapped
    BY <2>3, Facts DEF Shape, JobFields
  <2>8. PlaceOK(w, pc'[w], job'[w])
    BY <2>2, <2>3, <2>4, <2>7, Facts DEF PlaceOK, Locations, Holding
  <2>9. Counted(w)
    BY <1>1, <2>1, <2>2, <2>3, <2>7 DEF Counted, ToWrite
  <2>10. ThreadType' /\ CountType'
    BY <2>3, <2>5, <2>6, <2>8, <2>9, StepType
  <2>11. DataType' /\ HeapType'
    BY <2>1, HeapSame DEF TypeInv, DataType
  <2> QED
    BY <2>10, <2>11 DEF TypeInv
<1> QED
  BY <1>2, <1>3

LEMMA ApplyType ==
  ASSUME TypeInv, NEW w \in Workers, StoreApply(w)
  PROVE  TypeInv'
<1>1. /\ pc[w] = "apply" /\ job' = job /\ requests' = requests /\ Goto(w, "try")
      /\ row' = row /\ mapped' = mapped /\ token' = token
      /\ PlaceOK(w, pc[w], job[w])
  BY Facts DEF StoreApply, At
<1>2. /\ Obj(w) \in Objects /\ job[w].op \in {"store", "storecas"} /\ w \in Clients
  BY <1>1, ClientWrites DEF PlaceOK, Holding, Obj
<1>3. /\ pc' = [pc EXCEPT ![w] = pc'[w]] /\ pc'[w] = "try"
      /\ job' = [job EXCEPT ![w] = job'[w]] /\ job'[w] = job[w]
  BY <1>1, Facts DEF Goto
<1>4. PlaceOK(w, pc'[w], job'[w])
  BY <1>1, <1>2, <1>3 DEF PlaceOK, Locations, Holding, Obj
<1>5. CASE SetValue(w, Obj(w))
  <2>1. stamp' = stamp + 1 /\ HeapType' /\ DataType'
    BY <1>1, <1>2, <1>5, SetValueType
  <2>2. Counted(w)
    BY <1>1, <1>2, <1>3, <2>1 DEF Counted, ToWrite
  <2>3. ThreadType' /\ CountType'
    BY <1>3, <1>4, <2>1, <2>2, JobGrow, Facts, StepType
  <2> QED
    BY <2>1, <2>3 DEF TypeInv
<1>6. CASE UNCHANGED <<heap, stamp, latest>>
  <2>1. "try" \in Locations /\ PlaceOK(w, "try", job[w])
    BY <1>3, <1>4 DEF PlaceOK
  <2>2. ThreadType' /\ CountType'
    BY <1>1, <1>6, <2>1, MoveType DEF ToWrite
  <2>3. DataType' /\ HeapType'
    BY <1>1, <1>6, DataSame, HeapSame
  <2> QED
    BY <2>2, <2>3 DEF TypeInv
<1> QED
  BY <1>5, <1>6 DEF StoreApply
\* A record made or changed by AddCacheRecord.
LEMMA AddType ==
  ASSUME TypeInv, NEW w \in Workers, AddCacheRecord(w)
  PROVE  TypeInv'
<1> DEFINE o == IF mapped = None THEN NewObject ELSE mapped
           F == job[w].fields
           v == [f \in Fields |-> IF f \in F THEN stamp + 1 ELSE 0]
           r == [Blank EXCEPT !.dirty = F, !.val = v]
<1>1. /\ o \in Objects /\ stamp \in Nat /\ pc[w] = "add"
      /\ JobFieldsOK(stamp, job[w]) /\ PlaceOK(w, pc[w], job[w])
  BY RoomLemma, Facts DEF AddCacheRecord, At, TypeInv, DataType
<1>2. job[w].op = "add" /\ w \in Clients
  BY <1>1, ClientWrites DEF PlaceOK
<1>3. /\ requests' = requests /\ row' = row /\ mapped' = o /\ token' = token
      /\ job' = [job EXCEPT ![w].obj = o, ![w].phase = "add"] /\ Goto(w, "take")
  BY DEF AddCacheRecord
<1>4. /\ stamp' = stamp + 1 /\ latest' \in Vals(stamp') /\ HeapType'
  <2>1. CASE mapped # None
    <3>1. SetValue(w, mapped) /\ mapped' = mapped /\ o = mapped
      BY <2>1 DEF AddCacheRecord
    <3>2. stamp' = stamp + 1 /\ HeapType' /\ DataType'
      BY <1>1, <1>3, <3>1, SetValueType
    <3> QED
      BY <3>2 DEF DataType
  <2>2. CASE mapped = None
    <3>1. heap' = [heap EXCEPT ![o] = r] /\ Wrote(F)
      BY <2>2 DEF AddCacheRecord
    <3>2. F \in SUBSET Fields
      BY <1>1 DEF JobFieldsOK
    <3>3. stamp' = stamp + 1 /\ latest' \in Vals(stamp')
      <4> HIDE DEF F
      <4> QED
        BY <3>1, <3>2, WroteType
    <3>4. RecordOK(stamp + 1, r)
      <4>1. v \in Vals(stamp + 1)
        BY <1>1 DEF Vals
      <4> HIDE DEF F, v
      <4>2. Shape(r, RecordFields)
        BY DEF Shape, RecordFields, Blank
      <4>3. RecordFieldsOK(stamp + 1, r)
        BY <1>1, <3>2, <4>1 DEF RecordFieldsOK, Blank, ChgTypes
      <4> QED
        BY <4>2, <4>3, RecordTypeLemma
    <3> HIDE DEF o, r
    <3>5. HeapType'
      BY <1>1, <3>1, <3>3, <3>4, HeapPut
    <3> QED
      BY <3>3, <3>5
  <2> QED
    BY <2>1, <2>2
<1> HIDE DEF o, r
<1>5. /\ job' = [job EXCEPT ![w] = job'[w]] /\ pc' = [pc EXCEPT ![w] = pc'[w]]
      /\ pc'[w] = "take" /\ job'[w] = [job[w] EXCEPT !.obj = o, !.phase = "add"]
  BY <1>3, Facts DEF Goto, Shape, JobFields
<1>6. Shape(job'[w], JobFields)
  BY <1>5, Facts DEF Shape, JobFields
<1>7. JobFieldsOK(stamp', job'[w])
  <2>1. JobFieldsOK(stamp', job[w])
    BY <1>4, JobGrow
  <2> QED
    BY <1>1, <1>5, <2>1, Facts DEF Shape, JobFields, JobFieldsOK, Phases
<1>8. job'[w].op = job[w].op /\ job'[w].obj = o
  BY <1>5, Facts DEF Shape, JobFields
<1>9. PlaceOK(w, pc'[w], job'[w])
  BY <1>1, <1>5, <1>8 DEF PlaceOK, Locations, Holding
<1>10. Counted(w)
  BY <1>1, <1>2, <1>3, <1>4, <1>5, <1>8 DEF Counted, ToWrite
<1>11. ThreadType' /\ CountType'
  BY <1>5, <1>6, <1>7, <1>9, <1>10, StepType
<1>12. DataType'
  BY <1>1, <1>3, <1>4, DataGrow
<1> QED
  BY <1>4, <1>11, <1>12 DEF TypeInv

-----------------------------------------------------------------------------
(* Queries.                                                                *)

LEMMA RunType ==
  ASSUME NEW n \in Nat, NEW r \in RowsTo(n), NEW j, JobFieldsOK(n, j)
  PROVE  Run(r, j).row \in RowsTo(n) /\ Run(r, j).res \in Results \ {None}
<1>1. Merge(r.val, j.took) \in Vals(n)
  BY DEF Merge, Vals, RowsTo, JobFieldsOK
<1>2. /\ RunUpdateCas(r, j).row \in RowsTo(n)
      /\ RunUpdateCas(r, j).res \in {"NOTFOUND", "EXISTS", "OK"}
  <2> DEFINE s == [r EXCEPT !.val = Merge(@, j.took), !.cas = j.newcas]
  <2>1. s.there = r.there /\ s.val = Merge(r.val, j.took) /\ s.cas = j.newcas
    BY DEF RowsTo
  <2>2. Shape(s, {"there", "val", "cas"})
    BY DEF Shape, RowsTo
  <2>3. r.there \in BOOLEAN /\ j.newcas \in 0 .. n
    BY DEF RowsTo, JobFieldsOK
  <2>4. s \in RowsTo(n)
    <3> HIDE DEF s
    <3> QED
      BY <1>1, <2>1, <2>2, <2>3 DEF Shape, RowsTo
  <2> QED
    BY <2>4 DEF RunUpdateCas
<1>3. RunUpdate(r, j).row \in RowsTo(n) /\ RunUpdate(r, j).res = "OK"
  <2>1. [r EXCEPT !.val = Merge(r.val, j.took)] \in RowsTo(n)
    BY <1>1 DEF RowsTo
  <2> QED
    BY <2>1 DEF RunUpdate
<1>4. RunInsert(r, j).row \in RowsTo(n) /\ RunInsert(r, j).res \in {"NOTSTORED", "OK"}
  <2>1. [there |-> TRUE, val |-> j.took, cas |-> j.newcas] \in RowsTo(n)
    BY DEF RowsTo, JobFieldsOK
  <2> QED
    BY <2>1 DEF RunInsert
<1>5. RunDelete(r, j).row \in RowsTo(n) /\ RunDelete(r, j).res = "OK"
  BY BlankLemma DEF RunDelete
<1> QED
  BY <1>2, <1>3, <1>4, <1>5 DEF Run, Results, None

LEMMA OutcomeType ==
  ASSUME TypeInv, NEW w \in Workers, NEW out \in Outcomes(job[w])
  PROVE  out.row \in RowsTo(stamp) /\ out.res \in Results \ {None}
<1>1. stamp \in Nat /\ row \in RowsTo(stamp) /\ JobFieldsOK(stamp, job[w])
  BY Facts DEF TypeInv, DataType
<1>2. /\ Run(row, job[w]).row \in RowsTo(stamp)
      /\ Run(row, job[w]).res \in Results \ {None}
  BY <1>1, RunType
<1>3. /\ Run(Run(row, job[w]).row, job[w]).row \in RowsTo(stamp)
      /\ Run(Run(row, job[w]).row, job[w]).res \in Results \ {None}
  BY <1>1, <1>2, RunType
<1> QED
  BY <1>1, <1>2, <1>3 DEF Outcomes, Results, None

LEMMA DeleteType ==
  ASSUME TypeInv, NEW w \in Workers, DeleteFromDB(w)
  PROVE  TypeInv'
<1>1. PICK out \in Outcomes(job[w]) :
        /\ Write(w, out)
        /\ Goto(w, IF out.res = "OK" /\ Obj(w) # None THEN "reset" ELSE "done")
  BY DEF DeleteFromDB
<1>2. /\ stamp' = stamp /\ requests' = requests /\ job' = job /\ row' = out.row
      /\ mapped' = mapped /\ heap' = heap /\ token' = token /\ latest' = latest
  BY <1>1 DEF DeleteFromDB, Write
<1>3. PlaceOK(w, pc[w], job[w]) /\ Obj(w) \in Objects \cup {None}
  BY Facts DEF JobFieldsOK, Obj
<1>4. PICK l \in {"reset", "done"} : Goto(w, l) /\ (l = "reset" => Obj(w) # None)
  BY <1>1
<1>5. l \in Locations /\ PlaceOK(w, l, job[w])
  BY <1>3, <1>4 DEF PlaceOK, Locations, Holding, Obj
<1>6. ThreadType' /\ CountType'
  BY <1>2, <1>4, <1>5, MoveType DEF ToWrite
<1>7. DataType'
  BY <1>2, OutcomeType DEF TypeInv, DataType
<1>8. HeapType'
  BY <1>2, HeapSame
<1> QED
  BY <1>6, <1>7, <1>8 DEF TypeInv
-----------------------------------------------------------------------------
(* Writing a record back.                                                  *)

\* One field of a record is assigned.
LEMMA AssignType ==
  ASSUME TypeInv, stamp' = stamp, NEW o \in Objects,
         \/ \E b \in BOOLEAN : heap' = [heap EXCEPT ![o].busy = b]
         \/ heap' = [heap EXCEPT ![o].chg = "NIL"]
         \/ heap' = [heap EXCEPT ![o].dirty = {}]
         \/ \E c \in 0 .. stamp : heap' = [heap EXCEPT ![o].cas = c, ![o].inc = 0]
  PROVE  HeapType'
<1>1. /\ heap' = [heap EXCEPT ![o] = heap'[o]]
      /\ \/ \E b \in BOOLEAN : heap'[o] = [heap[o] EXCEPT !.busy = b]
         \/ heap'[o] = [heap[o] EXCEPT !.chg = "NIL"]
         \/ heap'[o] = [heap[o] EXCEPT !.dirty = {}]
         \/ \E c \in 0 .. stamp : heap'[o] = [heap[o] EXCEPT !.cas = c, !.inc = 0]
  <2>1. heap \in [Objects -> RecordsTo(stamp)]
    BY DEF TypeInv, HeapType
  <2>2. CASE \E b \in BOOLEAN : heap' = [heap EXCEPT ![o].busy = b]
    BY <2>1, <2>2
  <2>3. CASE heap' = [heap EXCEPT ![o].chg = "NIL"]
    BY <2>1, <2>3
  <2>4. CASE heap' = [heap EXCEPT ![o].dirty = {}]
    BY <2>1, <2>4
  <2>5. CASE \E c \in 0 .. stamp : heap' = [heap EXCEPT ![o].cas = c, ![o].inc = 0]
    <3>1. PICK c \in 0 .. stamp : heap' = [heap EXCEPT ![o].cas = c, ![o].inc = 0]
      BY <2>5
    <3>2. /\ heap' = [heap EXCEPT ![o] = heap'[o]]
          /\ heap'[o] = [heap[o] EXCEPT !.cas = c, !.inc = 0]
      BY <2>1, <3>1
    <3> QED
      BY <3>2
  <2> QED
    BY <2>2, <2>3, <2>4, <2>5
<1>2. Shape(heap'[o], RecordFields)
  BY <1>1, RecordFacts DEF Shape, RecordFields
<1>3. RecordFieldsOK(stamp, heap'[o])
  <2>1. Shape(heap[o], RecordFields) /\ RecordFieldsOK(stamp, heap[o]) /\ stamp \in Nat
    BY RecordFacts DEF TypeInv, CountType
  <2>2. CASE \E b \in BOOLEAN : heap'[o] = [heap[o] EXCEPT !.busy = b]
    BY <2>1, <2>2 DEF Shape, RecordFields, RecordFieldsOK
  <2>3. CASE heap'[o] = [heap[o] EXCEPT !.chg = "NIL"]
    BY <2>1, <2>3 DEF Shape, RecordFields, RecordFieldsOK, ChgTypes
  <2>4. CASE heap'[o] = [heap[o] EXCEPT !.dirty = {}]
    BY <2>1, <2>4 DEF Shape, RecordFields, RecordFieldsOK
  <2>5. CASE \E c \in 0 .. stamp : heap'[o] = [heap[o] EXCEPT !.cas = c, !.inc = 0]
    BY <2>1, <2>5 DEF Shape, RecordFields, RecordFieldsOK
  <2> QED
    BY <1>1, <2>2, <2>3, <2>4, <2>5
<1>4. RecordOK(stamp, heap'[o])
  BY <1>2, <1>3, RecordTypeLemma
<1> QED
  BY <1>1, <1>4, HeapPut

\* The steps that keep a thread's locals.
LEMMA LockType ==
  ASSUME TypeInv, NEW w \in Workers,
         TryBusy(w) \/ TryTaken(w) \/ Unlock(w) \/ ResetChgType(w)
  PROVE  TypeInv'
<1>1. /\ stamp' = stamp /\ requests' = requests /\ job' = job /\ row' = row
      /\ mapped' = mapped /\ token' = token /\ latest' = latest
      /\ pc[w] \in {"try", "unlock", "reset"}
  BY DEF TryBusy, TryTaken, Unlock, ResetChgType, ghost, At
<1>2. PICK l \in {"done", "check"} : Goto(w, l)
  BY DEF TryBusy, TryTaken, Unlock, ResetChgType
<1>3. PlaceOK(w, pc[w], job[w])
  BY Facts
<1>4. l \in Locations /\ PlaceOK(w, l, job[w]) /\ Obj(w) \in Objects
  BY <1>1, <1>3 DEF PlaceOK, Locations, Holding, Obj
<1>5. ThreadType' /\ CountType'
  BY <1>1, <1>2, <1>4, MoveType DEF ToWrite
<1>6. HeapType'
  <2>1. CASE TryBusy(w)
    BY <1>1, <2>1, HeapSame DEF TryBusy
  <2>2. CASE TryTaken(w)
    <3>1. heap' = [heap EXCEPT ![Obj(w)].busy = TRUE] /\ TRUE \in BOOLEAN
      BY <2>2 DEF TryTaken
    <3> QED
      BY <1>1, <1>4, <3>1, AssignType
  <2>3. CASE Unlock(w)
    <3>1. heap' = [heap EXCEPT ![Obj(w)].busy = FALSE] /\ FALSE \in BOOLEAN
      BY <2>3 DEF Unlock
    <3> QED
      BY <1>1, <1>4, <3>1, AssignType
  <2>4. CASE ResetChgType(w)
    BY <1>1, <1>4, <2>4, AssignType DEF ResetChgType
  <2> QED
    BY <2>1, <2>2, <2>3, <2>4
<1>7. DataType'
  BY <1>1, DataSame
<1> QED
  BY <1>5, <1>6, <1>7 DEF TypeInv

\* The steps of a write-back: they change what the thread has taken from the
\* record, stay on the record and write no request.
LEMMA BackType ==
  ASSUME TypeInv, NEW w \in Workers, stamp' = stamp, requests' = requests,
         pc' = [pc EXCEPT ![w] = pc'[w]], job' = [job EXCEPT ![w] = job'[w]],
         pc[w] \in Holding, Shape(job'[w], JobFields), JobFieldsOK(stamp, job'[w]),
         \A k \in {"op", "obj", "old", "again"} : job'[w][k] = job[w][k],
         job'[w].phase = "add" => job[w].phase = "add",
         \/ pc'[w] \in {"check", "take", "takechg", "memcas", "flushcas", "query",
                        "loadcas", "setcas", "unlock", "done"}
         \/ pc'[w] = "select" /\ job[w].phase = "add"
         \/ pc'[w] = "recover" /\ job'[w].chg = "UPDATE"
  PROVE  ThreadType' /\ CountType'
<1>1. PlaceOK(w, pc[w], job[w])
  BY Facts
<1>2. PlaceOK(w, pc'[w], job'[w])
  BY <1>1 DEF PlaceOK, Locations, Holding
<1>3. Counted(w)
  BY <1>1 DEF PlaceOK, Counted, ToWrite
<1> QED
  BY <1>2, <1>3, StepType
LEMMA CheckType ==
  ASSUME TypeInv, NEW w \in Workers, CheckChange(w)
  PROVE  TypeInv'
<1>1. /\ stamp' = stamp /\ requests' = requests /\ row' = row /\ heap' = heap
      /\ mapped' = mapped /\ token' = token /\ latest' = latest /\ pc[w] \in Holding
  BY DEF CheckChange, ghost, At, Holding
<1>2. /\ pc' = [pc EXCEPT ![w] = pc'[w]] /\ job' = [job EXCEPT ![w] = job'[w]]
      /\ pc'[w] \in {"unlock", "take"}
      /\ \/ job'[w] = job[w]
         \/ job'[w] = [job[w] EXCEPT !.phase = "check"]
  BY Facts DEF CheckChange, Goto
<1>3. Shape(job'[w], JobFields)
  BY <1>2, Facts DEF Shape, JobFields
<1>4. JobFieldsOK(stamp, job'[w])
  BY <1>2, Facts DEF Shape, JobFields, JobFieldsOK, Phases
<1>5. /\ \A k \in {"op", "obj", "old", "again"} : job'[w][k] = job[w][k]
      /\ job'[w].phase = "add" => job[w].phase = "add"
  BY <1>2, Facts DEF Shape, JobFields
<1>6. ThreadType' /\ CountType'
  BY <1>1, <1>2, <1>3, <1>4, <1>5, BackType
<1>7. DataType' /\ HeapType'
  BY <1>1, DataSame, HeapSame
<1> QED
  BY <1>6, <1>7 DEF TypeInv

LEMMA TakeType ==
  ASSUME TypeInv, NEW w \in Workers, TakeValue(w) \/ TakeChgType(w)
  PROVE  TypeInv'
<1> DEFINE o == Obj(w)
           v == [f \in Fields |-> IF f \in heap[o].dirty THEN heap[o].val[f] ELSE 0]
<1>1. /\ stamp' = stamp /\ requests' = requests /\ row' = row
      /\ mapped' = mapped /\ token' = token /\ latest' = latest /\ pc[w] \in Holding
  BY DEF TakeValue, TakeChgType, ghost, At, Holding
<1>2. o \in Objects /\ stamp \in Nat
  BY <1>1, Facts DEF PlaceOK, Obj
<1>3. v \in Vals(stamp) /\ heap[o].chg \in ChgTypes
  BY <1>2, RecordFacts DEF RecordFieldsOK, Vals
<1>4. /\ \/ job' = [job EXCEPT ![w].took = v] /\ heap' = [heap EXCEPT ![o].dirty = {}]
         \/ /\ job' = [job EXCEPT ![w].chg = heap[o].chg]
            /\ heap' = [heap EXCEPT ![o].chg = "NIL"]
      /\ \E l \in {"takechg", "memcas", "flushcas", "query"} : Goto(w, l)
  BY DEF TakeValue, TakeChgType
<1> HIDE DEF o, v
<1>5. HeapType'
  <2>1. heap' = [heap EXCEPT ![o].dirty = {}] \/ heap' = [heap EXCEPT ![o].chg = "NIL"]
    BY <1>4
  <2> QED
    BY <1>1, <1>2, <2>1, AssignType
<1>6. /\ pc' = [pc EXCEPT ![w] = pc'[w]] /\ job' = [job EXCEPT ![w] = job'[w]]
      /\ pc'[w] \in {"takechg", "memcas", "flushcas", "query"}
      /\ \/ job'[w] = [job[w] EXCEPT !.took = v]
         \/ job'[w] = [job[w] EXCEPT !.chg = heap[o].chg]
  BY <1>4, Facts DEF Goto
<1>7. Shape(job'[w], JobFields)
  BY <1>6, Facts DEF Shape, JobFields
<1>8. JobFieldsOK(stamp, job'[w])
  BY <1>3, <1>6, Facts DEF Shape, JobFields, JobFieldsOK
<1>9. /\ \A k \in {"op", "obj", "old", "again"} : job'[w][k] = job[w][k]
      /\ job'[w].phase = "add" => job[w].phase = "add"
  BY <1>6, Facts DEF Shape, JobFields
<1>10. ThreadType' /\ CountType'
  BY <1>1, <1>6, <1>7, <1>8, <1>9, BackType
<1>11. DataType'
  BY <1>1, DataSame
<1> QED
  BY <1>5, <1>10, <1>11 DEF TypeInv

LEMMA CasType ==
  ASSUME TypeInv, NEW w \in Workers, GetDBCas(w) \/ FlushDBCas(w) \/ ChangeCas(w)
  PROVE  TypeInv'
<1> DEFINE o == Obj(w)
           cas == heap[o].cas
           newcas == heap[o].cas + heap[o].inc
           readcas == job[w].read.cas
<1>1. /\ stamp' = stamp /\ requests' = requests /\ row' = row
      /\ mapped' = mapped /\ token' = token /\ latest' = latest /\ pc[w] \in Holding
  BY DEF GetDBCas, FlushDBCas, ChangeCas, ghost, At, Holding
<1>2. o \in Objects /\ stamp \in Nat
  BY <1>1, Facts DEF PlaceOK, Obj
<1>3. cas \in 0 .. stamp /\ newcas \in 0 .. stamp /\ readcas \in 0 .. stamp
  BY <1>2, RecordFacts, Facts DEF RecordFieldsOK, JobFieldsOK, RowsTo
<1>4. /\ \/ job' = [job EXCEPT ![w].memcas = cas] /\ heap' = heap
         \/ /\ job' = [job EXCEPT ![w].newcas = newcas]
            /\ heap' = [heap EXCEPT ![o] = CasFlushed(heap[o])]
         \/ /\ job' = [job EXCEPT ![w].phase = "again", ![w].read = NoRow]
            /\ heap' = [heap EXCEPT ![o].cas = readcas, ![o].inc = 0]
      /\ \E l \in {"flushcas", "query", "take"} : Goto(w, l)
  BY DEF GetDBCas, FlushDBCas, ChangeCas, Cas
<1>5. RecordOK(stamp', CasFlushed(heap[o]))
  BY <1>1, <1>2, RecordFacts, CasFlushedType
<1> HIDE DEF o, cas, newcas, readcas
<1>6. HeapType'
  <2>1. CASE heap' = heap
    BY <1>1, <2>1, HeapSame
  <2>2. CASE heap' = [heap EXCEPT ![o] = CasFlushed(heap[o])]
    BY <1>1, <1>2, <1>5, <2>2, HeapPut
  <2>3. CASE heap' = [heap EXCEPT ![o].cas = readcas, ![o].inc = 0]
    BY <1>1, <1>2, <1>3, <2>3, AssignType
  <2> QED
    BY <1>4, <2>1, <2>2, <2>3
<1>7. /\ pc' = [pc EXCEPT ![w] = pc'[w]] /\ job' = [job EXCEPT ![w] = job'[w]]
      /\ pc'[w] \in {"flushcas", "query", "take"}
      /\ \/ job'[w] = [job[w] EXCEPT !.memcas = cas]
         \/ job'[w] = [job[w] EXCEPT !.newcas = newcas]
         \/ job'[w] = [job[w] EXCEPT !.phase = "again", !.read = NoRow]
  BY <1>4, Facts DEF Goto
<1>8. Shape(job'[w], JobFields)
  BY <1>7, Facts DEF Shape, JobFields
<1>9. JobFieldsOK(stamp, job'[w])
  <2>1. NoRow \in RowsTo(stamp) /\ "again" \in Phases
    BY <1>2, BlankLemma DEF Phases
  <2> QED
    BY <1>3, <1>7, <2>1, Facts DEF Shape, JobFields, JobFieldsOK
<1>10. /\ \A k \in {"op", "obj", "old", "again"} : job'[w][k] = job[w][k]
       /\ job'[w].phase = "add" => job[w].phase = "add"
  BY <1>7, Facts DEF Shape, JobFields
<1>11. ThreadType' /\ CountType'
  BY <1>1, <1>7, <1>8, <1>9, <1>10, BackType
<1>12. DataType'
  BY <1>1, DataSame
<1> QED
  BY <1>6, <1>11, <1>12 DEF TypeInv

\* Where a write-back goes when its query has returned.
LEMMA ReturnLemma ==
  ASSUME NEW j, NEW res
  PROVE  /\ ReturnTo(j, res) \in {"take", "loadcas", "unlock", "select", "done"}
         /\ ReturnTo(j, res) = "select" => j.phase = "add"
BY DEF ReturnTo

\* What Returned leaves of the locals.
LEMMA ReturnedType ==
  ASSUME NEW n \in Nat, NEW j, Shape(j, JobFields), JobFieldsOK(n, j), NEW res,
         NEW s, s = Returned(j, res)
  PROVE  /\ Shape(s, JobFields) /\ JobFieldsOK(n, s)
         /\ \A k \in {"op", "obj", "old", "again"} : s[k] = j[k]
         /\ s.phase = "add" => j.phase = "add"
<1>1. Shape(s, JobFields)
  BY DEF Shape, JobFields, Returned
<1>2. /\ \A k \in {"op", "obj", "old", "fields", "tok", "read", "again"} : s[k] = j[k]
      /\ s.took = Nothing /\ s.chg = "NIL" /\ s.memcas = 0 /\ s.newcas = 0
      /\ s.res = None
      /\ s.phase = IF j.phase = "check" /\ res = "NOTFOUND" THEN "readd" ELSE j.phase
  BY DEF Shape, JobFields, Returned
<1>3. JobFieldsOK(n, s)
  BY <1>2, BlankLemma DEF JobFieldsOK, ChgTypes, Results, Phases
<1> QED
  BY <1>1, <1>2, <1>3

LEMMA QueryType ==
  ASSUME TypeInv, NEW w \in Workers, Query(w)
  PROVE  TypeInv'
<1>1. PICK out \in Outcomes(job[w]) :
        /\ Write(w, out)
        /\ IF Recovers(job[w], out.res)
           THEN Goto(w, "recover") /\ job' = [job EXCEPT ![w].res = out.res]
           ELSE /\ Goto(w, ReturnTo(job[w], out.res))
                /\ job' = [job EXCEPT ![w] = Returned(@, out.res)]
  BY DEF Query
<1>2. /\ stamp' = stamp /\ requests' = requests /\ row' = out.row
      /\ mapped' = mapped /\ heap' = heap /\ token' = token /\ latest' = latest
  BY <1>1 DEF Write
<1>3. pc[w] \in Holding /\ stamp \in Nat
  BY Facts DEF Query, At, Holding
<1>4. out.row \in RowsTo(stamp) /\ out.res \in Results
  BY OutcomeType
<1>5. DataType' /\ HeapType'
  BY <1>2, <1>4, HeapSame DEF TypeInv, DataType
<1>6. CASE Recovers(job[w], out.res)
  <2>1. /\ pc' = [pc EXCEPT ![w] = pc'[w]] /\ job' = [job EXCEPT ![w] = job'[w]]
        /\ pc'[w] = "recover" /\ job'[w] = [job[w] EXCEPT !.res = out.res]
    BY <1>1, <1>6, Facts DEF Goto
  <2>2. Shape(job'[w], JobFields)
    BY <2>1, Facts DEF Shape, JobFields
  <2>3. JobFieldsOK(stamp, job'[w])
    BY <1>4, <2>1, Facts DEF Shape, JobFields, JobFieldsOK
  <2>4. /\ \A k \in {"op", "obj", "old", "again"} : job'[w][k] = job[w][k]
        /\ job'[w].phase = job[w].phase /\ job'[w].chg = job[w].chg
    BY <2>1, Facts DEF Shape, JobFields
  <2>5. job'[w].chg = "UPDATE"
    BY <1>6, <2>4, Facts DEF Recovers, JobFieldsOK, ChgTypes
  <2>6. ThreadType' /\ CountType'
    BY <1>2, <1>3, <2>1, <2>2, <2>3, <2>4, <2>5, BackType
  <2> QED
    BY <1>5, <2>6 DEF TypeInv
<1>7. CASE ~Recovers(job[w], out.res)
  <2>1. /\ pc' = [pc EXCEPT ![w] = pc'[w]] /\ job' = [job EXCEPT ![w] = job'[w]]
        /\ pc'[w] = ReturnTo(job[w], out.res)
        /\ job'[w] = Returned(job[w], out.res)
    BY <1>1, <1>7, Facts DEF Goto
  <2>2. /\ Shape(job'[w], JobFields) /\ JobFieldsOK(stamp, job'[w])
        /\ \A k \in {"op", "obj", "old", "again"} : job'[w][k] = job[w][k]
        /\ job'[w].phase = "add" => job[w].phase = "add"
    BY <1>3, <2>1, Facts, ReturnedType
  <2>3. /\ pc'[w] \in {"take", "loadcas", "unlock", "select", "done"}
        /\ pc'[w] = "select" => job[w].phase = "add"
    BY <2>1, ReturnLemma
  <2>4. ThreadType' /\ CountType'
    BY <1>2, <1>3, <2>1, <2>2, <2>3, BackType
  <2> QED
    BY <1>5, <2>4 DEF TypeInv
<1> QED
  BY <1>6, <1>7

LEMMA RecoverType ==
  ASSUME TypeInv, NEW w \in Workers, RecoverChgType(w)
  PROVE  TypeInv'
<1>1. /\ stamp' = stamp /\ requests' = requests /\ row' = row
      /\ mapped' = mapped /\ token' = token /\ latest' = latest /\ pc[w] \in Holding
  BY DEF RecoverChgType, ghost, At, Holding
<1>2. Obj(w) \in Objects /\ stamp \in Nat
  BY <1>1, Facts DEF PlaceOK, Obj
<1>3. /\ pc' = [pc EXCEPT ![w] = pc'[w]] /\ job' = [job EXCEPT ![w] = job'[w]]
      /\ pc'[w] = ReturnTo(job[w], job[w].res)
      /\ job'[w] = Returned(job[w], job[w].res)
      /\ heap' = [heap EXCEPT ![Obj(w)] = Recovered(heap[Obj(w)], job[w].took, job[w].chg)]
  BY Facts DEF RecoverChgType, Goto
<1>4. /\ Shape(job'[w], JobFields) /\ JobFieldsOK(stamp, job'[w])
      /\ \A k \in {"op", "obj", "old", "again"} : job'[w][k] = job[w][k]
      /\ job'[w].phase = "add" => job[w].phase = "add"
  BY <1>2, <1>3, Facts, ReturnedType
<1>5. /\ pc'[w] \in {"take", "loadcas", "unlock", "select", "done"}
      /\ pc'[w] = "select" => job[w].phase = "add"
  BY <1>3, ReturnLemma
<1>6. ThreadType' /\ CountType'
  BY <1>1, <1>3, <1>4, <1>5, BackType
<1>7. HeapType'
  <2>1. RecordOK(stamp', Recovered(heap[Obj(w)], job[w].took, job[w].chg))
    BY <1>1, <1>2, RecordFacts, RecoveredType
  <2> QED
    BY <1>1, <1>2, <1>3, <2>1, HeapPut
<1>8. DataType'
  BY <1>1, DataSame
<1> QED
  BY <1>6, <1>7, <1>8 DEF TypeInv

-----------------------------------------------------------------------------
LEMMA StepKeepsType ==
  ASSUME TypeInv, NEW w \in Workers, Step(w)
  PROVE  TypeInv'
<1>1. CASE TableStep(w)
  BY <1>1, FindType, InsertType, LoadType, FillType, InsertCacheType, RemoveType, AddType
     DEF TableStep
<1>2. CASE ServeStep(w)
  BY <1>2, ReplyType, ServeSetType, ServeCasType, MismatchType, ApplyType, DeleteType,
     LockType, FinishType DEF ServeStep
<1>3. CASE FlushStep(w)
  BY <1>3, LockType, CheckType, TakeType, CasType, QueryType, RecoverType, LoadType
     DEF FlushStep
<1> QED
  BY <1>1, <1>2, <1>3 DEF Step

LEMMA NextKeepsType == TypeInv /\ [Next]_vars => TypeInv'
<1> SUFFICES ASSUME TypeInv, [Next]_vars
             PROVE  TypeInv'
  OBVIOUS
<1>1. CASE Next
  <2>1. \A w \in Clients : w \in Workers
    BY DEF Workers
  <2> QED
    BY <1>1, <2>1, StepKeepsType, RequestType, TimerType DEF Next
<1>2. CASE UNCHANGED vars
  <2>1. DataType' /\ HeapType'
    BY <1>2, DataSame, HeapSame DEF vars
  <2>2. ThreadType'
    BY <1>2 DEF vars, TypeInv, ThreadType
  <2>3. CountType'
    BY <1>2 DEF vars, TypeInv, CountType, Writers
  <2> QED
    BY <2>1, <2>2, <2>3 DEF TypeInv
<1> QED
  BY <1>1, <1>2

\* The cache of one key keeps its types: values and cas codes never pass the
\* number of the requests served, and every record a thread works on is one.
THEOREM TypeCorrect == Spec => []TypeOK
<1>1. Init => TypeInv
  BY InitType
<1>2. TypeInv /\ [Next]_vars => TypeInv'
  BY NextKeepsType
<1>3. TypeInv => TypeOK
  BY TypeInvLemma
<1> QED
  BY <1>1, <1>2, <1>3, PTL DEF Spec
-----------------------------------------------------------------------------
(* m_bLock and the marks.                                                  *)

\* The thread between "check" and "unlock" on a record is the one that set
\* its m_bLock.
LockInv ==
  /\ \A w \in Workers : InRegion(w) => heap[Obj(w)].busy = TRUE
  /\ \A u, w \in Workers : InRegion(u) /\ InRegion(w) /\ Obj(u) = Obj(w) => u = w
  /\ \A o \in Objects :
       heap[o].busy = TRUE => \E w \in Workers : InRegion(w) /\ Obj(w) = o

\* Between the halves of GetValueAndChgType no field is marked, and a record
\* that is being deleted has left the table: so nobody takes the change type
\* of a cached record away from its marks.
MarkInv ==
  /\ \A w \in Workers : pc[w] = "takechg" => heap[Obj(w)].dirty = {}
  /\ \A w \in Workers :
       pc[w] \in {"delete", "reset"} /\ Obj(w) \in Objects => Obj(w) # mapped
  /\ DirtyIsScheduled

\* Only thread w moves.
Alone(w) == \A u \in Workers \ {w} : pc'[u] = pc[u] /\ job'[u] = job[u]

LEMMA RegionLemma ==
  ASSUME TypeInv, NEW w \in Workers, InRegion(w)
  PROVE  Obj(w) \in Objects
BY Facts DEF InRegion, Flushing, PlaceOK, Holding, Obj

\* The threads that do not move stay where they are.
LEMMA OthersLemma ==
  ASSUME NEW w \in Workers, Alone(w), NEW u \in Workers, u # w
  PROVE  /\ InRegion(u)' <=> InRegion(u)
         /\ Obj(u)' = Obj(u) /\ pc'[u] = pc[u] /\ job'[u] = job[u]
BY DEF Alone, InRegion, Obj, At

\* A record no thread holds is not locked.
LEMMA UnheldLemma ==
  ASSUME LockInv, NEW o \in Objects, Unheld(o)
  PROVE  heap[o].busy # TRUE
BY DEF LockInv, Unheld

\* A step of w that stays outside the region, or inside on the same record.
LEMMA LockSame ==
  ASSUME TypeInv, LockInv, NEW w \in Workers, Alone(w),
         InRegion(w)' <=> InRegion(w), InRegion(w) => Obj(w)' = Obj(w),
         \A o \in Objects : heap'[o].busy = TRUE <=> heap[o].busy = TRUE
  PROVE  LockInv'
<1>1. \A u \in Workers : InRegion(u)' <=> InRegion(u)
  BY OthersLemma
<1>2. \A u \in Workers : InRegion(u) => Obj(u)' = Obj(u) /\ Obj(u) \in Objects
  BY OthersLemma, RegionLemma
<1>3. \A u \in Workers : InRegion(u)' => heap'[Obj(u)'].busy = TRUE
  BY <1>1, <1>2 DEF LockInv
<1>4. \A u, v \in Workers : InRegion(u)' /\ InRegion(v)' /\ Obj(u)' = Obj(v)' => u = v
  BY <1>1, <1>2 DEF LockInv
<1>5. ASSUME NEW o \in Objects, heap'[o].busy = TRUE
      PROVE  \E u \in Workers : InRegion(u)' /\ Obj(u)' = o
  <2>1. PICK u \in Workers : InRegion(u) /\ Obj(u) = o
    BY <1>5 DEF LockInv
  <2> QED
    BY <1>1, <1>2, <2>1
<1> QED
  BY <1>3, <1>4, <1>5 DEF LockInv

\* TryTaken: the thread enters the region as the record becomes locked.
LEMMA LockTaken ==
  ASSUME TypeInv, LockInv, NEW w \in Workers, Alone(w), NEW o \in Objects,
         ~InRegion(w), InRegion(w)', Obj(w)' = o, heap[o].busy # TRUE,
         \A x \in Objects : heap'[x].busy = TRUE <=> heap[x].busy = TRUE \/ x = o
  PROVE  LockInv'
<1>1. \A u \in Workers : u # w => /\ InRegion(u)' <=> InRegion(u)
                                  /\ Obj(u)' = Obj(u)
  BY OthersLemma
<1>2. \A u \in Workers : InRegion(u) => Obj(u) \in Objects /\ Obj(u) # o /\ u # w
  BY RegionLemma DEF LockInv
<1>3. \A u \in Workers : InRegion(u)' => heap'[Obj(u)'].busy = TRUE
  BY <1>1, <1>2 DEF LockInv
<1>4. \A u, v \in Workers : InRegion(u)' /\ InRegion(v)' /\ Obj(u)' = Obj(v)' => u = v
  BY <1>1, <1>2 DEF LockInv
<1>5. ASSUME NEW x \in Objects, heap'[x].busy = TRUE
      PROVE  \E u \in Workers : InRegion(u)' /\ Obj(u)' = x
  <2>1. CASE x # o
    <3>1. PICK u \in Workers : InRegion(u) /\ Obj(u) = x
      BY <1>5, <2>1 DEF LockInv
    <3> QED
      BY <1>1, <1>2, <3>1
  <2> QED
    BY <2>1
<1> QED
  BY <1>3, <1>4, <1>5 DEF LockInv

\* Unlock: the thread leaves the region as the record becomes free.
LEMMA LockDropped ==
  ASSUME TypeInv, LockInv, NEW w \in Workers, Alone(w), NEW o \in Objects,
         InRegion(w), ~InRegion(w)', Obj(w) = o,
         \A x \in Objects : heap'[x].busy = TRUE <=> heap[x].busy = TRUE /\ x # o
  PROVE  LockInv'
<1>1. \A u \in Workers : u # w => /\ InRegion(u)' <=> InRegion(u)
                                  /\ Obj(u)' = Obj(u)
  BY OthersLemma
<1>2. \A u \in Workers : InRegion(u) /\ u # w => Obj(u) \in Objects /\ Obj(u) # o
  BY RegionLemma DEF LockInv
<1>3. \A u \in Workers : InRegion(u)' => heap'[Obj(u)'].busy = TRUE
  BY <1>1, <1>2 DEF LockInv
<1>4. \A u, v \in Workers : InRegion(u)' /\ InRegion(v)' /\ Obj(u)' = Obj(v)' => u = v
  BY <1>1, <1>2 DEF LockInv
<1>5. ASSUME NEW x \in Objects, heap'[x].busy = TRUE
      PROVE  \E u \in Workers : InRegion(u)' /\ Obj(u)' = x
  <2>1. PICK u \in Workers : InRegion(u) /\ Obj(u) = x
    BY <1>5 DEF LockInv
  <2>2. u # w
    BY <1>5, <2>1
  <2> QED
    BY <1>1, <2>1, <2>2
<1> QED
  BY <1>3, <1>4, <1>5 DEF LockInv

\* A step of w that marks no field: marks only go, and a record that comes
\* into the table has none.
LEMMA MarkDown ==
  ASSUME TypeInv, TypeInv', MarkInv, NEW w \in Workers, Alone(w),
         \A o \in Objects : heap'[o].dirty \subseteq heap[o].dirty,
         \/ mapped' \in Objects /\ heap'[mapped'].dirty = {}
         \/ mapped' = None
         \/ /\ mapped' = mapped /\ heap'[mapped].chg = heap[mapped].chg
            /\ pc[w] = "take" => Obj(w) # mapped,
         mapped' \in {mapped, None} \/ Unheld(mapped'),
         pc'[w] = "takechg" => heap'[Obj(w)'].dirty = {},
         pc'[w] \in {"delete", "reset"} =>
            \/ mapped' = None
            \/ mapped' = mapped /\ pc[w] \in {"delete", "reset"} /\ Obj(w)' = Obj(w)
  PROVE  MarkInv'
<1>0. None \notin Objects
  BY WorkersAssumption DEF WorkersAssumption
<1>1. ASSUME NEW u \in Workers, pc'[u] = "takechg"
      PROVE  heap'[Obj(u)'].dirty = {}
  <2>1. CASE u # w
    <3>1. Obj(u)' = Obj(u) /\ pc[u] = "takechg"
      BY <1>1, <2>1, OthersLemma
    <3>2. Obj(u) \in Objects /\ heap[Obj(u)].dirty = {}
      BY <3>1, Facts DEF MarkInv, PlaceOK, Holding, Obj
    <3> QED
      BY <3>1, <3>2
  <2> QED
    BY <1>1, <2>1
<1>2. ASSUME NEW u \in Workers, pc'[u] \in {"delete", "reset"}, Obj(u)' \in Objects
      PROVE  Obj(u)' # mapped'
  <2>1. CASE u # w
    <3>1. Obj(u)' = Obj(u) /\ pc[u] \in {"delete", "reset"}
      BY <1>2, <2>1, OthersLemma
    <3> QED
      BY <1>0, <1>2, <3>1 DEF MarkInv, Unheld
  <2>2. CASE u = w
    BY <1>0, <1>2, <2>2 DEF MarkInv
  <2> QED
    BY <2>1, <2>2
<1>3. DirtyIsScheduled'
  <2> SUFFICES ASSUME mapped' # None, heap'[mapped'].dirty # {},
                      heap'[mapped'].chg # "UPDATE"
               PROVE  \E u \in Workers : /\ At(u, "take")' /\ job'[u].phase = "add"
                                         /\ Obj(u)' = mapped'
    BY DEF DirtyIsScheduled
  <2>1. /\ mapped' = mapped /\ heap'[mapped].chg = heap[mapped].chg
        /\ pc[w] = "take" => Obj(w) # mapped
        /\ mapped \in Objects /\ heap[mapped].dirty # {}
    BY DEF TypeInv, DataType
  <2>2. PICK u \in Workers : At(u, "take") /\ job[u].phase = "add" /\ Obj(u) = mapped
    BY <2>1 DEF MarkInv, DirtyIsScheduled
  <2>3. u # w
    BY <2>1, <2>2 DEF At
  <2> QED
    BY <2>1, <2>2, <2>3, OthersLemma DEF At
<1> QED
  BY <1>1, <1>2, <1>3 DEF MarkInv

\* A step of w that marks fields of o, which nobody is taking the marks of.
LEMMA MarkUp ==
  ASSUME TypeInv, TypeInv', MarkInv, NEW w \in Workers, Alone(w), NEW o \in Objects,
         Writable(o), \A x \in Objects \ {o} : heap'[x] = heap[x],
         \/ heap'[o].chg = "UPDATE"
         \/ pc'[w] = "take" /\ job'[w].phase = "add" /\ Obj(w)' = o,
         mapped' = mapped \/ (mapped' = o /\ Unheld(o)),
         pc[w] # "take", pc'[w] \notin {"takechg", "delete", "reset"}
  PROVE  MarkInv'
<1>1. ASSUME NEW u \in Workers, pc'[u] = "takechg"
      PROVE  heap'[Obj(u)'].dirty = {}
  <2>1. u # w
    BY <1>1
  <2>2. Obj(u)' = Obj(u) /\ pc[u] = "takechg"
    BY <1>1, <2>1, OthersLemma
  <2>3. Obj(u) \in Objects /\ heap[Obj(u)].dirty = {} /\ Obj(u) # o
    BY <2>2, Facts DEF MarkInv, PlaceOK, Holding, Obj, Writable, At
  <2> QED
    BY <2>2, <2>3
<1>2. ASSUME NEW u \in Workers, pc'[u] \in {"delete", "reset"}, Obj(u)' \in Objects
      PROVE  Obj(u)' # mapped'
  <2>1. u # w
    BY <1>2
  <2>2. Obj(u)' = Obj(u) /\ pc[u] \in {"delete", "reset"}
    BY <1>2, <2>1, OthersLemma
  <2> QED
    BY <1>2, <2>2 DEF MarkInv, Unheld
<1>3. DirtyIsScheduled'
  <2> SUFFICES ASSUME mapped' # None, heap'[mapped'].dirty # {},
                      heap'[mapped'].chg # "UPDATE"
               PROVE  \E u \in Workers : /\ At(u, "take")' /\ job'[u].phase = "add"
                                         /\ Obj(u)' = mapped'
    BY DEF DirtyIsScheduled
  <2>1. CASE mapped' = o
    BY <2>1 DEF At
  <2>2. CASE mapped' # o
    <3>1. mapped' = mapped /\ heap'[mapped] = heap[mapped]
      BY <2>2 DEF TypeInv, DataType
    <3>2. PICK u \in Workers : At(u, "take") /\ job[u].phase = "add" /\ Obj(u) = mapped
      BY <3>1 DEF MarkInv, DirtyIsScheduled
    <3>3. u # w
      BY <3>2 DEF At
    <3> QED
      BY <3>1, <3>2, <3>3, OthersLemma DEF At
  <2> QED
    BY <2>1, <2>2
<1> QED
  BY <1>1, <1>2, <1>3 DEF MarkInv
-----------------------------------------------------------------------------
(* Steps that touch neither m_bLock nor marks.                             *)

Inv == TypeInv /\ LockInv /\ MarkInv
Outside == Locations \ ({"check", "unlock", "loadcas", "setcas"} \cup Flushing)

\* Outside a write-back a thread neither holds m_bLock nor takes marks.
LEMMA OutsideLemma ==
  /\ \A w : pc[w] \in Outside => ~InRegion(w) /\ pc[w] \notin {"take", "takechg"}
  /\ \A w : pc'[w] \in Outside => ~InRegion(w)' /\ pc'[w] \notin {"take", "takechg"}
BY DEF Outside, InRegion, Flushing

\* A step outside a write-back that changes no record object.
LEMMA QuietOutside ==
  ASSUME Inv, TypeInv', NEW w \in Workers, Alone(w), heap' = heap,
         mapped' \in {mapped, None}, pc[w] \in Outside, pc'[w] \in Outside,
         pc'[w] = "delete" => mapped' = None,
         pc'[w] = "reset" => pc[w] = "delete" /\ mapped' = mapped /\ Obj(w)' = Obj(w)
  PROVE  LockInv' /\ MarkInv'
<1>1. ~InRegion(w) /\ ~InRegion(w)' /\ pc[w] # "take" /\ pc'[w] # "takechg"
  BY OutsideLemma
<1>2. LockInv'
  BY <1>1, LockSame DEF Inv
<1>3. /\ \A o \in Objects : heap'[o].dirty \subseteq heap[o].dirty
      /\ \/ mapped' = None
         \/ /\ mapped' = mapped /\ heap'[mapped].chg = heap[mapped].chg
            /\ pc[w] = "take" => Obj(w) # mapped
      /\ mapped' \in {mapped, None}
      /\ pc'[w] \in {"delete", "reset"} =>
            \/ mapped' = None
            \/ mapped' = mapped /\ pc[w] \in {"delete", "reset"} /\ Obj(w)' = Obj(w)
  BY <1>1
<1>4. MarkInv'
  BY <1>1, <1>3, MarkDown DEF Inv
<1> QED
  BY <1>2, <1>4

LEMMA RequestKeeps ==
  ASSUME Inv, TypeInv', NEW w \in Workers, NEW op \in Ops, Request(w, op)
  PROVE  LockInv' /\ MarkInv'
<1>1. pc[w] = "idle" /\ pc' = [pc EXCEPT ![w] = Entry(op)] /\ heap' = heap /\ mapped' = mapped
  BY DEF Request, At, Goto
<1>2. Alone(w)
  BY <1>1, Facts DEF Inv, Request, Alone
<1>3. Entry(op) \in {"find", "insert", "selectall", "detach", "add"}
  BY OpsAssumption DEF OpsAssumption, Entry
<1>4. pc'[w] \in {"find", "insert", "selectall", "detach", "add"}
  BY <1>1, <1>3, Facts DEF Inv
<1>5. pc[w] \in Outside /\ pc'[w] \in Outside
  BY <1>1, <1>4 DEF Outside, Locations, Flushing
<1> QED
  BY <1>1, <1>2, <1>4, <1>5, QuietOutside

LEMMA TimerKeeps ==
  ASSUME Inv, TypeInv', NEW op \in TimerOps, TimerFires(op)
  PROVE  LockInv' /\ MarkInv'
<1>0. Timer \in Workers
  BY DEF Workers
<1>1. /\ pc[Timer] = "idle" /\ heap' = heap /\ mapped' = mapped
      /\ pc' = [pc EXCEPT ![Timer] = "try"] \/ pc' = [pc EXCEPT ![Timer] = "detach"]
  BY DEF TimerFires, At, Goto
<1>2. Alone(Timer)
  BY <1>0, <1>1, Facts DEF Inv, TimerFires, Alone
<1>3. pc'[Timer] \in {"try", "detach"}
  BY <1>0, <1>1, Facts DEF Inv
<1>4. pc[Timer] \in Outside /\ pc'[Timer] \in Outside
  BY <1>1, <1>3 DEF Outside, Locations, Flushing
<1> QED
  BY <1>0, <1>1, <1>2, <1>3, <1>4, QuietOutside

\* Steps that answer a request or look a record up.
LEMMA LookKeeps ==
  ASSUME Inv, TypeInv', NEW w \in Workers,
         \/ FindMemoryRecord(w) \/ LoadFromDB(w) \/ SelectAllFromDB(w)
         \/ ServeGet(w) \/ ReplyCas(w) \/ CasMismatch(w) \/ CasReloadFailed(w)
         \/ TryBusy(w)
  PROVE  LockInv' /\ MarkInv'
<1>1. /\ heap' = heap /\ mapped' = mapped
      /\ pc[w] \in {"find", "select", "selectall", "serve", "getcas", "giveup", "try"}
      /\ \E l \in {"insert", "serve", "fill", "giveup", "done", "fillall", "getcas"} :
           pc' = [pc EXCEPT ![w] = l]
  BY DEF FindMemoryRecord, LoadFromDB, SelectAllFromDB, ServeGet, ReplyCas, CasMismatch,
         CasReloadFailed, TryBusy, Read, LoadMissed, At, Goto, ghost
<1>2. \A u \in Workers \ {w} : job'[u] = job[u]
  BY Facts DEF Inv, FindMemoryRecord, LoadFromDB, SelectAllFromDB, ServeGet, ReplyCas,
         CasMismatch, CasReloadFailed, TryBusy, Read, ghost
<1>3. Alone(w)
  BY <1>1, <1>2, Facts DEF Inv, Alone
<1>4. pc'[w] \in {"insert", "serve", "fill", "giveup", "done", "fillall", "getcas"}
  BY <1>1, Facts DEF Inv
<1>5. pc[w] \in Outside /\ pc'[w] \in Outside
  BY <1>1, <1>4 DEF Outside, Locations, Flushing
<1> QED
  BY <1>1, <1>3, <1>4, <1>5, QuietOutside

LEMMA DeleteKeeps ==
  ASSUME Inv, TypeInv', NEW w \in Workers, DeleteFromDB(w)
  PROVE  LockInv' /\ MarkInv'
<1>1. /\ heap' = heap /\ mapped' = mapped /\ job' = job /\ pc[w] = "delete"
      /\ \E l \in {"reset", "done"} : pc' = [pc EXCEPT ![w] = l]
  BY DEF DeleteFromDB, Write, Goto, At
<1>2. Alone(w) /\ pc'[w] \in {"reset", "done"} /\ Obj(w)' = Obj(w)
  BY <1>1, Facts DEF Inv, Alone, Obj
<1>3. pc[w] \in Outside /\ pc'[w] \in Outside
  BY <1>1, <1>2 DEF Outside, Locations, Flushing
<1> QED
  BY <1>1, <1>2, <1>3, QuietOutside

-----------------------------------------------------------------------------
(* Steps outside the region that write a record.                           *)

\* The record written is cleaned, or empty, and nothing else changes.
LEMMA DownOutside ==
  ASSUME Inv, TypeInv', NEW w \in Workers, Alone(w), NEW o \in Objects,
         \A x \in Objects \ {o} : heap'[x] = heap[x],
         heap'[o].dirty = {} , heap'[o].busy = TRUE <=> heap[o].busy = TRUE,
         mapped' = mapped \/ (mapped' = o /\ Unheld(o)),
         pc[w] \in Outside, pc'[w] \in Outside \ {"delete", "reset"}
  PROVE  LockInv' /\ MarkInv'
<1>1. ~InRegion(w) /\ ~InRegion(w)' /\ pc[w] # "take" /\ pc'[w] # "takechg"
  BY OutsideLemma
<1>2. LockInv'
  BY <1>1, LockSame DEF Inv
<1>3. /\ \A x \in Objects : heap'[x].dirty \subseteq heap[x].dirty
      /\ \/ mapped' \in Objects /\ heap'[mapped'].dirty = {}
         \/ mapped' = None
         \/ /\ mapped' = mapped /\ heap'[mapped].chg = heap[mapped].chg
            /\ pc[w] = "take" => Obj(w) # mapped
  BY <1>1 DEF TypeInv, DataType
<1>4. MarkInv'
  BY <1>1, <1>3, MarkDown DEF Inv
<1> QED
  BY <1>2, <1>4

LEMMA InsertKeeps ==
  ASSUME Inv, TypeInv', NEW w \in Workers, InsertMemoryRecord(w)
  PROVE  LockInv' /\ MarkInv'
<1>1. /\ pc[w] = "insert" /\ pc' = [pc EXCEPT ![w] = "select"]
      /\ \A u \in Workers \ {w} : job'[u] = job[u]
  BY Facts DEF Inv, InsertMemoryRecord, At, Goto
<1>2. Alone(w) /\ pc'[w] = "select"
  BY <1>1, Facts DEF Inv, Alone
<1>3. pc[w] \in Outside /\ pc'[w] \in Outside \ {"delete", "reset"}
  BY <1>1, <1>2 DEF Outside, Locations, Flushing
<1>4. CASE mapped # None
  BY <1>2, <1>3, <1>4, QuietOutside DEF InsertMemoryRecord
<1>5. CASE mapped = None
  <2> DEFINE o == NewObject
             cas == IF job[w].op = "cas" THEN job[w].tok.cas ELSE 0
  <2>1. o \in Objects /\ Unheld(o) /\ heap[o].busy # TRUE
    BY <1>5, RoomLemma, UnheldLemma DEF Inv
  <2>2. mapped' = o /\ heap' = [heap EXCEPT ![o] = [Blank EXCEPT !.cas = cas]]
    BY <1>5 DEF InsertMemoryRecord
  <2> HIDE DEF o, cas
  <2>3. [Blank EXCEPT !.cas = cas].dirty = {} /\ [Blank EXCEPT !.cas = cas].busy # TRUE
    BY DEF Blank
  <2>4. /\ \A x \in Objects \ {o} : heap'[x] = heap[x]
        /\ heap'[o].dirty = {} /\ heap'[o].busy # TRUE
    BY <2>1, <2>2, <2>3 DEF Inv, TypeInv, HeapType
  <2> QED
    BY <1>2, <1>3, <2>1, <2>2, <2>4, DownOutside
<1> QED
  BY <1>4, <1>5

\* A load leaves no field marked.
LEMMA FilledLemma ==
  ASSUME NEW n, NEW r, RecordOK(n, r), NEW read, NEW withCas
  PROVE  /\ Filled(r, read, withCas).dirty = {}
         /\ Filled(r, read, withCas).busy = r.busy
BY RecordTypeLemma DEF Shape, RecordFields, Filled

LEMMA FillKeeps ==
  ASSUME Inv, TypeInv', NEW w \in Workers, Fill(w) \/ InsertCacheRecord(w)
  PROVE  LockInv' /\ MarkInv'
<1>1. /\ pc[w] \in {"fill", "fillall"}
      /\ \E l \in {"serve", "done"} : pc' = [pc EXCEPT ![w] = l]
      /\ \A u \in Workers \ {w} : job'[u] = job[u]
  BY Facts DEF Inv, Fill, InsertCacheRecord, At, Goto
<1>2. Alone(w) /\ pc'[w] \in {"serve", "done"}
  BY <1>1, Facts DEF Inv, Alone
<1>3. pc[w] \in Outside /\ pc'[w] \in Outside \ {"delete", "reset"}
  BY <1>1, <1>2 DEF Outside, Locations, Flushing
<1>4. PICK o, r, read, withCas :
        /\ o \in Objects
        /\ heap' = [heap EXCEPT ![o] = Filled(r, read, withCas)]
        /\ RecordOK(stamp, r) /\ (r.busy = TRUE <=> heap[o].busy = TRUE)
        /\ mapped' = mapped \/ (mapped' = o /\ Unheld(o))
  <2>1. CASE Fill(w)
    <3>1. Obj(w) \in Objects
      BY <2>1, Facts DEF Inv, Fill, At, PlaceOK, Holding, Obj
    <3> QED
      BY <2>1, <3>1, RecordFacts DEF Inv, Fill
  <2>2. CASE InsertCacheRecord(w) /\ mapped # None
    <3>1. /\ mapped \in Objects /\ mapped' = mapped
          /\ heap' = [heap EXCEPT ![mapped] = Filled(heap[mapped], job[w].read, TRUE)]
      BY <2>2 DEF Inv, InsertCacheRecord, TypeInv, DataType
    <3> QED
      BY <3>1, RecordFacts DEF Inv
  <2>3. CASE InsertCacheRecord(w) /\ mapped = None
    <3>1. /\ NewObject \in Objects /\ Unheld(NewObject) /\ heap[NewObject].busy # TRUE
          /\ stamp \in Nat
      BY <2>3, RoomLemma, UnheldLemma, Facts DEF Inv
    <3>2. /\ mapped' = NewObject
          /\ heap' = [heap EXCEPT ![NewObject] = Filled(Blank, job[w].read, TRUE)]
      BY <2>3 DEF InsertCacheRecord
    <3>3. RecordOK(stamp, Blank) /\ Blank.busy # TRUE
      BY <3>1, BlankLemma DEF Blank
    <3> QED
      BY <3>1, <3>2, <3>3
  <2> QED
    BY <2>1, <2>2, <2>3
<1>5. /\ \A x \in Objects \ {o} : heap'[x] = heap[x]
      /\ heap'[o].dirty = {} /\ (heap'[o].busy = TRUE <=> heap[o].busy = TRUE)
  BY <1>4, FilledLemma DEF Inv, TypeInv, HeapType
<1> QED
  BY <1>2, <1>3, <1>4, <1>5, DownOutside
LEMMA FinishKeeps ==
  ASSUME Inv, TypeInv', NEW w \in Workers, Finish(w)
  PROVE  LockInv' /\ MarkInv'
<1>1. /\ pc[w] = "done" /\ pc' = [pc EXCEPT ![w] = "idle"] /\ mapped' = mapped
      /\ job' = [job EXCEPT ![w] = Idle]
  BY DEF Finish, At, Goto
<1>2. Alone(w) /\ pc'[w] = "idle"
  BY <1>1, Facts DEF Inv, Alone
<1>3. pc[w] \in Outside /\ pc'[w] \in Outside
  BY <1>1, <1>2 DEF Outside, Locations, Flushing
<1>4. ~InRegion(w) /\ ~InRegion(w)' /\ pc[w] # "take" /\ pc'[w] # "takechg"
  BY <1>3, OutsideLemma
<1>5. \A o \in Objects :
        \/ heap'[o] = heap[o]
        \/ /\ heap'[o] = Blank /\ o # mapped
           /\ \A u \in Workers \ {w} : Obj(u) # o
  BY DEF Finish
<1>6. Blank.dirty = {} /\ Blank.busy # TRUE
  BY DEF Blank
<1>7. \A o \in Objects : heap'[o].busy = TRUE <=> heap[o].busy = TRUE
  BY <1>4, <1>5, <1>6 DEF Inv, LockInv
<1>8. LockInv'
  BY <1>2, <1>4, <1>7, LockSame DEF Inv
<1>9. /\ \A o \in Objects : heap'[o].dirty \subseteq heap[o].dirty
      /\ \/ mapped' = None
         \/ /\ mapped' = mapped /\ heap'[mapped].chg = heap[mapped].chg
            /\ pc[w] = "take" => Obj(w) # mapped
  BY <1>1, <1>4, <1>5, <1>6 DEF Inv, TypeInv, DataType
<1>10. MarkInv'
  BY <1>1, <1>2, <1>4, <1>9, MarkDown DEF Inv
<1> QED
  BY <1>8, <1>10

\* A step outside the region that marks fields of a record.
LEMMA UpOutside ==
  ASSUME Inv, TypeInv', NEW w \in Workers, Alone(w), NEW o \in Objects,
         Writable(o), \A x \in Objects \ {o} : heap'[x] = heap[x],
         heap'[o].busy = TRUE <=> heap[o].busy = TRUE,
         \/ heap'[o].chg = "UPDATE"
         \/ pc'[w] = "take" /\ job'[w].phase = "add" /\ Obj(w)' = o,
         mapped' = mapped \/ (mapped' = o /\ Unheld(o)),
         pc[w] \in Outside, ~InRegion(w)', pc'[w] \notin {"takechg", "delete", "reset"}
  PROVE  LockInv' /\ MarkInv'
<1>1. ~InRegion(w) /\ pc[w] # "take"
  BY OutsideLemma
<1>2. \A x \in Objects : heap'[x].busy = TRUE <=> heap[x].busy = TRUE
  OBVIOUS
<1>3. LockInv'
  BY <1>1, <1>2, LockSame DEF Inv
<1>4. MarkInv'
  BY <1>1, MarkUp DEF Inv
<1> QED
  BY <1>3, <1>4

\* Nobody reads a record object that nobody holds.
LEMMA UnheldWritable ==
  ASSUME NEW o, Unheld(o)
  PROVE  Writable(o)
BY DEF Unheld, Writable

\* A set leaves the record with change type UPDATE.
LEMMA WrittenLemma ==
  ASSUME NEW n, NEW r, RecordOK(n, r), NEW F, NEW m
  PROVE  /\ Written(r, F, m).chg = "UPDATE" /\ Written(r, F, m).busy = r.busy
BY RecordTypeLemma DEF Shape, RecordFields, Written

LEMMA SetValueLemma ==
  ASSUME Inv, NEW w \in Workers, NEW o \in Objects, SetValue(w, o)
  PROVE  /\ Writable(o) /\ \A x \in Objects \ {o} : heap'[x] = heap[x]
         /\ heap'[o].busy = heap[o].busy /\ heap'[o].chg = "UPDATE"
<1>1. heap' = [heap EXCEPT ![o] = Written(heap[o], job[w].fields, stamp + 1)]
  BY DEF SetValue
<1>2. heap'[o] = Written(heap[o], job[w].fields, stamp + 1) /\ RecordOK(stamp, heap[o])
  BY <1>1, RecordFacts DEF Inv
<1>3. heap'[o].busy = heap[o].busy /\ heap'[o].chg = "UPDATE"
  BY <1>2, WrittenLemma
<1> QED
  BY <1>1, <1>3, RecordFacts DEF Inv, SetValue

LEMMA SetKeeps ==
  ASSUME Inv, TypeInv', NEW w \in Workers, ServeSet(w) \/ ServeCas(w) \/ StoreApply(w)
  PROVE  LockInv' /\ MarkInv'
<1>1. /\ pc[w] \in {"serve", "apply"} /\ mapped' = mapped
      /\ \E l \in {"done", "getcas", "try"} : pc' = [pc EXCEPT ![w] = l]
      /\ \A u \in Workers \ {w} : job'[u] = job[u]
      /\ SetValue(w, Obj(w)) \/ heap' = heap
  BY Facts DEF Inv, ServeSet, ServeCas, StoreApply, At, Goto
<1>2. Alone(w) /\ pc'[w] \in {"done", "getcas", "try"}
  BY <1>1, Facts DEF Inv, Alone
<1>3. pc[w] \in Outside /\ pc'[w] \in Outside
  BY <1>1, <1>2 DEF Outside, Locations, Flushing
<1>4. Obj(w) \in Objects
  BY <1>1, Facts DEF Inv, PlaceOK, Holding, Obj
<1>5. CASE heap' = heap
  BY <1>1, <1>2, <1>3, <1>5, QuietOutside
<1>6. CASE SetValue(w, Obj(w))
  <2>1. ~InRegion(w)'
    BY <1>3, OutsideLemma
  <2> QED
    BY <1>1, <1>2, <1>3, <1>4, <1>6, <2>1, SetValueLemma, UpOutside
<1> QED
  BY <1>1, <1>5, <1>6

LEMMA RemoveKeeps ==
  ASSUME Inv, TypeInv', NEW w \in Workers, RemoveMemoryRecord(w)
  PROVE  LockInv' /\ MarkInv'
<1>1. pc[w] = "detach" /\ pc[w] \in Outside
  BY DEF RemoveMemoryRecord, At, Outside, Locations, Flushing
<1>2. CASE mapped = None /\ job[w].op \in {"store", "storecas"}
  <2> DEFINE o == NewObject
             b == [Blank EXCEPT !.cas = IF job[w].op = "storecas" THEN job[w].tok.cas ELSE 0]
             r == Written(b, job[w].fields, stamp + 1)
  <2>1. o \in Objects /\ Unheld(o) /\ heap[o].busy # TRUE /\ Writable(o)
    BY <1>2, RoomLemma, UnheldLemma, UnheldWritable DEF Inv
  <2>2. /\ mapped' = mapped /\ heap' = [heap EXCEPT ![o] = r]
        /\ pc' = [pc EXCEPT ![w] = "take"]
        /\ job' = [job EXCEPT ![w].obj = o, ![w].phase = job[w].op]
    BY <1>2 DEF RemoveMemoryRecord, StoreTemporary, Goto
  <2>3. r.chg = "UPDATE" /\ r.busy # TRUE
    BY DEF Written, Blank
  <2> HIDE DEF o, r
  <2>4. /\ \A x \in Objects \ {o} : heap'[x] = heap[x]
        /\ heap'[o].chg = "UPDATE" /\ heap'[o].busy # TRUE
    BY <2>1, <2>2, <2>3 DEF Inv, TypeInv, HeapType
  <2>5. Alone(w) /\ pc'[w] = "take"
    BY <2>2, Facts DEF Inv, Alone
  <2>6. job'[w].phase = job[w].op
    BY <2>2, Facts DEF Inv, Shape, JobFields
  <2>7. ~InRegion(w)'
    BY <1>2, <2>5, <2>6 DEF InRegion
  <2> QED
    BY <1>1, <2>1, <2>2, <2>4, <2>5, <2>7, UpOutside
<1>3. CASE ~(mapped = None /\ job[w].op \in {"store", "storecas"})
  <2>1. /\ mapped' = None /\ heap' = heap /\ job' = [job EXCEPT ![w].obj = mapped]
        /\ \E l \in {"apply", "delete", "done", "try"} : pc' = [pc EXCEPT ![w] = l]
    BY <1>3 DEF RemoveMemoryRecord, Goto, ghost
  <2>2. Alone(w) /\ pc'[w] \in {"apply", "delete", "done", "try"}
    BY <2>1, Facts DEF Inv, Alone
  <2>3. pc'[w] \in Outside
    BY <2>2 DEF Outside, Locations, Flushing
  <2> QED
    BY <1>1, <2>1, <2>2, <2>3, QuietOutside
<1> QED
  BY <1>2, <1>3

LEMMA AddKeeps ==
  ASSUME Inv, TypeInv', NEW w \in Workers, AddCacheRecord(w)
  PROVE  LockInv' /\ MarkInv'
<1> DEFINE o == IF mapped = None THEN NewObject ELSE mapped
           r == [Blank EXCEPT !.dirty = job[w].fields,
                   !.val = [f \in Fields |-> IF f \in job[w].fields THEN stamp + 1 ELSE 0]]
<1>1. pc[w] = "add" /\ pc[w] \in Outside
  BY DEF AddCacheRecord, At, Outside, Locations, Flushing
<1>2. /\ o \in Objects /\ mapped' = o
      /\ mapped = None => Unheld(o) /\ heap[o].busy # TRUE /\ Writable(o)
  BY RoomLemma, UnheldLemma, UnheldWritable DEF Inv, AddCacheRecord, TypeInv, DataType
<1>3. /\ pc' = [pc EXCEPT ![w] = "take"]
      /\ job' = [job EXCEPT ![w].obj = o, ![w].phase = "add"]
      /\ \/ mapped = o /\ SetValue(w, o)
         \/ mapped = None /\ heap' = [heap EXCEPT ![o] = r]
  BY DEF AddCacheRecord, Goto
<1>4. r.busy # TRUE
  BY DEF Blank
<1> HIDE DEF o, r
<1>5. Alone(w) /\ pc'[w] = "take"
  BY <1>3, Facts DEF Inv, Alone
<1>6. job'[w].phase = "add" /\ Obj(w)' = o
  BY <1>3, Facts DEF Inv, Shape, JobFields, Obj
<1>7. ~InRegion(w)'
  BY <1>5, <1>6 DEF InRegion
<1>8. CASE mapped = o /\ SetValue(w, o)
  BY <1>1, <1>2, <1>5, <1>6, <1>7, <1>8, SetValueLemma, UpOutside
<1>9. CASE mapped = None /\ heap' = [heap EXCEPT ![o] = r]
  <2>1. (\A x \in Objects \ {o} : heap'[x] = heap[x]) /\ heap'[o].busy # TRUE
    BY <1>2, <1>4, <1>9 DEF Inv, TypeInv, HeapType
  <2> QED
    BY <1>1, <1>2, <1>5, <1>6, <1>7, <1>9, <2>1, UpOutside
<1> QED
  BY <1>3, <1>8, <1>9
-----------------------------------------------------------------------------
(* Writing a record back.                                                  *)

LEMMA ResetKeeps ==
  ASSUME Inv, TypeInv', NEW w \in Workers, ResetChgType(w)
  PROVE  LockInv' /\ MarkInv'
<1>1. /\ pc[w] = "reset" /\ mapped' = mapped /\ job' = job
      /\ pc' = [pc EXCEPT ![w] = "done"]
      /\ heap' = [heap EXCEPT ![Obj(w)].chg = "NIL"]
  BY DEF ResetChgType, At, Goto, ghost
<1>2. Alone(w) /\ pc'[w] = "done"
  BY <1>1, Facts DEF Inv, Alone
<1>3. Obj(w) \in Objects /\ Obj(w) # mapped
  BY <1>1, Facts DEF Inv, MarkInv, PlaceOK, Holding, Obj
<1>4. /\ \A o \in Objects : heap'[o].dirty = heap[o].dirty /\ heap'[o].busy = heap[o].busy
      /\ \A o \in Objects \ {Obj(w)} : heap'[o] = heap[o]
  BY <1>1, <1>3, RecordFacts DEF Inv, Shape, RecordFields
<1>5. ~InRegion(w) /\ ~InRegion(w)'
  BY <1>1, <1>2 DEF InRegion, Flushing
<1>6. LockInv'
  BY <1>2, <1>4, <1>5, LockSame DEF Inv
<1>7. /\ \A o \in Objects : heap'[o].dirty \subseteq heap[o].dirty
      /\ \/ mapped' = None
         \/ /\ mapped' = mapped /\ heap'[mapped].chg = heap[mapped].chg
            /\ pc[w] = "take" => Obj(w) # mapped
  BY <1>1, <1>3, <1>4 DEF Inv, TypeInv, DataType
<1>8. MarkInv'
  BY <1>1, <1>2, <1>7, MarkDown DEF Inv
<1> QED
  BY <1>6, <1>8

LEMMA TryKeeps ==
  ASSUME Inv, TypeInv', NEW w \in Workers, TryTaken(w) \/ Unlock(w)
  PROVE  LockInv' /\ MarkInv'
<1>1. /\ pc[w] \in {"try", "unlock"} /\ mapped' = mapped /\ job' = job
      /\ \/ /\ pc[w] = "try" /\ pc' = [pc EXCEPT ![w] = "check"]
            /\ heap' = [heap EXCEPT ![Obj(w)].busy = TRUE] /\ ~heap[Obj(w)].busy
         \/ /\ pc[w] = "unlock" /\ pc' = [pc EXCEPT ![w] = "done"]
            /\ heap' = [heap EXCEPT ![Obj(w)].busy = FALSE]
  BY DEF TryTaken, Unlock, LockFree, At, Goto, ghost
<1>2. Alone(w) /\ pc'[w] \in {"check", "done"} /\ Obj(w)' = Obj(w)
  BY <1>1, Facts DEF Inv, Alone, Obj
<1>3. Obj(w) \in Objects
  BY <1>1, Facts DEF Inv, PlaceOK, Holding, Obj
<1>4. \A o \in Objects : heap'[o].dirty = heap[o].dirty /\ heap'[o].chg = heap[o].chg
  <2>1. PICK b : heap' = [heap EXCEPT ![Obj(w)].busy = b]
    BY <1>1
  <2> QED
    BY <1>3, <2>1, RecordFacts DEF Inv, Shape, RecordFields
<1>5. \A o \in Objects \ {Obj(w)} : heap'[o] = heap[o]
  BY <1>1, RecordFacts DEF Inv
<1>6. LockInv'
  <2>1. CASE /\ pc[w] = "try" /\ pc' = [pc EXCEPT ![w] = "check"]
             /\ heap' = [heap EXCEPT ![Obj(w)].busy = TRUE] /\ ~heap[Obj(w)].busy
    <3>1. heap'[Obj(w)].busy = TRUE
      BY <1>3, <2>1, RecordFacts DEF Inv, Shape, RecordFields
    <3>2. heap[Obj(w)].busy # TRUE
      BY <2>1
    <3>3. ~InRegion(w) /\ InRegion(w)'
      BY <2>1, Facts DEF Inv, InRegion, Flushing
    <3> QED
      BY <1>2, <1>3, <1>5, <3>1, <3>2, <3>3, LockTaken DEF Inv
  <2>2. CASE /\ pc[w] = "unlock" /\ pc' = [pc EXCEPT ![w] = "done"]
             /\ heap' = [heap EXCEPT ![Obj(w)].busy = FALSE]
    <3>1. heap'[Obj(w)].busy # TRUE
      BY <1>3, <2>2, RecordFacts DEF Inv, Shape, RecordFields
    <3>2. InRegion(w) /\ ~InRegion(w)'
      BY <2>2, Facts DEF Inv, InRegion, Flushing
    <3> QED
      BY <1>2, <1>3, <1>5, <3>1, <3>2, LockDropped DEF Inv
  <2> QED
    BY <1>1, <2>1, <2>2
<1>7. /\ \A o \in Objects : heap'[o].dirty \subseteq heap[o].dirty
      /\ \/ mapped' = None
         \/ /\ mapped' = mapped /\ heap'[mapped].chg = heap[mapped].chg
            /\ pc[w] = "take" => Obj(w) # mapped
  BY <1>1, <1>4 DEF Inv, TypeInv, DataType
<1>8. MarkInv'
  BY <1>1, <1>2, <1>7, MarkDown DEF Inv
<1> QED
  BY <1>6, <1>8

\* A step of a write-back that leaves all marks.
LEMMA BackKeeps ==
  ASSUME Inv, TypeInv', NEW w \in Workers, Alone(w), Obj(w)' = Obj(w),
         InRegion(w)' <=> InRegion(w), mapped' = mapped,
         \A o \in Objects : /\ heap'[o].dirty = heap[o].dirty
                            /\ heap'[o].chg = heap[o].chg
                            /\ heap'[o].busy = heap[o].busy,
         pc[w] # "take", pc'[w] \notin {"takechg", "delete", "reset"}
  PROVE  LockInv' /\ MarkInv'
<1>1. LockInv'
  BY LockSame DEF Inv
<1>2. /\ \A o \in Objects : heap'[o].dirty \subseteq heap[o].dirty
      /\ \/ mapped' = None
         \/ /\ mapped' = mapped /\ heap'[mapped].chg = heap[mapped].chg
            /\ pc[w] = "take" => Obj(w) # mapped
  BY DEF Inv, TypeInv, DataType
<1>3. MarkInv'
  BY <1>2, MarkDown DEF Inv
<1> QED
  BY <1>1, <1>3

LEMMA CheckKeeps ==
  ASSUME Inv, TypeInv', NEW w \in Workers, CheckChange(w)
  PROVE  LockInv' /\ MarkInv'
<1>1. /\ pc[w] = "check" /\ mapped' = mapped /\ heap' = heap
      /\ \/ pc' = [pc EXCEPT ![w] = "unlock"] /\ job' = job
         \/ /\ pc' = [pc EXCEPT ![w] = "take"]
            /\ job' = [job EXCEPT ![w].phase = "check"]
  BY DEF CheckChange, At, Goto, ghost
<1>2. Alone(w)
  BY <1>1, Facts DEF Inv, Alone
<1>3. /\ pc'[w] \in {"unlock", "take"} /\ Obj(w)' = Obj(w)
      /\ pc'[w] = "take" => job'[w].phase = "check"
  BY <1>1, Facts DEF Inv, Obj, Shape, JobFields
<1>4. InRegion(w) /\ InRegion(w)'
  BY <1>1, <1>3 DEF InRegion, Flushing
<1> QED
  BY <1>1, <1>2, <1>3, <1>4, BackKeeps

LEMMA TakeKeeps ==
  ASSUME Inv, TypeInv', NEW w \in Workers, TakeValue(w)
  PROVE  LockInv' /\ MarkInv'
<1> DEFINE v == [f \in Fields |-> IF f \in heap[Obj(w)].dirty
                                  THEN heap[Obj(w)].val[f] ELSE 0]
<1>1. /\ pc[w] = "take" /\ mapped' = mapped /\ pc' = [pc EXCEPT ![w] = "takechg"]
      /\ job' = [job EXCEPT ![w].took = v]
      /\ heap' = [heap EXCEPT ![Obj(w)].dirty = {}]
  BY DEF TakeValue, At, Goto, ghost
<1> HIDE DEF v
<1>2. Alone(w) /\ pc'[w] = "takechg"
  BY <1>1, Facts DEF Inv, Alone
<1>3. Obj(w)' = Obj(w) /\ job'[w].phase = job[w].phase
  BY <1>1, Facts DEF Inv, Obj, Shape, JobFields
<1>4. Obj(w) \in Objects
  BY <1>1, Facts DEF Inv, PlaceOK, Holding, Obj
<1>5. /\ \A o \in Objects \ {Obj(w)} : heap'[o] = heap[o]
      /\ heap'[Obj(w)].dirty = {} /\ heap'[Obj(w)].busy = heap[Obj(w)].busy
  BY <1>1, <1>4, RecordFacts DEF Inv, Shape, RecordFields
<1>6. InRegion(w)' <=> InRegion(w)
  BY <1>1, <1>2, <1>3 DEF InRegion, Flushing
<1>7. LockInv'
  BY <1>2, <1>3, <1>5, <1>6, LockSame DEF Inv
<1>8. /\ \A o \in Objects : heap'[o].dirty \subseteq heap[o].dirty
      /\ \/ mapped' \in Objects /\ heap'[mapped'].dirty = {}
         \/ mapped' = None
         \/ /\ mapped' = mapped /\ heap'[mapped].chg = heap[mapped].chg
            /\ pc[w] = "take" => Obj(w) # mapped
  BY <1>1, <1>5 DEF Inv, TypeInv, DataType
<1>9. MarkInv'
  BY <1>1, <1>2, <1>3, <1>5, <1>8, MarkDown DEF Inv
<1> QED
  BY <1>7, <1>9

LEMMA TakeChgKeeps ==
  ASSUME Inv, TypeInv', NEW w \in Workers, TakeChgType(w)
  PROVE  LockInv' /\ MarkInv'
<1>1. /\ pc[w] = "takechg" /\ mapped' = mapped
      /\ job' = [job EXCEPT ![w].chg = heap[Obj(w)].chg]
      /\ heap' = [heap EXCEPT ![Obj(w)].chg = "NIL"]
  BY DEF TakeChgType, At, ghost
<1>2. Alone(w) /\ pc'[w] \in {"memcas", "flushcas", "query"}
  <2> DEFINE l == CASE job[w].phase \in Guarded -> "memcas"
                    [] job[w].phase \in Inserting -> "flushcas"
                    [] OTHER -> "query"
  <2>1. pc' = [pc EXCEPT ![w] = l]
    BY DEF TakeChgType, Goto
  <2>2. l \in {"memcas", "flushcas", "query"}
    OBVIOUS
  <2> HIDE DEF l
  <2> QED
    BY <1>1, <2>1, <2>2, Facts DEF Inv, Alone
<1>3. Obj(w)' = Obj(w) /\ job'[w].phase = job[w].phase
  BY <1>1, Facts DEF Inv, Obj, Shape, JobFields
<1>4. Obj(w) \in Objects /\ heap[Obj(w)].dirty = {}
  BY <1>1, Facts DEF Inv, MarkInv, PlaceOK, Holding, Obj
<1>5. /\ \A o \in Objects \ {Obj(w)} : heap'[o] = heap[o]
      /\ heap'[Obj(w)].dirty = {} /\ heap'[Obj(w)].busy = heap[Obj(w)].busy
  BY <1>1, <1>4, RecordFacts DEF Inv, Shape, RecordFields
<1>6. InRegion(w)' <=> InRegion(w)
  BY <1>1, <1>2, <1>3 DEF InRegion, Flushing
<1>7. LockInv'
  BY <1>2, <1>3, <1>5, <1>6, LockSame DEF Inv
<1>8. /\ \A o \in Objects : heap'[o].dirty \subseteq heap[o].dirty
      /\ \/ mapped' \in Objects /\ heap'[mapped'].dirty = {}
         \/ mapped' = None
         \/ /\ mapped' = mapped /\ heap'[mapped].chg = heap[mapped].chg
            /\ pc[w] = "take" => Obj(w) # mapped
  BY <1>1, <1>5 DEF Inv, TypeInv, DataType
<1>9. MarkInv'
  BY <1>1, <1>2, <1>8, MarkDown DEF Inv
<1> QED
  BY <1>7, <1>9

LEMMA CasKeeps ==
  ASSUME Inv, TypeInv', NEW w \in Workers,
         GetDBCas(w) \/ FlushDBCas(w) \/ ChangeCas(w) \/ LoadCasFromDB(w)
  PROVE  LockInv' /\ MarkInv'
<1>1. /\ mapped' = mapped
      /\ \/ /\ pc[w] = "memcas" /\ pc' = [pc EXCEPT ![w] = "flushcas"]
            /\ job' = [job EXCEPT ![w].memcas = heap[Obj(w)].cas] /\ heap' = heap
         \/ /\ pc[w] = "flushcas" /\ pc' = [pc EXCEPT ![w] = "query"]
            /\ job' = [job EXCEPT ![w].newcas = Cas(Obj(w))]
            /\ heap' = [heap EXCEPT ![Obj(w)] = CasFlushed(heap[Obj(w)])]
         \/ /\ pc[w] = "setcas" /\ pc' = [pc EXCEPT ![w] = "take"]
            /\ job' = [job EXCEPT ![w].phase = "again", ![w].read = NoRow]
            /\ heap' = [heap EXCEPT ![Obj(w)].cas = job[w].read.cas, ![Obj(w)].inc = 0]
         \/ /\ pc[w] = "loadcas" /\ heap' = heap
            /\ \/ pc' = [pc EXCEPT ![w] = "setcas"] /\ job' = [job EXCEPT ![w].read = row]
               \/ /\ pc' = [pc EXCEPT ![w] = "unlock"]
                  /\ job' = [job EXCEPT ![w].res = "NOTFOUND"]
  BY DEF GetDBCas, FlushDBCas, ChangeCas, LoadCasFromDB, Read, At, Goto, ghost
<1>2. \A u \in Workers \ {w} : pc'[u] = pc[u] /\ job'[u] = job[u]
  BY <1>1, Facts DEF Inv
<1>3. Alone(w)
  BY <1>2 DEF Alone
<1>4. /\ Obj(w)' = Obj(w)
      /\ \/ /\ pc[w] = "memcas" /\ pc'[w] = "flushcas" /\ job'[w].phase = job[w].phase
         \/ /\ pc[w] = "flushcas" /\ pc'[w] = "query" /\ job'[w].phase = job[w].phase
         \/ pc[w] = "setcas" /\ pc'[w] = "take" /\ job'[w].phase = "again"
         \/ pc[w] = "loadcas" /\ pc'[w] \in {"setcas", "unlock"}
  <2>1. CASE pc[w] = "memcas"
    BY <1>1, <2>1, Facts DEF Inv, Obj, Shape, JobFields
  <2>2. CASE pc[w] = "flushcas"
    BY <1>1, <2>2, Facts DEF Inv, Obj, Shape, JobFields
  <2>3. CASE pc[w] = "setcas"
    <3>1. /\ pc' = [pc EXCEPT ![w] = "take"]
          /\ job' = [job EXCEPT ![w].phase = "again", ![w].read = NoRow]
      BY <1>1, <2>3
    <3> QED
      BY <2>3, <3>1, Facts DEF Inv, Obj, Shape, JobFields
  <2>4. CASE pc[w] = "loadcas"
    BY <1>1, <2>4, Facts DEF Inv, Obj, Shape, JobFields
  <2> QED
    BY <1>1, <2>1, <2>2, <2>3, <2>4
<1>5. InRegion(w)' <=> InRegion(w)
  BY <1>4 DEF InRegion, Flushing
<1>6. Obj(w) \in Objects
  BY <1>1, Facts DEF Inv, PlaceOK, Holding, Obj
<1>7. \A o \in Objects \ {Obj(w)} : heap'[o] = heap[o]
  BY <1>1, RecordFacts DEF Inv
<1>8. /\ heap'[Obj(w)].dirty = heap[Obj(w)].dirty
      /\ heap'[Obj(w)].chg = heap[Obj(w)].chg
      /\ heap'[Obj(w)].busy = heap[Obj(w)].busy
  BY <1>1, <1>6, RecordFacts DEF Inv, Shape, RecordFields, CasFlushed
<1> QED
  BY <1>1, <1>3, <1>4, <1>5, <1>7, <1>8, BackKeeps

\* Coming back from a write the thread is in the region if it was.
LEMMA ReturnRegion ==
  ASSUME Inv, NEW w \in Workers, pc[w] \in {"query", "recover"}, NEW res,
         pc'[w] = ReturnTo(job[w], res), job'[w] = Returned(job[w], res)
  PROVE  (InRegion(w)' <=> InRegion(w)) /\ Obj(w)' = Obj(w)
<1>1. /\ job'[w].obj = job[w].obj
      /\ job'[w].phase = IF job[w].phase = "check" /\ res = "NOTFOUND"
                         THEN "readd" ELSE job[w].phase
  BY Facts DEF Inv, Shape, JobFields, Returned
<1>2. InRegion(w) <=> job[w].phase \in {"check", "again", "readd"}
  BY DEF InRegion, Flushing
<1>3. CASE job[w].phase \in {"check", "again", "readd"}
  <2>1. \/ pc'[w] \in {"loadcas", "unlock"}
        \/ pc'[w] = "take" /\ job'[w].phase = "readd"
    BY <1>1, <1>3 DEF ReturnTo
  <2> QED
    BY <1>1, <1>2, <1>3, <2>1 DEF InRegion, Flushing, Obj
<1>4. CASE job[w].phase \notin {"check", "again", "readd"}
  <2>1. pc'[w] \in {"select", "done"}
    BY <1>4 DEF ReturnTo
  <2> QED
    BY <1>1, <1>2, <1>4, <2>1 DEF InRegion, Flushing, Obj
<1> QED
  BY <1>3, <1>4

LEMMA QueryKeeps ==
  ASSUME Inv, TypeInv', NEW w \in Workers, Query(w)
  PROVE  LockInv' /\ MarkInv'
<1>1. PICK res :
        /\ pc[w] = "query" /\ mapped' = mapped /\ heap' = heap
        /\ \/ pc' = [pc EXCEPT ![w] = "recover"] /\ job' = [job EXCEPT ![w].res = res]
           \/ /\ pc' = [pc EXCEPT ![w] = ReturnTo(job[w], res)]
              /\ job' = [job EXCEPT ![w] = Returned(job[w], res)]
  BY DEF Query, Write, At, Goto
<1>2. Alone(w)
  BY <1>1, Facts DEF Inv, Alone
<1>3. /\ (InRegion(w)' <=> InRegion(w)) /\ Obj(w)' = Obj(w)
      /\ pc'[w] \notin {"takechg", "delete", "reset"}
  <2>1. CASE /\ pc' = [pc EXCEPT ![w] = "recover"]
             /\ job' = [job EXCEPT ![w].res = res]
    <3>1. /\ pc'[w] = "recover" /\ job'[w].phase = job[w].phase
          /\ job'[w].obj = job[w].obj
      BY <2>1, Facts DEF Inv, Shape, JobFields
    <3> QED
      BY <1>1, <3>1 DEF InRegion, Flushing, Obj
  <2>2. CASE /\ pc' = [pc EXCEPT ![w] = ReturnTo(job[w], res)]
             /\ job' = [job EXCEPT ![w] = Returned(job[w], res)]
    <3>1. pc'[w] = ReturnTo(job[w], res) /\ job'[w] = Returned(job[w], res)
      BY <2>2, Facts DEF Inv
    <3> QED
      BY <1>1, <3>1, ReturnRegion, ReturnLemma
  <2> QED
    BY <1>1, <2>1, <2>2
<1> QED
  BY <1>1, <1>2, <1>3, BackKeeps

\* RecoverChgType schedules what it marks.
LEMMA RecoveredLemma ==
  ASSUME NEW n, NEW r, RecordOK(n, r), NEW took
  PROVE  /\ Recovered(r, took, "UPDATE").chg = "UPDATE"
         /\ Recovered(r, took, "UPDATE").busy = r.busy
BY RecordTypeLemma DEF Shape, RecordFields, Recovered

LEMMA RecoverKeeps ==
  ASSUME Inv, TypeInv', NEW w \in Workers, RecoverChgType(w)
  PROVE  LockInv' /\ MarkInv'
<1>1. /\ pc[w] = "recover" /\ mapped' = mapped /\ Writable(Obj(w))
      /\ pc' = [pc EXCEPT ![w] = ReturnTo(job[w], job[w].res)]
      /\ job' = [job EXCEPT ![w] = Returned(job[w], job[w].res)]
      /\ heap' = [heap EXCEPT ![Obj(w)] =
                    Recovered(heap[Obj(w)], job[w].took, job[w].chg)]
  BY DEF RecoverChgType, At, Goto, ghost
<1>2. Alone(w)
  BY <1>1, Facts DEF Inv, Alone
<1>3. pc'[w] = ReturnTo(job[w], job[w].res) /\ job'[w] = Returned(job[w], job[w].res)
  BY <1>1, Facts DEF Inv
<1>4. /\ (InRegion(w)' <=> InRegion(w)) /\ Obj(w)' = Obj(w)
      /\ pc'[w] \notin {"takechg", "delete", "reset"}
  BY <1>1, <1>3, ReturnRegion, ReturnLemma
<1>5. Obj(w) \in Objects /\ job[w].chg = "UPDATE"
  BY <1>1, Facts DEF Inv, PlaceOK, Holding, Obj
<1>6. heap'[Obj(w)] = Recovered(heap[Obj(w)], job[w].took, "UPDATE")
  BY <1>1, <1>5, RecordFacts DEF Inv
<1>7. /\ \A o \in Objects \ {Obj(w)} : heap'[o] = heap[o]
      /\ heap'[Obj(w)].chg = "UPDATE" /\ heap'[Obj(w)].busy = heap[Obj(w)].busy
  BY <1>1, <1>5, <1>6, RecordFacts, RecoveredLemma DEF Inv
<1>8. LockInv'
  BY <1>2, <1>4, <1>7, LockSame DEF Inv
<1>9. MarkInv'
  BY <1>1, <1>2, <1>4, <1>5, <1>7, MarkUp DEF Inv
<1> QED
  BY <1>8, <1>9

-----------------------------------------------------------------------------
LEMMA InitInv == Init => Inv
<1> SUFFICES ASSUME Init
             PROVE  Inv
  OBVIOUS
<1>1. TypeInv
  BY InitType
<1>2. \A w \in Workers : pc[w] = "idle"
  BY DEF Init
<1>3. \A o \in Objects : heap[o].busy # TRUE /\ heap[o].dirty = {}
  <2>1. \A o \in Objects :
          heap[o] \in {Blank, [Blank EXCEPT !.val = row.val, !.cas = row.cas]}
    BY DEF Init
  <2>2. Blank.dirty = {} /\ Blank.busy # TRUE
    BY DEF Blank
  <2> DEFINE first == [Blank EXCEPT !.val = row.val, !.cas = row.cas]
  <2>3. first.dirty = {} /\ first.busy # TRUE
    BY DEF Blank
  <2> HIDE DEF first
  <2>4. \A o \in Objects : heap[o] = Blank \/ heap[o] = first
    BY <2>1 DEF first
  <2> QED
    BY <2>2, <2>3, <2>4
<1>4. LockInv
  BY <1>2, <1>3 DEF LockInv, InRegion, Flushing
<1>5. MarkInv
  BY <1>1, <1>2, <1>3 DEF MarkInv, DirtyIsScheduled, TypeInv, DataType
<1> QED
  BY <1>1, <1>4, <1>5 DEF Inv

LEMMA NextInv == Inv /\ [Next]_vars => Inv'
<1> SUFFICES ASSUME Inv, [Next]_vars
             PROVE  Inv'
  OBVIOUS
<1>1. TypeInv'
  BY NextKeepsType DEF Inv
<1>2. ASSUME NEW w \in Workers, Step(w)
      PROVE  LockInv' /\ MarkInv'
  <2>1. CASE TableStep(w)
    BY <1>1, <2>1, LookKeeps, InsertKeeps, FillKeeps, RemoveKeeps, AddKeeps DEF TableStep
  <2>2. CASE ServeStep(w)
    BY <1>1, <2>2, LookKeeps, SetKeeps, DeleteKeeps, ResetKeeps, FinishKeeps DEF ServeStep
  <2>3. CASE FlushStep(w)
    BY <1>1, <2>3, LookKeeps, TryKeeps, CheckKeeps, TakeKeeps, TakeChgKeeps, CasKeeps,
       QueryKeeps, RecoverKeeps DEF FlushStep
  <2> QED
    BY <1>2, <2>1, <2>2, <2>3 DEF Step
<1>3. CASE Next
  <2>1. \A w \in Clients : w \in Workers
    BY DEF Workers
  <2> QED
    BY <1>1, <1>2, <1>3, <2>1, RequestKeeps, TimerKeeps DEF Inv, Next
<1>4. CASE UNCHANGED vars
  <2>1. LockInv'
    BY <1>4 DEF vars, Inv, LockInv, InRegion, At, Obj
  <2>2. MarkInv'
    BY <1>4 DEF vars, Inv, MarkInv, DirtyIsScheduled, At, Obj
  <2> QED
    BY <1>1, <2>1, <2>2 DEF Inv
<1> QED
  BY <1>3, <1>4

LEMMA FlushLockLemma == Inv => FlushLock
<1> SUFFICES ASSUME Inv, NEW o \in Objects
             PROVE  Cardinality(Owners(o)) = IF heap[o].busy THEN 1 ELSE 0
  BY DEF FlushLock
<1>1. CASE heap[o].busy = TRUE
  <2>1. PICK w \in Workers : InRegion(w) /\ Obj(w) = o
    BY <1>1 DEF Inv, LockInv
  <2>2. Owners(o) = {w}
    BY <2>1 DEF Inv, LockInv, Owners
  <2> QED
    BY <1>1, <2>2, FS_Singleton
<1>2. CASE heap[o].busy = FALSE
  <2>1. Owners(o) = {}
    BY <1>2 DEF Inv, LockInv, Owners
  <2> QED
    BY <1>2, <2>1, FS_EmptySet
<1>3. heap[o].busy \in BOOLEAN
  BY RecordFacts DEF Inv, RecordFieldsOK
<1> QED
  BY <1>1, <1>2, <1>3

\* m_bLock of a record is set exactly while one thread writes it back through
\* CheckUpdateAndReloadRecord: never by two, and on no way out, whatever the
\* database answers, does it stay set.
THEOREM WriteBackLocked == Spec => []FlushLock
<1>1. Init => Inv
  BY InitInv
<1>2. Inv /\ [Next]_vars => Inv'
  BY NextInv
<1>3. Inv => FlushLock
  BY FlushLockLemma
<1> QED
  BY <1>1, <1>2, <1>3, PTL DEF Spec

\* A cached record with a marked field is one the timer will write: no
\* interleaving of requests, write-backs and failed queries leaves the mark
\* without m_u8ChgType, but for a record AddToDB is about to take.
THEOREM MarksScheduled == Spec => []DirtyIsScheduled
<1>1. Init => Inv
  BY InitInv
<1>2. Inv /\ [Next]_vars => Inv'
  BY NextInv
<1>3. Inv => DirtyIsScheduled
  BY DEF Inv, MarkInv
<1> QED
  BY <1>1, <1>2, <1>3, PTL DEF Spec
=============================================================================
