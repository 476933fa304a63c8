--------------------------- MODULE CacheKeptProofs --------------------------
(***************************************************************************)
(* A record that stays in the table, for any clients, fields, requests and  *)
(* faults: clients get and set it, the timer writes it back.  It implements *)
(* WriteBack; so no set is lost, a record without marks is its row, and the *)
(* row never goes back.                                                     *)
(***************************************************************************)
EXTENDS CacheMemoryProofs

\* Nobody stores, adds, loads, checks or removes the record, and it does not
\* expire: what the other requests do to a value is not what its setter asked.
CachedCase ==
  /\ Ops \subseteq {"get", "gets", "set"} /\ TimerOps \subseteq {"sweep"}
  /\ CachedAtStart = {TRUE}

BufferProofs == INSTANCE WriteBackProofs WITH
  cache <- Cached.val, marked <- Cached.dirty, taken <- job[Timer].took,
  disk <- row.val

BufferStep == [BufferProofs!Next]_(BufferProofs!vars)

-----------------------------------------------------------------------------
(* The places of the threads, and what the timer has taken at each of them. *)

RecordKept == mapped \in Objects /\ row.there = TRUE /\ heap[mapped].val = latest

ClientKept(c) ==
  /\ pc[c] \in {"idle", "find", "serve", "done"}
  /\ pc[c] = "serve" => Obj(c) = mapped

\* Before it takes the marks and after it has dealt with the answer.
Rests == {"idle", "try", "check", "take", "loadcas", "setcas", "unlock", "done"}

TimerKept ==
  /\ pc[Timer] \in Rests \cup Flushing
  /\ pc[Timer] # "idle" => Obj(Timer) = mapped
  /\ pc[Timer] \in Flushing => job[Timer].phase \in {"check", "again"}
  /\ pc[Timer] \in Rests => job[Timer].took = Nothing
  /\ pc[Timer] = "takechg" /\ job[Timer].took # Nothing => heap[mapped].chg = "UPDATE"
  /\ pc[Timer] \in {"memcas", "flushcas", "query", "recover"} /\ job[Timer].took # Nothing
       => job[Timer].chg = "UPDATE"
  /\ pc[Timer] = "flushcas" => job[Timer].memcas = heap[mapped].cas
  /\ pc[Timer] = "query" => job[Timer].newcas >= job[Timer].memcas
  /\ pc[Timer] = "recover" => job[Timer].res # "NOTFOUND"

Kept == RecordKept /\ (\A c \in Clients : ClientKept(c)) /\ TimerKept

LEMMA TimerLemma == Timer \in Workers /\ Timer \notin Clients /\ Clients \subseteq Workers
BY WorkersAssumption DEF WorkersAssumption, Workers

\* The buffer is the cached record.
LEMMA CachedLemma ==
  ASSUME mapped \in Objects, mapped' = mapped
  PROVE  Cached = heap[mapped] /\ Cached' = heap'[mapped]
BY WorkersAssumption DEF WorkersAssumption, Cached

\* Where each action of a thread begins.
LEMMA BeginLemma ==
  ASSUME NEW w \in Workers
  PROVE  /\ TableStep(w) =>
              pc[w] \in {"find", "insert", "select", "fill", "selectall", "fillall",
                         "detach", "add"}
         /\ TableStep(w) /\ pc[w] = "find" => FindMemoryRecord(w)
         /\ ServeStep(w) =>
              pc[w] \in {"serve", "giveup", "getcas", "apply", "delete", "reset", "done"}
         /\ ServeStep(w) /\ pc[w] = "serve" =>
              ServeGet(w) \/ ServeSet(w) \/ job[w].op = "cas"
         /\ ServeStep(w) /\ pc[w] = "done" => Finish(w)
         /\ FlushStep(w) =>
              pc[w] \in {"try", "check", "unlock", "loadcas", "setcas"} \cup Flushing
<1>1. TableStep(w) =>
        /\ pc[w] \in {"find", "insert", "select", "fill", "selectall", "fillall",
                      "detach", "add"}
        /\ pc[w] = "find" => FindMemoryRecord(w)
  BY DEF TableStep, FindMemoryRecord, InsertMemoryRecord, LoadFromDB, Fill,
         SelectAllFromDB, InsertCacheRecord, RemoveMemoryRecord, AddCacheRecord, At
<1>2. ServeStep(w) =>
        /\ pc[w] \in {"serve", "giveup", "getcas", "apply", "delete", "reset", "done"}
        /\ pc[w] = "serve" => ServeGet(w) \/ ServeSet(w) \/ job[w].op = "cas"
        /\ pc[w] = "done" => Finish(w)
  BY DEF ServeStep, ServeGet, ServeSet, ServeCas, CasMismatch, CasReloadFailed, ReplyCas,
         StoreApply, DeleteFromDB, ResetChgType, Finish, At
<1>3. FlushStep(w) =>
        pc[w] \in {"try", "check", "unlock", "loadcas", "setcas"} \cup Flushing
  BY DEF FlushStep, TryBusy, TryTaken, CheckChange, Unlock, TakeValue, TakeChgType,
         GetDBCas, FlushDBCas, Query, RecoverChgType, LoadCasFromDB, ChangeCas, At, Flushing
<1> QED
  BY <1>1, <1>2, <1>3

LEMMA ClientSteps ==
  ASSUME CachedCase, Inv, Kept, NEW c \in Clients, Step(c)
  PROVE  FindMemoryRecord(c) \/ ServeGet(c) \/ ServeSet(c) \/ Finish(c)
<1>1. c \in Workers /\ ClientKept(c) /\ job[c].op # "cas"
  BY TimerLemma, Facts DEF CachedCase, Inv, Kept, PlaceOK, None
<1> QED
  BY <1>1, BeginLemma DEF Step, ClientKept, Flushing

LEMMA TimerSteps ==
  ASSUME Inv, Kept, Step(Timer)
  PROVE  FlushStep(Timer) \/ Finish(Timer)
BY TimerLemma, BeginLemma DEF Step, Kept, TimerKept, Rests, Flushing

-----------------------------------------------------------------------------
(* Every step keeps the places, is a step of the buffer and lowers no code. *)

KeptStep == Kept' /\ BufferStep /\ row'.cas >= row.cas

LEMMA SameBuffer ==
  ASSUME mapped \in Objects, mapped' = mapped, row'.val = row.val,
         heap'[mapped].val = heap[mapped].val, heap'[mapped].dirty = heap[mapped].dirty,
         job'[Timer].took = job[Timer].took
  PROVE  BufferStep
BY CachedLemma DEF BufferStep, BufferProofs!vars

LEMMA RowLemma ==
  ASSUME TypeInv
  PROVE  /\ row = [there |-> row.there, val |-> row.val, cas |-> row.cas]
         /\ row.cas \in Nat /\ row.val \in [Fields -> Nat]
BY DEF TypeInv, DataType, CountType, RowsTo, Vals

\* A client moves; the record changes by a set at most.
LEMMA ClientMoves ==
  ASSUME Kept, NEW c \in Clients, Alone(c), mapped' = mapped, row' = row,
         ClientKept(c)', heap'[mapped].val = latest',
         heap'[mapped].chg \in {heap[mapped].chg, "UPDATE"},
         heap'[mapped].cas = heap[mapped].cas
  PROVE  Kept' /\ job'[Timer].took = job[Timer].took
<1>1. pc'[Timer] = pc[Timer] /\ job'[Timer] = job[Timer]
  BY TimerLemma DEF Alone
<1>2. \A u \in Clients \ {c} : pc'[u] = pc[u] /\ job'[u] = job[u]
  BY TimerLemma DEF Alone
<1>3. RecordKept' /\ \A u \in Clients : ClientKept(u)'
  BY <1>2 DEF Kept, RecordKept, ClientKept, Obj
<1>4. TimerKept'
  BY <1>1 DEF Kept, TimerKept, Obj
<1> QED
  BY <1>1, <1>3, <1>4 DEF Kept

\* The timer moves; the value stays as it is.
LEMMA TimerMoves ==
  ASSUME Kept, Alone(Timer), mapped' = mapped, row'.there = TRUE, latest' = latest,
         heap'[mapped].val = heap[mapped].val, TimerKept'
  PROVE  Kept'
<1>1. \A c \in Clients : pc'[c] = pc[c] /\ job'[c] = job[c]
  BY TimerLemma DEF Alone
<1> QED
  BY <1>1 DEF Kept, RecordKept, ClientKept, Obj

LEMMA RequestKept ==
  ASSUME CachedCase, Inv, Kept, NEW c \in Clients, NEW op \in Ops, Request(c, op)
  PROVE  KeptStep
<1>1. /\ mapped' = mapped /\ heap' = heap /\ row' = row /\ latest' = latest
      /\ pc' = [pc EXCEPT ![c] = "find"]
      /\ \A u \in Workers \ {c} : job'[u] = job[u]
  BY TimerLemma, Facts DEF CachedCase, Inv, Request, Goto, Entry
<1>2. Alone(c) /\ pc'[c] = "find"
  BY <1>1, TimerLemma, Facts DEF Inv, Alone
<1>3. Kept' /\ job'[Timer].took = job[Timer].took
  BY <1>1, <1>2, ClientMoves DEF Kept, RecordKept, ClientKept
<1> QED
  BY <1>1, <1>3, SameBuffer, RowLemma DEF Kept, RecordKept, KeptStep, Inv

LEMMA GetKept ==
  ASSUME Inv, Kept, NEW c \in Clients,
         FindMemoryRecord(c) \/ ServeGet(c) \/ Finish(c)
  PROVE  KeptStep
<1>1. c \in Workers /\ mapped \in Objects /\ mapped # None
  BY TimerLemma, WorkersAssumption DEF WorkersAssumption, Kept, RecordKept
<1>2. /\ mapped' = mapped /\ row' = row /\ latest' = latest
      /\ heap'[mapped] = heap[mapped]
      /\ \E l \in {"serve", "done", "idle"} : pc' = [pc EXCEPT ![c] = l]
      /\ \A u \in Workers \ {c} : job'[u] = job[u]
      /\ pc'[c] = "serve" => Obj(c)' = mapped
  <2>1. CASE FindMemoryRecord(c)
    BY <1>1, <2>1, Facts DEF Inv, FindMemoryRecord, Goto, ghost, Obj
  <2>2. CASE ServeGet(c)
    BY <1>1, <2>2, Facts DEF Inv, ServeGet, Goto
  <2>3. CASE Finish(c)
    BY <1>1, <2>3, Facts DEF Inv, Finish, Goto, ghost
  <2> QED
    BY <2>1, <2>2, <2>3
<1>3. Alone(c) /\ pc'[c] \in {"serve", "done", "idle"}
  BY <1>1, <1>2, Facts DEF Inv, Alone
<1>4. Kept' /\ job'[Timer].took = job[Timer].took
  BY <1>2, <1>3, ClientMoves DEF Kept, RecordKept, ClientKept, Obj
<1> QED
  BY <1>2, <1>4, SameBuffer, RowLemma DEF Kept, RecordKept, KeptStep, Inv

LEMMA WrittenFields ==
  ASSUME NEW n, NEW r, RecordOK(n, r), NEW F, NEW m
  PROVE  /\ Written(r, F, m).val = [f \in Fields |-> IF f \in F THEN m ELSE r.val[f]]
         /\ Written(r, F, m).dirty = r.dirty \cup F
         /\ Written(r, F, m).chg = "UPDATE" /\ Written(r, F, m).cas = r.cas
BY RecordTypeLemma DEF Shape, RecordFields, Written

LEMMA SetKept ==
  ASSUME Inv, Kept, BufferProofs!Inv, NEW c \in Clients, ServeSet(c)
  PROVE  KeptStep
<1> DEFINE F == job[c].fields
           val == [f \in Fields |-> IF f \in F THEN stamp + 1 ELSE latest[f]]
<1>1. /\ c \in Workers /\ mapped \in Objects /\ Obj(c) = mapped /\ heap[mapped].val = latest
      /\ stamp \in Nat /\ F \in SUBSET Fields /\ RecordOK(stamp, heap[mapped])
  BY TimerLemma, Facts, RecordFacts
     DEF Inv, Kept, RecordKept, ClientKept, ServeSet, At, JobFieldsOK
<1>2. /\ mapped' = mapped /\ row' = row /\ job' = job /\ latest' = val
      /\ pc' = [pc EXCEPT ![c] = "done"]
      /\ heap' = [heap EXCEPT ![mapped] = Written(heap[mapped], F, stamp + 1)]
  BY <1>1 DEF ServeSet, SetValue, Wrote, Goto
<1>3. heap'[mapped] = Written(heap[mapped], F, stamp + 1)
  BY <1>1, <1>2, RecordFacts DEF Inv
<1>4. /\ heap'[mapped].val = val /\ heap'[mapped].dirty = heap[mapped].dirty \cup F
      /\ heap'[mapped].chg = "UPDATE" /\ heap'[mapped].cas = heap[mapped].cas
  BY <1>1, <1>3, WrittenFields
<1>5. Alone(c) /\ pc'[c] = "done"
  BY <1>1, <1>2, Facts DEF Inv, Alone
<1>6. Kept'
  BY <1>2, <1>4, <1>5, ClientMoves DEF ClientKept
<1>7. BufferProofs!Set(F)
  <2>1. Cached = heap[mapped] /\ Cached' = heap'[mapped]
    BY <1>1, <1>2, CachedLemma
  <2>2. latest \in BufferProofs!Values /\ latest \in Vals(stamp)
    BY <1>1, <2>1, RecordFacts
       DEF Inv, RecordFieldsOK, BufferProofs!Inv, BufferProofs!TypeInv
  <2>3. \A f \in Fields : latest[f] \in Nat \ {0} /\ latest[f] <= stamp
    BY <1>1, <2>2 DEF BufferProofs!Values, Vals
  <2>4. val \in BufferProofs!Values
    BY <1>1, <2>3 DEF BufferProofs!Values
  <2>5. \A f \in Fields : IF f \in F THEN val[f] > latest[f] ELSE val[f] = latest[f]
    BY <1>1, <2>3
  <2> HIDE DEF val, F
  <2> QED
    BY <1>1, <1>2, <1>4, <2>1, <2>4, <2>5 DEF BufferProofs!Set
<1> QED
  BY <1>1, <1>2, <1>6, <1>7, RowLemma DEF Inv, KeptStep, BufferStep, BufferProofs!Next

-----------------------------------------------------------------------------
(* The timer.                                                              *)

\* It moves and leaves values, marks and what it has taken as they are.
LEMMA CalmMoves ==
  ASSUME Inv, Kept, Alone(Timer), mapped' = mapped, row' = row, latest' = latest,
         heap'[mapped].val = heap[mapped].val, heap'[mapped].dirty = heap[mapped].dirty,
         job'[Timer].took = job[Timer].took, TimerKept'
  PROVE  KeptStep
<1>1. mapped \in Objects /\ row.there = TRUE /\ row.cas \in Nat
  BY RowLemma DEF Inv, Kept, RecordKept
<1>2. Kept'
  BY <1>1, TimerMoves
<1> QED
  BY <1>1, <1>2, SameBuffer DEF KeptStep

LEMMA FiresKept ==
  ASSUME CachedCase, Inv, Kept, NEW op \in TimerOps, TimerFires(op)
  PROVE  KeptStep
<1>1. /\ Timer \in Workers /\ pc[Timer] = "idle" /\ mapped' = mapped /\ row' = row
      /\ heap' = heap /\ latest' = latest /\ pc' = [pc EXCEPT ![Timer] = "try"]
      /\ job' = [job EXCEPT ![Timer].op = op, ![Timer].obj = mapped]
  BY TimerLemma DEF CachedCase, TimerFires, At, Goto
<1>2. job[Timer].took = Nothing
  BY <1>1 DEF Kept, TimerKept, Rests
<1>3. Alone(Timer) /\ pc'[Timer] = "try"
  BY <1>1, Facts DEF Inv, Alone
<1>4. job'[Timer].obj = mapped /\ job'[Timer].took = job[Timer].took
  BY <1>1, Facts DEF Inv, Shape, JobFields
<1>5. TimerKept'
  BY <1>1, <1>2, <1>3, <1>4 DEF TimerKept, Rests, Flushing, Obj
<1> QED
  BY <1>1, <1>3, <1>4, <1>5, CalmMoves

LEMMA TimerAt ==
  ASSUME Inv, Kept, pc[Timer] # "idle"
  PROVE  /\ Timer \in Workers /\ mapped \in Objects /\ Obj(Timer) = mapped
         /\ Shape(heap[mapped], RecordFields) /\ RecordOK(stamp, heap[mapped])
         /\ heap \in [Objects -> RecordsTo(stamp)]
BY TimerLemma, RecordFacts DEF Inv, Kept, RecordKept, TimerKept

LEMMA TryKept ==
  ASSUME Inv, Kept, TryBusy(Timer) \/ TryTaken(Timer) \/ Unlock(Timer)
  PROVE  KeptStep
<1>1. /\ pc[Timer] \in {"try", "unlock"} /\ mapped' = mapped /\ row' = row
      /\ latest' = latest /\ job' = job
      /\ \E l \in {"check", "done"} : pc' = [pc EXCEPT ![Timer] = l]
      /\ heap' = heap \/ \E b \in BOOLEAN : heap' = [heap EXCEPT ![Obj(Timer)].busy = b]
  BY DEF TryBusy, TryTaken, Unlock, ghost, At, Goto
<1>2. Alone(Timer) /\ pc'[Timer] \in {"check", "done"}
  BY <1>1, TimerAt, Facts DEF Inv, Alone
<1>3. /\ heap'[mapped].val = heap[mapped].val /\ heap'[mapped].dirty = heap[mapped].dirty
  BY <1>1, TimerAt DEF Shape, RecordFields
<1>4. job[Timer].took = Nothing /\ Obj(Timer) = mapped
  BY <1>1, TimerAt DEF Kept, TimerKept, Rests
<1>5. TimerKept'
  BY <1>1, <1>2, <1>4 DEF TimerKept, Rests, Flushing, Obj
<1> QED
  BY <1>1, <1>2, <1>3, <1>5, CalmMoves

LEMMA CheckKept ==
  ASSUME Inv, Kept, CheckChange(Timer)
  PROVE  KeptStep
<1>1. /\ pc[Timer] = "check" /\ mapped' = mapped /\ row' = row /\ heap' = heap
      /\ latest' = latest
      /\ \/ pc' = [pc EXCEPT ![Timer] = "unlock"] /\ job' = job
         \/ /\ pc' = [pc EXCEPT ![Timer] = "take"]
            /\ job' = [job EXCEPT ![Timer].phase = "check"]
  BY DEF CheckChange, ghost, At, Goto
<1>2. Alone(Timer)
  BY <1>1, TimerAt, Facts DEF Inv, Alone
<1>3. /\ pc'[Timer] = "unlock" \/ (pc'[Timer] = "take" /\ job'[Timer].phase = "check")
      /\ job'[Timer].took = job[Timer].took /\ job'[Timer].obj = job[Timer].obj
  <2>0. Timer \in Workers
    BY TimerLemma
  <2>1. CASE pc' = [pc EXCEPT ![Timer] = "unlock"] /\ job' = job
    BY <2>0, <2>1, Facts DEF Inv
  <2>2. CASE /\ pc' = [pc EXCEPT ![Timer] = "take"]
             /\ job' = [job EXCEPT ![Timer].phase = "check"]
    BY <2>0, <2>2, Facts DEF Inv, Shape, JobFields
  <2> QED
    BY <1>1, <2>1, <2>2
<1>4. job[Timer].took = Nothing /\ Obj(Timer) = mapped
  BY <1>1, TimerAt DEF Kept, TimerKept, Rests
<1>5. TimerKept'
  BY <1>1, <1>3, <1>4 DEF TimerKept, Rests, Flushing, Obj
<1> QED
  BY <1>1, <1>2, <1>3, <1>5, CalmMoves

LEMMA TakeChgKept ==
  ASSUME Inv, Kept, TakeChgType(Timer)
  PROVE  KeptStep
<1>1. /\ pc[Timer] = "takechg" /\ job[Timer].phase \in Guarded
      /\ job[Timer].took # Nothing => heap[mapped].chg = "UPDATE"
  BY DEF Kept, TimerKept, TakeChgType, At, Flushing, Guarded
<1>2. /\ mapped' = mapped /\ row' = row /\ latest' = latest
      /\ pc' = [pc EXCEPT ![Timer] = "memcas"]
      /\ job' = [job EXCEPT ![Timer].chg = heap[mapped].chg]
      /\ heap' = [heap EXCEPT ![mapped].chg = "NIL"]
  <2>1. Obj(Timer) = mapped
    BY <1>1, TimerAt
  <2> DEFINE l == CASE job[Timer].phase \in Guarded -> "memcas"
                    [] job[Timer].phase \in Inserting -> "flushcas"
                    [] OTHER -> "query"
  <2>2. l = "memcas"
    BY <1>1 DEF Guarded, Inserting
  <2>3. Goto(Timer, l)
    BY DEF TakeChgType
  <2> HIDE DEF l
  <2> QED
    BY <2>1, <2>2, <2>3 DEF TakeChgType, ghost, Goto
<1>3. Alone(Timer) /\ pc'[Timer] = "memcas"
  BY <1>1, <1>2, TimerAt, Facts DEF Inv, Alone
<1>4. heap'[mapped].val = heap[mapped].val /\ heap'[mapped].dirty = heap[mapped].dirty
  BY <1>1, <1>2, TimerAt DEF Shape, RecordFields
<1>5. /\ job'[Timer].chg = heap[mapped].chg /\ job'[Timer].took = job[Timer].took
      /\ job'[Timer].obj = job[Timer].obj /\ job'[Timer].phase = job[Timer].phase
  BY <1>1, <1>2, TimerAt, Facts DEF Inv, Shape, JobFields
<1>6. TimerKept'
  BY <1>1, <1>2, <1>3, <1>5 DEF Kept, TimerKept, Rests, Flushing, Obj
<1> QED
  BY <1>2, <1>3, <1>4, <1>5, <1>6, CalmMoves

LEMMA MemCasKept ==
  ASSUME Inv, Kept, GetDBCas(Timer)
  PROVE  KeptStep
<1>1. /\ pc[Timer] = "memcas" /\ mapped' = mapped /\ row' = row /\ latest' = latest
      /\ heap' = heap /\ pc' = [pc EXCEPT ![Timer] = "flushcas"]
      /\ job' = [job EXCEPT ![Timer].memcas = heap[Obj(Timer)].cas]
  BY DEF GetDBCas, ghost, At, Goto
<1>2. Alone(Timer) /\ pc'[Timer] = "flushcas"
  BY <1>1, TimerAt, Facts DEF Inv, Alone
<1>3. /\ job'[Timer].memcas = heap[mapped].cas
      /\ \A k \in {"took", "obj", "phase", "chg"} : job'[Timer][k] = job[Timer][k]
  BY <1>1, TimerAt, Facts DEF Inv, Shape, JobFields
<1>4. TimerKept'
  BY <1>1, <1>2, <1>3 DEF Kept, TimerKept, Rests, Flushing, Obj
<1> QED
  BY <1>1, <1>2, <1>3, <1>4, CalmMoves

LEMMA FlushCasKept ==
  ASSUME Inv, Kept, FlushDBCas(Timer)
  PROVE  KeptStep
<1>1. /\ pc[Timer] = "flushcas" /\ mapped' = mapped /\ row' = row /\ latest' = latest
      /\ pc' = [pc EXCEPT ![Timer] = "query"]
      /\ job' = [job EXCEPT ![Timer].newcas = Cas(Obj(Timer))]
      /\ heap' = [heap EXCEPT ![Obj(Timer)] = CasFlushed(heap[Obj(Timer)])]
  BY DEF FlushDBCas, ghost, At, Goto
<1>2. Alone(Timer) /\ pc'[Timer] = "query"
  BY <1>1, TimerAt, Facts DEF Inv, Alone
<1>3. heap'[mapped].val = heap[mapped].val /\ heap'[mapped].dirty = heap[mapped].dirty
  <2>1. heap'[mapped] = CasFlushed(heap[mapped])
    BY <1>1, TimerAt
  <2> QED
    BY <1>1, <2>1, TimerAt DEF Shape, RecordFields, CasFlushed
<1>4. /\ job'[Timer].newcas = heap[mapped].cas + heap[mapped].inc
      /\ \A k \in {"took", "obj", "phase", "chg", "memcas"} : job'[Timer][k] = job[Timer][k]
  BY <1>1, TimerAt, Facts DEF Inv, Shape, JobFields, Cas
<1>5. /\ job[Timer].memcas = heap[mapped].cas /\ heap[mapped].cas \in Nat
      /\ heap[mapped].inc \in Nat
  BY <1>1, TimerAt, RecordFacts DEF Inv, Kept, TimerKept, RecordFieldsOK
<1>6. job'[Timer].newcas >= job'[Timer].memcas
  BY <1>4, <1>5
<1>7. TimerKept'
  BY <1>1, <1>2, <1>4, <1>6 DEF Kept, TimerKept, Rests, Flushing, Obj
<1> QED
  BY <1>1, <1>2, <1>3, <1>4, <1>7, CalmMoves

LEMMA ReadCasKept ==
  ASSUME Inv, Kept, LoadCasFromDB(Timer)
  PROVE  KeptStep
<1>1. /\ pc[Timer] = "loadcas" /\ mapped' = mapped /\ row' = row /\ latest' = latest
      /\ heap' = heap
      /\ \/ pc' = [pc EXCEPT ![Timer] = "setcas"] /\ job' = [job EXCEPT ![Timer].read = row]
         \/ /\ pc' = [pc EXCEPT ![Timer] = "unlock"]
            /\ job' = [job EXCEPT ![Timer].res = "NOTFOUND"]
  BY DEF LoadCasFromDB, Read, At, Goto
<1>2. Alone(Timer) /\ pc'[Timer] \in {"setcas", "unlock"}
  <2>1. \A u \in Workers \ {Timer} : pc'[u] = pc[u] /\ job'[u] = job[u]
    BY <1>1, TimerAt, Facts DEF Inv
  <2>2. pc'[Timer] \in {"setcas", "unlock"}
    BY <1>1, TimerAt, Facts DEF Inv
  <2> QED
    BY <2>1, <2>2 DEF Alone
<1>3. job'[Timer].took = job[Timer].took /\ job'[Timer].obj = job[Timer].obj
  <2>1. \/ job' = [job EXCEPT ![Timer].read = row]
        \/ job' = [job EXCEPT ![Timer].res = "NOTFOUND"]
    BY <1>1
  <2> QED
    BY <1>1, <2>1, TimerAt, Facts DEF Inv, Shape, JobFields
<1>4. job[Timer].took = Nothing /\ Obj(Timer) = mapped
  BY <1>1, TimerAt DEF Kept, TimerKept, Rests
<1>5. TimerKept'
  BY <1>1, <1>2, <1>3, <1>4 DEF TimerKept, Rests, Flushing, Obj
<1> QED
  BY <1>1, <1>2, <1>3, <1>5, CalmMoves

LEMMA ChangeCasKept ==
  ASSUME Inv, Kept, ChangeCas(Timer)
  PROVE  KeptStep
<1>1. /\ pc[Timer] = "setcas" /\ mapped' = mapped /\ row' = row /\ latest' = latest
      /\ pc' = [pc EXCEPT ![Timer] = "take"]
      /\ job' = [job EXCEPT ![Timer].phase = "again", ![Timer].read = NoRow]
      /\ heap' = [heap EXCEPT ![Obj(Timer)].cas = job[Timer].read.cas, ![Obj(Timer)].inc = 0]
  BY DEF ChangeCas, ghost, At, Goto
<1>2. Alone(Timer) /\ pc'[Timer] = "take"
  BY <1>1, TimerAt, Facts DEF Inv, Alone
<1>3. heap'[mapped].val = heap[mapped].val /\ heap'[mapped].dirty = heap[mapped].dirty
  <2>1. /\ Obj(Timer) = mapped /\ mapped \in Objects /\ Shape(heap[mapped], RecordFields)
        /\ heap \in [Objects -> RecordsTo(stamp)]
    BY <1>1, TimerAt
  <2>2. heap'[mapped] = [heap[mapped] EXCEPT !.cas = job[Timer].read.cas, !.inc = 0]
    BY <1>1, <2>1
  <2> QED
    BY <2>1, <2>2 DEF Shape, RecordFields
<1>4. /\ job'[Timer].phase = "again" /\ job'[Timer].took = job[Timer].took
      /\ job'[Timer].obj = job[Timer].obj
  <2>1. /\ Timer \in Workers /\ Shape(job[Timer], JobFields)
        /\ job = [w \in Workers |-> job[w]]
    BY <1>1, TimerAt, Facts DEF Inv
  <2>2. job'[Timer] = [job[Timer] EXCEPT !.phase = "again", !.read = NoRow]
    BY <1>1, <2>1
  <2> QED
    BY <2>1, <2>2 DEF Shape, JobFields
<1>5. job[Timer].took = Nothing /\ Obj(Timer) = mapped
  BY <1>1, TimerAt DEF Kept, TimerKept, Rests
<1>6. TimerKept'
  BY <1>1, <1>2, <1>4, <1>5 DEF TimerKept, Rests, Flushing, Obj
<1> QED
  BY <1>1, <1>2, <1>3, <1>4, <1>6, CalmMoves

LEMMA TimerEnds ==
  ASSUME Inv, Kept, Finish(Timer)
  PROVE  KeptStep
<1>1. /\ pc[Timer] = "done" /\ mapped' = mapped /\ row' = row /\ latest' = latest
      /\ heap'[mapped] = heap[mapped]
      /\ pc' = [pc EXCEPT ![Timer] = "idle"] /\ job' = [job EXCEPT ![Timer] = Idle]
  BY TimerAt DEF Finish, ghost, At, Goto
<1>2. Alone(Timer) /\ pc'[Timer] = "idle" /\ job'[Timer] = Idle
  BY <1>1, TimerAt, Facts DEF Inv, Alone
<1>3. job[Timer].took = Nothing /\ Idle.took = Nothing
  BY <1>1 DEF Kept, TimerKept, Rests, Idle
<1>4. TimerKept'
  BY <1>2, <1>3 DEF TimerKept, Rests, Flushing
<1> QED
  BY <1>1, <1>2, <1>3, <1>4, CalmMoves

\* Nobody adds, so marks of the record are known to m_u8ChgType.
LEMMA MarkedLemma ==
  ASSUME CachedCase, Inv, Kept, heap[mapped].dirty # {}
  PROVE  heap[mapped].chg = "UPDATE"
<1>1. \A w \in Workers : job[w].phase # "add"
  <2> SUFFICES ASSUME NEW w \in Workers, job[w].phase = "add"
               PROVE  FALSE
    OBVIOUS
  <2>1. job[w].op = "add" /\ job[w].op \in (IF w = Timer THEN TimerOps ELSE Ops) \cup {None}
    BY Facts DEF Inv, PlaceOK
  <2> QED
    BY <2>1 DEF CachedCase, None
<1>2. mapped # None
  BY WorkersAssumption DEF WorkersAssumption, Kept, RecordKept
<1> QED
  BY <1>1, <1>2 DEF Inv, MarkInv, DirtyIsScheduled

LEMMA TakeKept ==
  ASSUME CachedCase, Inv, Kept, TakeValue(Timer)
  PROVE  KeptStep
<1> DEFINE r == heap[mapped]
           v == [f \in Fields |-> IF f \in r.dirty THEN r.val[f] ELSE 0]
<1>1. /\ pc[Timer] = "take" /\ Timer \in Workers /\ mapped \in Objects
      /\ Obj(Timer) = mapped
  BY TimerAt DEF TakeValue, At
<1>2. /\ mapped' = mapped /\ row' = row /\ latest' = latest
      /\ pc' = [pc EXCEPT ![Timer] = "takechg"]
      /\ job' = [job EXCEPT ![Timer].took = v]
      /\ heap' = [heap EXCEPT ![mapped].dirty = {}]
  BY <1>1 DEF TakeValue, ghost, Goto
<1>3. job[Timer].took = Nothing /\ job[Timer].phase \in {"check", "again"}
  BY <1>1 DEF Kept, TimerKept, Rests, Flushing
<1>4. v # Nothing => r.chg = "UPDATE"
  <2>1. v # Nothing => r.dirty # {}
    BY DEF Nothing
  <2> QED
    BY <2>1, MarkedLemma
<1>5. Alone(Timer) /\ pc'[Timer] = "takechg"
  BY <1>1, <1>2, Facts DEF Inv, Alone
<1>6. /\ heap'[mapped].val = r.val /\ heap'[mapped].dirty = {} /\ heap'[mapped].chg = r.chg
  BY <1>1, <1>2, TimerAt DEF Shape, RecordFields
<1>7. /\ job'[Timer].took = v
      /\ job'[Timer].obj = job[Timer].obj /\ job'[Timer].phase = job[Timer].phase
  <2> HIDE DEF v
  <2> QED
    BY <1>1, <1>2, Facts DEF Inv, Shape, JobFields
<1>8. TimerKept'
  <2> HIDE DEF v, r
  <2>1. heap'[mapped'].chg = r.chg
    BY <1>2, <1>6
  <2> QED
    BY <1>1, <1>2, <1>3, <1>4, <1>5, <1>7, <2>1 DEF TimerKept, Rests, Flushing, Obj
<1>9. Kept'
  BY <1>1, <1>2, <1>5, <1>6, <1>8, TimerMoves DEF Kept, RecordKept
<1>10. BufferProofs!Take
  <2>1. Cached = heap[mapped] /\ Cached' = heap'[mapped]
    BY <1>1, <1>2, CachedLemma
  <2> QED
    BY <1>2, <1>3, <1>6, <1>7, <2>1 DEF BufferProofs!Take, BufferProofs!Nothing, Nothing
<1> QED
  BY <1>2, <1>9, <1>10, RowLemma DEF Inv, KeptStep, BufferStep, BufferProofs!Next

\* Merging twice is merging once.
LEMMA MergeLemma ==
  ASSUME NEW v, NEW t
  PROVE  Merge(Merge(v, t), t) = Merge(v, t)
BY DEF Merge

\* One run of the guarded update on a row that is there.
LEMMA RunLemma ==
  ASSUME NEW n, NEW r \in RowsTo(n), r.there = TRUE, NEW j, j.op # "del",
         j.phase \in {"check", "again"}
  PROVE  /\ Run(r, j).row.there = TRUE
         /\ \/ /\ Run(r, j).res = "EXISTS" /\ Run(r, j).row = r /\ r.cas # j.memcas
            \/ /\ Run(r, j).res = "OK" /\ r.cas = j.memcas
               /\ Run(r, j).row.val = Merge(r.val, j.took)
               /\ Run(r, j).row.cas = j.newcas
<1>1. Run(r, j) = RunUpdateCas(r, j)
  <2>1. j.phase \in Guarded /\ j.phase \notin Inserting
    BY DEF Guarded, Inserting
  <2> QED
    BY <2>1 DEF Run
<1> QED
  BY <1>1 DEF RunUpdateCas, RowsTo

\* What a write-back's query does, whether it fails, is lost or is sent twice.
LEMMA OutcomeLemma ==
  ASSUME TypeInv, NEW w \in Workers, NEW out \in Outcomes(job[w]), row.there = TRUE,
         job[w].op # "del", job[w].phase \in {"check", "again"},
         job[w].newcas >= job[w].memcas
  PROVE  /\ out.row.there = TRUE /\ out.row.cas >= row.cas
         /\ out.res \in {"OK", "EXISTS", "NOTSTORED"}
         /\ \/ out.row.val = row.val /\ out.res # "OK"
            \/ out.row.val = Merge(row.val, job[w].took)
<1> DEFINE j == job[w]
           once == Run(row, j)
           twice == Run(once.row, j)
<1>1. row \in RowsTo(stamp) /\ once.row \in RowsTo(stamp) /\ JobFieldsOK(stamp, j)
      /\ stamp \in Nat
  BY Facts, RunType DEF TypeInv, DataType
<1>2. /\ j.op # "del" /\ j.phase \in {"check", "again"}
      /\ once = Run(row, j) /\ twice = Run(once.row, j)
  OBVIOUS
<1>3. out \in {once, [row |-> row, res |-> "NOTSTORED"],
               [row |-> once.row, res |-> "NOTSTORED"], twice}
  BY DEF Outcomes
<1> HIDE DEF once, twice, j
<1>4. ASSUME NEW r \in RowsTo(stamp), r.there = TRUE
      PROVE  /\ Run(r, j).row.there = TRUE
             /\ \/ /\ Run(r, j).res = "EXISTS" /\ Run(r, j).row = r /\ r.cas # j.memcas
                \/ /\ Run(r, j).res = "OK" /\ r.cas = j.memcas
                   /\ Run(r, j).row.val = Merge(r.val, j.took)
                   /\ Run(r, j).row.cas = j.newcas
  BY <1>2, <1>4, RunLemma, ZenonT(30)
<1>5. /\ once.row.there = TRUE
      /\ \/ once.res = "EXISTS" /\ once.row = row /\ row.cas # j.memcas
         \/ /\ once.res = "OK" /\ row.cas = j.memcas
            /\ once.row.val = Merge(row.val, j.took) /\ once.row.cas = j.newcas
  BY <1>1, <1>2, <1>4
<1>6. /\ twice.row.there = TRUE
      /\ \/ twice.res = "EXISTS" /\ twice.row = once.row
         \/ /\ twice.res = "OK" /\ once.row.cas = j.memcas
            /\ twice.row.val = Merge(once.row.val, j.took) /\ twice.row.cas = j.newcas
  BY <1>1, <1>2, <1>4, <1>5
<1>7. row.cas \in Nat /\ j.newcas \in Nat /\ j.memcas \in Nat
  BY <1>1 DEF RowsTo, JobFieldsOK
<1>8. j.newcas >= j.memcas
  BY DEF j
<1>9. /\ once.row.cas >= row.cas /\ once.res \in {"OK", "EXISTS"}
      /\ \/ once.row.val = row.val /\ once.res # "OK"
         \/ once.row.val = Merge(row.val, j.took)
  BY <1>5, <1>7, <1>8
<1>10. /\ twice.row.cas >= row.cas /\ twice.res \in {"OK", "EXISTS"}
       /\ \/ twice.row.val = row.val /\ twice.res # "OK"
          \/ twice.row.val = Merge(row.val, j.took)
  BY <1>5, <1>6, <1>7, <1>8, MergeLemma
<1>11. CASE out = [row |-> row, res |-> "NOTSTORED"]
  BY <1>7, <1>11
<1>12. CASE out = [row |-> once.row, res |-> "NOTSTORED"]
  BY <1>5, <1>9, <1>12 DEF j
<1>13. CASE out \in {once, twice}
  BY <1>5, <1>6, <1>9, <1>10, <1>13 DEF j
<1> QED
  BY <1>3, <1>11, <1>12, <1>13

\* Back from the query, the write-back goes on or ends; none starts anew.
LEMMA BackLemma ==
  ASSUME NEW j, Shape(j, JobFields), j.phase \in {"check", "again"}, NEW res,
         res # "NOTFOUND"
  PROVE  /\ ReturnTo(j, res) \in {"loadcas", "unlock"}
         /\ Returned(j, res).took = Nothing /\ Returned(j, res).obj = j.obj
<1>1. ReturnTo(j, res) \in {"loadcas", "unlock"}
  BY DEF ReturnTo
<1>2. Returned(j, res).took = Nothing /\ Returned(j, res).obj = j.obj
  BY DEF Returned, Shape, JobFields
<1> QED
  BY <1>1, <1>2

LEMMA QueryKept ==
  ASSUME CachedCase, Inv, Kept, Query(Timer)
  PROVE  KeptStep
<1>1. PICK out \in Outcomes(job[Timer]) :
        /\ Write(Timer, out)
        /\ IF Recovers(job[Timer], out.res)
           THEN Goto(Timer, "recover") /\ job' = [job EXCEPT ![Timer].res = out.res]
           ELSE /\ Goto(Timer, ReturnTo(job[Timer], out.res))
                /\ job' = [job EXCEPT ![Timer] = Returned(@, out.res)]
  BY DEF Query
<1>2. /\ pc[Timer] = "query" /\ Timer \in Workers /\ mapped \in Objects
      /\ Obj(Timer) = mapped
  BY TimerAt DEF Query, At
<1>3. /\ mapped' = mapped /\ heap' = heap /\ latest' = latest /\ row' = out.row
  BY <1>1 DEF Write
<1>4. /\ job[Timer].phase \in {"check", "again"} /\ job[Timer].newcas >= job[Timer].memcas
      /\ job[Timer].took # Nothing => job[Timer].chg = "UPDATE"
      /\ row.there = TRUE
  BY <1>2 DEF Kept, RecordKept, TimerKept, Flushing
<1>5. job[Timer].op # "del"
  BY <1>2, Facts DEF CachedCase, Inv, PlaceOK, None
<1>6. /\ out.row.there = TRUE /\ out.row.cas >= row.cas
      /\ out.res \in {"OK", "EXISTS", "NOTSTORED"}
      /\ \/ out.row.val = row.val /\ out.res # "OK"
         \/ out.row.val = Merge(row.val, job[Timer].took)
  BY <1>2, <1>4, <1>5, OutcomeLemma, Zenon DEF Inv
<1>7. /\ Alone(Timer) /\ TimerKept'
      /\ job'[Timer].took \in {job[Timer].took, Nothing}
      /\ out.res # "OK" => job'[Timer].took = job[Timer].took
  <2>1. CASE Recovers(job[Timer], out.res)
    <3>1. /\ pc' = [pc EXCEPT ![Timer] = "recover"]
          /\ job' = [job EXCEPT ![Timer].res = out.res]
      BY <1>1, <2>1 DEF Goto
    <3>2. Alone(Timer) /\ pc'[Timer] = "recover"
      BY <1>2, <3>1, Facts DEF Inv, Alone
    <3>3. /\ job'[Timer].res = out.res
          /\ \A k \in {"took", "chg", "phase", "obj"} : job'[Timer][k] = job[Timer][k]
      BY <1>2, <3>1, Facts DEF Inv, Shape, JobFields
    <3>4. TimerKept'
      BY <1>2, <1>3, <1>4, <1>6, <3>2, <3>3 DEF TimerKept, Rests, Flushing, Obj
    <3> QED
      BY <3>2, <3>3, <3>4
  <2>2. CASE ~Recovers(job[Timer], out.res)
    <3>1. /\ pc' = [pc EXCEPT ![Timer] = ReturnTo(job[Timer], out.res)]
          /\ job' = [job EXCEPT ![Timer] = Returned(job[Timer], out.res)]
      BY <1>1, <2>2 DEF Goto
    <3>2. /\ Alone(Timer) /\ pc'[Timer] = ReturnTo(job[Timer], out.res)
          /\ job'[Timer] = Returned(job[Timer], out.res)
      BY <1>2, <3>1, Facts DEF Inv, Alone
    <3>3. /\ pc'[Timer] \in {"loadcas", "unlock"} /\ job'[Timer].took = Nothing
          /\ job'[Timer].obj = job[Timer].obj
      BY <1>2, <1>4, <1>6, <3>2, BackLemma, Facts DEF Inv
    <3>4. TimerKept'
      BY <1>2, <1>3, <3>3 DEF TimerKept, Rests, Flushing, Obj
    <3>5. out.res # "OK" => job[Timer].took = Nothing
      BY <1>4, <2>2 DEF Recovers
    <3> QED
      BY <3>2, <3>3, <3>4, <3>5
  <2> QED
    BY <2>1, <2>2
<1>8. Kept'
  BY <1>3, <1>6, <1>7, TimerMoves
<1>9. BufferStep
  <2>1. Cached = heap[mapped] /\ Cached' = heap[mapped]
    BY <1>2, <1>3, CachedLemma
  <2>2. CASE out.row.val = row.val /\ out.res # "OK"
    BY <1>3, <1>7, <2>1, <2>2 DEF BufferStep, BufferProofs!vars
  <2>3. CASE out.row.val = Merge(row.val, job[Timer].took)
    BY <1>3, <1>7, <2>1, <2>3
       DEF BufferStep, BufferProofs!Next, BufferProofs!Store, BufferProofs!Merge,
           BufferProofs!Nothing, Nothing, Merge
  <2> QED
    BY <1>6, <2>2, <2>3
<1> QED
  BY <1>3, <1>6, <1>8, <1>9 DEF KeptStep

LEMMA RecoveredFields ==
  ASSUME NEW n, NEW r, RecordOK(n, r), NEW took, NEW chg
  PROVE  /\ Recovered(r, took, chg).val = r.val
         /\ Recovered(r, took, chg).dirty = r.dirty \cup {f \in Fields : took[f] # 0}
BY RecordTypeLemma DEF Shape, RecordFields, Recovered

LEMMA RecoverKept ==
  ASSUME Inv, Kept, RecoverChgType(Timer)
  PROVE  KeptStep
<1>1. /\ pc[Timer] = "recover" /\ mapped' = mapped /\ row' = row /\ latest' = latest
      /\ pc' = [pc EXCEPT ![Timer] = ReturnTo(job[Timer], job[Timer].res)]
      /\ job' = [job EXCEPT ![Timer] = Returned(job[Timer], job[Timer].res)]
      /\ heap' = [heap EXCEPT ![Obj(Timer)] =
                    Recovered(heap[Obj(Timer)], job[Timer].took, job[Timer].chg)]
  BY DEF RecoverChgType, ghost, At, Goto
<1>2. /\ Timer \in Workers /\ mapped \in Objects /\ Obj(Timer) = mapped
      /\ RecordOK(stamp, heap[mapped]) /\ row.there = TRUE
      /\ job[Timer].phase \in {"check", "again"} /\ job[Timer].res # "NOTFOUND"
  BY <1>1, TimerAt DEF Kept, RecordKept, TimerKept, Flushing
<1>3. heap'[mapped] = Recovered(heap[mapped], job[Timer].took, job[Timer].chg)
  BY <1>1, <1>2, TimerAt
<1>4. /\ heap'[mapped].val = heap[mapped].val
      /\ heap'[mapped].dirty = heap[mapped].dirty \cup {f \in Fields : job[Timer].took[f] # 0}
  BY <1>2, <1>3, RecoveredFields
<1>5. /\ Alone(Timer) /\ pc'[Timer] = ReturnTo(job[Timer], job[Timer].res)
      /\ job'[Timer] = Returned(job[Timer], job[Timer].res)
  BY <1>1, <1>2, Facts DEF Inv, Alone
<1>6. /\ pc'[Timer] \in {"loadcas", "unlock"} /\ job'[Timer].took = Nothing
      /\ job'[Timer].obj = job[Timer].obj
  BY <1>2, <1>5, BackLemma, Facts DEF Inv
<1>7. TimerKept'
  BY <1>1, <1>2, <1>6 DEF TimerKept, Rests, Flushing, Obj
<1>8. Kept'
  BY <1>1, <1>2, <1>4, <1>5, <1>7, TimerMoves
<1>9. BufferProofs!Restore
  <2>1. Cached = heap[mapped] /\ Cached' = heap'[mapped]
    BY <1>1, <1>2, CachedLemma
  <2> QED
    BY <1>1, <1>4, <1>6, <2>1 DEF BufferProofs!Restore, BufferProofs!Nothing, Nothing
<1> QED
  BY <1>1, <1>8, <1>9, RowLemma DEF Inv, KeptStep, BufferStep, BufferProofs!Next
-----------------------------------------------------------------------------
CachedInv == Inv /\ Kept /\ BufferProofs!Inv

LEMMA CachedStart == CachedCase /\ Init => Kept /\ BufferProofs!Init
<1> SUFFICES ASSUME CachedCase, Init
             PROVE  Kept /\ BufferProofs!Init
  OBVIOUS
<1>1. Objects # {}
  BY FS_EmptySet, FS_CardinalityType, ObjectsAssumption DEF ObjectsAssumption
<1>2. /\ row.there = TRUE /\ mapped = FirstObject /\ mapped \in Objects
      /\ heap = [[o \in Objects |-> Blank] EXCEPT
                   ![mapped].val = row.val, ![mapped].cas = row.cas]
  BY <1>1 DEF CachedCase, Init, FirstRow, NoRow, FirstObject
<1>3. row.val = [f \in Fields |-> 1]
  BY <1>2 DEF Init, FirstRow, NoRow
<1>4. heap[mapped].val = row.val /\ heap[mapped].dirty = {}
  BY <1>2 DEF Blank
<1>5. /\ \A w \in Workers : pc[w] = "idle" /\ job[w].took = Nothing
      /\ latest = row.val
  BY DEF Init, Idle
<1>6. Kept
  BY <1>2, <1>4, <1>5, TimerLemma
     DEF Kept, RecordKept, ClientKept, TimerKept, Rests, Flushing
<1>7. Cached = heap[mapped]
  BY <1>2, WorkersAssumption DEF WorkersAssumption, Cached
<1>8. row.val \in BufferProofs!Values
  BY <1>3 DEF BufferProofs!Values
<1>9. BufferProofs!Init
  BY <1>4, <1>5, <1>7, <1>8, TimerLemma
     DEF BufferProofs!Init, BufferProofs!Nothing, Nothing
<1> QED
  BY <1>6, <1>9

LEMMA CachedStep == CachedCase /\ CachedInv /\ [Next]_vars => CachedInv' /\ KeptStep
<1> SUFFICES ASSUME CachedCase, CachedInv, [Next]_vars
             PROVE  CachedInv' /\ KeptStep
  OBVIOUS
<1>1. Inv /\ Kept /\ BufferProofs!Inv
  BY DEF CachedInv
<1>2. ASSUME \E w \in Workers : Step(w)
      PROVE  KeptStep
  <2>1. ASSUME NEW c \in Clients, Step(c)
        PROVE  KeptStep
    BY <1>1, <2>1, ClientSteps, GetKept, SetKept
  <2>2. ASSUME Step(Timer)
        PROVE  KeptStep
    BY <1>1, <2>2, TimerSteps, TryKept, CheckKept, TakeKept, TakeChgKept, MemCasKept,
       FlushCasKept, QueryKept, RecoverKept, ReadCasKept, ChangeCasKept, TimerEnds
       DEF FlushStep
  <2> QED
    BY <1>2, <2>1, <2>2 DEF Workers
<1>3. ASSUME \E c \in Clients, op \in Ops : Request(c, op)
      PROVE  KeptStep
  BY <1>1, <1>3, RequestKept
<1>4. ASSUME \E op \in TimerOps : TimerFires(op)
      PROVE  KeptStep
  BY <1>1, <1>4, FiresKept
<1>5. ASSUME UNCHANGED vars
      PROVE  KeptStep
  <2>1. Kept' /\ row' = row
    BY <1>1, <1>5 DEF vars, Kept, RecordKept, ClientKept, TimerKept, Obj
  <2>2. BufferStep
    BY <1>1, <1>5, SameBuffer DEF vars, Kept, RecordKept
  <2> QED
    BY <1>1, <2>1, <2>2, RowLemma DEF Inv, KeptStep
<1>6. KeptStep
  BY <1>2, <1>3, <1>4, <1>5 DEF Next
<1>7. Inv'
  BY <1>1, NextInv
<1>8. BufferProofs!Inv'
  BY <1>1, <1>6, BufferProofs!NextInv DEF KeptStep, BufferStep
<1> QED
  BY <1>6, <1>7, <1>8 DEF CachedInv, KeptStep

LEMMA CachedAlways ==
  ASSUME CachedCase
  PROVE  Spec => []CachedInv
<1>1. Init => CachedInv
  BY InitInv, CachedStart, BufferProofs!InitInv DEF CachedInv
<1>2. CachedInv /\ [Next]_vars => CachedInv'
  BY CachedStep
<1> QED
  BY <1>1, <1>2, PTL DEF Spec

\* A record that stays cached implements WriteBack, with the timer's locals as
\* what is taken: every interleaving of sets with the steps of a write-back,
\* and every way its query can fail, is a set, a take, a store or a restore.
THEOREM CachedImplements ==
  ASSUME CachedCase
  PROVE  Spec => ImplementsWriteBack
<1>1. Init => Buffer!Init
  BY CachedStart DEF BufferProofs!Init, BufferProofs!Values, BufferProofs!Nothing,
                     Buffer!Init, Buffer!Values, Buffer!Nothing
<1>2. BufferStep => [Buffer!Next]_(Buffer!vars)
  BY DEF BufferStep, BufferProofs!vars, Buffer!vars, BufferProofs!Next, BufferProofs!Set,
         BufferProofs!Take, BufferProofs!Store, BufferProofs!Restore,
         BufferProofs!Values, BufferProofs!Nothing, BufferProofs!Merge,
         Buffer!Next, Buffer!Set, Buffer!Take, Buffer!Store, Buffer!Restore,
         Buffer!Values, Buffer!Nothing, Buffer!Merge
<1>3. CachedInv /\ [Next]_vars => [Buffer!Next]_(Buffer!vars)
  BY <1>2, CachedStep DEF KeptStep
<1> QED
  BY <1>1, <1>3, CachedAlways, PTL DEF Spec, ImplementsWriteBack, Buffer!Spec

\* A record without marks that nobody is writing back is its row: whatever
\* queries failed, were lost or sent twice, no set has been forgotten.
THEOREM CleanIsStored ==
  ASSUME CachedCase
  PROVE  Spec => []CleanMatchesRow
<1>1. CachedInv => CleanMatchesRow
  <2> SUFFICES ASSUME CachedInv, heap[mapped].dirty = {}, Owners(mapped) = {}
               PROVE  heap[mapped].val = row.val
    BY DEF CleanMatchesRow
  <2>1. pc[Timer] \in {"idle", "try", "done"}
    BY TimerLemma DEF CachedInv, Kept, TimerKept, Rests, Owners, InRegion, Flushing
  <2>2. job[Timer].took = Nothing
    BY <2>1 DEF CachedInv, Kept, TimerKept, Rests
  <2>3. Cached = heap[mapped]
    BY WorkersAssumption DEF WorkersAssumption, CachedInv, Kept, RecordKept, Cached
  <2> QED
    BY <2>2, <2>3, BufferProofs!NothingLemma
       DEF CachedInv, BufferProofs!NothingMissing, BufferProofs!Nothing, Nothing
<1> QED
  BY <1>1, CachedAlways, PTL

\* When no request is being served the record has the last value that was set.
THEOREM CachedIsLatest ==
  ASSUME CachedCase
  PROVE  Spec => []LatestKept
<1>1. CachedInv => LatestKept
  BY WorkersAssumption DEF WorkersAssumption, CachedInv, Kept, RecordKept, LatestKept
<1> QED
  BY <1>1, CachedAlways, PTL

\* No write-back, late, lost or sent twice, replaces a field of the row by an
\* older value, and none lowers the row's cas code.
THEOREM RowNeverBack ==
  ASSUME CachedCase
  PROVE  Spec => RowMovesForward
<1>1. CachedInv /\ [Next]_vars =>
        [row'.cas >= row.cas /\ \A f \in Fields : row'.val[f] >= row.val[f]]_vars
  <2> SUFFICES ASSUME CachedInv, [Next]_vars
               PROVE  row'.cas >= row.cas /\ \A f \in Fields : row'.val[f] >= row.val[f]
    OBVIOUS
  <2>1. BufferStep /\ row'.cas >= row.cas
    BY CachedStep DEF KeptStep
  <2>2. BufferProofs!DiskNewer \/ row'.val = row.val
    BY <2>1, BufferProofs!NextInv DEF CachedInv, BufferStep, BufferProofs!vars
  <2>3. row.val \in [Fields -> Nat]
    BY RowLemma DEF CachedInv, Inv
  <2> QED
    BY <2>1, <2>2, <2>3 DEF BufferProofs!DiskNewer
<1> QED
  BY <1>1, CachedAlways, PTL DEF Spec, RowMovesForward
=============================================================================
