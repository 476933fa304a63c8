---------------------------- MODULE CacheMemory ----------------------------
(***************************************************************************)
(* The write-back cache of the cache server, for one key: the row of the   *)
(* database, the record objects (CCacheMemory) the server's threads hold,  *)
(* the one that CCacheMemoryManager's table holds, the request handlers of *)
(* CCacheServiceImp and the timer that writes changed records back.        *)
(*                                                                         *)
(* Keys share nothing but the table's lock, so one key is enough.  A step  *)
(* is what a thread does under one lock: a method of the record, of the    *)
(* table, or one query.  A field's value is the stamp of the write it came *)
(* from: 0 is the empty value of a record that was never filled, 1 is what *)
(* the row holds at the start.                                             *)
(***************************************************************************)
EXTENDS Naturals, FiniteSets

CONSTANTS
  Clients,      \* the threads that serve requests, one request at a time
  Timer,        \* the thread of CheckAndUpdate
  Objects,      \* addresses of record objects
  Fields,       \* value columns of the table
  Ops,          \* the requests clients send
  TimerOps,     \* what the timer finds: a live record, an expired one
  RowAtStart, CachedAtStart,   \* sets of BOOLEAN: how the run may start
  MaxRequests,  \* bound: requests sent and records expired in a behaviour
  MaxFaults     \* bound: queries that fail

None == "none"
Workers == Clients \cup {Timer}

ASSUME WorkersAssumption == Timer \notin Clients /\ None \notin Objects
ASSUME BoundsAssumption  == MaxRequests \in Nat /\ MaxFaults \in Nat
ASSUME OpsAssumption ==
  /\ Ops \subseteq {"get", "gets", "set", "cas", "load", "loadcas", "loadall",
                   "add", "store", "storecas", "flush", "del"}
  /\ TimerOps \subseteq {"sweep", "expire"}
\* Memory does not run out: a thread holds two records at most.
ASSUME ObjectsAssumption ==
  /\ IsFiniteSet(Workers) /\ IsFiniteSet(Objects)
  /\ Cardinality(Objects) > 2 * Cardinality(Workers)

VARIABLES
  row,      \* the row of the database: there, val, cas
  mapped,   \* m_records: the record of the key, or None
  heap,     \* the record objects
  pc, job,  \* where each thread is, and its locals
  token,    \* what each client knows: a cas code and the value it came with
  stamp,    \* history: the last write
  latest,   \* history: the last write that SetValue put in each field
  requests, faults   \* counters of the bounds

vars == <<row, mapped, heap, pc, job, token, stamp, latest, requests, faults>>
ghost == <<token, stamp, latest, requests, faults>>

Stamps == 0 .. MaxRequests + 1
Nothing == [f \in Fields |-> 0]
NoRow == [there |-> FALSE, val |-> Nothing, cas |-> 0]
FirstRow == [there |-> TRUE, val |-> [f \in Fields |-> 1], cas |-> 1]

\* A new CCacheMemory: m_strValue and its update marks, m_n64Cas,
\* m_n64CasIncre, m_u8ChgType, m_bLock.
Blank == [val |-> Nothing, dirty |-> {}, cas |-> 0, inc |-> 0,
          chg |-> "NIL", busy |-> FALSE]

NoToken == [cas |-> 0, val |-> Nothing]
Idle == [op |-> None, phase |-> None, obj |-> None, old |-> None,
         fields |-> {}, tok |-> NoToken,
         took |-> Nothing, chg |-> "NIL", memcas |-> 0, newcas |-> 0,
         read |-> NoRow, res |-> None, again |-> FALSE]

Cas(o) == heap[o].cas + heap[o].inc      \* GetCas
At(w, l) == pc[w] = l
Goto(w, l) == pc' = [pc EXCEPT ![w] = l]
Obj(w) == job[w].obj
Unheld(o) == o # mapped /\ \A w \in Workers : o \notin {Obj(w), job[w].old}
Free == {o \in Objects : Unheld(o)}
NewObject == CHOOSE o \in Free : TRUE

\* Methods under the record's write lock wait for a thread that is between
\* the two halves of GetValueAndChgType, which holds the read lock.
Writable(o) == \A w \in Workers : ~(At(w, "takechg") /\ Obj(w) = o)

FirstObject == CHOOSE o \in Objects : TRUE

Init ==
  /\ row \in {r \in {FirstRow, NoRow} : r.there \in RowAtStart}
  /\ \/ FALSE \in CachedAtStart /\ mapped = None /\ heap = [o \in Objects |-> Blank]
     \/ TRUE \in CachedAtStart /\ row.there
        /\ mapped = FirstObject
        /\ heap = [[o \in Objects |-> Blank] EXCEPT
                     ![mapped].val = row.val, ![mapped].cas = row.cas]
  /\ pc = [w \in Workers |-> "idle"]
  /\ job = [w \in Workers |-> Idle]
  /\ token = [w \in Clients |-> [cas |-> FirstRow.cas, val |-> FirstRow.val]]
  /\ stamp = 1 /\ latest = row.val
  /\ requests = 0 /\ faults = 0

-----------------------------------------------------------------------------
(* The record's methods, as the record they leave.                         *)

\* Mutant: the marks of earlier sets are dropped.
MutWritten(r, F, n) ==
  [r EXCEPT !.val = [f \in Fields |-> IF f \in F THEN n ELSE r.val[f]],
            !.dirty = F, !.inc = @ + 1, !.chg = "UPDATE"]

\* SetValue: the request's fields replace the record's and are marked.
Written(r, F, n) ==
  [r EXCEPT !.val = [f \in Fields |-> IF f \in F THEN n ELSE r.val[f]],
            !.dirty = @ \cup F, !.inc = @ + 1, !.chg = "UPDATE"]

\* ChangeValueAndCas, ChangeValue: the row replaces the value and the marks.
Filled(r, read, withCas) ==
  [r EXCEPT !.val = read.val, !.dirty = {}, !.chg = "NIL",
            !.cas = IF withCas THEN read.cas ELSE @,
            !.inc = IF withCas THEN 0 ELSE @]

\* Mutants: the change type is not restored; the taken values are.
MutRecovered(r, took, chg) ==
  [r EXCEPT !.dirty = @ \cup {f \in Fields : took[f] # 0}]
MutRecoveredValue(r, took, chg) ==
  [r EXCEPT !.dirty = @ \cup {f \in Fields : took[f] # 0},
            !.val = [f \in Fields |-> IF took[f] # 0 THEN took[f] ELSE @[f]],
            !.chg = IF chg = "UPDATE" THEN "UPDATE" ELSE @]

\* RecoverChgType marks again what GetValueAndChgType had taken.
Recovered(r, took, chg) ==
  [r EXCEPT !.dirty = @ \cup {f \in Fields : took[f] # 0},
            !.chg = IF chg = "UPDATE" THEN "UPDATE" ELSE @]

\* Mutant: the flushed increments are not reset.
MutCasFlushed(r) == [r EXCEPT !.cas = @ + r.inc]

\* FlushDBCas.
CasFlushed(r) == [r EXCEPT !.cas = @ + r.inc, !.inc = 0]

-----------------------------------------------------------------------------
(* Queries.  A query may fail before the database ran it, or after ("lost":*)
(* the connection broke and could not be opened again), or the connection  *)
(* layer sends it a second time after a reconnect ("retry").               *)

Phases == {"check", "again", "readd", "storecas", "store", "add"}
Inserting == {"readd", "add"}                 \* AddToDB
Guarded == {"check", "again", "storecas"}     \* UpdateToDB(true)

Merge(val, took) == [f \in Fields |-> IF took[f] # 0 THEN took[f] ELSE val[f]]

\* Mutant: the fields that were not marked are written too, empty.
MutRunUpdateCas(r, j) ==
  IF ~r.there THEN [row |-> r, res |-> "NOTFOUND"]
  ELSE IF r.cas # j.memcas THEN [row |-> r, res |-> "EXISTS"]
  ELSE [row |-> [r EXCEPT !.val = j.took, !.cas = j.newcas], res |-> "OK"]

\* UpdateToDB(true): SET fields, cas = newcas WHERE cas = memcas; @cas is read.
RunUpdateCas(r, j) ==
  IF ~r.there THEN [row |-> r, res |-> "NOTFOUND"]
  ELSE IF r.cas # j.memcas THEN [row |-> r, res |-> "EXISTS"]
  ELSE [row |-> [r EXCEPT !.val = Merge(@, j.took), !.cas = j.newcas],
        res |-> "OK"]

\* UpdateToDB(false): a plain UPDATE, which says nothing of a missing row.
RunUpdate(r, j) ==
  [row |-> IF r.there THEN [r EXCEPT !.val = Merge(@, j.took)] ELSE r,
   res |-> "OK"]

\* AddToDB: INSERT; the fields it did not take are written empty.
RunInsert(r, j) ==
  IF r.there THEN [row |-> r, res |-> "NOTSTORED"]
  ELSE [row |-> [there |-> TRUE, val |-> j.took, cas |-> j.newcas],
        res |-> "OK"]

\* DeleteFromDB.
RunDelete(r, j) == [row |-> NoRow, res |-> "OK"]

Run(r, j) == CASE j.op = "del" -> RunDelete(r, j)
               [] j.phase \in Guarded -> RunUpdateCas(r, j)
               [] j.phase \in Inserting -> RunInsert(r, j)
               [] OTHER -> RunUpdate(r, j)

Outcomes(j) ==
  LET once == Run(row, j) IN
  {once} \cup IF faults = MaxFaults THEN {} ELSE
     {[row |-> row, res |-> "NOTSTORED"],
      [row |-> once.row, res |-> "NOTSTORED"],
      Run(once.row, j)}

\* A write query of thread w with the outcome out.
Write(w, out) ==
  /\ row' = out.row
  /\ faults' = IF out = Run(row, job[w]) THEN faults ELSE faults + 1
  /\ UNCHANGED <<mapped, heap, token, stamp, latest, requests>>

\* A SELECT: a failing query and a missing row look the same to the caller.
Read(w, found, missing) ==
  /\ \/ /\ row.there
        /\ job' = [job EXCEPT ![w].read = row] /\ Goto(w, found)
        /\ faults' = faults
     \/ /\ ~row.there \/ faults < MaxFaults
        /\ job' = [job EXCEPT ![w].res = "NOTFOUND"] /\ Goto(w, missing)
        /\ faults' = IF row.there THEN faults + 1 ELSE faults
  /\ UNCHANGED <<row, mapped, heap, token, stamp, latest, requests>>

-----------------------------------------------------------------------------
(* Requests.                                                               *)

Writes == {"set", "cas", "store", "storecas", "add"}
CasChecked == {"cas", "storecas"}
LoadsCas == {"gets", "cas", "loadcas", "add", "loadall"}

Entry(op) ==
  CASE op \in {"get", "gets", "set", "cas"} -> "find"
    [] op \in {"load", "loadcas"} -> "insert"
    [] op = "loadall" -> "selectall"
    [] op = "add" -> "add"
    [] op \in {"store", "storecas", "flush", "del"} -> "detach"

Request(w, op) ==
  /\ At(w, "idle") /\ w \in Clients /\ requests < MaxRequests
  /\ \E F \in IF op \in Writes THEN SUBSET Fields \ {{}} ELSE {{}} :
       job' = [job EXCEPT ![w].op = op, ![w].fields = F,
                          ![w].tok = IF op \in CasChecked THEN token[w] ELSE NoToken]
  /\ requests' = requests + 1
  /\ Goto(w, Entry(op))
  /\ UNCHANGED <<row, mapped, heap, token, stamp, latest, faults>>

\* CheckAndUpdate comes to the record: it is live, or it has expired.
TimerFires(op) ==
  /\ At(Timer, "idle") /\ mapped # None /\ op \in TimerOps
  /\ \/ /\ op = "sweep"
        /\ job' = [job EXCEPT ![Timer].op = op, ![Timer].obj = mapped]
        /\ Goto(Timer, "try")
        /\ UNCHANGED requests
     \/ /\ op = "expire" /\ requests < MaxRequests
        /\ job' = [job EXCEPT ![Timer].op = op]
        /\ Goto(Timer, "detach")
        /\ requests' = requests + 1
  /\ UNCHANGED <<row, mapped, heap, token, stamp, latest, faults>>

\* The reply is sent and the thread drops its pointers to the record.
Finish(w) ==
  LET gone == {o \in {Obj(w), job[w].old} \ {None, mapped} :
                 \A u \in Workers \ {w} : o \notin {Obj(u), job[u].old}} IN
  /\ At(w, "done")
  /\ job' = [job EXCEPT ![w] = Idle]
  /\ heap' = [o \in Objects |-> IF o \in gone THEN Blank ELSE heap[o]]
  /\ Goto(w, "idle")
  /\ UNCHANGED <<row, mapped, ghost>>

-----------------------------------------------------------------------------
(* The table, and loading a record from the database.                      *)

FindMemoryRecord(w) ==
  /\ At(w, "find")
  /\ job' = [job EXCEPT ![w].obj = mapped]
  /\ Goto(w, IF mapped = None THEN "insert" ELSE "serve")
  /\ UNCHANGED <<row, mapped, heap, ghost>>

\* LoadCacheRecord enters an empty record before it asks the database, and
\* leaves it in the table if the database has no answer.
InsertMemoryRecord(w) ==
  /\ At(w, "insert")
  /\ IF mapped # None
     THEN job' = [job EXCEPT ![w].obj = mapped] /\ UNCHANGED <<mapped, heap>>
     ELSE /\ mapped' = NewObject
          /\ job' = [job EXCEPT ![w].obj = NewObject]
          /\ heap' = [heap EXCEPT ![NewObject] = [Blank EXCEPT !.cas =
                        IF job[w].op = "cas" THEN job[w].tok.cas ELSE 0]]
  /\ Goto(w, "select")
  /\ UNCHANGED <<row, ghost>>

LoadMissed(j) == IF j.op = "cas" /\ j.again THEN "giveup" ELSE "done"

LoadFromDB(w) == At(w, "select") /\ Read(w, "fill", LoadMissed(job[w]))

Fill(w) ==
  /\ At(w, "fill") /\ Writable(Obj(w))
  /\ heap' = [heap EXCEPT ![Obj(w)] =
                 Filled(@, job[w].read, job[w].op \in LoadsCas)]
  /\ job' = [job EXCEPT ![w].old = None, ![w].read = NoRow]
  /\ Goto(w, IF job[w].op = "add" THEN "done" ELSE "serve")
  /\ UNCHANGED <<row, mapped, ghost>>

\* SelectAllFromDB reads the rows first and enters the records afterwards.
SelectAllFromDB(w) == At(w, "selectall") /\ Read(w, "fillall", "done")

InsertCacheRecord(w) ==
  LET o == IF mapped = None THEN NewObject ELSE mapped
      r == IF mapped = None THEN Blank ELSE heap[o] IN
  /\ At(w, "fillall") /\ Writable(o)
  /\ mapped' = o
  /\ heap' = [heap EXCEPT ![o] = Filled(r, job[w].read, TRUE)]
  /\ Goto(w, "done")
  /\ UNCHANGED <<row, job, ghost>>

-----------------------------------------------------------------------------
(* Answering a request from the record.                                    *)

Wrote(F) == /\ stamp' = stamp + 1
            /\ latest' = [f \in Fields |-> IF f \in F THEN stamp + 1 ELSE latest[f]]

SetValue(w, o) ==
  /\ Writable(o)
  /\ heap' = [heap EXCEPT ![o] = Written(@, job[w].fields, stamp + 1)]
  /\ Wrote(job[w].fields)

ServeGet(w) ==
  /\ At(w, "serve") /\ job[w].op \in {"get", "gets", "load", "loadcas"}
  /\ token' = IF job[w].op \in {"gets", "loadcas"}
              THEN [token EXCEPT ![w] = [cas |-> Cas(Obj(w)), val |-> heap[Obj(w)].val]]
              ELSE token
  /\ Goto(w, "done")
  /\ UNCHANGED <<row, mapped, heap, job, stamp, latest, requests, faults>>

ServeSet(w) ==
  /\ At(w, "serve") /\ job[w].op = "set"
  /\ SetValue(w, Obj(w))
  /\ Goto(w, "done")
  /\ UNCHANGED <<row, mapped, job, token, requests, faults>>

CasMatches(w) == Cas(Obj(w)) = job[w].tok.cas

\* CheckAndSetValue; a mismatch makes the handler reload and try once more.
ServeCas(w) ==
  /\ At(w, "serve") /\ job[w].op = "cas" /\ CasMatches(w)
  /\ SetValue(w, Obj(w))
  /\ job' = [job EXCEPT ![w].res = "OK", ![w].tok.val =
                [f \in Fields |-> IF f \in job[w].fields THEN stamp + 1 ELSE @[f]]]
  /\ Goto(w, "getcas")
  /\ UNCHANGED <<row, mapped, token, requests, faults>>

CasMismatch(w) ==
  /\ At(w, "serve") /\ job[w].op = "cas" /\ ~CasMatches(w)
  /\ Writable(Obj(w))
  /\ IF job[w].again
     THEN job' = [job EXCEPT ![w].res = "EXISTS"] /\ Goto(w, "getcas")
     ELSE /\ job' = [job EXCEPT ![w].again = TRUE, ![w].old = Obj(w)]
          /\ Goto(w, "insert")
  /\ UNCHANGED <<row, mapped, heap, ghost>>

\* The reload found nothing: the answer is the first mismatch.
CasReloadFailed(w) ==
  /\ At(w, "giveup")
  /\ job' = [job EXCEPT ![w].obj = job[w].old, ![w].res = "EXISTS"]
  /\ Goto(w, "getcas")
  /\ UNCHANGED <<row, mapped, heap, ghost>>

\* The cas code of the reply is read by a second call, after the update.
ReplyCas(w) ==
  /\ At(w, "getcas")
  /\ token' = IF job[w].res = "OK"
              THEN [token EXCEPT ![w] = [cas |-> Cas(Obj(w)), val |-> job[w].tok.val]]
              ELSE token
  /\ Goto(w, "done")
  /\ UNCHANGED <<row, mapped, heap, job, stamp, latest, requests, faults>>

-----------------------------------------------------------------------------
(* Taking the record out of the table, adding one.                         *)

\* HandleStore without a record writes through a temporary one.
StoreTemporary(w) ==
  LET j == job[w] IN
  /\ heap' = [heap EXCEPT ![NewObject] = Written(
                [Blank EXCEPT !.cas = IF j.op = "storecas" THEN j.tok.cas ELSE 0],
                j.fields, stamp + 1)]
  /\ job' = [job EXCEPT ![w].obj = NewObject, ![w].phase = j.op]
  /\ Wrote(j.fields)
  /\ Goto(w, "take")
  /\ UNCHANGED <<row, mapped, token, requests, faults>>

\* RemoveMemoryRecord; the record is written back after it left the table.
RemoveMemoryRecord(w) ==
  /\ At(w, "detach")
  /\ IF mapped = None /\ job[w].op \in {"store", "storecas"}
     THEN StoreTemporary(w)
     ELSE /\ mapped' = None
          /\ job' = [job EXCEPT ![w].obj = mapped]
          /\ Goto(w, CASE job[w].op \in {"store", "storecas"} -> "apply"
                       [] job[w].op = "del" -> "delete"
                       [] OTHER -> IF mapped = None THEN "done" ELSE "try")
          /\ UNCHANGED <<row, heap, ghost>>

StoreApply(w) ==
  /\ At(w, "apply")
  /\ IF job[w].op = "store" \/ CasMatches(w)
     THEN SetValue(w, Obj(w))
     ELSE Writable(Obj(w)) /\ UNCHANGED <<heap, stamp, latest>>
  /\ Goto(w, "try")
  /\ UNCHANGED <<row, mapped, job, token, requests, faults>>

DeleteFromDB(w) ==
  /\ At(w, "delete")
  /\ \E out \in Outcomes(job[w]) :
       /\ Write(w, out)
       /\ Goto(w, IF out.res = "OK" /\ Obj(w) # None THEN "reset" ELSE "done")
  /\ UNCHANGED job

ResetChgType(w) ==
  /\ At(w, "reset")
  /\ heap' = [heap EXCEPT ![Obj(w)].chg = "NIL"]
  /\ Goto(w, "done")
  /\ UNCHANGED <<row, mapped, job, ghost>>

\* AddCacheRecord: a new record has its fields marked but no change type; a
\* record that is already there is set.  Both go on to AddToDB.
AddCacheRecord(w) ==
  LET F == job[w].fields IN
  /\ At(w, "add")
  /\ IF mapped # None
     THEN /\ SetValue(w, mapped)
          /\ job' = [job EXCEPT ![w].obj = mapped, ![w].phase = "add"]
          /\ UNCHANGED mapped
     ELSE /\ mapped' = NewObject
          /\ heap' = [heap EXCEPT ![NewObject] = [Blank EXCEPT !.dirty = F,
                        !.val = [f \in Fields |-> IF f \in F THEN stamp + 1 ELSE 0]]]
          /\ job' = [job EXCEPT ![w].obj = NewObject, ![w].phase = "add"]
          /\ Wrote(F)
  /\ Goto(w, "take")
  /\ UNCHANGED <<row, token, requests, faults>>

-----------------------------------------------------------------------------
(* CheckUpdateAndReloadRecord, guarded by the record's m_bLock.            *)

\* Mutant: m_bLock is taken without looking.
MutLockFree(o) == TRUE

LockFree(o) == ~heap[o].busy

\* A thread that finds m_bLock taken leaves the record to the other one.
TryBusy(w) ==
  /\ At(w, "try") /\ ~LockFree(Obj(w))
  /\ Goto(w, "done")
  /\ UNCHANGED <<row, mapped, heap, job, ghost>>

TryTaken(w) ==
  /\ At(w, "try") /\ LockFree(Obj(w))
  /\ heap' = [heap EXCEPT ![Obj(w)].busy = TRUE]
  /\ Goto(w, "check")
  /\ UNCHANGED <<row, mapped, job, ghost>>

CheckChange(w) ==
  /\ At(w, "check")
  /\ IF heap[Obj(w)].chg = "NIL"
     THEN Goto(w, "unlock") /\ UNCHANGED job
     ELSE Goto(w, "take") /\ job' = [job EXCEPT ![w].phase = "check"]
  /\ UNCHANGED <<row, mapped, heap, ghost>>

Unlock(w) ==
  /\ At(w, "unlock")
  /\ heap' = [heap EXCEPT ![Obj(w)].busy = FALSE]
  /\ Goto(w, "done")
  /\ UNCHANGED <<row, mapped, job, ghost>>

\* UpdateToDB and AddToDB.  GetValueAndChgType clears the marks and swaps the
\* change type under the read lock, which does not keep a second thread out.
TakeValue(w) ==
  LET r == heap[Obj(w)] IN
  /\ At(w, "take")
  /\ job' = [job EXCEPT ![w].took =
                [f \in Fields |-> IF f \in r.dirty THEN r.val[f] ELSE 0]]
  /\ heap' = [heap EXCEPT ![Obj(w)].dirty = {}]
  /\ Goto(w, "takechg")
  /\ UNCHANGED <<row, mapped, ghost>>

TakeChgType(w) ==
  /\ At(w, "takechg")
  /\ job' = [job EXCEPT ![w].chg = heap[Obj(w)].chg]
  /\ heap' = [heap EXCEPT ![Obj(w)].chg = "NIL"]
  /\ Goto(w, CASE job[w].phase \in Guarded -> "memcas"
               [] job[w].phase \in Inserting -> "flushcas"
               [] OTHER -> "query")
  /\ UNCHANGED <<row, mapped, ghost>>

GetDBCas(w) ==
  /\ At(w, "memcas")
  /\ job' = [job EXCEPT ![w].memcas = heap[Obj(w)].cas]
  /\ Goto(w, "flushcas")
  /\ UNCHANGED <<row, mapped, heap, ghost>>

FlushDBCas(w) ==
  /\ At(w, "flushcas") /\ Writable(Obj(w))
  /\ heap' = [heap EXCEPT ![Obj(w)] = CasFlushed(@)]
  /\ job' = [job EXCEPT ![w].newcas = Cas(Obj(w))]
  /\ Goto(w, "query")
  /\ UNCHANGED <<row, mapped, ghost>>

\* Mutant: a cas mismatch of the write-back is not followed up.
MutReturnTo(j, res) ==
  CASE j.phase = "check" /\ res = "NOTFOUND" -> "take"
    [] j.phase \in {"check", "again", "readd"} -> "unlock"
    [] j.phase = "add" /\ res # "OK" -> "select"
    [] OTHER -> "done"

\* What the callers of UpdateToDB and AddToDB do with the result.
ReturnTo(j, res) ==
  CASE j.phase = "check" /\ res = "NOTFOUND" -> "take"
    [] j.phase = "check" /\ res = "EXISTS" -> "loadcas"
    [] j.phase \in {"check", "again", "readd"} -> "unlock"
    [] j.phase = "add" /\ res # "OK" -> "select"
    [] OTHER -> "done"

Returned(j, res) ==
  [j EXCEPT !.took = Nothing, !.chg = "NIL", !.memcas = 0, !.newcas = 0, !.res = None,
            !.phase = IF @ = "check" /\ res = "NOTFOUND" THEN "readd" ELSE @]

\* Mutant: a failed write-back is forgotten.
MutRecovers(j, res) == FALSE

Recovers(j, res) == res # "OK" /\ j.chg # "NIL"

Query(w) ==
  /\ At(w, "query")
  /\ \E out \in Outcomes(job[w]) :
       /\ Write(w, out)
       /\ IF Recovers(job[w], out.res)
          THEN Goto(w, "recover") /\ job' = [job EXCEPT ![w].res = out.res]
          ELSE /\ Goto(w, ReturnTo(job[w], out.res))
               /\ job' = [job EXCEPT ![w] = Returned(@, out.res)]

RecoverChgType(w) ==
  /\ At(w, "recover") /\ Writable(Obj(w))
  /\ heap' = [heap EXCEPT ![Obj(w)] = Recovered(@, job[w].took, job[w].chg)]
  /\ job' = [job EXCEPT ![w] = Returned(@, @.res)]
  /\ Goto(w, ReturnTo(job[w], job[w].res))
  /\ UNCHANGED <<row, mapped, ghost>>

LoadCasFromDB(w) == At(w, "loadcas") /\ Read(w, "setcas", "unlock")

ChangeCas(w) ==
  /\ At(w, "setcas") /\ Writable(Obj(w))
  /\ heap' = [heap EXCEPT ![Obj(w)].cas = job[w].read.cas, ![Obj(w)].inc = 0]
  /\ job' = [job EXCEPT ![w].phase = "again", ![w].read = NoRow]
  /\ Goto(w, "take")
  /\ UNCHANGED <<row, mapped, ghost>>

-----------------------------------------------------------------------------
TableStep(w) == FindMemoryRecord(w) \/ InsertMemoryRecord(w) \/ LoadFromDB(w)
                  \/ Fill(w) \/ SelectAllFromDB(w) \/ InsertCacheRecord(w)
                  \/ RemoveMemoryRecord(w) \/ AddCacheRecord(w)
ServeStep(w) == ServeGet(w) \/ ServeSet(w) \/ ServeCas(w) \/ CasMismatch(w)
                  \/ CasReloadFailed(w) \/ ReplyCas(w) \/ StoreApply(w)
                  \/ DeleteFromDB(w) \/ ResetChgType(w) \/ Finish(w)
FlushStep(w) == TryBusy(w) \/ TryTaken(w) \/ CheckChange(w) \/ Unlock(w)
                  \/ TakeValue(w) \/ TakeChgType(w) \/ GetDBCas(w)
                  \/ FlushDBCas(w) \/ Query(w) \/ RecoverChgType(w)
                  \/ LoadCasFromDB(w) \/ ChangeCas(w)
Step(w) == TableStep(w) \/ ServeStep(w) \/ FlushStep(w)

Next == \/ \E w \in Workers : Step(w)
        \/ \E w \in Clients, op \in Ops : Request(w, op)
        \/ \E op \in TimerOps : TimerFires(op)

Spec == Init /\ [][Next]_vars

\* Every thread keeps running and the timer keeps firing; clients need not
\* send anything.  A step under a record's or the table's lock is fair here
\* like any other: that is an assumption about these locks, which are
\* CSpinRWLock with readers and writers and do not guarantee it.  A reader's
\* Unlock that takes the writer's branch loses a read lock and holds every
\* later writer out for ever (WriterEnters, violated in SpinRWLock).  FairSpec
\* describes the executions in which every wait for them ends.
FairSpec == /\ Spec
            /\ \A w \in Workers : WF_vars(Step(w))
            /\ WF_vars(\E op \in TimerOps : TimerFires(op))
-----------------------------------------------------------------------------
(* Properties.                                                             *)

Locations == {"idle", "find", "insert", "select", "fill", "selectall", "fillall",
              "serve", "giveup", "getcas", "detach", "apply", "add", "delete",
              "reset", "try", "check", "take", "takechg", "memcas", "flushcas",
              "query", "recover", "loadcas", "setcas", "unlock", "done"}
Values == [Fields -> Stamps]
Cases == 0 .. MaxRequests + 1     \* a write advances a cas code by one
Rows == [there : BOOLEAN, val : Values, cas : Cases]
Records == [val : Values, dirty : SUBSET Fields, cas : Cases, inc : Cases,
            chg : {"NIL", "UPDATE"}, busy : BOOLEAN]

TypeOK ==
  /\ row \in Rows
  /\ mapped \in Objects \cup {None}
  /\ heap \in [Objects -> Records]
  /\ pc \in [Workers -> Locations]
  /\ \A w \in Workers : /\ job[w].obj \in Objects \cup {None}
                        /\ job[w].took \in Values /\ job[w].read \in Rows
  /\ latest \in Values /\ stamp \in Stamps

Quiet == \A w \in Clients : At(w, "idle")
Flushing == {"take", "takechg", "memcas", "flushcas", "query", "recover"}
InRegion(w) == \/ pc[w] \in {"check", "unlock", "loadcas", "setcas"}
               \/ /\ pc[w] \in Flushing
                  /\ job[w].phase \in {"check", "again", "readd"}
Owners(o) == {w \in Workers : InRegion(w) /\ Obj(w) = o}

\* m_bLock is held exactly while one thread runs CheckUpdateAndReloadRecord on
\* the record: never two, and no way out of it, by any result of the database,
\* leaves the record locked for ever.
FlushLock == \A o \in Objects :
  Cardinality(Owners(o)) = IF heap[o].busy THEN 1 ELSE 0

\* A field of a cached record that is marked as changed is known to the timer:
\* m_u8ChgType says UPDATE, whatever requests, write-backs and failed queries
\* interleave.  (A record just added is the exception until AddToDB takes it.)
DirtyIsScheduled ==
  mapped # None /\ heap[mapped].dirty # {} =>
    \/ heap[mapped].chg = "UPDATE"
    \/ \E w \in Workers : At(w, "take") /\ job[w].phase = "add" /\ Obj(w) = mapped

\* When no request is being served, the record (or, if none is cached, the
\* row) has in each field the last value a client was told is set.
LatestKept ==
  Quiet =>
     IF mapped # None THEN heap[mapped].val = latest
     ELSE At(Timer, "idle") => row.val = latest

\* A cached record without marks that nobody is writing back is what the
\* database holds: failed, lost and repeated queries are always made good.
CleanMatchesRow ==
  mapped # None /\ heap[mapped].dirty = {} /\ Owners(mapped) = {}
    => heap[mapped].val = row.val

\* What a record that stays cached owes its row, whatever queries fail: see
\* WriteBack.  Only the timer flushes it.
Cached == IF mapped = None THEN Blank ELSE heap[mapped]
Buffer == INSTANCE WriteBack WITH
  cache <- Cached.val, marked <- Cached.dirty, taken <- job[Timer].took,
  disk <- row.val
ImplementsWriteBack == Buffer!Spec

\* The database never goes back: no write replaces a field by an older value,
\* and none lowers the cas code.
RowMovesForward ==
  [][row'.cas >= row.cas /\ \A f \in Fields : row'.val[f] >= row.val[f]]_vars

\* When the clients fall silent the database catches up with the last values
\* they set, provided that whoever waits for a record's or the table's lock
\* gets it in the end (see FairSpec).  With a read lock lost, SetValue, FlushDBCas
\* or RecoverChgType may wait for ever, and the database does not catch up.
EventuallyStored == <>[]Quiet => <>[](row.val = latest)

\* A cas code is good for the value it was given out with and no other: when
\* CheckAndSetValue accepts it, the record still holds that value.
CasGuards == \A w \in Clients :
  At(w, "serve") /\ job[w].op = "cas" /\ CasMatches(w)
    => heap[Obj(w)].val = job[w].tok.val
=============================================================================
