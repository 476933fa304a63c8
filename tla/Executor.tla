------------------------------ MODULE Executor -----------------------------
(***************************************************************************)
(* What database::Database promises its callers: a statement handed in is  *)
(* taken up after those that were in its queue before it, each is executed *)
(* once, and never more than MaxRunning at a time, each with a connection  *)
(* of its own.  A caller may also execute one at once, beside the queues.  *)
(***************************************************************************)
EXTENDS Naturals, Sequences, FiniteSets

CONSTANTS Calls, Queues, MaxRunning

VARIABLES
  queued,    \* for each queue the calls that wait, in their order
  running,   \* calls being executed
  ended      \* calls that were executed

vars == <<queued, running, ended>>

Init == queued = [q \in Queues |-> <<>>] /\ running = {} /\ ended = {}

Known ==
  (UNION {{queued[q][i] : i \in DOMAIN queued[q]} : q \in Queues}) \cup running \cup ended

Submit(q, n) ==
  /\ n \notin Known
  /\ queued' = [queued EXCEPT ![q] = Append(@, n)]
  /\ UNCHANGED <<running, ended>>

Start(q) ==
  /\ queued[q] # <<>> /\ Cardinality(running) < MaxRunning
  /\ running' = running \cup {Head(queued[q])}
  /\ queued' = [queued EXCEPT ![q] = Tail(@)]
  /\ UNCHANGED ended

StartNow(n) ==
  /\ n \notin Known /\ Cardinality(running) < MaxRunning
  /\ running' = running \cup {n}
  /\ UNCHANGED <<queued, ended>>

End(n) ==
  /\ n \in running
  /\ running' = running \ {n} /\ ended' = ended \cup {n}
  /\ UNCHANGED queued

Next ==
  \/ \E q \in Queues : Start(q) \/ \E n \in Calls : Submit(q, n)
  \/ \E n \in Calls : StartNow(n) \/ End(n)

Spec == Init /\ [][Next]_vars
=============================================================================
