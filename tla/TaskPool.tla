----------------------------- MODULE TaskPool ------------------------------
(***************************************************************************)
(* What CThreadPool promises its callers: a task that was handed over is   *)
(* run, tasks are taken up in the order they were handed over, never more  *)
(* than MaxThreads at once, and each of them once.  A task that ends makes *)
(* way; once the pool is closed nothing is owed any more.                  *)
(***************************************************************************)
EXTENDS Naturals, Sequences, FiniteSets

CONSTANTS Tasks, MaxThreads

VARIABLES
  waiting,   \* tasks handed over, in their order
  running,   \* tasks being run
  ended,     \* tasks that were run
  closed     \* Shutdown was called, or no thread could come

vars == <<waiting, running, ended, closed>>

Init == waiting = <<>> /\ running = {} /\ ended = {} /\ closed = FALSE

Known == {waiting[i] : i \in DOMAIN waiting} \cup running \cup ended

Submit(k) ==
  /\ k \notin Known
  /\ waiting' = Append(waiting, k)
  /\ UNCHANGED <<running, ended, closed>>

Start ==
  /\ waiting # <<>> /\ Cardinality(running) < MaxThreads
  /\ running' = running \cup {Head(waiting)}
  /\ waiting' = Tail(waiting)
  /\ UNCHANGED <<ended, closed>>

End(k) ==
  /\ k \in running
  /\ running' = running \ {k} /\ ended' = ended \cup {k}
  /\ UNCHANGED <<waiting, closed>>

Close == closed' = TRUE /\ UNCHANGED <<waiting, running, ended>>

Next == Start \/ Close \/ \E k \in Tasks : Submit(k) \/ End(k)

SafeSpec == Init /\ [][Next]_vars
Spec == SafeSpec /\ WF_vars(~closed /\ Start)
=============================================================================
