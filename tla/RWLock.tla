------------------------------- MODULE RWLock -------------------------------
(***************************************************************************)
(* What IRWLock (shared/include/threading/IRWLock.h) promises its callers, *)
(* CScopedReadLock and CScopedWriteLock: many readers or one writer.  A    *)
(* writer may keep reading without letting another writer in between       *)
(* (DegradeLockWrite); a reader that wants to write gives its read lock up *)
(* first (UpgradeLockRead), so the upgrade is a Release and a later        *)
(* AcquireWrite.                                                           *)
(***************************************************************************)
CONSTANT Threads

VARIABLE holding    \* what each thread holds: "none", "read" or "write"

Init == holding = [t \in Threads |-> "none"]

AcquireRead(t) ==
  /\ holding[t] = "none"
  /\ \A u \in Threads : holding[u] # "write"
  /\ holding' = [holding EXCEPT ![t] = "read"]

AcquireWrite(t) ==
  /\ \A u \in Threads : holding[u] = "none"
  /\ holding' = [holding EXCEPT ![t] = "write"]

Degrade(t) ==
  /\ holding[t] = "write"
  /\ holding' = [holding EXCEPT ![t] = "read"]

Release(t) ==
  /\ holding[t] # "none"
  /\ holding' = [holding EXCEPT ![t] = "none"]

Next == \E t \in Threads :
          AcquireRead(t) \/ AcquireWrite(t) \/ Degrade(t) \/ Release(t)

Spec == Init /\ [][Next]_holding
=============================================================================
