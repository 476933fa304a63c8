---------------------------- MODULE MCThreadPool ---------------------------
(* Instances of the pool: three threads for two places of the array, and     *)
(* three threads and two callers for one place, so that threads find the     *)
(* array full and callers may not start any more.                            *)
EXTENDS ThreadPool

CONSTANTS t1, t2, t3, k1, k2, k3
ThreeThreads == {t1, t2, t3}
OneCaller == {"c1"}
TwoCallers == {"c1", "c2"}
TwoTasks == {k1, k2}
ThreeTasks == {k1, k2, k3}
=============================================================================
