--------------------------- MODULE MCCacheMemory ---------------------------
(* Small instances of CacheMemory: two client threads and the timer, seven  *)
(* record objects (each thread may hold two), one or two fields.            *)
EXTENDS CacheMemory, TLC

CONSTANTS c1, c2, timer, f1, f2

TwoClients == {c1, c2}
SevenObjects == {"r1", "r2", "r3", "r4", "r5", "r6", "r7"}
OneField == {f1}
TwoFields == {f1, f2}

AllOps == {"set", "cas", "load", "loadall",
           "store", "storecas", "flush", "add", "del"}
CachedOps == {"get", "gets", "set"}
ColdOps == {"get", "set"}
CasOps == {"gets", "set", "cas"}
Sweep == {"sweep"}
SweepAndExpire == {"sweep", "expire"}

Symmetry == Permutations(TwoClients)

Yes == {TRUE}
No == {FALSE}
=============================================================================
