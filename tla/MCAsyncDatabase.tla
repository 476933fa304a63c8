-------------------------- MODULE MCAsyncDatabase --------------------------
(* Small instances of AsyncDatabase: two callers and three pool threads, so *)
(* that there is one thread more than connections to refuse.                *)
EXTENDS AsyncDatabase

TwoCallers == {"c1", "c2"}
ThreeThreads == {"w1", "w2", "w3"}
Mixed == [c \in TwoCallers |->
            IF c = "c1" THEN {"execute", "wait"} ELSE {"query"}]
Queries == [c \in TwoCallers |-> {"query"}]
=============================================================================
