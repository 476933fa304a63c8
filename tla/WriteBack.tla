----------------------------- MODULE WriteBack -----------------------------
(***************************************************************************)
(* What a cached record owes the database behind it.  Clients set fields of *)
(* the cache, at any time; a flush takes the marked fields, all of them,    *)
(* and either the database has what it took or they are marked again.      *)
(* Between the two the answer may be late or lost: the database may have    *)
(* the values although the flush does not know.                            *)
(***************************************************************************)
EXTENDS Naturals

CONSTANT Fields

VARIABLES
  cache,    \* a value for each field; later values are greater
  marked,   \* the fields that the next flush must take
  taken,    \* what the flush has taken, 0 where it took nothing
  disk      \* what the database has

vars == <<cache, marked, taken, disk>>

Values == [Fields -> Nat \ {0}]
Nothing == [f \in Fields |-> 0]
Merge(val, new) == [f \in Fields |-> IF new[f] # 0 THEN new[f] ELSE val[f]]

Init == cache \in Values /\ disk = cache /\ marked = {} /\ taken = Nothing

Set(F) ==
  /\ cache' \in Values
  /\ \A f \in Fields : IF f \in F THEN cache'[f] > cache[f] ELSE cache'[f] = cache[f]
  /\ marked' = marked \cup F
  /\ UNCHANGED <<taken, disk>>

Take ==
  /\ taken = Nothing
  /\ taken' = [f \in Fields |-> IF f \in marked THEN cache[f] ELSE 0]
  /\ marked' = {}
  /\ UNCHANGED <<cache, disk>>

\* The database has it; the flush may still have to learn so.
Store ==
  /\ disk' = Merge(disk, taken)
  /\ taken' \in {taken, Nothing}
  /\ UNCHANGED <<cache, marked>>

Restore ==
  /\ marked' = marked \cup {f \in Fields : taken[f] # 0}
  /\ taken' = Nothing
  /\ UNCHANGED <<cache, disk>>

Next == (\E F \in SUBSET Fields : Set(F)) \/ Take \/ Store \/ Restore

Spec == Init /\ [][Next]_vars
=============================================================================
