-------------------------- MODULE WriteBackProofs --------------------------
(***************************************************************************)
(* What follows from taking marks, storing and restoring alone, for any    *)
(* fields: nothing is forgotten and the database never goes back.          *)
(***************************************************************************)
EXTENDS WriteBack, TLAPS

\* An unmarked field is what the flush has taken or, if it took nothing of it,
\* what the database has.
Caught ==
  \A f \in Fields \ marked : cache[f] = IF taken[f] # 0 THEN taken[f] ELSE disk[f]

\* The database is behind what was taken, and that behind the cache.
Ordered ==
  \A f \in Fields : /\ disk[f] <= cache[f]
                    /\ taken[f] # 0 => disk[f] <= taken[f] /\ taken[f] <= cache[f]

TypeInv ==
  /\ cache \in Values /\ disk \in Values
  /\ marked \in SUBSET Fields /\ taken \in [Fields -> Nat]

Inv == TypeInv /\ Caught /\ Ordered

DiskNewer == \A f \in Fields : disk'[f] >= disk[f]

LEMMA InitInv == Init => Inv
BY DEF Init, Inv, TypeInv, Caught, Ordered, Values, Nothing

LEMMA SetInv ==
  ASSUME Inv, NEW F \in SUBSET Fields, Set(F)
  PROVE  Inv' /\ DiskNewer
<1>1. TypeInv'
  BY DEF Inv, TypeInv, Set
<1>2. \A f \in Fields : cache'[f] >= cache[f] /\ (f \notin F => cache'[f] = cache[f])
  BY DEF Inv, TypeInv, Values, Set
<1>3. Caught' /\ Ordered' /\ DiskNewer
  BY <1>1, <1>2 DEF Inv, TypeInv, Caught, Ordered, Values, Set, DiskNewer
<1> QED
  BY <1>1, <1>3 DEF Inv

LEMMA TakeInv ==
  ASSUME Inv, Take
  PROVE  Inv' /\ DiskNewer
<1>1. TypeInv'
  BY DEF Inv, TypeInv, Values, Take
<1>2. Caught' /\ Ordered' /\ DiskNewer
  BY <1>1 DEF Inv, TypeInv, Caught, Ordered, Values, Nothing, Take, DiskNewer
<1> QED
  BY <1>1, <1>2 DEF Inv

LEMMA StoreInv ==
  ASSUME Inv, Store
  PROVE  Inv' /\ DiskNewer
<1>1. TypeInv'
  BY DEF Inv, TypeInv, Values, Store, Merge, Nothing
<1>2. \A f \in Fields : /\ disk'[f] = IF taken[f] # 0 THEN taken[f] ELSE disk[f]
                        /\ taken'[f] \in {taken[f], 0}
  BY DEF Inv, TypeInv, Store, Merge, Nothing
<1>3. Caught' /\ Ordered' /\ DiskNewer
  BY <1>1, <1>2 DEF Inv, TypeInv, Caught, Ordered, Values, Store, DiskNewer
<1> QED
  BY <1>1, <1>3 DEF Inv

LEMMA RestoreInv ==
  ASSUME Inv, Restore
  PROVE  Inv' /\ DiskNewer
<1>1. TypeInv'
  BY DEF Inv, TypeInv, Restore, Nothing
<1>2. Caught' /\ Ordered' /\ DiskNewer
  BY <1>1 DEF Inv, TypeInv, Caught, Ordered, Values, Restore, Nothing, DiskNewer
<1> QED
  BY <1>1, <1>2 DEF Inv

LEMMA NextInv == Inv /\ [Next]_vars => Inv' /\ (DiskNewer \/ UNCHANGED vars)
<1> SUFFICES ASSUME Inv, [Next]_vars
             PROVE  Inv' /\ (DiskNewer \/ UNCHANGED vars)
  OBVIOUS
<1>1. CASE Next
  BY <1>1, SetInv, TakeInv, StoreInv, RestoreInv DEF Next
<1>2. CASE UNCHANGED vars
  BY <1>2 DEF vars, Inv, TypeInv, Caught, Ordered
<1> QED
  BY <1>1, <1>2

\* A cache without marks that no flush is at work on is what the database has,
\* however often it was set and a flush had to be repeated.
NothingMissing == marked = {} /\ taken = Nothing => disk = cache
LEMMA NothingLemma == Inv => NothingMissing
BY DEF Inv, TypeInv, Caught, Values, NothingMissing, Nothing
THEOREM NothingForgotten == Spec => []NothingMissing
BY NothingLemma, InitInv, NextInv, PTL DEF Spec

\* No store puts an older value over a newer one.
DiskMovesForward == [][DiskNewer]_vars
THEOREM NeverBack == Spec => DiskMovesForward
<1>1. Inv /\ [Next]_vars => [DiskNewer]_vars
  BY NextInv
<1> QED
  BY <1>1, InitInv, NextInv, PTL DEF Spec, DiskMovesForward
=============================================================================
