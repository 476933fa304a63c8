-------------------------- MODULE ThreadPoolProofs -------------------------
(***************************************************************************)
(* For any threads, callers and tasks and any size of the pool: the array  *)
(* and the indices agree, a task is in one place at most, no more threads  *)
(* run tasks than the array has places, the pool takes the steps of        *)
(* TaskPool, and a task in the queue has somebody who will look at it.     *)
(***************************************************************************)
EXTENDS ThreadPool, FiniteSetTheorems, TLAPS

(* The array.                                                              *)

\* Fields of the pool after a thread was put into a place.
LEMMA PlaceLemma ==
  ASSUME NEW p \in Pools, NEW t \in Threads, NEW i \in Slots
  PROVE  /\ Place(p, t, i) \in Pools
         /\ Place(p, t, i).arr = [p.arr EXCEPT ![i] = t]
         /\ Place(p, t, i).index = [p.index EXCEPT ![t] = i]
         /\ Place(p, t, i).offset = p.offset
         /\ Place(p, t, i).size = p.size
BY SizeAssumption DEF SizeAssumption, Place, Pools, Slots

LEMMA SizedLemma ==
  ASSUME NEW p \in Pools, NEW o \in -1 .. (MaxThreads - 1), NEW s \in 0 .. MaxThreads
  PROVE  /\ Sized(p, o, s) \in Pools
         /\ Sized(p, o, s).arr = p.arr /\ Sized(p, o, s).index = p.index
         /\ Sized(p, o, s).offset = o /\ Sized(p, o, s).size = s
BY DEF Sized, Pools

LEMMA RemoveLemma ==
  ASSUME NEW p \in Pools, NEW t \in Threads, NEW i \in Slots
  PROVE  /\ Remove(p, t, i) \in Pools
         /\ Remove(p, t, i).arr = [p.arr EXCEPT ![i] = NoThread]
         /\ Remove(p, t, i).index = [p.index EXCEPT ![t] = -1]
         /\ Remove(p, t, i).offset = p.offset
         /\ Remove(p, t, i).size = p.size
BY SizeAssumption DEF SizeAssumption, Remove, Pools, Slots

\* The fields of a pool and the bounds of an arranged one.
LEMMA PoolsLemma ==
  ASSUME NEW p \in Pools
  PROVE  /\ p.arr \in [Slots -> Threads \cup {NoThread}]
         /\ p.index \in [Threads -> -1 .. (MaxThreads - 1)]
         /\ p.offset \in Int /\ p.size \in Nat
         /\ -1 <= p.offset /\ p.offset < MaxThreads /\ p.size <= MaxThreads
BY SizeAssumption DEF SizeAssumption, Pools

\* A thread from outside becomes the last active one.
LEMMA InsertLemma ==
  ASSUME NEW p \in Pools, NEW A \in SUBSET Threads, NEW I \in SUBSET Threads,
         A \cap I = {}, Arranged(p, A, I),
         NEW t \in Threads, t \notin A, t \notin I, p.size < MaxThreads
  PROVE  /\ InsertActiveThread(p, t) \in Pools
         /\ Arranged(InsertActiveThread(p, t), A \cup {t}, I)
<1> DEFINE u == p.arr[p.offset + 1]
           q == IF p.offset + 1 < p.size THEN Place(p, u, p.size) ELSE p
           r == Place(q, t, p.offset + 1)
           n == Sized(r, p.offset + 1, p.size + 1)
<1>1. /\ p.offset \in Int /\ p.size \in Nat /\ -1 <= p.offset /\ p.offset < p.size
      /\ p.arr \in [Slots -> Threads \cup {NoThread}]
      /\ p.index \in [Threads -> -1 .. (MaxThreads - 1)]
  BY PoolsLemma DEF Arranged
<1>2. /\ p.size \in Slots /\ p.offset + 1 \in Slots
      /\ p.offset + 1 \in -1 .. (MaxThreads - 1) /\ p.size + 1 \in 0 .. MaxThreads
  BY <1>1, SizeAssumption DEF SizeAssumption, Slots
<1>3. InsertActiveThread(p, t) = n
  BY DEF InsertActiveThread
<1>4. SUFFICES n \in Pools /\ Arranged(n, A \cup {t}, I)
  BY <1>3
<1>5. CASE p.offset + 1 < p.size
  <2>1. u \in I /\ u \in Threads /\ p.index[u] = p.offset + 1
    BY <1>1, <1>5 DEF Arranged
  <2>2. q = Place(p, u, p.size)
    BY <1>5
  <2>3. u = p.arr[p.offset + 1]
    OBVIOUS
  <2> HIDE DEF n, r, q, u
  <2>4. /\ q \in Pools /\ q.arr = [p.arr EXCEPT ![p.size] = u]
        /\ q.index = [p.index EXCEPT ![u] = p.size]
    BY <1>2, <2>1, <2>2, PlaceLemma
  <2>a. q \in Pools
    BY <2>4
  <2>5. /\ r \in Pools /\ r.arr = [q.arr EXCEPT ![p.offset + 1] = t]
        /\ r.index = [q.index EXCEPT ![t] = p.offset + 1]
    <3>1. t \in Threads /\ p.offset + 1 \in Slots /\ r = Place(q, t, p.offset + 1)
      BY <1>2 DEF r
    <3>2. Place(q, t, p.offset + 1) \in Pools
      BY <2>a, <3>1, PlaceLemma
    <3>3. /\ Place(q, t, p.offset + 1).arr = [q.arr EXCEPT ![p.offset + 1] = t]
          /\ Place(q, t, p.offset + 1).index = [q.index EXCEPT ![t] = p.offset + 1]
          /\ Place(q, t, p.offset + 1).offset = q.offset
      BY DEF Place
    <3> QED
      BY <3>1, <3>2, <3>3
  <2>6. /\ n \in Pools /\ n.arr = r.arr /\ n.index = r.index
        /\ n.offset = p.offset + 1 /\ n.size = p.size + 1
    BY <1>2, <2>5, SizedLemma DEF n
  <2>7. \A j \in Slots : n.arr[j] = IF j = p.offset + 1 THEN t
                                   ELSE IF j = p.size THEN u ELSE p.arr[j]
    BY <1>1, <2>4, <2>5, <2>6
  <2>8. \A v \in Threads : n.index[v] = IF v = t THEN p.offset + 1
                                       ELSE IF v = u THEN p.size ELSE p.index[v]
    BY <1>1, <2>4, <2>5, <2>6
  <2>9. \A j \in 0 .. n.size - 1 : j \in Slots
    BY <1>2, <2>6, SizeAssumption DEF SizeAssumption, Slots
  <2>10. \A j \in 0 .. n.offset : n.arr[j] \in A \cup {t} /\ n.index[n.arr[j]] = j
    BY <1>1, <1>5, <2>1, <2>6, <2>7, <2>8, <2>9 DEF Arranged
  <2>11. \A j \in (n.offset + 1) .. (n.size - 1) : n.arr[j] \in I /\ n.index[n.arr[j]] = j
    BY <1>1, <1>5, <2>1, <2>3, <2>6, <2>7, <2>8, <2>9 DEF Arranged
  <2>12. \A v \in A \cup {t} : n.index[v] \in 0 .. n.offset /\ n.arr[n.index[v]] = v
    BY <1>1, <1>5, <2>1, <2>6, <2>7, <2>8, <2>9 DEF Arranged
  <2>13. \A v \in I : /\ n.index[v] \in (n.offset + 1) .. (n.size - 1)
                      /\ n.arr[n.index[v]] = v
    BY <1>1, <1>5, <2>1, <2>3, <2>6, <2>7, <2>8, <2>9 DEF Arranged
  <2> QED
    BY <1>1, <1>5, <2>6, <2>10, <2>11, <2>12, <2>13 DEF Arranged
<1>6. CASE ~(p.offset + 1 < p.size)
  <2>1. q = p
    BY <1>6
  <2> HIDE DEF n, r, q, u
  <2>2. /\ r \in Pools /\ r.arr = [p.arr EXCEPT ![p.offset + 1] = t]
        /\ r.index = [p.index EXCEPT ![t] = p.offset + 1]
    <3>1. t \in Threads /\ p.offset + 1 \in Slots /\ r = Place(p, t, p.offset + 1)
      BY <1>2, <2>1 DEF r
    <3>2. Place(p, t, p.offset + 1) \in Pools
      BY <3>1, PlaceLemma
    <3>3. /\ Place(p, t, p.offset + 1).arr = [p.arr EXCEPT ![p.offset + 1] = t]
          /\ Place(p, t, p.offset + 1).index = [p.index EXCEPT ![t] = p.offset + 1]
          /\ Place(p, t, p.offset + 1).offset = p.offset
      BY DEF Place
    <3> QED
      BY <3>1, <3>2, <3>3
  <2>3. /\ n \in Pools /\ n.arr = r.arr /\ n.index = r.index
        /\ n.offset = p.offset + 1 /\ n.size = p.size + 1
    BY <1>2, <2>2, SizedLemma DEF n
  <2>4. \A j \in Slots : n.arr[j] = IF j = p.offset + 1 THEN t ELSE p.arr[j]
    BY <1>1, <2>2, <2>3
  <2>5. \A v \in Threads : n.index[v] = IF v = t THEN p.offset + 1 ELSE p.index[v]
    BY <1>1, <2>2, <2>3
  <2>6. \A j \in 0 .. n.size - 1 : j \in Slots
    BY <1>2, <2>3, SizeAssumption DEF SizeAssumption, Slots
  <2>7. I = {}
    BY <1>1, <1>6 DEF Arranged
  <2>8. \A j \in 0 .. n.offset : n.arr[j] \in A \cup {t} /\ n.index[n.arr[j]] = j
    BY <1>1, <1>6, <2>3, <2>4, <2>5, <2>6 DEF Arranged
  <2>9. \A v \in A \cup {t} : n.index[v] \in 0 .. n.offset /\ n.arr[n.index[v]] = v
    BY <1>1, <1>6, <2>3, <2>4, <2>5, <2>6 DEF Arranged
  <2> QED
    BY <1>1, <1>6, <2>3, <2>7, <2>8, <2>9 DEF Arranged
<1> QED
  BY <1>5, <1>6

\* An active thread becomes the first idle one.
LEMMA MoveLemma ==
  ASSUME NEW p \in Pools, NEW A \in SUBSET Threads, NEW I \in SUBSET Threads,
         A \cap I = {}, Arranged(p, A, I), NEW t \in A
  PROVE  /\ MoveToIdle(p, t) \in Pools
         /\ Arranged(MoveToIdle(p, t), A \ {t}, I \cup {t})
<1> DEFINE u == p.arr[p.offset]
           i == p.index[t]
           q == Place(p, u, i)
           r == Place(q, t, p.offset)
           n == Sized(r, p.offset - 1, p.size)
<1>1. /\ p.offset \in Int /\ p.size \in Nat /\ -1 <= p.offset /\ p.offset < p.size
      /\ p.size <= MaxThreads
      /\ p.arr \in [Slots -> Threads \cup {NoThread}]
      /\ p.index \in [Threads -> -1 .. (MaxThreads - 1)]
  BY PoolsLemma DEF Arranged
<1>2. t \in Threads /\ i \in 0 .. p.offset /\ p.arr[i] = t
  BY DEF Arranged
<1>3. i \in Int /\ 0 <= i /\ i <= p.offset /\ i \in Slots /\ p.offset \in Slots
  BY <1>1, <1>2, SizeAssumption DEF SizeAssumption, Slots
<1>4. p.offset - 1 \in -1 .. (MaxThreads - 1) /\ p.size \in 0 .. MaxThreads
  BY <1>1, <1>3, SizeAssumption DEF SizeAssumption
<1>5. u \in A /\ u \in Threads /\ p.index[u] = p.offset
  BY <1>1, <1>3 DEF Arranged
<1>6. MoveToIdle(p, t) = n
  BY <1>2 DEF MoveToIdle
<1>7. SUFFICES n \in Pools /\ Arranged(n, A \ {t}, I \cup {t})
  BY <1>6
<1>8. i = p.index[t] /\ u = p.arr[p.offset]
  OBVIOUS
<1> HIDE DEF n, r, q, u, i
<1>9. /\ q \in Pools /\ q.arr = [p.arr EXCEPT ![i] = u]
      /\ q.index = [p.index EXCEPT ![u] = i]
  <2>1. u \in Threads /\ i \in Slots /\ q = Place(p, u, i)
    BY <1>3, <1>5 DEF q
  <2>2. Place(p, u, i) \in Pools
    BY <2>1, PlaceLemma
  <2>3. /\ Place(p, u, i).arr = [p.arr EXCEPT ![i] = u]
        /\ Place(p, u, i).index = [p.index EXCEPT ![u] = i]
        /\ Place(p, u, i).offset = p.offset
    BY DEF Place
  <2> QED
    BY <2>1, <2>2, <2>3
<1>10. q \in Pools
  BY <1>9
<1>11. /\ r \in Pools /\ r.arr = [q.arr EXCEPT ![p.offset] = t]
       /\ r.index = [q.index EXCEPT ![t] = p.offset]
  <2>1. t \in Threads /\ p.offset \in Slots /\ r = Place(q, t, p.offset)
    BY <1>2, <1>3 DEF r
  <2>2. Place(q, t, p.offset) \in Pools
    BY <1>10, <2>1, PlaceLemma
  <2>3. /\ Place(q, t, p.offset).arr = [q.arr EXCEPT ![p.offset] = t]
        /\ Place(q, t, p.offset).index = [q.index EXCEPT ![t] = p.offset]
        /\ Place(q, t, p.offset).offset = q.offset
    BY DEF Place
  <2> QED
    BY <2>1, <2>2, <2>3
<1>12. r \in Pools
  BY <1>11
<1>13. /\ n \in Pools /\ n.arr = r.arr /\ n.index = r.index
       /\ n.offset = p.offset - 1 /\ n.size = p.size
  BY <1>4, <1>12, SizedLemma DEF n
<1>14. \A j \in Slots : n.arr[j] = IF j = p.offset THEN t ELSE IF j = i THEN u ELSE p.arr[j]
  BY <1>1, <1>9, <1>11, <1>13
<1>15. \A v \in Threads : n.index[v] = IF v = t THEN p.offset
                                      ELSE IF v = u THEN i ELSE p.index[v]
  BY <1>1, <1>9, <1>11, <1>13
<1>16. \A j \in 0 .. n.size - 1 : j \in Slots
  BY <1>1, <1>13, SizeAssumption DEF SizeAssumption, Slots
<1>17. \A j \in 0 .. n.offset : n.arr[j] \in A \ {t} /\ n.index[n.arr[j]] = j
  BY <1>1, <1>2, <1>3, <1>5, <1>8, <1>13, <1>14, <1>15, <1>16 DEF Arranged
<1>18. \A j \in (n.offset + 1) .. (n.size - 1) :
         n.arr[j] \in I \cup {t} /\ n.index[n.arr[j]] = j
  BY <1>1, <1>2, <1>3, <1>5, <1>8, <1>13, <1>14, <1>15, <1>16 DEF Arranged
<1>19. \A v \in A \ {t} : n.index[v] \in 0 .. n.offset /\ n.arr[n.index[v]] = v
  BY <1>1, <1>2, <1>3, <1>5, <1>8, <1>13, <1>14, <1>15, <1>16 DEF Arranged
<1>20. \A v \in I \cup {t} :
         n.index[v] \in (n.offset + 1) .. (n.size - 1) /\ n.arr[n.index[v]] = v
  BY <1>1, <1>2, <1>3, <1>5, <1>8, <1>13, <1>14, <1>15, <1>16 DEF Arranged
<1> QED
  BY <1>1, <1>13, <1>17, <1>18, <1>19, <1>20 DEF Arranged

\* An idle thread leaves the array.
LEMMA EraseIdleLemma ==
  ASSUME NEW p \in Pools, NEW A \in SUBSET Threads, NEW I \in SUBSET Threads,
         A \cap I = {}, Arranged(p, A, I), NEW t \in I
  PROVE  /\ EraseIdleThread(p, t) \in Pools
         /\ Arranged(EraseIdleThread(p, t), A, I \ {t})
<1> DEFINE u == p.arr[p.size - 1]
           i == p.index[t]
           q == Place(p, u, i)
           r == Remove(q, t, p.size - 1)
           n == Sized(r, p.offset, p.size - 1)
<1>1. /\ p.offset \in Int /\ p.size \in Nat /\ -1 <= p.offset /\ p.offset < p.size
      /\ p.size <= MaxThreads
      /\ p.arr \in [Slots -> Threads \cup {NoThread}]
      /\ p.index \in [Threads -> -1 .. (MaxThreads - 1)]
  BY PoolsLemma DEF Arranged
<1>2. t \in Threads /\ i \in (p.offset + 1) .. (p.size - 1) /\ p.arr[i] = t
  BY DEF Arranged
<1>3. /\ i \in Int /\ p.offset < i /\ i <= p.size - 1 /\ 0 <= i
      /\ i \in Slots /\ p.size - 1 \in Slots
  BY <1>1, <1>2, SizeAssumption DEF SizeAssumption, Slots
<1>4. p.offset \in -1 .. (MaxThreads - 1) /\ p.size - 1 \in 0 .. MaxThreads
  BY <1>1, <1>3, SizeAssumption DEF SizeAssumption
<1>5. u \in I /\ u \in Threads /\ p.index[u] = p.size - 1
  BY <1>1, <1>3 DEF Arranged
<1>6. EraseIdleThread(p, t) = n
  BY <1>2 DEF EraseIdleThread
<1>7. SUFFICES n \in Pools /\ Arranged(n, A, I \ {t})
  BY <1>6
<1>8. i = p.index[t] /\ u = p.arr[p.size - 1]
  OBVIOUS
<1> HIDE DEF n, r, q, u, i
<1>9. /\ q \in Pools /\ q.arr = [p.arr EXCEPT ![i] = u]
      /\ q.index = [p.index EXCEPT ![u] = i] /\ q.offset = p.offset
  <2>1. u \in Threads /\ i \in Slots /\ q = Place(p, u, i)
    BY <1>3, <1>5 DEF q
  <2>2. Place(p, u, i) \in Pools
    BY <2>1, PlaceLemma
  <2>3. /\ Place(p, u, i).arr = [p.arr EXCEPT ![i] = u]
        /\ Place(p, u, i).index = [p.index EXCEPT ![u] = i]
        /\ Place(p, u, i).offset = p.offset
    BY DEF Place
  <2> QED
    BY <2>1, <2>2, <2>3
<1>10. q \in Pools
  BY <1>9
<1>11. /\ r \in Pools /\ r.arr = [q.arr EXCEPT ![p.size - 1] = NoThread]
       /\ r.index = [q.index EXCEPT ![t] = -1]
  <2>1. t \in Threads /\ p.size - 1 \in Slots /\ r = Remove(q, t, p.size - 1)
    BY <1>2, <1>3 DEF r
  <2> QED
    BY <1>10, <2>1, RemoveLemma
<1>12. r \in Pools
  BY <1>11
<1>13. /\ n \in Pools /\ n.arr = r.arr /\ n.index = r.index
       /\ n.offset = p.offset /\ n.size = p.size - 1
  BY <1>4, <1>12, SizedLemma DEF n
<1>14. \A j \in Slots : n.arr[j] = IF j = p.size - 1 THEN NoThread
                                  ELSE IF j = i THEN u ELSE p.arr[j]
  BY <1>1, <1>9, <1>11, <1>13
<1>15. \A v \in Threads : n.index[v] = IF v = t THEN -1
                                      ELSE IF v = u THEN i ELSE p.index[v]
  BY <1>1, <1>9, <1>11, <1>13
<1>16. \A j \in 0 .. n.size - 1 : j \in Slots /\ j < p.size - 1
  BY <1>1, <1>13, SizeAssumption DEF SizeAssumption, Slots
<1>17. \A j \in 0 .. n.offset : n.arr[j] \in A /\ n.index[n.arr[j]] = j
  BY <1>1, <1>2, <1>3, <1>5, <1>8, <1>13, <1>14, <1>15, <1>16 DEF Arranged
<1>18. \A j \in (n.offset + 1) .. (n.size - 1) :
         n.arr[j] \in I \ {t} /\ n.index[n.arr[j]] = j
  BY <1>1, <1>2, <1>3, <1>5, <1>8, <1>13, <1>14, <1>15, <1>16 DEF Arranged
<1>19. \A v \in A : n.index[v] \in 0 .. n.offset /\ n.arr[n.index[v]] = v
  BY <1>1, <1>2, <1>3, <1>5, <1>8, <1>13, <1>14, <1>15, <1>16 DEF Arranged
<1>20. \A v \in I \ {t} :
         n.index[v] \in (n.offset + 1) .. (n.size - 1) /\ n.arr[n.index[v]] = v
  BY <1>1, <1>2, <1>3, <1>5, <1>8, <1>13, <1>14, <1>15, <1>16 DEF Arranged
<1>21. n.offset < n.size
  BY <1>1, <1>3, <1>13
<1> QED
  BY <1>13, <1>17, <1>18, <1>19, <1>20, <1>21 DEF Arranged

\* An active thread leaves the array, by way of the idle area.
LEMMA EraseLemma ==
  ASSUME NEW p \in Pools, NEW A \in SUBSET Threads, NEW I \in SUBSET Threads,
         A \cap I = {}, Arranged(p, A, I), NEW t \in A
  PROVE  /\ EraseThread(p, t) \in Pools
         /\ Arranged(EraseThread(p, t), A \ {t}, I)
<1> DEFINE m == MoveToIdle(p, t)
<1>1. m \in Pools /\ Arranged(m, A \ {t}, I \cup {t})
  BY MoveLemma
<1> HIDE DEF m
<1> DEFINE e == EraseIdleThread(m, t)
<1>2. e \in Pools /\ Arranged(e, A \ {t}, (I \cup {t}) \ {t})
  BY <1>1, EraseIdleLemma
<1>3. (I \cup {t}) \ {t} = I
  OBVIOUS
<1> QED
  BY <1>2, <1>3 DEF EraseThread, m

\* The index of a thread outside the array does not matter.
LEMMA ResetLemma ==
  ASSUME NEW p \in Pools, NEW A \in SUBSET Threads, NEW I \in SUBSET Threads,
         Arranged(p, A, I), NEW t \in Threads, t \notin A, t \notin I
  PROVE  /\ [p EXCEPT !.index[t] = -1] \in Pools
         /\ Arranged([p EXCEPT !.index[t] = -1], A, I)
<1> DEFINE n == [p EXCEPT !.index[t] = -1]
<1>1. /\ p.offset \in Int /\ p.size \in Nat /\ p.offset < p.size /\ p.size <= MaxThreads
      /\ p.index \in [Threads -> -1 .. (MaxThreads - 1)]
  BY PoolsLemma DEF Arranged
<1>2. /\ n.arr = p.arr /\ n.offset = p.offset /\ n.size = p.size
      /\ n.index = [p.index EXCEPT ![t] = -1]
  BY DEF Pools
<1>3. n \in Pools
  BY SizeAssumption DEF SizeAssumption, Pools
<1> HIDE DEF n
<1>4. \A v \in Threads : v # t => n.index[v] = p.index[v]
  BY <1>1, <1>2
<1>5. Arranged(n, A, I)
  BY <1>1, <1>2, <1>4 DEF Arranged
<1> QED
  BY <1>3, <1>5 DEF n

-----------------------------------------------------------------------------
(* Types and the array.                                                    *)

PoolInv == TypeOK /\ ArrayInv /\ OnePlace

LEMMA AreasLemma ==
  ASSUME NEW t \in Threads, NEW m, pc \in [Threads -> ThreadPlaces],
         pc' = [pc EXCEPT ![t] = m]
  PROVE  /\ ActiveThreads' = IF m \in InActive THEN ActiveThreads \cup {t}
                             ELSE ActiveThreads \ {t}
         /\ IdleThreads' = IF m \in InIdle THEN IdleThreads \cup {t} ELSE IdleThreads \ {t}
         /\ t \in ActiveThreads <=> pc[t] \in InActive
         /\ t \in IdleThreads <=> pc[t] \in InIdle
BY DEF ActiveThreads, IdleThreads

LEMMA AreaKept ==
  ASSUME NEW t \in Threads, NEW m, pc \in [Threads -> ThreadPlaces],
         pc' = [pc EXCEPT ![t] = m]
  PROVE  /\ t \notin ActiveThreads /\ m \notin InActive => ActiveThreads' = ActiveThreads
         /\ t \notin IdleThreads /\ m \notin InIdle => IdleThreads' = IdleThreads
<1>1. ASSUME t \notin ActiveThreads, m \notin InActive PROVE ActiveThreads' = ActiveThreads
  <2>1. ActiveThreads' = ActiveThreads \ {t}
    BY <1>1, AreasLemma
  <2> QED
    BY <1>1, <2>1
<1>2. ASSUME t \notin IdleThreads, m \notin InIdle PROVE IdleThreads' = IdleThreads
  <2>1. IdleThreads' = IdleThreads \ {t}
    BY <1>2, AreasLemma
  <2> QED
    BY <1>2, <2>1
<1> QED
  BY <1>1, <1>2

\* A thread goes on within its area, or outside the array.
LEMMA StayLemma ==
  ASSUME ArrayInv, NEW t \in Threads, NEW m, pc \in [Threads -> ThreadPlaces],
         pc' = [pc EXCEPT ![t] = m], pool' = pool,
         pc[t] \in InActive <=> m \in InActive, pc[t] \in InIdle <=> m \in InIdle
  PROVE  ArrayInv'
<1>1. ActiveThreads' = ActiveThreads /\ IdleThreads' = IdleThreads
  <2>1. \A u \in Threads : pc'[u] \in InActive <=> pc[u] \in InActive
    OBVIOUS
  <2>2. \A u \in Threads : pc'[u] \in InIdle <=> pc[u] \in InIdle
    OBVIOUS
  <2> QED
    BY <2>1, <2>2 DEF ActiveThreads, IdleThreads
<1> QED
  BY <1>1 DEF ArrayInv

LEMMA AreasFact ==
  /\ ActiveThreads \in SUBSET Threads /\ IdleThreads \in SUBSET Threads
  /\ ActiveThreads \cap IdleThreads = {}
BY DEF ActiveThreads, IdleThreads, InActive, InIdle

LEMMA IdleCount ==
  ASSUME pool \in Pools, NEW S \in SUBSET Idle
  PROVE  IsFiniteSet(S) /\ Cardinality(S) \in Nat
<1>1. pool.offset \in Int /\ pool.size \in Nat
  BY PoolsLemma
<1>2. pool.offset + 1 \in Int /\ pool.size - 1 \in Int
  BY <1>1
<1>3. IsFiniteSet((pool.offset + 1) .. (pool.size - 1))
  BY <1>2, FS_Interval
<1> QED
  BY <1>3, FS_Subset, FS_CardinalityType DEF Idle

LEMMA InitInv == Init => TypeOK /\ ArrayInv
<1> SUFFICES ASSUME Init PROVE TypeOK /\ ArrayInv
  OBVIOUS
<1>1. pool \in Pools
  BY SizeAssumption DEF Init, Pools, SizeAssumption
<1>2. TypeOK
  <2>1. /\ pc \in [Threads -> ThreadPlaces] /\ queue \in Seq(Tasks)
        /\ status \in [Threads -> {"ACTIVE", "FREE", "TIMEOUT"}]
        /\ target \in [Threads -> Tasks \cup {NoTask}]
    BY DEF Init, ThreadPlaces
  <2>2. sema \in [Threads -> 0 .. SemValueMax]
    BY SizeAssumption DEF Init, SizeAssumption
  <2>3. /\ cpc \in [Callers -> {"idle", "write", "activate", "count", "start"}]
        /\ task \in [Callers -> Tasks \cup {NoTask}]
    BY DEF Init
  <2>4. /\ main \in {"startup", "up", "idlecount", "kill", "activecount", "exits", "loop", "down"}
        /\ count \in Nat /\ thdsToExit \in Nat
        /\ isShutdown \in BOOLEAN /\ done \subseteq Tasks /\ missed \in BOOLEAN
    BY SizeAssumption DEF Init, SizeAssumption
  <2> QED
    BY <1>1, <2>1, <2>2, <2>3, <2>4 DEF TypeOK
<1>3. ActiveThreads = {} /\ IdleThreads = {}
  BY DEF Init, ActiveThreads, IdleThreads, InActive, InIdle
<1>4. ArrayInv
  BY <1>3 DEF Init, ArrayInv, Arranged
<1> QED
  BY <1>2, <1>4

\* Steps of callers and of the main thread do not touch the array.
LEMMA StartThreadInv ==
  ASSUME PoolInv, StartThread, pool' = pool
  PROVE  pc' \in [Threads -> ThreadPlaces] /\ ArrayInv'
<1>1. CASE isShutdown
  BY <1>1 DEF StartThread, PoolInv, TypeOK, ArrayInv, ActiveThreads, IdleThreads
<1>2. CASE ~isShutdown
  <2> DEFINE t == CHOOSE u \in Unused : TRUE
  <2>1. t \in Unused /\ Goto(t, "init")
    BY <1>2 DEF StartThread
  <2> HIDE DEF t
  <2>2. t \in Threads /\ pc[t] = "none" /\ pc' = [pc EXCEPT ![t] = "init"]
    BY <2>1 DEF Unused, At, Goto
  <2>3. pc \in [Threads -> ThreadPlaces] /\ ArrayInv
    BY DEF PoolInv, TypeOK
  <2>4. ArrayInv'
    BY <2>2, <2>3, StayLemma DEF InActive, InIdle
  <2> QED
    BY <2>2, <2>3, <2>4 DEF ThreadPlaces
<1> QED
  BY <1>1, <1>2

LEMMA SameArray == ASSUME ArrayInv, pc' = pc, pool' = pool PROVE ArrayInv'
BY DEF ArrayInv, ActiveThreads, IdleThreads

LEMMA ExecuteTaskInv ==
  ASSUME PoolInv, NEW c \in Callers, NEW k \in Tasks, ExecuteTask(c, k)
  PROVE  TypeOK' /\ ArrayInv'
<1>1. TypeOK'
  BY DEF PoolInv, TypeOK, ExecuteTask, CGoto, mains, exits
<1> QED
  BY <1>1, SameArray DEF PoolInv, ExecuteTask

LEMMA CallerInv ==
  ASSUME PoolInv, NEW c \in Callers, CallerStep(c)
  PROVE  TypeOK' /\ ArrayInv'
<1>1. CASE WriteTask(c)
  <2>1. task[c] \in Tasks
    BY <1>1 DEF PoolInv, TypeOK, OnePlace, WriteTask
  <2>2. TypeOK'
    BY <1>1, <2>1 DEF PoolInv, TypeOK, WriteTask, CGoto, mains, exits
  <2> QED
    BY <1>1, <2>2, SameArray DEF PoolInv, WriteTask
<1>2. CASE ActivateFromIdle(c)
  <2>1. sema' \in [Threads -> 0 .. SemValueMax]
    <3>1. CASE Resumable = {}
      BY <1>2, <3>1 DEF PoolInv, TypeOK, ActivateFromIdle
    <3>2. CASE Resumable # {}
      <4>1. PICK i \in Resumable : Resume(pool.arr[i])
        BY <1>2, <3>2 DEF ActivateFromIdle
      <4>2. /\ sema \in [Threads -> 0 .. SemValueMax]
            /\ CanPost(pool.arr[i]) /\ sema' = [sema EXCEPT ![pool.arr[i]] = @ + 1]
        BY <4>1 DEF Resumable, Resume, PoolInv, TypeOK
      <4> DEFINE u == pool.arr[i]
      <4>3. u \in Threads
        BY <4>1 DEF Resumable, Idle, PoolInv, ArrayInv, Arranged, IdleThreads
      <4>4. /\ sema \in [Threads -> 0 .. SemValueMax]
            /\ CanPost(u) /\ sema' = [sema EXCEPT ![u] = @ + 1]
        BY <4>2
      <4> HIDE DEF u
      <4> QED
        BY <4>3, <4>4, SizeAssumption DEF CanPost, SizeAssumption
    <3> QED
      BY <3>1, <3>2
  <2>2. TypeOK'
    BY <1>2, <2>1 DEF PoolInv, TypeOK, ActivateFromIdle, CGoto, mains, exits
  <2> QED
    BY <1>2, <2>2, SameArray DEF PoolInv, ActivateFromIdle
<1>3. CASE GetThreadCount(c)
  <2>1. TypeOK'
    BY <1>3 DEF PoolInv, TypeOK, GetThreadCount, CGoto, mains, exits
  <2> QED
    BY <1>3, <2>1, SameArray DEF PoolInv, GetThreadCount
<1>4. CASE CallerStarts(c)
  <2>1. pc' \in [Threads -> ThreadPlaces] /\ ArrayInv'
    BY <1>4, StartThreadInv DEF CallerStarts
  <2> QED
    BY <1>4, <2>1 DEF PoolInv, TypeOK, CallerStarts, CGoto, mains, exits
<1> QED
  BY <1>1, <1>2, <1>3, <1>4 DEF CallerStep

\* What posts some threads keeps the type of the semaphores.
LEMMA PostType ==
  ASSUME sema \in [Threads -> 0 .. SemValueMax], NEW S,
         sema' = [t \in Threads |-> IF t \in S /\ CanPost(t) THEN sema[t] + 1 ELSE sema[t]]
  PROVE  sema' \in [Threads -> 0 .. SemValueMax]
BY SizeAssumption DEF CanPost, SizeAssumption

LEMMA MainInv ==
  ASSUME PoolInv, MainThread \/ Shutdown
  PROVE  TypeOK' /\ ArrayInv'
<1>1. CASE Startup
  <2>1. CASE count = 0
    <3>1. TypeOK'
      BY <1>1, <2>1 DEF PoolInv, TypeOK, Startup, callers, exits
    <3> QED
      BY <1>1, <2>1, <3>1, SameArray DEF PoolInv, Startup
  <2>2. CASE count # 0
    <3>1. pc' \in [Threads -> ThreadPlaces] /\ ArrayInv'
      BY <1>1, <2>2, StartThreadInv DEF Startup
    <3>2. count' \in Nat
      BY <1>1, <2>2 DEF PoolInv, TypeOK, Startup
    <3> QED
      BY <1>1, <2>2, <3>1, <3>2 DEF PoolInv, TypeOK, Startup, callers, exits
  <2> QED
    BY <2>1, <2>2
<1>2. CASE CountIdle
  <2>1. count' \in Nat
    BY <1>2, IdleCount DEF PoolInv, TypeOK, CountIdle
  <2>2. TypeOK'
    BY <1>2, <2>1 DEF PoolInv, TypeOK, CountIdle, MMove, callers, exits
  <2> QED
    BY <1>2, <2>2, SameArray DEF PoolInv, CountIdle
<1>3. CASE KillIdleThreads
  <2> DEFINE V == {i \in Idle :
                    Cardinality({j \in Idle : j < i /\ CanPost(pool.arr[j])}) < count}
             P == {pool.arr[i] : i \in V}
  <2>1. Cardinality(V) \in Nat
    BY IdleCount DEF PoolInv, TypeOK
  <2>2. /\ thdsToExit' = thdsToExit + Cardinality(V)
        /\ sema' = [t \in Threads |->
                      IF t \in P /\ CanPost(t) THEN sema[t] + 1 ELSE sema[t]]
    BY <1>3 DEF KillIdleThreads
  <2> HIDE DEF V, P
  <2>3. sema' \in [Threads -> 0 .. SemValueMax]
    BY <2>2, PostType DEF PoolInv, TypeOK
  <2>4. thdsToExit' \in Nat
    BY <2>1, <2>2 DEF PoolInv, TypeOK
  <2>5. TypeOK'
    BY <1>3, <2>3, <2>4 DEF PoolInv, TypeOK, KillIdleThreads, MMove, callers
  <2> QED
    BY <1>3, <2>5, SameArray DEF PoolInv, KillIdleThreads
<1>4. CASE CountActive
  <2>1. count' \in Nat
    BY <1>4, PoolsLemma DEF PoolInv, TypeOK, CountActive
  <2>2. TypeOK'
    BY <1>4, <2>1 DEF PoolInv, TypeOK, CountActive, MMove, callers, exits
  <2> QED
    BY <1>4, <2>2, SameArray DEF PoolInv, CountActive
<1>5. CASE ExitActive
  <2>1. TypeOK'
    BY <1>5 DEF PoolInv, TypeOK, ExitActive, MMove, callers
  <2> QED
    BY <1>5, <2>1, SameArray DEF PoolInv, ExitActive
<1>6. CASE AwaitThreads
  <2> DEFINE P == {pool.arr[i] : i \in Idle}
  <2>1. Cardinality(Idle) \in Nat
    BY IdleCount DEF PoolInv, TypeOK
  <2>2. sema' = [t \in Threads |->
                  IF t \in P /\ CanPost(t) THEN sema[t] + 1 ELSE sema[t]]
    BY <1>6 DEF AwaitThreads
  <2> HIDE DEF P
  <2>3. sema' \in [Threads -> 0 .. SemValueMax]
    BY <2>2, PostType DEF PoolInv, TypeOK
  <2>4. TypeOK'
    BY <1>6, <2>1, <2>3 DEF PoolInv, TypeOK, AwaitThreads, MMove, callers
  <2> QED
    BY <1>6, <2>4, SameArray DEF PoolInv, AwaitThreads
<1>7. CASE Shutdown
  <2>1. TypeOK'
    BY <1>7 DEF PoolInv, TypeOK, Shutdown, MMove, callers
  <2> QED
    BY <1>7, <2>1, SameArray DEF PoolInv, Shutdown
<1> QED
  BY <1>1, <1>2, <1>3, <1>4, <1>5, <1>6, <1>7 DEF MainThread

\* A step of a thread within its area of the array.
LEMMA WithinArea ==
  ASSUME PoolInv, NEW t \in Threads, NEW from, NEW m, Move(t, from, m), pool' = pool,
         m \in ThreadPlaces,
         from \in InActive <=> m \in InActive, from \in InIdle <=> m \in InIdle
  PROVE  pc' \in [Threads -> ThreadPlaces] /\ ArrayInv'
<1>1. pc \in [Threads -> ThreadPlaces] /\ pc[t] = from /\ pc' = [pc EXCEPT ![t] = m]
  BY DEF PoolInv, TypeOK, Move, At, Goto
<1>2. ArrayInv'
  BY <1>1, StayLemma DEF PoolInv
<1> QED
  BY <1>1, <1>2

\* A thread that ends outside the array leaves the others alone.
LEMMA EndedInv ==
  ASSUME NEW p \in Pools, NEW A \in SUBSET Threads, NEW I \in SUBSET Threads,
         Arranged(p, A, I), NEW t \in Threads, t \notin A, t \notin I,
         TypeOK, Ended(p, t), SizeAssumption
  PROVE  /\ pool' \in Pools /\ Arranged(pool', A, I)
         /\ status' \in [Threads -> {"ACTIVE", "FREE", "TIMEOUT"}]
         /\ sema' \in [Threads -> 0 .. SemValueMax]
<1>1. pool' \in Pools /\ Arranged(pool', A, I)
  BY ResetLemma DEF Ended
<1>2. status' \in [Threads -> {"ACTIVE", "FREE", "TIMEOUT"}]
  BY DEF Ended, TypeOK
<1>3. sema' \in [Threads -> 0 .. SemValueMax]
  BY SizeAssumption DEF Ended, TypeOK, SizeAssumption
<1> QED
  BY <1>1, <1>2, <1>3

LEMMA ThreadInv ==
  ASSUME PoolInv, NEW t \in Threads, Thread(t)
  PROVE  TypeOK' /\ ArrayInv'
<1> USE DEF callers, mains, exits
<1>0. /\ pc \in [Threads -> ThreadPlaces] /\ pool \in Pools
      /\ Arranged(pool, ActiveThreads, IdleThreads)
  BY DEF PoolInv, TypeOK, ArrayInv
<1>1. CASE Insert(t)
  <2>1. pc[t] \in {"init", "insert"}
    BY <1>1 DEF Insert
  <2>2. t \notin ActiveThreads /\ t \notin IdleThreads
    BY <2>1 DEF ActiveThreads, IdleThreads, InActive, InIdle
  <2>3. CASE pool.size >= MaxThreads
    <3>1. pc' = [pc EXCEPT ![t] = "none"] /\ Ended(pool, t)
      BY <1>1, <2>3 DEF Insert, Goto
    <3>2. ActiveThreads' = ActiveThreads /\ IdleThreads' = IdleThreads
      BY <1>0, <2>2, <3>1, AreasLemma, AreaKept DEF InActive, InIdle
    <3>3. /\ pool' \in Pools /\ Arranged(pool', ActiveThreads, IdleThreads)
          /\ status' \in [Threads -> {"ACTIVE", "FREE", "TIMEOUT"}]
          /\ sema' \in [Threads -> 0 .. SemValueMax]
      BY <1>0, <2>2, <3>1, AreasFact, EndedInv, SizeAssumption DEF PoolInv
    <3>4. ArrayInv'
      BY <3>2, <3>3 DEF ArrayInv
    <3> QED
      BY <1>1, <3>1, <3>3, <3>4 DEF PoolInv, TypeOK, Insert, ThreadPlaces
  <2>4. CASE ~(pool.size >= MaxThreads)
    <3>1. pc' = [pc EXCEPT ![t] = "read"] /\ pool' = InsertActiveThread(pool, t)
      BY <1>1, <2>4 DEF Insert, Goto
    <3>2. ActiveThreads' = ActiveThreads \cup {t} /\ IdleThreads' = IdleThreads
      BY <1>0, <2>2, <3>1, AreasLemma, AreaKept DEF InActive, InIdle
    <3>3. pool.size < MaxThreads
      BY <1>0, <2>4, PoolsLemma, SizeAssumption DEF SizeAssumption
    <3>4. pool' \in Pools /\ Arranged(pool', ActiveThreads \cup {t}, IdleThreads)
      BY <1>0, <2>2, <3>1, <3>3, AreasFact, InsertLemma
    <3>5. ArrayInv'
      BY <3>2, <3>4 DEF ArrayInv
    <3> QED
      BY <1>1, <2>4, <3>1, <3>4, <3>5 DEF PoolInv, TypeOK, Insert, ThreadPlaces
  <2> QED
    BY <2>3, <2>4
<1>2. CASE ReadTask(t)
  <2>1. pc' \in [Threads -> ThreadPlaces] /\ ArrayInv'
    BY <1>2, WithinArea DEF ReadTask, ThreadPlaces, InActive, InIdle
  <2>2. queue' \in Seq(Tasks) /\ target' \in [Threads -> Tasks \cup {NoTask}]
    <3>1. CASE queue = <<>>
      BY <1>2, <3>1 DEF ReadTask, PoolInv, TypeOK
    <3>2. CASE queue # <<>>
      <4>1. queue \in Seq(Tasks) /\ Head(queue) \in Tasks /\ Tail(queue) \in Seq(Tasks)
        BY <3>2 DEF PoolInv, TypeOK
      <4> QED
        BY <1>2, <3>2, <4>1 DEF ReadTask, PoolInv, TypeOK
    <3> QED
      BY <3>1, <3>2
  <2> QED
    BY <1>2, <2>1, <2>2 DEF PoolInv, TypeOK, ReadTask
<1>3. CASE OnRun(t)
  <2>1. pc' \in [Threads -> ThreadPlaces] /\ ArrayInv'
    BY <1>3, WithinArea DEF OnRun, ThreadPlaces, InActive, InIdle
  <2>2. target[t] \in Tasks
    BY <1>3 DEF PoolInv, TypeOK, OnePlace, OnRun, Move
  <2> QED
    BY <1>3, <2>1, <2>2 DEF PoolInv, TypeOK, OnRun
<1>4. CASE Size(t)
  <2>1. pc' \in [Threads -> ThreadPlaces] /\ ArrayInv'
    BY <1>4, WithinArea DEF Size, ThreadPlaces, InActive, InIdle
  <2> QED
    BY <1>4, <2>1 DEF PoolInv, TypeOK, Size
<1>5. CASE ThreadExit(t)
  <2>1. pc' \in [Threads -> ThreadPlaces] /\ ArrayInv'
    BY <1>5, WithinArea DEF ThreadExit, ThreadPlaces, InActive, InIdle
  <2>2. thdsToExit' \in Nat
    BY <1>5 DEF ThreadExit, PoolInv, TypeOK
  <2> QED
    BY <1>5, <2>1, <2>2 DEF PoolInv, TypeOK, ThreadExit
<1>6. CASE Erase(t)
  <2>1. pc[t] = "erase" /\ pc' = [pc EXCEPT ![t] = "none"] /\ Ended(EraseThread(pool, t), t)
    BY <1>6 DEF Erase, Move, At, Goto
  <2>2. t \in ActiveThreads /\ t \notin IdleThreads
    BY <2>1 DEF ActiveThreads, IdleThreads, InActive, InIdle
  <2>z. pc' = [pc EXCEPT ![t] = "none"] /\ "none" \notin InActive /\ "none" \notin InIdle
    BY <2>1 DEF InActive, InIdle
  <2>a. ActiveThreads' = ActiveThreads \ {t}
    BY <1>0, <2>z, AreasLemma
  <2>b. IdleThreads' = IdleThreads
    BY <1>0, <2>z, <2>2, AreaKept
  <2>3. ActiveThreads' = ActiveThreads \ {t} /\ IdleThreads' = IdleThreads
    BY <2>a, <2>b
  <2> DEFINE p == EraseThread(pool, t)
  <2>4. p \in Pools /\ Arranged(p, ActiveThreads \ {t}, IdleThreads)
    BY <1>0, <2>2, AreasFact, EraseLemma
  <2>5. Ended(p, t)
    BY <2>1
  <2> HIDE DEF p
  <2>6. /\ pool' \in Pools /\ Arranged(pool', ActiveThreads \ {t}, IdleThreads)
        /\ status' \in [Threads -> {"ACTIVE", "FREE", "TIMEOUT"}]
        /\ sema' \in [Threads -> 0 .. SemValueMax]
    <3>1. ActiveThreads \ {t} \in SUBSET Threads /\ t \notin ActiveThreads \ {t}
      BY AreasFact
    <3> QED
      BY <2>2, <2>4, <2>5, <3>1, AreasFact, EndedInv, SizeAssumption DEF PoolInv
  <2>7. ArrayInv'
    BY <2>3, <2>6 DEF ArrayInv
  <2> QED
    BY <1>6, <2>1, <2>6, <2>7 DEF PoolInv, TypeOK, Erase, ThreadPlaces
<1>7. CASE Free(t)
  <2>1. pc[t] = "free" /\ pc' = [pc EXCEPT ![t] = "recheck"] /\ pool' = MoveToIdle(pool, t)
    BY <1>7 DEF Free, Move, At, Goto
  <2>2. t \in ActiveThreads
    BY <2>1 DEF ActiveThreads, InActive
  <2>3. ActiveThreads' = ActiveThreads \ {t} /\ IdleThreads' = IdleThreads \cup {t}
    BY <1>0, <2>1, AreasLemma, AreaKept DEF InActive, InIdle
  <2>4. pool' \in Pools /\ Arranged(pool', ActiveThreads \ {t}, IdleThreads \cup {t})
    BY <1>0, <2>1, <2>2, AreasFact, MoveLemma
  <2>5. ArrayInv'
    BY <2>3, <2>4 DEF ArrayInv
  <2>6. /\ status' \in [Threads -> {"ACTIVE", "FREE", "TIMEOUT"}]
        /\ sema' \in [Threads -> 0 .. SemValueMax]
    <3>1. PICK late : 
            /\ status' = [s \in Threads |->
                            IF s = t \/ (s \in late /\ ~CanPost(s)) THEN "FREE"
                            ELSE IF s \in late THEN "TIMEOUT" ELSE status[s]]
            /\ sema' = [s \in Threads |->
                          IF s \in late /\ CanPost(s) THEN sema[s] + 1 ELSE sema[s]]
      BY <1>7 DEF Free
    <3>2. sema' \in [Threads -> 0 .. SemValueMax]
      BY <3>1, PostType DEF PoolInv, TypeOK
    <3> QED
      BY <3>1, <3>2 DEF PoolInv, TypeOK
  <2> QED
    BY <1>7, <2>1, <2>4, <2>5, <2>6 DEF PoolInv, TypeOK, Free, ThreadPlaces
<1>8. CASE Recheck(t)
  <2>1. pc' \in [Threads -> ThreadPlaces] /\ ArrayInv'
    BY <1>8, WithinArea DEF Recheck, ThreadPlaces, InActive, InIdle
  <2> QED
    BY <1>8, <2>1 DEF PoolInv, TypeOK, Recheck
<1>9. CASE Suspend(t)
  <2>1. pc' \in [Threads -> ThreadPlaces] /\ ArrayInv'
    BY <1>9, WithinArea DEF Suspend, ThreadPlaces, InActive, InIdle
  <2>2. sema' \in [Threads -> 0 .. SemValueMax]
    BY <1>9, SizeAssumption DEF Suspend, PoolInv, TypeOK, SizeAssumption
  <2> QED
    BY <1>9, <2>1, <2>2 DEF PoolInv, TypeOK, Suspend
<1>10. CASE Wake(t)
  <2>1. pc' \in [Threads -> ThreadPlaces] /\ ArrayInv'
    BY <1>10, WithinArea DEF Wake, ThreadPlaces, InActive, InIdle
  <2> QED
    BY <1>10, <2>1 DEF PoolInv, TypeOK, Wake
<1>11. CASE LeaveIdle(t)
  <2>1. pc[t] = "eraseidle" /\ pc' = [pc EXCEPT ![t] = "test"] /\ pool' = EraseIdleThread(pool, t)
    BY <1>11 DEF LeaveIdle, Move, At, Goto
  <2>2. t \in IdleThreads /\ t \notin ActiveThreads
    BY <2>1 DEF ActiveThreads, IdleThreads, InActive, InIdle
  <2>z. pc' = [pc EXCEPT ![t] = "test"] /\ "test" \notin InActive /\ "test" \notin InIdle
    BY <2>1 DEF InActive, InIdle
  <2>a. ActiveThreads' = ActiveThreads
    BY <1>0, <2>z, <2>2, AreaKept
  <2>b. IdleThreads' = IdleThreads \ {t}
    BY <1>0, <2>z, AreasLemma
  <2>3. ActiveThreads' = ActiveThreads /\ IdleThreads' = IdleThreads \ {t}
    BY <2>a, <2>b
  <2>4. pool' \in Pools /\ Arranged(pool', ActiveThreads, IdleThreads \ {t})
    BY <1>0, <2>1, <2>2, AreasFact, EraseIdleLemma
  <2>5. ArrayInv'
    BY <2>3, <2>4 DEF ArrayInv
  <2> QED
    BY <1>11, <2>1, <2>4, <2>5 DEF PoolInv, TypeOK, LeaveIdle, ThreadPlaces
<1>12. CASE TestShutdown(t)
  <2>1. pc[t] = "test"
    BY <1>12 DEF TestShutdown, Move, At
  <2>2. t \notin ActiveThreads /\ t \notin IdleThreads
    BY <2>1 DEF ActiveThreads, IdleThreads, InActive, InIdle
  <2>3. CASE isShutdown
    <3>1. pc' = [pc EXCEPT ![t] = "none"] /\ Ended(pool, t)
      BY <1>12, <2>3 DEF TestShutdown, Move, Goto
    <3>2. ActiveThreads' = ActiveThreads /\ IdleThreads' = IdleThreads
      BY <1>0, <2>2, <3>1, AreasLemma, AreaKept DEF InActive, InIdle
    <3>3. /\ pool' \in Pools /\ Arranged(pool', ActiveThreads, IdleThreads)
          /\ status' \in [Threads -> {"ACTIVE", "FREE", "TIMEOUT"}]
          /\ sema' \in [Threads -> 0 .. SemValueMax]
      BY <1>0, <2>2, <3>1, AreasFact, EndedInv, SizeAssumption DEF PoolInv
    <3>4. ArrayInv'
      BY <3>2, <3>3 DEF ArrayInv
    <3> QED
      BY <1>12, <3>1, <3>3, <3>4 DEF PoolInv, TypeOK, TestShutdown, ThreadPlaces
  <2>4. CASE ~isShutdown
    <3>1. Move(t, "test", "insert") /\ UNCHANGED <<pool, status, sema>>
      BY <1>12, <2>4 DEF TestShutdown
    <3>2. pc' \in [Threads -> ThreadPlaces] /\ ArrayInv'
      BY <3>1, WithinArea DEF ThreadPlaces, InActive, InIdle
    <3> QED
      BY <1>12, <3>1, <3>2 DEF PoolInv, TypeOK, TestShutdown
  <2> QED
    BY <2>3, <2>4
<1> QED
  BY <1>1, <1>2, <1>3, <1>4, <1>5, <1>6, <1>7, <1>8, <1>9, <1>10, <1>11, <1>12 DEF Thread

-----------------------------------------------------------------------------
(* Each task is in one place.                                              *)

\* Steps that move no task.
LEMMA NoTaskMoved ==
  ASSUME PoolInv, UNCHANGED <<queue, target, task, done>>,
         \A t \in Threads : pc'[t] = "run" <=> pc[t] = "run",
         \A c \in Callers : cpc'[c] = "write" <=> cpc[c] = "write"
  PROVE  OnePlace'
BY DEF PoolInv, OnePlace, At, CAt

LEMMA ExecuteTaskPlace ==
  ASSUME PoolInv, NEW c \in Callers, NEW k \in Tasks, ExecuteTask(c, k)
  PROVE  k \notin Known /\ OnePlace'
<1> USE DEF PoolInv
<1>1. k \notin Known
  <2>1. \E j \in Tasks : j \notin Known
    BY DEF ExecuteTask
  <2> QED
    BY <2>1 DEF ExecuteTask, NewTask
<1>2. /\ k \notin done /\ k # NoTask
      /\ \A i \in DOMAIN queue : queue[i] # k
      /\ \A d \in Callers : task[d] # k
      /\ \A t \in Threads : target[t] # k
  BY <1>1, NullAssumption DEF NullAssumption, Known
<1>3. /\ cpc[c] = "idle" /\ cpc' = [cpc EXCEPT ![c] = "write"]
      /\ task' = [task EXCEPT ![c] = k]
      /\ UNCHANGED <<queue, target, done, pc>>
  BY DEF ExecuteTask, CAt, CGoto
<1>4. \A d \in Callers : /\ task'[d] = IF d = c THEN k ELSE task[d]
                         /\ cpc'[d] = IF d = c THEN "write" ELSE cpc[d]
  BY <1>3 DEF TypeOK
<1>5. OnePlace'
  BY <1>2, <1>3, <1>4 DEF OnePlace, CAt, At
<1> QED
  BY <1>1, <1>5

LEMMA WriteTaskPlace ==
  ASSUME PoolInv, NEW c \in Callers, WriteTask(c)
  PROVE  OnePlace'
<1> USE DEF PoolInv
<1> DEFINE k == task[c]
<1>1. /\ cpc[c] = "write" /\ cpc' = [cpc EXCEPT ![c] = "activate"]
      /\ task' = [task EXCEPT ![c] = NoTask] /\ queue' = Append(queue, k)
      /\ UNCHANGED <<target, done, pc>>
  BY DEF WriteTask, CAt, CGoto
<1>2. \A d \in Callers : /\ task'[d] = IF d = c THEN NoTask ELSE task[d]
                         /\ cpc'[d] = IF d = c THEN "activate" ELSE cpc[d]
  BY <1>1 DEF TypeOK
<1>3. k \in Tasks /\ k # NoTask /\ queue \in Seq(Tasks)
  BY <1>1 DEF OnePlace, CAt, TypeOK
<1>4. /\ Len(queue) \in Nat /\ DOMAIN queue = 1 .. Len(queue)
      /\ DOMAIN queue' = 1 .. (Len(queue) + 1)
      /\ \A i \in DOMAIN queue' :
           queue'[i] = IF i = Len(queue) + 1 THEN k ELSE queue[i]
  BY <1>1, <1>3
<1>5. /\ k \notin done
      /\ \A i \in DOMAIN queue : queue[i] # k
      /\ \A d \in Callers : task[d] = k => d = c
      /\ \A t \in Threads : target[t] # k
  BY <1>3 DEF OnePlace
<1>6. \A i \in DOMAIN queue' : i # Len(queue) + 1 => i \in DOMAIN queue
  BY <1>4
<1> HIDE DEF k
<1>7. /\ \A d \in Callers : task'[d] # NoTask <=> cpc'[d] = "write"
      /\ \A t \in Threads : target'[t] # NoTask <=> pc'[t] = "run"
  BY <1>1, <1>2 DEF OnePlace, At, CAt
<1>8. \A i, j \in DOMAIN queue' : queue'[i] = queue'[j] => i = j
  BY <1>4, <1>5, <1>6 DEF OnePlace
<1>9. \A i \in DOMAIN queue' :
        /\ \A d \in Callers : queue'[i] # task'[d]
        /\ \A t \in Threads : queue'[i] # target'[t]
        /\ queue'[i] \notin done'
  <2> SUFFICES ASSUME NEW i \in DOMAIN queue'
               PROVE  /\ \A d \in Callers : queue'[i] # task'[d]
                      /\ \A t \in Threads : queue'[i] # target'[t]
                      /\ queue'[i] \notin done'
    OBVIOUS
  <2>1. CASE i = Len(queue) + 1
    BY <1>1, <1>2, <1>3, <1>4, <1>5, <2>1
  <2>2. CASE i # Len(queue) + 1
    <3>1. i \in DOMAIN queue /\ queue'[i] = queue[i] /\ queue[i] \in Tasks
      BY <1>3, <1>4, <1>6, <2>2
    <3> QED
      BY <1>1, <1>2, <3>1, NullAssumption DEF OnePlace, NullAssumption
  <2> QED
    BY <2>1, <2>2
<1>10. NoTask \notin done
  BY NullAssumption DEF NullAssumption, TypeOK
<1> QED
  BY <1>1, <1>2, <1>7, <1>8, <1>9, <1>10 DEF OnePlace, CAt, At

LEMMA ReadTaskPlace ==
  ASSUME PoolInv, NEW t \in Threads, ReadTask(t)
  PROVE  OnePlace'
<1> USE DEF PoolInv
<1>1. /\ pc[t] = "read" /\ target[t] = NoTask
      /\ UNCHANGED <<task, cpc, done>>
  BY DEF ReadTask, Move, At, OnePlace, callers
<1>2. CASE queue = <<>>
  <2>1. pc' = [pc EXCEPT ![t] = "size"] /\ UNCHANGED <<queue, target>>
    BY <1>1, <1>2 DEF ReadTask, Move, Goto
  <2>2. \A u \in Threads : pc'[u] = "run" <=> pc[u] = "run"
    BY <1>1, <2>1 DEF TypeOK
  <2> QED
    BY <1>1, <2>1, <2>2, NoTaskMoved
<1>3. CASE queue # <<>>
  <2> DEFINE k == Head(queue)
  <2>1. /\ pc' = [pc EXCEPT ![t] = "run"] /\ target' = [target EXCEPT ![t] = k]
        /\ queue' = Tail(queue)
    BY <1>3 DEF ReadTask, Move, Goto
  <2>2. /\ queue \in Seq(Tasks) /\ Len(queue) \in Nat /\ Len(queue) > 0
        /\ DOMAIN queue = 1 .. Len(queue) /\ k = queue[1] /\ 1 \in DOMAIN queue
        /\ DOMAIN queue' = 1 .. (Len(queue) - 1)
        /\ \A i \in DOMAIN queue' : queue'[i] = queue[i + 1]
    BY <1>3, <2>1 DEF TypeOK
  <2>3. \A i \in DOMAIN queue' : i \in Int /\ i + 1 \in DOMAIN queue /\ i + 1 # 1
    BY <2>2
  <2> HIDE DEF k
  <2>4. \A u \in Threads : /\ target'[u] = IF u = t THEN k ELSE target[u]
                           /\ pc'[u] = IF u = t THEN "run" ELSE pc[u]
    BY <2>1 DEF TypeOK
  <2>5. k \in Tasks /\ k # NoTask /\ k \notin done
    BY <2>2, NullAssumption DEF OnePlace, NullAssumption
  <2>6. /\ \A c \in Callers : task[c] # k
        /\ \A u \in Threads : target[u] # k
        /\ \A i \in DOMAIN queue' : queue'[i] # k
    BY <2>2, <2>3 DEF OnePlace
  <2>7. \A i, j \in DOMAIN queue' : queue'[i] = queue'[j] => i = j
    <3> SUFFICES ASSUME NEW i \in DOMAIN queue', NEW j \in DOMAIN queue',
                        queue'[i] = queue'[j]
                 PROVE  i = j
      OBVIOUS
    <3>1. i + 1 = j + 1
      BY <2>2, <2>3 DEF OnePlace
    <3> QED
      BY <2>3, <3>1
  <2>8. \A i \in DOMAIN queue' :
          /\ \A c \in Callers : queue'[i] # task'[c]
          /\ \A u \in Threads : queue'[i] # target'[u]
          /\ queue'[i] \notin done'
    BY <1>1, <2>2, <2>3, <2>4, <2>6 DEF OnePlace
  <2>9. \A u, v \in Threads : target'[u] = target'[v] /\ target'[u] # NoTask => u = v
    BY <2>4, <2>6 DEF OnePlace
  <2>10. /\ \A c \in Callers : task'[c] # NoTask <=> cpc'[c] = "write"
         /\ \A u \in Threads : target'[u] # NoTask <=> pc'[u] = "run"
    BY <1>1, <2>4, <2>5 DEF OnePlace, At, CAt
  <2>11. /\ \A c \in Callers, u \in Threads : task'[c] # NoTask => task'[c] # target'[u]
         /\ \A u \in Threads : target'[u] \notin done'
         /\ \A c \in Callers : task'[c] \notin done'
         /\ \A c, d \in Callers : task'[c] = task'[d] /\ task'[c] # NoTask => c = d
    BY <1>1, <2>4, <2>5, <2>6 DEF OnePlace
  <2> QED
    BY <2>7, <2>8, <2>9, <2>10, <2>11 DEF OnePlace, At, CAt
<1> QED
  BY <1>2, <1>3

LEMMA OnRunPlace ==
  ASSUME PoolInv, NEW t \in Threads, OnRun(t)
  PROVE  OnePlace'
<1> USE DEF PoolInv
<1> DEFINE k == target[t]
<1>1. /\ pc[t] = "run" /\ pc' = [pc EXCEPT ![t] = "size"]
      /\ done' = done \cup {k} /\ target' = [target EXCEPT ![t] = NoTask]
      /\ UNCHANGED <<queue, task, cpc>>
  BY DEF OnRun, Move, At, Goto, callers
<1>2. \A u \in Threads : /\ target'[u] = IF u = t THEN NoTask ELSE target[u]
                         /\ pc'[u] = IF u = t THEN "size" ELSE pc[u]
  BY <1>1 DEF TypeOK
<1>3. k \in Tasks /\ k # NoTask
  BY <1>1 DEF OnePlace, At, TypeOK
<1>4. NoTask \notin done' 
  BY <1>1, <1>3, NullAssumption DEF NullAssumption, TypeOK
<1>5. \A i \in DOMAIN queue : queue[i] \in Tasks
  BY DEF TypeOK
<1>6. /\ \A i \in DOMAIN queue : queue[i] # k
      /\ \A c \in Callers : task[c] # k
      /\ \A u \in Threads : u # t => target[u] # k
  BY <1>3 DEF OnePlace
<1> HIDE DEF k
<1>7. \A i \in DOMAIN queue' :
        /\ \A c \in Callers : queue'[i] # task'[c]
        /\ \A u \in Threads : queue'[i] # target'[u]
        /\ queue'[i] \notin done'
  BY <1>1, <1>2, <1>5, <1>6, NullAssumption DEF OnePlace, NullAssumption
<1>8. /\ \A c \in Callers : task'[c] # NoTask <=> cpc'[c] = "write"
      /\ \A u \in Threads : target'[u] # NoTask <=> pc'[u] = "run"
  BY <1>1, <1>2 DEF OnePlace, At, CAt
<1>9. /\ \A u \in Threads : target'[u] \notin done'
      /\ \A c \in Callers : task'[c] \notin done'
  BY <1>1, <1>2, <1>4, <1>6 DEF OnePlace
<1> QED
  BY <1>1, <1>2, <1>7, <1>8, <1>9 DEF OnePlace, At, CAt

\* A step of a thread that moves no task.
LEMMA QuietThread ==
  ASSUME PoolInv, NEW t \in Threads, NEW m, m # "run", pc[t] # "run", Goto(t, m),
         UNCHANGED <<queue, target, callers, done>>
  PROVE  OnePlace'
<1>1. pc \in [Threads -> ThreadPlaces] /\ pc' = [pc EXCEPT ![t] = m]
  BY DEF PoolInv, TypeOK, Goto
<1>2. \A u \in Threads : pc'[u] = "run" <=> pc[u] = "run"
  BY <1>1
<1> QED
  BY <1>2, NoTaskMoved DEF callers

\* Every step of a thread but ReadTask and OnRun.
LEMMA OtherThread ==
  ASSUME PoolInv, NEW t \in Threads, Thread(t), ~ReadTask(t), ~OnRun(t)
  PROVE  OnePlace' /\ UNCHANGED <<queue, target, isShutdown, done>>
<1> USE DEF exits
<1>1. CASE Insert(t)
  <2>1. pc[t] # "run" /\ (Goto(t, "none") \/ Goto(t, "read"))
    BY <1>1 DEF Insert
  <2> QED
    BY <1>1, <2>1, QuietThread DEF Insert
<1>2. CASE Size(t)
  <2>1. pc[t] # "run" /\ (Goto(t, "exit") \/ Goto(t, "read"))
    BY <1>2 DEF Size, Move, At
  <2> QED
    BY <1>2, <2>1, QuietThread DEF Size
<1>3. CASE ThreadExit(t)
  <2>1. pc[t] # "run" /\ (Goto(t, "erase") \/ Goto(t, "free"))
    BY <1>3 DEF ThreadExit, Move, At
  <2> QED
    BY <1>3, <2>1, QuietThread DEF ThreadExit
<1>4. CASE Erase(t)
  <2>1. pc[t] # "run" /\ Goto(t, "none")
    BY <1>4 DEF Erase, Move, At
  <2> QED
    BY <1>4, <2>1, QuietThread DEF Erase
<1>5. CASE Free(t)
  <2>1. pc[t] # "run" /\ Goto(t, "recheck")
    BY <1>5 DEF Free, Move, At
  <2> QED
    BY <1>5, <2>1, QuietThread DEF Free
<1>6. CASE Recheck(t)
  <2>1. pc[t] # "run" /\ (Goto(t, "suspend") \/ Goto(t, "wake"))
    BY <1>6 DEF Recheck, Move, At
  <2> QED
    BY <1>6, <2>1, QuietThread DEF Recheck
<1>7. CASE Suspend(t)
  <2>1. pc[t] # "run" /\ Goto(t, "wake")
    BY <1>7 DEF Suspend, Move, At
  <2> QED
    BY <1>7, <2>1, QuietThread DEF Suspend
<1>8. CASE Wake(t)
  <2>1. pc[t] # "run" /\ Goto(t, "eraseidle")
    BY <1>8 DEF Wake, Move, At
  <2> QED
    BY <1>8, <2>1, QuietThread DEF Wake
<1>9. CASE LeaveIdle(t)
  <2>1. pc[t] # "run" /\ Goto(t, "test")
    BY <1>9 DEF LeaveIdle, Move, At
  <2> QED
    BY <1>9, <2>1, QuietThread DEF LeaveIdle
<1>10. CASE TestShutdown(t)
  <2>1. pc[t] # "run" /\ (Goto(t, "none") \/ Goto(t, "insert"))
    BY <1>10 DEF TestShutdown, Move, At
  <2> QED
    BY <1>10, <2>1, QuietThread DEF TestShutdown
<1> QED
  BY <1>1, <1>2, <1>3, <1>4, <1>5, <1>6, <1>7, <1>8, <1>9, <1>10 DEF Thread

\* Starting a thread moves no task.
LEMMA StartMovesNone ==
  ASSUME PoolInv, StartThread
  PROVE  \A t \in Threads : pc'[t] = "run" <=> pc[t] = "run"
<1>1. CASE isShutdown
  BY <1>1 DEF StartThread
<1>2. CASE ~isShutdown
  <2> DEFINE t == CHOOSE u \in Unused : TRUE
  <2>1. t \in Unused /\ Goto(t, "init")
    BY <1>2 DEF StartThread
  <2> HIDE DEF t
  <2>2. t \in Threads /\ pc[t] = "none" /\ pc' = [pc EXCEPT ![t] = "init"]
    BY <2>1 DEF Unused, At, Goto
  <2> QED
    BY <2>2 DEF PoolInv, TypeOK
<1> QED
  BY <1>1, <1>2

\* The steps of callers after the task was written.
LEMMA CallerPlace ==
  ASSUME PoolInv, NEW c \in Callers, CallerStep(c), ~WriteTask(c)
  PROVE  OnePlace' /\ UNCHANGED <<queue, target, isShutdown, done>>
<1> USE DEF exits
<1>0. cpc \in [Callers -> {"idle", "write", "activate", "count", "start"}]
  BY DEF PoolInv, TypeOK
<1>1. CASE ActivateFromIdle(c)
  <2>1. \A d \in Callers : cpc'[d] = "write" <=> cpc[d] = "write"
    BY <1>0, <1>1 DEF ActivateFromIdle, CAt, CGoto
  <2> QED
    BY <1>1, <2>1, NoTaskMoved DEF ActivateFromIdle
<1>2. CASE GetThreadCount(c)
  <2>1. \A d \in Callers : cpc'[d] = "write" <=> cpc[d] = "write"
    BY <1>0, <1>2 DEF GetThreadCount, CAt, CGoto
  <2> QED
    BY <1>2, <2>1, NoTaskMoved DEF GetThreadCount
<1>3. CASE CallerStarts(c)
  <2>1. \A d \in Callers : cpc'[d] = "write" <=> cpc[d] = "write"
    BY <1>0, <1>3 DEF CallerStarts, CAt, CGoto
  <2> QED
    BY <1>3, <2>1, StartMovesNone, NoTaskMoved DEF CallerStarts
<1> QED
  BY <1>1, <1>2, <1>3 DEF CallerStep

LEMMA MainPlace ==
  ASSUME PoolInv, MainThread \/ Shutdown
  PROVE  OnePlace' /\ UNCHANGED <<queue, target, done>> /\ (~Shutdown => isShutdown' = isShutdown)
<1> USE DEF exits, callers
<1>1. CASE Startup
  <2>1. \A t \in Threads : pc'[t] = "run" <=> pc[t] = "run"
    BY <1>1, StartMovesNone DEF Startup
  <2> QED
    BY <1>1, <2>1, NoTaskMoved DEF Startup
<1>2. CASE CountIdle
  BY <1>2, NoTaskMoved DEF CountIdle
<1>3. CASE KillIdleThreads
  BY <1>3, NoTaskMoved DEF KillIdleThreads
<1>4. CASE CountActive
  BY <1>4, NoTaskMoved DEF CountActive
<1>5. CASE ExitActive
  BY <1>5, NoTaskMoved DEF ExitActive
<1>6. CASE AwaitThreads
  BY <1>6, NoTaskMoved DEF AwaitThreads
<1>7. CASE Shutdown
  BY <1>7, NoTaskMoved DEF Shutdown
<1> QED
  BY <1>1, <1>2, <1>3, <1>4, <1>5, <1>6, <1>7 DEF MainThread

LEMMA InitPlace == Init => OnePlace
BY NullAssumption DEF Init, OnePlace, At, CAt, NullAssumption

LEMMA PoolStep == PoolInv /\ [Next]_vars => PoolInv'
<1> SUFFICES ASSUME PoolInv, [Next]_vars PROVE PoolInv'
  OBVIOUS
<1>1. ASSUME NEW c \in Callers, NEW k \in Tasks, ExecuteTask(c, k) PROVE PoolInv'
  BY <1>1, ExecuteTaskInv, ExecuteTaskPlace DEF PoolInv
<1>2. ASSUME NEW c \in Callers, CallerStep(c) PROVE PoolInv'
  BY <1>2, CallerInv, CallerPlace, WriteTaskPlace DEF PoolInv
<1>3. ASSUME NEW t \in Threads, Thread(t) PROVE PoolInv'
  BY <1>3, ThreadInv, ReadTaskPlace, OnRunPlace, OtherThread DEF PoolInv
<1>4. CASE MainThread \/ Shutdown
  BY <1>4, MainInv, MainPlace DEF PoolInv
<1>5. CASE UNCHANGED vars
  <2>1. TypeOK'
    BY <1>5 DEF PoolInv, TypeOK, vars, callers, mains, exits
  <2>2. ArrayInv'
    BY <1>5, SameArray DEF PoolInv, vars
  <2>3. OnePlace'
    BY <1>5, NoTaskMoved DEF vars, callers
  <2> QED
    BY <2>1, <2>2, <2>3 DEF PoolInv
<1> QED
  BY <1>1, <1>2, <1>3, <1>4, <1>5 DEF Next

-----------------------------------------------------------------------------
(* The theorems.                                                           *)

\* In every state the fields have their types, the array and the indices agree
\* with the places of the threads in thread_proc, and no task is in two places:
\* for any threads, callers, tasks, size of the pool and value of a semaphore.
THEOREM PoolInvariant == Spec => [](TypeOK /\ ArrayInv /\ OnePlace)
<1>1. Init => PoolInv
  BY InitInv, InitPlace DEF PoolInv
<1>2. PoolInv /\ [Next]_vars => PoolInv'
  BY PoolStep
<1> QED
  BY <1>1, <1>2, PTL DEF Spec, PoolInv

\* The fields of the pool, the semaphores, what threads and callers hold and
\* the places at which they stand keep their types; the border of the areas
\* and the size stay within the array.
THEOREM TypeCorrect == Spec => []TypeOK
BY PoolInvariant, PTL

\* A task handed to ExecuteTask is with its caller, in the queue, with one
\* thread, or run: no thread takes what another thread has, and what was run
\* is in nobody's hands.
THEOREM TaskInOnePlace == Spec => []OnePlace
BY PoolInvariant, PTL

-----------------------------------------------------------------------------
(* The steps of TaskPool.                                                  *)

\* A thread that stands in the active area without a task leaves room for one
\* more: the tasks being run stand in other places of the array.
LEMMA RoomToRun ==
  ASSUME PoolInv, NEW t \in Threads, pc[t] = "read"
  PROVE  Cardinality(running) < MaxThreads
<1> DEFINE u(k) == CHOOSE v \in Threads : target[v] = k
           Others == Slots \ {pool.index[t]}
           f == [k \in running |-> pool.index[u(k)]]
<1>1. \A v \in Threads : target[v] # NoTask <=> pc[v] = "run"
  BY DEF PoolInv, OnePlace, At
<1>2. ASSUME NEW k \in running
      PROVE  u(k) \in Threads /\ target[u(k)] = k /\ pc[u(k)] = "run"
  <2>1. \E v \in Threads : target[v] = k
    BY DEF running
  <2>2. u(k) \in Threads /\ target[u(k)] = k
    BY <2>1
  <2>3. k # NoTask
    BY DEF running
  <2> QED
    BY <1>1, <2>2, <2>3
<1>3. \A v \in Threads : pc[v] \in {"read", "run"} =>
        pool.index[v] \in Slots /\ pool.arr[pool.index[v]] = v
  <2>1. \A v \in Threads : pc[v] \in {"read", "run"} => v \in ActiveThreads
    BY DEF ActiveThreads, InActive
  <2>2. pool.offset \in Int /\ pool.offset < MaxThreads
    BY PoolsLemma DEF PoolInv, TypeOK
  <2>3. \A v \in ActiveThreads :
          pool.index[v] \in 0 .. pool.offset /\ pool.arr[pool.index[v]] = v
    BY DEF PoolInv, ArrayInv, Arranged
  <2> QED
    BY <2>1, <2>2, <2>3, SizeAssumption DEF Slots, SizeAssumption
<1>4. \A v, w \in Threads :
        pc[v] \in {"read", "run"} /\ pc[w] \in {"read", "run"} /\ v # w
          => pool.index[v] # pool.index[w]
  BY <1>3
<1>5. f \in [running -> Others]
  <2>1. \A k \in running : pool.index[u(k)] \in Others
    <3> SUFFICES ASSUME NEW k \in running PROVE pool.index[u(k)] \in Others
      OBVIOUS
    <3>1. u(k) \in Threads /\ pc[u(k)] = "run"
      BY <1>2
    <3> HIDE DEF u
    <3> QED
      BY <1>3, <1>4, <3>1
  <2> HIDE DEF u, Others
  <2> QED
    BY <2>1
<1>6. \A j, k \in running : f[j] = f[k] => j = k
  <2> SUFFICES ASSUME NEW j \in running, NEW k \in running, f[j] = f[k] PROVE j = k
    OBVIOUS
  <2>1. /\ u(j) \in Threads /\ target[u(j)] = j /\ pc[u(j)] = "run"
        /\ u(k) \in Threads /\ target[u(k)] = k /\ pc[u(k)] = "run"
    BY <1>2
  <2>2. pool.index[u(j)] = pool.index[u(k)]
    OBVIOUS
  <2> HIDE DEF u, f
  <2> QED
    BY <1>4, <2>1, <2>2
<1>7. IsFiniteSet(Slots) /\ Cardinality(Slots) = MaxThreads
  BY SizeAssumption, FS_Interval DEF Slots, SizeAssumption
<1>8. IsFiniteSet(Others) /\ Cardinality(Others) = MaxThreads - 1
  BY <1>3, <1>7, FS_RemoveElement
<1> HIDE DEF f, Others
<1>9. f \in Injection(running, Others)
  BY <1>5, <1>6 DEF Injection, IsInjective
<1>10. IsFiniteSet(running) /\ Cardinality(running) <= Cardinality(Others)
  BY <1>8, <1>9, FS_Injection
<1>11. Cardinality(running) \in Nat
  BY <1>10, FS_CardinalityType
<1> QED
  BY <1>8, <1>10, <1>11, SizeAssumption DEF SizeAssumption

\* What was missed once stays so.
LEMMA MissedStep ==
  ASSUME PoolInv, [Next]_vars
  PROVE  missed' = missed \/ missed' = TRUE
<1>1. ASSUME NEW c \in Callers, NEW k \in Tasks, ExecuteTask(c, k) PROVE missed' = missed
  BY <1>1 DEF ExecuteTask
<1>0. ASSUME missed' = (missed \/ FullOfEnding) PROVE missed' = missed \/ missed' = TRUE
  <2>1. missed \in BOOLEAN
    BY DEF PoolInv, TypeOK
  <2> QED
    BY <1>0, <2>1, Zenon
<1>2. ASSUME NEW c \in Callers, CallerStep(c) PROVE missed' = missed \/ missed' = TRUE
  <2>1. CASE GetThreadCount(c)
    BY <1>0, <2>1 DEF GetThreadCount
  <2> QED
    BY <1>2, <2>1 DEF CallerStep, WriteTask, ActivateFromIdle, CallerStarts
<1>3. ASSUME NEW t \in Threads, Thread(t) PROVE missed' = missed \/ missed' = TRUE
  <2>1. CASE Insert(t)
    BY <1>0, <2>1 DEF Insert
  <2> QED
    BY <1>3, <2>1 DEF Thread, ReadTask, OnRun, Size, ThreadExit, Erase, Free, Recheck,
                      Suspend, Wake, LeaveIdle, TestShutdown
<1>4. CASE MainThread \/ Shutdown
  BY <1>4 DEF MainThread, Shutdown, Startup, CountIdle, KillIdleThreads, CountActive,
              ExitActive, AwaitThreads
<1>5. CASE UNCHANGED vars
  BY <1>5 DEF vars
<1> QED
  BY <1>1, <1>2, <1>3, <1>4, <1>5 DEF Next

\* A step that only misses is a Close of TaskPool, or nothing it sees.
LEMMA Stutter ==
  ASSUME UNCHANGED <<queue, target, isShutdown, done>>,
         missed' = missed \/ missed' = TRUE
  PROVE  Promise!Next \/ UNCHANGED Promise!vars
<1>1. running' = running
  BY DEF running
<1>2. CASE missed' = missed
  BY <1>1, <1>2 DEF Promise!vars
<1>3. CASE missed' = TRUE
  <2>1. Promise!Close
    BY <1>1, <1>3 DEF Promise!Close
  <2> QED
    BY <2>1 DEF Promise!Next
<1> QED
  BY <1>2, <1>3

LEMMA SameCardinality ==
  ASSUME NEW S PROVE Promise!Cardinality(S) = Cardinality(S)
BY DEF Promise!Cardinality, Cardinality

LEMMA SubmitStep ==
  ASSUME PoolInv, NEW c \in Callers, WriteTask(c)
  PROVE  Promise!Next
<1> DEFINE k == task[c]
<1>1. k \in Tasks /\ k # NoTask
  BY DEF PoolInv, TypeOK, OnePlace, WriteTask, CAt
<1>2. /\ \A i \in DOMAIN queue : queue[i] # k
      /\ \A t \in Threads : k # target[t]
      /\ k \notin done
  BY <1>1 DEF PoolInv, OnePlace
<1>3. k \notin Promise!Known
  BY <1>2 DEF Promise!Known, running
<1>4. /\ queue' = Append(queue, k) /\ running' = running
      /\ UNCHANGED <<done, isShutdown, missed>>
  BY DEF WriteTask, exits, running
<1>5. Promise!Submit(k)
  BY <1>3, <1>4 DEF Promise!Submit
<1> QED
  BY <1>1, <1>5 DEF Promise!Next

LEMMA StartStep ==
  ASSUME PoolInv, NEW t \in Threads, ReadTask(t), queue # <<>>
  PROVE  Promise!Next
<1> DEFINE k == Head(queue)
<1>1. /\ pc[t] = "read" /\ target[t] = NoTask
      /\ target' = [target EXCEPT ![t] = k] /\ queue' = Tail(queue)
      /\ UNCHANGED <<done, isShutdown, missed>>
  BY DEF PoolInv, OnePlace, ReadTask, Move, At, exits
<1>2. k \in Tasks /\ k # NoTask
  BY NullAssumption DEF PoolInv, TypeOK, NullAssumption
<1>3. \A u \in Threads : target'[u] = IF u = t THEN k ELSE target[u]
  BY <1>1 DEF PoolInv, TypeOK
<1> HIDE DEF k
<1>4. running' = running \cup {k}
  BY <1>1, <1>2, <1>3 DEF running
<1>5. Cardinality(running) < MaxThreads
  BY <1>1, RoomToRun
<1>6. Promise!Start
  BY <1>1, <1>4, <1>5, SameCardinality DEF Promise!Start, k
<1> QED
  BY <1>6 DEF Promise!Next

LEMMA EndStep ==
  ASSUME PoolInv, NEW t \in Threads, OnRun(t)
  PROVE  Promise!Next
<1> DEFINE k == target[t]
<1>1. /\ pc[t] = "run" /\ target' = [target EXCEPT ![t] = NoTask]
      /\ done' = done \cup {k} /\ UNCHANGED <<queue, isShutdown, missed>>
  BY DEF OnRun, Move, At, exits
<1>2. k \in Tasks /\ k # NoTask
  BY <1>1 DEF PoolInv, TypeOK, OnePlace, At
<1>3. \A u \in Threads : /\ target'[u] = IF u = t THEN NoTask ELSE target[u]
                         /\ u # t => target[u] # k
  BY <1>1, <1>2 DEF PoolInv, TypeOK, OnePlace
<1>4. k \in running
  BY <1>2 DEF running
<1> HIDE DEF k
<1>5. running' = running \ {k}
  <2>1. ASSUME NEW j \in running' PROVE j \in running /\ j # k
    <3>1. PICK u \in Threads : j = target'[u] /\ j # NoTask
      BY <2>1 DEF running
    <3>2. u # t /\ j = target[u]
      BY <1>3, <3>1
    <3> QED
      BY <1>3, <3>1, <3>2 DEF running
  <2>2. ASSUME NEW j \in running, j # k PROVE j \in running'
    <3>1. PICK u \in Threads : j = target[u] /\ j # NoTask
      BY <2>2 DEF running
    <3>2. u # t
      BY <2>2, <3>1 DEF k
    <3>3. target'[u] = j
      BY <1>3, <3>1, <3>2
    <3> QED
      BY <3>1, <3>3 DEF running
  <2> QED
    BY <2>1, <2>2
<1>6. Promise!End(k)
  BY <1>1, <1>4, <1>5 DEF Promise!End
<1> QED
  BY <1>2, <1>6 DEF Promise!Next

LEMMA TaskPoolStep == PoolInv /\ [Next]_vars => [Promise!Next]_(Promise!vars)
<1> SUFFICES ASSUME PoolInv, [Next]_vars PROVE Promise!Next \/ UNCHANGED Promise!vars
  OBVIOUS
<1>0. missed' = missed \/ missed' = TRUE
  BY MissedStep
<1>1. ASSUME NEW c \in Callers, NEW k \in Tasks, ExecuteTask(c, k)
      PROVE  Promise!Next \/ UNCHANGED Promise!vars
  BY <1>0, <1>1, Stutter DEF ExecuteTask, exits
<1>2. ASSUME NEW c \in Callers, CallerStep(c)
      PROVE  Promise!Next \/ UNCHANGED Promise!vars
  BY <1>0, <1>2, SubmitStep, CallerPlace, Stutter
<1>3. ASSUME NEW t \in Threads, Thread(t)
      PROVE  Promise!Next \/ UNCHANGED Promise!vars
  <2>1. CASE ReadTask(t) /\ queue = <<>>
    BY <1>0, <2>1, Stutter DEF ReadTask, exits
  <2> QED
    BY <1>0, <1>3, <2>1, StartStep, EndStep, OtherThread, Stutter
<1>4. CASE MainThread \/ Shutdown
  <2>1. CASE Shutdown
    <3>1. isShutdown' = TRUE /\ running' = running /\ UNCHANGED <<queue, done>>
      BY <2>1 DEF Shutdown, running
    <3>2. Promise!Close
      BY <3>1 DEF Promise!Close
    <3> QED
      BY <3>2 DEF Promise!Next
  <2>2. CASE ~Shutdown
    BY <1>0, <1>4, <2>2, MainPlace, Stutter
  <2> QED
    BY <2>1, <2>2
<1>5. CASE UNCHANGED vars
  BY <1>0, <1>5, Stutter DEF vars, exits
<1> QED
  BY <1>1, <1>2, <1>3, <1>4, <1>5 DEF Next

\* Whatever the order of callers, threads and Shutdown: tasks are taken up in
\* the order they were handed over, at most MaxThreads at once, and none is run
\* twice.
THEOREM TaskPoolSteps == Spec => TakesTaskPoolSteps
<1>1. Init => Promise!Init
  <2> SUFFICES ASSUME Init PROVE Promise!Init
    OBVIOUS
  <2>1. running = {}
    BY DEF Init, running
  <2> QED
    BY <2>1 DEF Init, Promise!Init
<1>2. PoolInv /\ [Next]_vars => [Promise!Next]_(Promise!vars)
  BY TaskPoolStep
<1>3. Spec => []PoolInv
  BY PoolInvariant DEF PoolInv
<1> QED
  BY <1>1, <1>2, <1>3, PTL DEF Spec, TakesTaskPoolSteps, Promise!SafeSpec
-----------------------------------------------------------------------------
(* No wakeup is lost.  A thread that waits can be posted, and has been if   *)
(* it is not FREE; so the caller that wrote a task posts a thread or no     *)
(* thread waits in vain, and it stays so until the queue is empty.          *)

CanBePosted ==
  \A t \in Threads :
    pc[t] \in {"recheck", "suspend"} => status[t] = "FREE" \/ sema[t] > 0
Open ==
  ~isShutdown => main \in {"startup", "up"} /\ thdsToExit = 0

Within(t) ==
  \/ pc[t] \in {"read", "run", "size", "free", "recheck", "wake", "eraseidle"}
  \/ pc[t] = "exit" /\ status[t] # "TIMEOUT"
  \/ pc[t] = "suspend" /\ sema[t] > 0
Outside(t) == pc[t] \in {"init", "test", "insert"}
Awake == \A t \in Threads : pc[t] = "suspend" => sema[t] > 0
Bringing(c) == cpc[c] \in {"count", "start"}

\* Who will look at the queue: a caller that is about to post, a thread in the
\* array, one that will find a place there; or, if no thread waits, one that
\* may find none or that a caller may start.
Coming ==
  \/ \E c \in Callers : cpc[c] = "activate"
  \/ \E t \in Threads : Within(t)
  \/ pool.size < MaxThreads /\ \E t \in Threads : Outside(t)
  \/ Awake /\ ((\E c \in Callers : Bringing(c)) \/ \E t \in Threads : Outside(t))

WakeInv ==
  /\ CanBePosted /\ Open
  /\ queue # <<>> /\ ~isShutdown /\ ~missed => Coming

\* Callers and the main thread only post; a thread gets there through ThreadExit.
LEMMA CanBePostedStep ==
  ASSUME PoolInv, CanBePosted, [Next]_vars
  PROVE  CanBePosted'
<1>0. /\ pc \in [Threads -> ThreadPlaces] /\ sema \in [Threads -> 0 .. SemValueMax]
      /\ status \in [Threads -> {"ACTIVE", "FREE", "TIMEOUT"}]
      /\ \A t \in Threads : sema[t] \in Nat
  BY SizeAssumption DEF PoolInv, TypeOK, SizeAssumption
\* It is enough that the semaphores of threads that stay only grow.
<1>1. ASSUME status' = status, NEW u, pc' = pc \/ pc' = [pc EXCEPT ![u] = "init"],
             \A t \in Threads : sema'[t] \in Nat /\ sema'[t] >= sema[t]
      PROVE  CanBePosted'
  BY <1>0, <1>1 DEF CanBePosted
<1>2. ASSUME NEW c \in Callers, NEW k \in Tasks, ExecuteTask(c, k) PROVE CanBePosted'
  BY <1>0, <1>1, <1>2 DEF ExecuteTask
<1>3. ASSUME StartThread, status' = status, sema' = sema PROVE CanBePosted'
  <2> DEFINE u == CHOOSE t \in Unused : TRUE
  <2>1. pc' = pc \/ pc' = [pc EXCEPT ![u] = "init"]
    BY <1>3 DEF StartThread, Goto
  <2> HIDE DEF u
  <2> QED
    BY <1>0, <1>1, <1>3, <2>1
<1>4. ASSUME NEW c \in Callers, CallerStep(c) PROVE CanBePosted'
  <2>1. CASE WriteTask(c) \/ GetThreadCount(c)
    BY <1>0, <1>1, <2>1 DEF WriteTask, GetThreadCount
  <2>2. CASE ActivateFromIdle(c)
    <3>1. \A t \in Threads : sema'[t] \in Nat /\ sema'[t] >= sema[t]
      BY <1>0, <2>2 DEF ActivateFromIdle, Resume
    <3> QED
      BY <1>1, <2>2, <3>1 DEF ActivateFromIdle
  <2>3. CASE CallerStarts(c)
    BY <1>3, <2>3 DEF CallerStarts
  <2> QED
    BY <1>4, <2>1, <2>2, <2>3 DEF CallerStep
<1>5. CASE MainThread \/ Shutdown
  <2>1. CASE Startup
    BY <1>0, <1>1, <1>3, <2>1 DEF Startup
  <2>2. CASE Shutdown \/ CountIdle \/ CountActive \/ ExitActive
    BY <1>0, <1>1, <2>2 DEF Shutdown, CountIdle, CountActive, ExitActive
  <2>3. ASSUME NEW S, pc' = pc, status' = status, 
               sema' = [t \in Threads |->
                          IF t \in S /\ CanPost(t) THEN sema[t] + 1 ELSE sema[t]]
        PROVE  CanBePosted'
    BY <1>0, <1>1, <2>3
  <2>4. CASE KillIdleThreads
    BY <2>3, <2>4 DEF KillIdleThreads
  <2>5. CASE AwaitThreads
    BY <2>3, <2>5 DEF AwaitThreads
  <2> QED
    BY <1>5, <2>1, <2>2, <2>4, <2>5 DEF MainThread
<1>6. ASSUME NEW t \in Threads, Thread(t) PROVE CanBePosted'
  <2>1. ASSUME NEW m, pc' = [pc EXCEPT ![t] = m], m \notin {"recheck", "suspend"},
               \A u \in Threads \ {t} : status'[u] = status[u] /\ sema'[u] = sema[u]
        PROVE  CanBePosted'
    BY <1>0, <2>1 DEF CanBePosted
  <2>2. CASE Free(t)
    <3>1. PICK late \in SUBSET TimedOut(pool', t) :
            /\ status' = [s \in Threads |->
                            IF s = t \/ (s \in late /\ ~CanPost(s)) THEN "FREE"
                            ELSE IF s \in late THEN "TIMEOUT" ELSE status[s]]
            /\ sema' = [s \in Threads |->
                          IF s \in late /\ CanPost(s) THEN sema[s] + 1 ELSE sema[s]]
      BY <2>2 DEF Free
    <3>2. pc' = [pc EXCEPT ![t] = "recheck"]
      BY <2>2 DEF Free, Move, Goto
    <3> HIDE <2>2
    <3> QED
      BY <1>0, <3>1, <3>2 DEF CanBePosted
  <2>3. CASE Recheck(t)
    BY <1>0, <2>3 DEF Recheck, Move, At, Goto, CanBePosted
  <2>4. CASE Insert(t) \/ Erase(t) \/ TestShutdown(t)
    BY <1>0, <2>1, <2>4 DEF Insert, Erase, TestShutdown, Move, Goto, Ended
  <2>5. CASE ReadTask(t) \/ OnRun(t) \/ Size(t) \/ ThreadExit(t) \/ LeaveIdle(t)
    BY <1>0, <2>1, <2>5 DEF ReadTask, OnRun, Size, ThreadExit, LeaveIdle, Move, Goto
  <2>6. CASE Suspend(t) \/ Wake(t)
    BY <1>0, <2>1, <2>6 DEF Suspend, Wake, Move, Goto
  <2> QED
    BY <1>6, <2>2, <2>3, <2>4, <2>5, <2>6 DEF Thread
<1>7. CASE UNCHANGED vars
  BY <1>0, <1>1, <1>7 DEF vars
<1> QED
  BY <1>2, <1>4, <1>5, <1>6, <1>7 DEF Next

LEMMA OpenStep ==
  ASSUME PoolInv, Open, [Next]_vars
  PROVE  Open' /\ (~isShutdown' => ~isShutdown)
<1> USE DEF Open, exits, mains
<1>0. thdsToExit \in Nat /\ isShutdown \in BOOLEAN
  BY DEF PoolInv, TypeOK
<1>1. ASSUME NEW c \in Callers, NEW k \in Tasks, ExecuteTask(c, k)
      PROVE  UNCHANGED <<main, thdsToExit, isShutdown>>
  BY <1>1 DEF ExecuteTask
<1>2. ASSUME NEW c \in Callers, CallerStep(c)
      PROVE  UNCHANGED <<main, thdsToExit, isShutdown>>
  BY <1>2 DEF CallerStep, WriteTask, ActivateFromIdle, GetThreadCount, CallerStarts
<1>3. ASSUME NEW t \in Threads, Thread(t)
      PROVE  /\ UNCHANGED <<main, isShutdown>>
             /\ thdsToExit = 0 => thdsToExit' = 0
  BY <1>3 DEF Thread, Insert, ReadTask, OnRun, Size, ThreadExit, Erase, Free, Recheck,
              Suspend, Wake, LeaveIdle, TestShutdown
<1>4. CASE MainThread \/ Shutdown
  BY <1>0, <1>4 DEF MainThread, Shutdown, Startup, CountIdle, KillIdleThreads,
                    CountActive, ExitActive, AwaitThreads, MMove, MAt
<1>5. CASE UNCHANGED vars
  BY <1>5 DEF vars
<1> QED
  BY <1>1, <1>2, <1>3, <1>4, <1>5 DEF Next

\* A thread in the array that does not end will look, if nobody waits in vain.
LEMMA FullLemma ==
  ASSUME PoolInv, Awake, pool.size >= MaxThreads, ~FullOfEnding
  PROVE  \E t \in Threads : Within(t)
<1>1. PICK i \in 0 .. (pool.size - 1) : ~Ending(pool.arr[i])
  BY DEF FullOfEnding
<1> DEFINE t == pool.arr[i]
<1>2. pool.offset \in Int /\ pool.size \in Nat
  BY PoolsLemma DEF PoolInv, TypeOK
<1>3. i \in 0 .. pool.offset \/ i \in (pool.offset + 1) .. (pool.size - 1)
  BY <1>2
<1>4. t \in ActiveThreads \/ t \in IdleThreads
  BY <1>3 DEF PoolInv, ArrayInv, Arranged
<1>5. ~Ending(t)
  BY <1>1
<1> HIDE DEF t
<1>6. t \in Threads /\ Within(t)
  BY <1>4, <1>5 DEF ActiveThreads, IdleThreads, InActive, InIdle, Ending, At, Within, Awake
<1> QED
  BY <1>6

\* A caller that posts a thread, or finds none that waits.
LEMMA ActivateWake ==
  ASSUME PoolInv, CanBePosted, NEW c \in Callers, ActivateFromIdle(c)
  PROVE  Coming'
<1>0. /\ pc' = pc /\ sema \in [Threads -> 0 .. SemValueMax] /\ pool' = pool
      /\ cpc \in [Callers -> {"idle", "write", "activate", "count", "start"}]
  BY DEF ActivateFromIdle, PoolInv, TypeOK
<1>1. CASE Resumable # {}
  <2>1. PICK i \in Resumable : Resume(pool.arr[i])
    BY <1>1 DEF ActivateFromIdle
  <2>2. pool.arr[i] \in Threads /\ pc[pool.arr[i]] \in InIdle
    BY <2>1 DEF Resumable, Idle, PoolInv, ArrayInv, Arranged, IdleThreads
  <2>3. PICK u \in Threads : pc[u] \in InIdle /\ sema' = [sema EXCEPT ![u] = @ + 1]
    BY <2>1, <2>2 DEF Resume
  <2>4. sema'[u] > 0
    BY <1>0, <2>3, SizeAssumption DEF SizeAssumption
  <2>5. Within(u)'
    BY <1>0, <2>3, <2>4 DEF InIdle, Within
  <2> QED
    BY <2>5 DEF Coming
<1>2. CASE Resumable = {}
  <2>1. cpc' = [cpc EXCEPT ![c] = "count"] /\ sema' = sema
    BY <1>2 DEF ActivateFromIdle, CGoto
  <2>2. ASSUME NEW t \in Threads, pc[t] = "suspend", ~(sema[t] > 0) PROVE FALSE
    <3>1. t \in IdleThreads /\ status[t] = "FREE"
      BY <2>2 DEF CanBePosted, IdleThreads, InIdle
    <3>2. CanPost(t)
      BY <1>0, <2>2, PostAssumption, SizeAssumption DEF CanPost, PostAssumption, SizeAssumption
    <3>3. pool.index[t] \in Idle /\ pool.arr[pool.index[t]] = t
      BY <3>1 DEF PoolInv, ArrayInv, Arranged, Idle
    <3> QED
      BY <1>2, <3>1, <3>2, <3>3 DEF Resumable
  <2>3. Awake'
    BY <1>0, <2>1, <2>2 DEF Awake
  <2>4. Bringing(c)'
    BY <1>0, <2>1 DEF Bringing
  <2> QED
    BY <2>3, <2>4 DEF Coming
<1> QED
  BY <1>1, <1>2

\* A thread that is started comes from outside.
LEMMA StartWake ==
  ASSUME PoolInv, Coming, StartThread, ~isShutdown, UNCHANGED <<pool, sema, status>>,
         \A c \in Callers : cpc[c] = "activate" => cpc'[c] = "activate"
  PROVE  Coming'
<1>0. Unused # {} /\ Goto(CHOOSE t \in Unused : TRUE, "init")
  BY DEF StartThread
<1>1. PICK u \in Unused : Goto(u, "init")
  BY <1>0
<1>2. /\ u \in Threads /\ pc[u] = "none" /\ pc' = [pc EXCEPT ![u] = "init"]
      /\ pc \in [Threads -> ThreadPlaces]
  BY <1>1 DEF Unused, At, Goto, PoolInv, TypeOK
<1>3. Outside(u)'
  BY <1>2 DEF Outside
<1>4. \A t \in Threads : Within(t) => Within(t)'
  BY <1>2 DEF Within
<1>5. Awake => Awake'
  BY <1>2 DEF Awake
<1> QED
  BY <1>2, <1>3, <1>4, <1>5 DEF Coming

\* The other steps of callers.
LEMMA CallerWake ==
  ASSUME PoolInv, WakeInv, NEW c \in Callers, CallerStep(c),
         queue' # <<>>, ~isShutdown, ~missed, ~missed'
  PROVE  Coming'
<1>0. cpc \in [Callers -> {"idle", "write", "activate", "count", "start"}]
  BY DEF PoolInv, TypeOK
<1>1. CASE WriteTask(c)
  <2>1. cpc'[c] = "activate"
    BY <1>0, <1>1 DEF WriteTask, CGoto
  <2> QED
    BY <2>1 DEF Coming
<1>2. CASE ActivateFromIdle(c)
  BY <1>2, ActivateWake DEF WakeInv
<1>3. CASE GetThreadCount(c)
  <2>1. Coming
    BY <1>3 DEF WakeInv, GetThreadCount
  <2>2. /\ UNCHANGED <<queue, pool, status, sema, pc>>
        /\ cpc[c] = "count" /\ missed' = (missed \/ FullOfEnding)
        /\ cpc' = [cpc EXCEPT ![c] = IF pool.size < MaxThreads THEN "start" ELSE "idle"]
    BY <1>3 DEF GetThreadCount, CAt, CGoto
  <2>3. \A t \in Threads : Within(t) => Within(t)'
    BY <2>2 DEF Within
  <2>4. \A t \in Threads : Outside(t) => Outside(t)'
    BY <2>2 DEF Outside
  <2>5. Awake' = Awake
    BY <2>2 DEF Awake
  <2>6. CASE Awake /\ pool.size >= MaxThreads
    <3>1. ~FullOfEnding
      BY <2>2
    <3> QED
      BY <2>3, <2>6, <3>1, FullLemma DEF Coming
  <2>7. CASE Awake /\ pool.size < MaxThreads
    <3>1. Bringing(c)'
      BY <1>0, <2>2, <2>7 DEF Bringing
    <3> QED
      BY <2>5, <2>7, <3>1 DEF Coming
  <2>8. CASE ~Awake
    BY <1>0, <2>1, <2>2, <2>3, <2>4, <2>8 DEF Coming
  <2>9. pool.size \in Nat
    BY PoolsLemma DEF PoolInv, TypeOK
  <2> QED
    BY <2>6, <2>7, <2>8, <2>9, SizeAssumption DEF SizeAssumption
<1>4. CASE CallerStarts(c)
  <2>1. Coming
    BY <1>4 DEF WakeInv, CallerStarts
  <2>2. \A d \in Callers : cpc[d] = "activate" => cpc'[d] = "activate"
    BY <1>0, <1>4 DEF CallerStarts, CAt, CGoto
  <2> QED
    BY <1>4, <2>1, <2>2, StartWake DEF CallerStarts
<1> QED
  BY <1>1, <1>2, <1>3, <1>4 DEF CallerStep

\* A thread that is not there, outside or about to end goes on: the others are
\* where they were, and so is whoever brings one.
LEMMA OtherWake ==
  ASSUME PoolInv, Coming, NEW t \in Threads, NEW m, pc' = [pc EXCEPT ![t] = m],
         ~Within(t), ~Outside(t) \/ Outside(t)', m # "suspend",
         \A u \in Threads \ {t} : status'[u] = status[u] /\ sema'[u] = sema[u],
         cpc' = cpc, pool'.size \in Nat, pool'.size <= pool.size
  PROVE  Coming'
<1>0. pc \in [Threads -> ThreadPlaces] /\ pool.size \in Nat
  BY PoolsLemma DEF PoolInv, TypeOK
<1>1. \A u \in Threads : Within(u) => Within(u)'
  <2> SUFFICES ASSUME NEW u \in Threads, Within(u) PROVE Within(u)'
    OBVIOUS
  <2>1. u # t
    OBVIOUS
  <2> QED
    BY <1>0, <2>1 DEF Within
<1>2. \A u \in Threads : Outside(u) => Outside(u)'
  BY <1>0 DEF Outside
<1>3. Awake => Awake'
  BY <1>0 DEF Awake
<1>4. pool.size < MaxThreads => pool'.size < MaxThreads
  BY <1>0, SizeAssumption DEF SizeAssumption
<1>5. \A c \in Callers : Bringing(c) => Bringing(c)'
  BY DEF Bringing
<1> QED
  BY <1>1, <1>2, <1>3, <1>4, <1>5 DEF Coming

LEMMA ThreadWake ==
  ASSUME PoolInv, WakeInv, NEW t \in Threads, Thread(t),
         queue' # <<>>, ~isShutdown, ~missed, ~missed'
  PROVE  Coming'
<1>0. /\ pc \in [Threads -> ThreadPlaces] /\ pool \in Pools
      /\ pool.size \in Nat /\ pool.size <= MaxThreads /\ MaxThreads \in Nat
      /\ sema \in [Threads -> 0 .. SemValueMax]
      /\ status \in [Threads -> {"ACTIVE", "FREE", "TIMEOUT"}]
  BY PoolsLemma, SizeAssumption DEF PoolInv, TypeOK, SizeAssumption
<1>1. queue # <<>>
  <2>1. CASE ReadTask(t)
    BY <2>1 DEF ReadTask
  <2> QED
    BY <2>1 DEF Thread, Insert, OnRun, Size, ThreadExit, Erase, Free, Recheck,
                Suspend, Wake, LeaveIdle, TestShutdown
<1>2. Coming /\ thdsToExit = 0
  BY <1>1 DEF WakeInv, Open
<1>3. ASSUME Within(t)' PROVE Coming'
  BY <1>3 DEF Coming
<1>4. CASE Insert(t)
  <2>1. CASE pool.size >= MaxThreads
    <3>1. /\ pc' = [pc EXCEPT ![t] = "none"] /\ Outside(t) /\ ~Within(t)
          /\ missed' = (missed \/ FullOfEnding) /\ cpc' = cpc
          /\ Ended(pool, t)
      BY <1>4, <2>1 DEF Insert, Goto, Outside, Within, callers
    <3>2. \A u \in Threads : Within(u) => Within(u)'
      <4> SUFFICES ASSUME NEW u \in Threads, Within(u) PROVE Within(u)'
        OBVIOUS
      <4>1. u # t
        BY <3>1
      <4>2. pc'[u] = pc[u] /\ status'[u] = status[u] /\ sema'[u] = sema[u]
        BY <1>0, <3>1, <4>1 DEF Ended
      <4> QED
        BY <4>2 DEF Within
    <3>3. ~FullOfEnding
      BY <3>1
    <3>4. ~(pool.size < MaxThreads)
      BY <1>0, <2>1
    <3>5. CASE Awake
      BY <2>1, <3>2, <3>3, <3>5, FullLemma DEF Coming
    <3>6. CASE ~Awake
      BY <1>2, <3>1, <3>2, <3>4, <3>6 DEF Coming
    <3> QED
      BY <3>5, <3>6
  <2>2. CASE ~(pool.size >= MaxThreads)
    <3>1. pc'[t] = "read"
      BY <1>0, <1>4, <2>2 DEF Insert, Goto
    <3> QED
      BY <1>3, <3>1 DEF Within
  <2> QED
    BY <2>1, <2>2
<1>5. CASE ReadTask(t) \/ OnRun(t) \/ Size(t) \/ Free(t) \/ Recheck(t) \/ Suspend(t) \/ Wake(t)
  <2>1. pc'[t] \in {"run", "size", "read", "recheck", "wake", "eraseidle"}
    BY <1>0, <1>1, <1>5 DEF ReadTask, OnRun, Size, Free, Recheck, Suspend, Wake, Move, Goto
  <2> QED
    BY <1>3, <2>1 DEF Within
<1>6. CASE ThreadExit(t)
  <2>1. /\ pc[t] = "exit" /\ UNCHANGED <<status, sema, pool, cpc>>
        /\ pc' = [pc EXCEPT ![t] = IF status[t] = "TIMEOUT" THEN "erase" ELSE "free"]
    BY <1>2, <1>6 DEF ThreadExit, Move, At, Goto, callers
  <2>2. CASE status[t] = "TIMEOUT"
    <3>1. ~Within(t) /\ ~Outside(t) /\ pc' = [pc EXCEPT ![t] = "erase"]
      BY <2>1, <2>2 DEF Within, Outside
    <3>2. /\ \A u \in Threads \ {t} : status'[u] = status[u] /\ sema'[u] = sema[u]
          /\ cpc' = cpc /\ pool'.size \in Nat /\ pool'.size <= pool.size
      BY <1>0, <2>1
    <3> QED
      BY <1>2, <3>1, <3>2, OtherWake
  <2>3. CASE status[t] # "TIMEOUT"
    <3>1. pc'[t] = "free"
      BY <1>0, <2>1, <2>3
    <3> QED
      BY <1>3, <3>1 DEF Within
  <2> QED
    BY <2>2, <2>3
<1>7. CASE Erase(t)
  <2>1. /\ pc[t] = "erase" /\ pc' = [pc EXCEPT ![t] = "none"] /\ cpc' = cpc
        /\ Ended(EraseThread(pool, t), t)
    BY <1>7 DEF Erase, Move, At, Goto, callers
  <2>2. EraseThread(pool, t) \in Pools /\ pool'.size = EraseThread(pool, t).size
    <3>1. t \in ActiveThreads
      BY <2>1 DEF ActiveThreads, InActive
    <3>2. EraseThread(pool, t) \in Pools
      BY <1>0, <3>1, EraseLemma, AreasFact DEF PoolInv, ArrayInv
    <3> QED
      BY <2>1, <3>2 DEF Ended, Pools
  <2>3. EraseThread(pool, t).size <= pool.size
    <3>1. MoveToIdle(pool, t).size = pool.size
      BY DEF MoveToIdle, Sized
    <3>2. \/ EraseThread(pool, t).size = MoveToIdle(pool, t).size
          \/ EraseThread(pool, t).size = MoveToIdle(pool, t).size - 1
      BY DEF EraseThread, EraseIdleThread, Sized
    <3> QED
      BY <1>0, <3>1, <3>2
  <2>4. pool'.size \in Nat /\ pool'.size <= pool.size
    BY <2>2, <2>3, PoolsLemma
  <2>5. \A u \in Threads \ {t} : status'[u] = status[u] /\ sema'[u] = sema[u]
    BY <1>0, <2>1 DEF Ended
  <2>6. ~Within(t) /\ ~Outside(t)
    BY <2>1 DEF Within, Outside
  <2> QED
    BY <1>2, <2>1, <2>4, <2>5, <2>6, OtherWake
<1>8. CASE LeaveIdle(t)
  <2>1. pc[t] = "eraseidle" /\ pc' = [pc EXCEPT ![t] = "test"] /\ pool' = EraseIdleThread(pool, t)
    BY <1>8 DEF LeaveIdle, Move, At, Goto
  <2>2. pool.index[t] \in (pool.offset + 1) .. (pool.size - 1)
    BY <2>1 DEF PoolInv, ArrayInv, Arranged, IdleThreads, InIdle
  <2>3. pool'.size = pool.size - 1
    BY <2>1, <2>2 DEF EraseIdleThread, Sized
  <2>4. pool'.size < MaxThreads
    BY <1>0, <2>3
  <2>5. Outside(t)'
    BY <1>0, <2>1 DEF Outside
  <2> QED
    BY <2>4, <2>5 DEF Coming
<1>9. CASE TestShutdown(t)
  <2>1. /\ pc[t] = "test" /\ pc' = [pc EXCEPT ![t] = "insert"]
        /\ UNCHANGED <<pool, status, sema, cpc>>
    BY <1>9 DEF TestShutdown, Move, At, Goto, callers
  <2>2. ~Within(t) /\ Outside(t)' /\ pc' = [pc EXCEPT ![t] = "insert"]
    BY <1>0, <2>1 DEF Within, Outside
  <2>3. /\ \A u \in Threads \ {t} : status'[u] = status[u] /\ sema'[u] = sema[u]
        /\ cpc' = cpc /\ pool'.size \in Nat /\ pool'.size <= pool.size
    BY <1>0, <2>1
  <2> QED
    BY <1>2, <2>2, <2>3, OtherWake
<1> QED
  BY <1>4, <1>5, <1>6, <1>7, <1>8, <1>9 DEF Thread

LEMMA WakeStep ==
  ASSUME PoolInv, WakeInv, [Next]_vars
  PROVE  WakeInv'
<1>1. CanBePosted' /\ Open' /\ (~isShutdown' => ~isShutdown)
  BY CanBePostedStep, OpenStep DEF WakeInv
<1>2. ~missed' => ~missed
  BY MissedStep
<1> SUFFICES ASSUME queue' # <<>>, ~isShutdown', ~missed' PROVE Coming'
  BY <1>1 DEF WakeInv
<1>3. ~isShutdown /\ ~missed
  BY <1>1, <1>2
<1>4. ASSUME UNCHANGED <<queue, pool, status, sema, pc>>,
             \A c \in Callers : cpc'[c] = cpc[c] \/ cpc[c] = "idle"
      PROVE  Coming'
  <2>1. Coming
    BY <1>3, <1>4 DEF WakeInv
  <2>2. /\ \A t \in Threads : (Within(t) => Within(t)') /\ (Outside(t) => Outside(t)')
        /\ Awake => Awake'
    BY <1>4 DEF Within, Outside, Awake
  <2>3. \A c \in Callers : Bringing(c) => Bringing(c)'
    BY <1>4 DEF Bringing
  <2>4. \A c \in Callers : cpc[c] = "activate" => cpc'[c] = "activate"
    BY <1>4
  <2> QED
    BY <1>4, <2>1, <2>2, <2>3, <2>4 DEF Coming
<1>5. ASSUME NEW c \in Callers, NEW k \in Tasks, ExecuteTask(c, k) PROVE Coming'
  <2>1. \A d \in Callers : cpc'[d] = cpc[d] \/ cpc[d] = "idle"
    BY <1>5 DEF ExecuteTask, CAt, CGoto, PoolInv, TypeOK
  <2> QED
    BY <1>4, <1>5, <2>1 DEF ExecuteTask
<1>6. ASSUME NEW c \in Callers, CallerStep(c) PROVE Coming'
  BY <1>3, <1>6, CallerWake
<1>7. ASSUME NEW t \in Threads, Thread(t) PROVE Coming'
  BY <1>3, <1>7, ThreadWake
<1>8. CASE MainThread \/ Shutdown
  <2>1. Startup
    BY <1>1, <1>3, <1>8 DEF MainThread, Shutdown, CountIdle, KillIdleThreads, CountActive,
                       ExitActive, AwaitThreads, MMove, WakeInv, Open
  <2>2. CASE count = 0
    BY <1>4, <2>1, <2>2 DEF Startup, callers
  <2>3. CASE count # 0
    <3>1. Coming
      BY <1>3, <2>1 DEF WakeInv, Startup
    <3> QED
      BY <1>3, <2>1, <2>3, <3>1, StartWake DEF Startup, callers
  <2> QED
    BY <2>2, <2>3
<1>9. CASE UNCHANGED vars
  BY <1>4, <1>9 DEF vars, callers
<1> QED
  BY <1>5, <1>6, <1>7, <1>8, <1>9 DEF Next

\* Before Shutdown no task is left in the queue without somebody who is going
\* to look at it, unless all places were found to belong to threads that end.
\* CanBePosted and Open are inductive; Coming says who the somebody is.
THEOREM NoWakeupLost == Spec => []NoLostWakeup
<1>1. Init => WakeInv
  BY DEF Init, WakeInv, CanBePosted, Open
<1>2. PoolInv /\ WakeInv /\ [Next]_vars => WakeInv'
  BY WakeStep
<1>3. WakeInv => NoLostWakeup
  <2>1. \A t \in Threads : Within(t) \/ Outside(t) => Looking(t)
    BY DEF Within, Outside, Looking, At
  <2>2. \A c \in Callers : cpc[c] = "activate" \/ Bringing(c) => cpc[c] # "idle"
    BY DEF Bringing
  <2>3. Coming => (\E c \in Callers : cpc[c] # "idle") \/ \E t \in Threads : Looking(t)
    BY <2>1, <2>2 DEF Coming
  <2> QED
    BY <2>3 DEF WakeInv, NoLostWakeup
<1>4. Spec => []PoolInv
  BY PoolInvariant DEF PoolInv
<1> QED
  BY <1>1, <1>2, <1>3, <1>4, PTL DEF Spec
=============================================================================
