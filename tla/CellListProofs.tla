--------------------------- MODULE CellListProofs ---------------------------
(***************************************************************************)
(* Proofs about CellList, for any number of cells.  The argument is a      *)
(* chain: the allocated cells are, without repetition, p[1] .. p[n], each  *)
(* the successor of the one before, and a loop stands at place i of them.  *)
(* The chain holds even when the list is severed; only head is wrong then. *)
(* What the recursion in Cells computes are parts of that chain, by        *)
(* induction, and so the cells implement AbstractList.                     *)
(***************************************************************************)
EXTENDS CellList, FiniteSetTheorems, SequenceTheorems, WellFoundedInduction, TLAPS

\* The k-th cell of a chain, Null before the first and after the last.
Nth(n, p, k) == IF k \in 1 .. n THEN p[k] ELSE Null

IsChain(n, p) ==
    /\ live = {p[k] : k \in 1 .. n}
    /\ \A k, l \in 1 .. n : p[k] = p[l] => k = l
    /\ \A k \in 1 .. n : next[p[k]] = Nth(n, p, k + 1)

\* The loop stands at place i; head is the first cell, or it is of no use.
IsPlace(n, p, i) ==
    /\ walking => at = Nth(n, p, i) /\ prev = Nth(n, p, i - 1)
    /\ HeadIsSound => head = Nth(n, p, 1)
    /\ n = 0 => head = Null

HasChain(n) == \E p \in [1 .. n -> Cell], i \in 1 .. n + 1 : IsChain(n, p) /\ IsPlace(n, p, i)

ChainInv == \E n \in Nat : HasChain(n)

\* A loop that keeps nothing has no previous cell, and leaves head sound.
DrainInv == ~mayKeep => prev = Null /\ ~wild /\ (~walking => HeadIsSound)

IInv == TypeOK /\ ChainInv /\ DrainInv

-----------------------------------------------------------------------------
\* The invariant holds of the empty list.
LEMMA InitIInv == Init => IInv
<1> SUFFICES ASSUME Init PROVE IInv
    OBVIOUS
<1>1. TypeOK
    BY DEF Init, TypeOK
<1>2. ChainInv
  <2>1. PICK p \in [1 .. 0 -> Cell] : TRUE
    <3>1. [k \in 1 .. 0 |-> Null] \in [1 .. 0 -> Cell]
        OBVIOUS
    <3> QED
        BY <3>1
  <2>2. IsChain(0, p)
      BY DEF Init, IsChain
  <2>3. IsPlace(0, p, 1)
      BY DEF Init, IsPlace, Nth
  <2> QED
      BY <2>2, <2>3, 1 \in 1 .. 0 + 1 DEF ChainInv, HasChain
<1>3. DrainInv
    BY DEF Init, DrainInv, HeadIsSound
<1> QED
    BY <1>1, <1>2, <1>3 DEF IInv

\* list_push_back makes the new cell the last one of the chain.
LEMMA PushChain ==
    ASSUME NEW v \in Value, IInv, Push(v), HeadIsSound, NEW n \in Nat, NEW p \in [1 .. n -> Cell],
           NEW i \in 1 .. n + 1, IsChain(n, p), IsPlace(n, p, i)
    PROVE  \E q \in [1 .. n + 1 -> Cell] :
              /\ \A k \in 1 .. n : q[k] = p[k] /\ data'[q[k]] = data[p[k]]
              /\ data'[q[n + 1]] = v
              /\ IsChain(n + 1, q)' /\ IsPlace(n + 1, q, 1)'
<1> USE CellListAssumption DEF IInv
<1>1. PICK c \in Cell \ live :
           /\ live' = live \cup {c}
           /\ data' = [data EXCEPT ![c] = v]
           /\ head' = IF head = Null THEN c ELSE head
           /\ next' = [d \in Cell |-> IF d = c THEN Null
                                      ELSE IF head # Null /\ d \in LastCells THEN c
                                      ELSE next[d]]
    BY DEF Push
<1>2. ~walking /\ UNCHANGED <<mayKeep, walking, prev, at, wild>>
    BY DEF Push
<1>3. IsChain(n, p) /\ IsPlace(n, p, i)
    OBVIOUS
<1> DEFINE q == [k \in 1 .. n + 1 |-> IF k = n + 1 THEN c ELSE p[k]]
<1>4. q \in [1 .. n + 1 -> Cell] /\ \A k \in 1 .. n : q[k] = p[k]
    OBVIOUS
<1>5. live' = {q[k] : k \in 1 .. n + 1}
  <2>1. live = {p[k] : k \in 1 .. n} /\ q[n + 1] = c
      BY <1>3 DEF IsChain
  <2>2. \A k \in 1 .. n + 1 : q[k] \in live \cup {c}
      BY <1>4, <2>1
  <2>3. \A d \in live \cup {c} : \E k \in 1 .. n + 1 : d = q[k]
      BY <1>4, <2>1
  <2> QED
      BY <1>1, <2>2, <2>3
<1>6. \A k, l \in 1 .. n + 1 : q[k] = q[l] => k = l
    BY <1>1, <1>3, <1>4 DEF IsChain
<1>7. LastCells = IF n = 0 THEN {} ELSE {p[n]}
  <2>1. \A k \in 1 .. n : p[k] \in LastCells <=> k = n
      BY <1>3, CellListAssumption DEF IsChain, LastCells, Nth
  <2> QED
      BY <1>3, <2>1 DEF IsChain, LastCells
<1>8. head = Nth(n, p, 1)
    BY <1>3 DEF IsPlace
<1>9. ASSUME NEW k \in 1 .. n + 1 PROVE next'[q[k]] = Nth(n + 1, q, k + 1)
  <2>1. CASE k = n + 1
      BY <1>1, <2>1 DEF Nth
  <2>2. CASE k = n
    <3>1. q[k] = p[n] /\ p[n] # c /\ p[n] \in LastCells /\ head # Null
        BY <1>1, <1>3, <1>7, <1>8, <2>2 DEF IsChain, Nth
    <3> QED
        BY <1>1, <2>2, <3>1 DEF Nth
  <2>3. CASE k < n
    <3>1. q[k] = p[k] /\ p[k] # c /\ p[k] \notin LastCells
        BY <1>1, <1>3, <1>7, <2>3 DEF IsChain
    <3>2. next'[q[k]] = p[k + 1]
        BY <1>1, <1>3, <2>3, <3>1 DEF IsChain, Nth
    <3> QED
        BY <2>3, <3>2 DEF Nth
  <2> QED
      BY <2>1, <2>2, <2>3
<1>10. IsChain(n + 1, q)'
    BY <1>5, <1>6, <1>9 DEF IsChain
<1>11. head' = Nth(n + 1, q, 1)
    BY <1>1, <1>8 DEF Nth
<1>12. IsPlace(n + 1, q, 1)'
    BY <1>2, <1>11 DEF IsPlace
<1>13. \A k \in 1 .. n : q[k] = p[k] /\ data'[q[k]] = data[p[k]]
  <2>1. \A k \in 1 .. n : p[k] # c
      BY <1>1 DEF IsChain
  <2> QED
      BY <1>1, <1>4, <2>1 DEF TypeOK
<1>14. data'[q[n + 1]] = v
    BY <1>1 DEF TypeOK
<1> HIDE DEF q
<1> QED
    BY <1>4, <1>10, <1>12, <1>13, <1>14

\* list_push_back keeps it: the new cell is the last one of the chain.
LEMMA PushStep == ASSUME NEW v \in Value, IInv, Push(v) PROVE IInv'
<1> USE CellListAssumption DEF IInv
<1>1. CASE ~HeadIsSound
  <2>1. UNCHANGED <<mayKeep, head, next, data, live, walking, prev, at>> /\ mayKeep /\ wild'
      BY <1>1 DEF Push, DrainInv
  <2>2. ASSUME NEW n \in Nat, HasChain(n) PROVE HasChain(n)'
      BY <2>1, <2>2 DEF HasChain, IsChain, IsPlace, Nth, HeadIsSound
  <2>4. ChainInv'
      BY <2>2 DEF ChainInv
  <2>3. TypeOK' /\ DrainInv'
      BY <2>1 DEF TypeOK, DrainInv
  <2> QED
      BY <2>3, <2>4
<1>2. CASE HeadIsSound
  <2>1. PICK n \in Nat : HasChain(n)
      BY DEF ChainInv
  <2>2. PICK p \in [1 .. n -> Cell], i \in 1 .. n + 1 : IsChain(n, p) /\ IsPlace(n, p, i)
      BY <2>1 DEF HasChain
  <2>3. PICK q \in [1 .. n + 1 -> Cell] : IsChain(n + 1, q)' /\ IsPlace(n + 1, q, 1)'
      BY <1>2, <2>2, PushChain
  <2>4. ChainInv'
      BY <2>3 DEF ChainInv, HasChain
  <2>5. PICK c \in Cell \ live :
             /\ live' = live \cup {c}
             /\ data' = [data EXCEPT ![c] = v]
             /\ head' = IF head = Null THEN c ELSE head
             /\ next' = [d \in Cell |-> IF d = c THEN Null
                                        ELSE IF head # Null /\ d \in LastCells THEN c
                                        ELSE next[d]]
      BY <1>2 DEF Push
  <2>6. ~walking /\ UNCHANGED <<mayKeep, walking, prev, at, wild>>
      BY <1>2 DEF Push
  <2>7. TypeOK'
      BY <2>5, <2>6 DEF TypeOK
  <2>8. DrainInv'
      BY <1>2, <2>5, <2>6 DEF DrainInv, HeadIsSound
  <2> QED
      BY <2>4, <2>7, <2>8
<1> QED
    BY <1>1, <1>2

\* A loop starts at the first place.
LEMMA BeginChain ==
    ASSUME IInv, Begin, NEW n \in Nat, NEW p \in [1 .. n -> Cell], NEW i \in 1 .. n + 1,
           IsChain(n, p), IsPlace(n, p, i)
    PROVE  IsChain(n, p)' /\ IsPlace(n, p, 1)'
<1>1. UNCHANGED <<head, next, live, prev>> /\ prev = Null /\ at = Null
    BY DEF Begin, TypeOK, IInv
<1>2. IsChain(n, p)'
    BY <1>1 DEF IsChain, Nth
<1>3. IsPlace(n, p, 1)'
    BY <1>1 DEF Begin, IsPlace, Nth, HeadIsSound
<1> QED
    BY <1>2, <1>3

LEMMA BeginStep == ASSUME IInv, Begin PROVE IInv'
<1> USE CellListAssumption DEF IInv
<1>1. UNCHANGED <<mayKeep, head, next, data, live, prev>> /\ prev = Null /\ at = Null
    BY DEF Begin, TypeOK
<1>n. PICK n \in Nat : HasChain(n)
    BY DEF ChainInv
<1>2. PICK p \in [1 .. n -> Cell], i \in 1 .. n + 1 : IsChain(n, p) /\ IsPlace(n, p, i)
    BY <1>n DEF HasChain
<1>3. IsChain(n, p)' /\ IsPlace(n, p, 1)'
    BY <1>2, BeginChain
<1>5. ChainInv'
    BY <1>3 DEF ChainInv, HasChain
<1>6. CASE HeadIsSound
  <2>1. walking' = TRUE /\ at' = head /\ wild' = wild
      BY <1>6 DEF Begin
  <2>2. TypeOK'
      BY <1>1, <2>1 DEF TypeOK
  <2>3. DrainInv'
      BY <1>1, <2>1 DEF DrainInv
  <2> QED
      BY <1>5, <2>2, <2>3
<1>7. CASE ~HeadIsSound
  <2>1. UNCHANGED <<walking, at>> /\ wild' = TRUE /\ ~walking
      BY <1>7 DEF Begin
  <2>2. TypeOK'
      BY <1>1, <2>1 DEF TypeOK
  <2>3. mayKeep
      BY <1>7, <2>1 DEF DrainInv, TypeOK
  <2>4. DrainInv'
      BY <1>1, <2>3 DEF DrainInv
  <2> QED
      BY <1>5, <2>2, <2>4
<1> QED
    BY <1>6, <1>7

\* A loop that keeps an entry goes to the next place.
LEMMA KeepChain ==
    ASSUME IInv, Keep, NEW n \in Nat, NEW p \in [1 .. n -> Cell], NEW i \in 1 .. n + 1,
           IsChain(n, p), IsPlace(n, p, i)
    PROVE  i \in 1 .. n /\ IsChain(n, p)' /\ IsPlace(n, p, i + 1)'
<1>1. UNCHANGED <<mayKeep, head, next, data, live, walking, wild>> /\ walking /\ mayKeep
    BY DEF Keep
<1>2. i \in 1 .. n /\ at = p[i]
    BY <1>1 DEF Keep, IsPlace, Nth
<1>3. IsChain(n, p)'
    BY <1>1 DEF IsChain, Nth
<1>4. IsPlace(n, p, i + 1)'
    BY <1>1, <1>2, CellListAssumption DEF Keep, IsPlace, IsChain, Nth, HeadIsSound
<1> QED
    BY <1>2, <1>3, <1>4

LEMMA KeepStep == ASSUME IInv, Keep PROVE IInv'
<1> USE CellListAssumption DEF IInv
<1>1. UNCHANGED <<mayKeep, head, next, data, live, walking, wild>> /\ walking /\ mayKeep
    BY DEF Keep
<1>n. PICK n \in Nat : HasChain(n)
    BY DEF ChainInv
<1>2. PICK p \in [1 .. n -> Cell], i \in 1 .. n + 1 : IsChain(n, p) /\ IsPlace(n, p, i)
    BY <1>n DEF HasChain
<1>3. i \in 1 .. n /\ i + 1 \in 1 .. n + 1 /\ IsChain(n, p)' /\ IsPlace(n, p, i + 1)'
    BY <1>2, KeepChain
<1>6. ChainInv'
    BY <1>3 DEF ChainInv, HasChain
<1>7. TypeOK' /\ DrainInv'
    BY <1>1 DEF Keep, TypeOK, DrainInv
<1> QED
    BY <1>6, <1>7

\* list_pop_at takes the i-th cell out of the chain.
LEMMA RemoveChain ==
    ASSUME IInv, Remove, NEW n \in Nat, NEW p \in [1 .. n -> Cell], NEW i \in 1 .. n + 1,
           IsChain(n, p), IsPlace(n, p, i)
    PROVE  /\ i \in 1 .. n /\ at = p[i]
           /\ \E q \in [1 .. n - 1 -> Cell] :
                 /\ \A k \in 1 .. n - 1 : q[k] = IF k < i THEN p[k] ELSE p[k + 1]
                 /\ IsChain(n - 1, q)' /\ IsPlace(n - 1, q, i)'
<1> USE CellListAssumption DEF IInv
<1>1. UNCHANGED <<mayKeep, data, walking, prev, wild>> /\ walking /\ live' = live \ {at} /\ at' = next[at]
    BY DEF Remove
<1>2. IsChain(n, p) /\ IsPlace(n, p, i)
    OBVIOUS
<1>3. i \in 1 .. n /\ at = p[i] /\ prev = Nth(n, p, i - 1)
    BY <1>1, <1>2 DEF Remove, IsPlace, Nth
<1>4. n - 1 \in Nat /\ i \in 1 .. (n - 1) + 1
    BY <1>3
<1> DEFINE q == [k \in 1 .. n - 1 |-> IF k < i THEN p[k] ELSE p[k + 1]]
<1>5. q \in [1 .. n - 1 -> Cell]
    BY <1>3
<1>6. live' = {q[k] : k \in 1 .. n - 1}
  <2>1. \A k \in 1 .. n - 1 : q[k] \in live'
      BY <1>1, <1>2, <1>3 DEF IsChain
  <2>2. ASSUME NEW c \in live' PROVE \E k \in 1 .. n - 1 : c = q[k]
    <3>1. PICK l \in 1 .. n : c = p[l] /\ l # i
        BY <1>1, <1>2, <1>3 DEF IsChain
    <3>2. CASE l < i
      <4>1. l \in 1 .. n - 1 /\ q[l] = c
          BY <1>3, <3>1, <3>2
      <4> QED
          BY <4>1
    <3>3. CASE l > i
      <4>1. l - 1 \in 1 .. n - 1 /\ q[l - 1] = c
          BY <1>3, <3>1, <3>3
      <4> QED
          BY <4>1
    <3> QED
        BY <1>3, <3>1, <3>2, <3>3
  <2> QED
      BY <2>1, <2>2
<1>7. ASSUME NEW k \in 1 .. n - 1, NEW l \in 1 .. n - 1, q[k] = q[l] PROVE k = l
  <2> DEFINE Before(j) == IF j < i THEN j ELSE j + 1
  <2>1. \A j \in 1 .. n - 1 : Before(j) \in 1 .. n /\ q[j] = p[Before(j)]
      BY <1>3
  <2>2. \A a, b \in 1 .. n : p[a] = p[b] => a = b
      BY <1>2 DEF IsChain
  <2>3. Before(k) = Before(l)
    <3> HIDE DEF q, Before
    <3> QED
      BY <1>7, <2>1, <2>2
  <2> QED
      BY <1>3, <2>3
<1>8. \A k \in 1 .. n : next[p[k]] = Nth(n, p, k + 1)
    BY <1>2 DEF IsChain
<1>9. ASSUME NEW k \in 1 .. n - 1 PROVE next'[q[k]] = Nth(n - 1, q, k + 1)
  <2>1. CASE k = i - 1
    <3>1. prev = p[k] /\ prev # Null /\ q[k] = p[k] /\ p[k] \in Cell
        BY <1>3, <2>1 DEF Nth
    <3>2. next'[q[k]] = next[p[i]]
        BY <1>3, <3>1 DEF Remove, TypeOK
    <3>3. next[p[i]] = Nth(n, p, i + 1)
        BY <1>3, <1>8
    <3> QED
        BY <1>3, <2>1, <3>2, <3>3 DEF Nth
  <2>2. CASE k < i - 1
    <3>1. q[k] = p[k] /\ p[k] # prev
        BY <1>2, <1>3, <2>2 DEF IsChain, Nth
    <3>2. next'[q[k]] = next[p[k]]
        BY <3>1 DEF Remove, TypeOK
    <3> QED
        BY <1>3, <1>8, <2>2, <3>2 DEF Nth
  <2>3. CASE k >= i
    <3>1. q[k] = p[k + 1] /\ p[k + 1] # prev
        BY <1>2, <1>3, <2>3 DEF IsChain, Nth
    <3>2. next'[q[k]] = next[p[k + 1]]
        BY <3>1 DEF Remove, TypeOK
    <3>3. next[p[k + 1]] = Nth(n, p, k + 2)
        BY <1>8, <2>3
    <3> QED
        BY <1>3, <2>3, <3>2, <3>3 DEF Nth
  <2> QED
      BY <1>3, <2>1, <2>2, <2>3
<1>10. IsChain(n - 1, q)'
    BY <1>6, <1>7, <1>9 DEF IsChain
<1>11. at' = Nth(n - 1, q, i) /\ prev' = Nth(n - 1, q, i - 1)
  <2>1. at' = Nth(n, p, i + 1)
      BY <1>1, <1>3, <1>8
  <2> QED
      BY <1>1, <1>3, <2>1 DEF Nth
<1>12. HeadIsSound' => head' = Nth(n - 1, q, 1)
  <2>1. CASE i = 1
    <3>1. prev = Null /\ next[at] = Nth(n, p, 2)
        BY <1>3, <1>8, <2>1 DEF Nth
    <3>2. CASE n = 1
        BY <2>1, <3>1, <3>2 DEF Remove, Nth
    <3>3. CASE n # 1
      <4>1. head' = head
          BY <1>3, <3>1, <3>3 DEF Remove, Nth
      <4>2. HeadIsSound => head = p[1]
          BY <1>2, <1>3 DEF IsPlace, Nth
      <4> QED
          BY <1>1, <1>3, <2>1, <4>1, <4>2 DEF HeadIsSound
    <3> QED
        BY <3>2, <3>3
  <2>2. CASE i # 1
    <3>1. head' = head
        BY <1>3, <2>2 DEF Remove, Nth
    <3>2. HeadIsSound => head = p[1]
        BY <1>2, <1>3 DEF IsPlace, Nth
    <3> QED
        BY <1>1, <1>3, <2>2, <3>1, <3>2 DEF HeadIsSound, Nth
  <2> QED
      BY <2>1, <2>2
<1>13. n - 1 = 0 => head' = Null
    BY <1>3, <1>8 DEF Remove, Nth
<1>14. IsPlace(n - 1, q, i)'
    BY <1>11, <1>12, <1>13 DEF IsPlace
<1>15. \A k \in 1 .. n - 1 : q[k] = IF k < i THEN p[k] ELSE p[k + 1]
    OBVIOUS
<1> HIDE DEF q
<1> QED
    BY <1>3, <1>5, <1>10, <1>14, <1>15

LEMMA RemoveStep == ASSUME IInv, Remove PROVE IInv'
<1> USE CellListAssumption DEF IInv
<1>1. PICK n \in Nat : HasChain(n)
    BY DEF ChainInv
<1>2. PICK p \in [1 .. n -> Cell], i \in 1 .. n + 1 : IsChain(n, p) /\ IsPlace(n, p, i)
    BY <1>1 DEF HasChain
<1>3. i \in 1 .. n /\ at = p[i]
    BY <1>2, RemoveChain
<1>4. PICK q \in [1 .. n - 1 -> Cell] : IsChain(n - 1, q)' /\ IsPlace(n - 1, q, i)'
    BY <1>2, RemoveChain
<1>5. n - 1 \in Nat /\ i \in 1 .. (n - 1) + 1
    BY <1>3
<1>6. ChainInv'
    BY <1>4, <1>5 DEF ChainInv, HasChain
<1>7. TypeOK' /\ DrainInv'
    BY DEF Remove, TypeOK, DrainInv
<1> QED
    BY <1>6, <1>7

\* A loop ends after the last place; one that kept nothing has emptied the list.
LEMMA EndChain ==
    ASSUME IInv, End, NEW n \in Nat, NEW p \in [1 .. n -> Cell], NEW i \in 1 .. n + 1,
           IsChain(n, p), IsPlace(n, p, i)
    PROVE  /\ i = n + 1 /\ (prev = Null => n = 0 /\ head = Null)
           /\ IsChain(n, p)' /\ IsPlace(n, p, i)'
<1>1. UNCHANGED <<head, next, live, at>> /\ walking /\ ~walking' /\ at = Null
    BY DEF End
<1>2. at = Nth(n, p, i) /\ prev = Nth(n, p, i - 1)
    BY <1>1 DEF IsPlace
<1>3. i = n + 1
    BY <1>1, <1>2, CellListAssumption DEF Nth
<1>4. prev = Null => n = 0
    BY <1>2, <1>3, CellListAssumption DEF Nth
<1>5. IsChain(n, p)'
    BY <1>1 DEF IsChain, Nth
<1>6. IsPlace(n, p, i)'
    BY <1>1 DEF IsPlace, HeadIsSound
<1> QED
    BY <1>3, <1>4, <1>5, <1>6 DEF IsPlace

LEMMA EndStep == ASSUME IInv, End PROVE IInv'
<1> USE CellListAssumption DEF IInv
<1>1. UNCHANGED <<mayKeep, head, next, data, live, at, wild>> /\ walking /\ walking' = FALSE /\ prev' = Null /\ at = Null
    BY DEF End
<1>n. PICK n \in Nat : HasChain(n)
    BY DEF ChainInv
<1>2. PICK p \in [1 .. n -> Cell], i \in 1 .. n + 1 : IsChain(n, p) /\ IsPlace(n, p, i)
    BY <1>n DEF HasChain
<1>3. IsChain(n, p)' /\ IsPlace(n, p, i)' /\ (prev = Null => head = Null)
    BY <1>2, EndChain
<1>6. ChainInv'
    BY <1>3 DEF ChainInv, HasChain
<1>7. TypeOK'
    BY <1>1 DEF TypeOK
<1>8. ~mayKeep => HeadIsSound'
    BY <1>1, <1>3 DEF DrainInv, HeadIsSound
<1>9. DrainInv'
    BY <1>1, <1>8 DEF DrainInv
<1> QED
    BY <1>6, <1>7, <1>9

\* list_destroy leaves the empty chain, or reads a freed cell.
LEMMA DestroyStep == ASSUME IInv, Destroy PROVE IInv'
<1> USE CellListAssumption DEF IInv
<1>1. UNCHANGED <<mayKeep, next, data, walking, prev, at>> /\ ~walking
    BY DEF Destroy
<1>2. CASE HeadIsSound
  <2>1. head' = Null /\ live' = {} /\ wild' = wild
      BY <1>2 DEF Destroy
  <2>2. PICK p \in [1 .. 0 -> Cell] : TRUE
    <3>1. [k \in 1 .. 0 |-> Null] \in [1 .. 0 -> Cell]
        OBVIOUS
    <3> QED
        BY <3>1
  <2>3. IsChain(0, p)'
      BY <2>1 DEF IsChain
  <2>4. IsPlace(0, p, 1)'
      BY <1>1, <2>1 DEF IsPlace, Nth
  <2>5. ChainInv'
      BY <2>3, <2>4, 1 \in 1 .. 0 + 1 DEF ChainInv, HasChain
  <2>6. TypeOK' /\ DrainInv'
      BY <1>1, <2>1 DEF TypeOK, DrainInv, HeadIsSound
  <2> QED
      BY <2>5, <2>6
<1>3. CASE ~HeadIsSound
  <2>1. UNCHANGED <<mayKeep, head, live>> /\ wild' /\ mayKeep
      BY <1>1, <1>3 DEF Destroy, DrainInv
  <2>2. ChainInv'
      BY <1>1, <2>1 DEF ChainInv, HasChain, IsChain, IsPlace, Nth, HeadIsSound
  <2>3. TypeOK' /\ DrainInv'
      BY <1>1, <2>1 DEF TypeOK, DrainInv
  <2> QED
      BY <2>2, <2>3
<1> QED
    BY <1>2, <1>3

\* Every step keeps the invariant.
LEMMA StepIInv == IInv /\ [Next]_vars => IInv'
<1> SUFFICES ASSUME IInv, [Next]_vars PROVE IInv'
    OBVIOUS
<1>1. ASSUME NEW v \in Value, Push(v) PROVE IInv'
    BY <1>1, PushStep
<1>2. CASE UNCHANGED vars
  <2>1. TypeOK' /\ DrainInv'
      BY <1>2 DEF vars, IInv, TypeOK, DrainInv, HeadIsSound
  <2>n. PICK n \in Nat : HasChain(n)
      BY DEF IInv, ChainInv
  <2>p. PICK p \in [1 .. n -> Cell], i \in 1 .. n + 1 : IsChain(n, p) /\ IsPlace(n, p, i)
      BY <2>n DEF HasChain
  <2>2. IsChain(n, p)'
      BY <1>2, <2>p DEF vars, IsChain, Nth
  <2>3. IsPlace(n, p, i)'
      BY <1>2, <2>p DEF vars, IsPlace, Nth, HeadIsSound
  <2>4. ChainInv'
      BY <2>2, <2>3 DEF ChainInv, HasChain
  <2> QED
      BY <2>1, <2>4 DEF IInv
<1> QED
    BY <1>1, <1>2, BeginStep, KeepStep, RemoveStep, EndStep, DestroyStep DEF Next

LEMMA Invariance == Spec => []IInv
    BY InitIInv, StepIInv, PTL DEF Spec

-----------------------------------------------------------------------------
\* The fields of the list keep their types, and no loop leaves its position behind.
THEOREM ListTypeCorrect == Spec => []TypeOK
    BY Invariance, PTL DEF IInv

\* Whatever a loop over a list keeps and removes, while it runs it stands on
\* allocated cells: the dangling head that list_pop_at may leave is read between
\* loops only.
THEOREM WalksStandOnLiveCells == Spec => []WalkStandsOnLiveCells
<1>1. IInv => WalkStandsOnLiveCells
  <2> SUFFICES ASSUME IInv, walking PROVE {prev, at} \subseteq live \cup {Null}
      BY DEF WalkStandsOnLiveCells
  <2>n. PICK n \in Nat : HasChain(n)
      BY DEF IInv, ChainInv
  <2>1. PICK p \in [1 .. n -> Cell], i \in 1 .. n + 1 : IsChain(n, p) /\ IsPlace(n, p, i)
      BY <2>n DEF HasChain
  <2> QED
      BY <2>1 DEF IsChain, IsPlace, Nth
<1> QED
    BY <1>1, Invariance, PTL

\* A list whose loops remove every entry, as handle_pending_requests does, is never
\* read after it was freed, although its head dangles while the loop is at work.
THEOREM DrainsNeverReadWild == Spec => []NoWildRead
<1>1. IInv => NoWildRead
    BY DEF IInv, DrainInv, NoWildRead
<1> QED
    BY <1>1, Invariance, PTL

-----------------------------------------------------------------------------
(* Recursion.                                                              *)

\* Induction over the natural numbers, of the members of a set.
LEMMA SetInduction ==
    ASSUME NEW S, 0 \in S, \A n \in Nat : n \in S => n + 1 \in S
    PROVE  Nat \subseteq S
<1> DEFINE T == Nat \ S
           R == OpToRel(<, Nat)
<1>1. ASSUME T # {}
      PROVE  FALSE
  <2>1. T \subseteq Nat
      OBVIOUS
  <2>2. IsWellFoundedOn(R, Nat)
      BY NatLessThanWellFounded
  <2>3. \E x \in T : \A y \in T : ~ (<<y, x>> \in R)
    <3> HIDE DEF T, R
    <3> QED
        BY <1>1, <2>1, <2>2, WFMin
  <2>4. PICK n \in T : \A y \in T : ~ (<<y, n>> \in R)
      BY <2>3
  <2>5. n \in Nat /\ n # 0 /\ n - 1 \in Nat /\ n - 1 < n
      OBVIOUS
  <2>6. <<n - 1, n>> \in R
      BY <2>5 DEF OpToRel
  <2>7. n - 1 \in S
      BY <2>4, <2>5, <2>6
  <2>8. n \in S
    <3>1. (n - 1) + 1 \in S
        BY <2>5, <2>7
    <3> QED
        BY <2>5, <3>1
  <2> QED
      BY <2>8
<1> QED
    BY <1>1

\* g is the first n + 1 of the iterates of H on r.
Iterates(g, n, A, r, H) == g \in [0 .. n -> A] /\ g[0] = r /\ \A k \in 0 .. n - 1 : g[k + 1] = H[g[k]]

\* f iterates H on r for ever.
IsIteration(f, A, r, H) == f \in [Nat -> A] /\ f[0] = r /\ \A n \in Nat : f[n + 1] = H[f[n]]

\* What is defined by recursion exists.
LEMMA Iteration ==
    ASSUME NEW A, NEW r \in A, NEW H \in [A -> A]
    PROVE  \E f : IsIteration(f, A, r, H)
<1> DEFINE S == {n \in Nat : \E g : Iterates(g, n, A, r, H)}
<1>1. 0 \in S
  <2> DEFINE g == [k \in 0 .. 0 |-> r]
  <2>1. g \in [0 .. 0 -> A] /\ g[0] = r
      OBVIOUS
  <2>2. Iterates(g, 0, A, r, H)
      BY <2>1 DEF Iterates
  <2> QED
      BY <2>2
<1>2. ASSUME NEW n \in Nat, n \in S
      PROVE  n + 1 \in S
  <2>1. PICK g : Iterates(g, n, A, r, H)
      BY <1>2
  <2> DEFINE h == [k \in 0 .. n + 1 |-> IF k = n + 1 THEN H[g[n]] ELSE g[k]]
  <2>2. g[n] \in A /\ \A k \in 0 .. n : g[k] \in A
      BY <2>1 DEF Iterates
  <2>3. h \in [0 .. n + 1 -> A]
      BY <2>2
  <2>4. h[0] = r
      BY <2>1 DEF Iterates
  <2>5. ASSUME NEW k \in 0 .. (n + 1) - 1
        PROVE  h[k + 1] = H[h[k]]
    <3>1. CASE k = n
        BY <3>1
    <3>2. CASE k # n
        BY <2>1, <3>2 DEF Iterates
    <3> QED
        BY <3>1, <3>2
  <2>6. Iterates(h, n + 1, A, r, H)
    <3> HIDE DEF h
    <3> QED
        BY <2>3, <2>4, <2>5 DEF Iterates
  <2> QED
      BY <2>6
<1>3. Nat \subseteq S
    BY <1>1, <1>2, SetInduction
<1> DEFINE G(n) == CHOOSE g : Iterates(g, n, A, r, H)
<1>4. \A n \in Nat : Iterates(G(n), n, A, r, H)
    BY <1>3
<1>5. ASSUME NEW n \in Nat, NEW m \in Nat, NEW g, NEW h,
             Iterates(g, n, A, r, H), Iterates(h, m, A, r, H)
      PROVE  \A k \in Nat : k <= n /\ k <= m => g[k] = h[k]
  <2> DEFINE U == {k \in Nat : k <= n /\ k <= m => g[k] = h[k]}
  <2>1. 0 \in U
      BY <1>5 DEF Iterates
  <2>2. ASSUME NEW k \in Nat, k \in U
        PROVE  k + 1 \in U
      BY <1>5, <2>2 DEF Iterates
  <2>3. Nat \subseteq U
    <3> HIDE DEF U
    <3> QED
        BY <2>1, <2>2, SetInduction
  <2> QED
      BY <2>3
<1> DEFINE f == [n \in Nat |-> G(n)[n]]
<1> HIDE DEF G
<1>6. f \in [Nat -> A]
    BY <1>4 DEF Iterates
<1>7. f[0] = r
    BY <1>4 DEF Iterates
<1>8. ASSUME NEW n \in Nat
      PROVE  f[n + 1] = H[f[n]]
  <2>1. G(n + 1)[n + 1] = H[G(n + 1)[n]]
      BY <1>4 DEF Iterates
  <2>2. G(n + 1)[n] = G(n)[n]
      BY <1>4, <1>5
  <2> QED
      BY <2>1, <2>2
<1> QED
    BY <1>6, <1>7, <1>8 DEF IsIteration


-----------------------------------------------------------------------------
(* The cells of a list, in order.                                          *)

\* What the recursive definition in Cells computes: the cells that next leads to.
IsTrail(cell, from) ==
    \A k \in Nat : /\ cell[k] \in Cell \cup {Null}
                   /\ cell[k] = IF k = 0 THEN from ELSE IF cell[k - 1] = Null THEN Null ELSE next[cell[k - 1]]

\* Where it has come neither to the end nor to the last cell excluded.
Stages(cell, to) == {k \in 1 .. Cardinality(Cell) : \A j \in 1 .. k : cell[j - 1] \notin {to, Null}}

LEMMA CellsTrail ==
    ASSUME next \in [Cell -> Cell \cup {Null}], NEW to, NEW from \in Cell \cup {Null}
    PROVE  \E cell : IsTrail(cell, from) /\ Cells(from, to) = [k \in Stages(cell, to) |-> cell[k - 1]]
<1> DEFINE D == Cell \cup {Null}
           H == [c \in D |-> IF c = Null THEN Null ELSE next[c]]
<1>1. H \in [D -> D] /\ from \in D
    OBVIOUS
<1>2. PICK f \in [Nat -> D] : f[0] = from /\ \A n \in Nat : f[n + 1] = H[f[n]]
  <2> HIDE DEF H, D
  <2>1. \E f : IsIteration(f, D, from, H)
      BY <1>1, Iteration
  <2> QED
      BY <2>1 DEF IsIteration
<1>3. ASSUME NEW k \in Nat
      PROVE  f[k] = IF k = 0 THEN from ELSE IF f[k - 1] = Null THEN Null ELSE next[f[k - 1]]
  <2>1. CASE k = 0
      BY <1>2, <2>1
  <2>2. CASE k # 0
    <3>1. k - 1 \in Nat /\ k = (k - 1) + 1
        BY <2>2
    <3>2. f[(k - 1) + 1] = H[f[k - 1]] /\ f[k - 1] \in D
        BY <1>2, <3>1
    <3>3. f[k] = IF f[k - 1] = Null THEN Null ELSE next[f[k - 1]]
        BY <3>1, <3>2
    <3> QED
        BY <2>2, <3>3
  <2> QED
      BY <2>1, <2>2
<1> DEFINE cell == CHOOSE g : g = [k \in Nat |-> IF k = 0 THEN from ELSE IF g[k - 1] = Null THEN Null ELSE next[g[k - 1]]]
<1>4. f = [k \in Nat |-> IF k = 0 THEN from ELSE IF f[k - 1] = Null THEN Null ELSE next[f[k - 1]]]
    BY <1>3
<1>5. cell = [k \in Nat |-> IF k = 0 THEN from ELSE IF cell[k - 1] = Null THEN Null ELSE next[cell[k - 1]]]
    BY <1>4
<1>6. Cells(from, to) = [k \in Stages(cell, to) |-> cell[k - 1]]
    BY DEF Cells, Stages
<1> HIDE DEF cell
<1>7. \A k \in Nat : cell[k] = IF k = 0 THEN from ELSE IF cell[k - 1] = Null THEN Null ELSE next[cell[k - 1]]
    BY <1>5
<1>8. \A k \in Nat : cell[k] \in D
  <2> DEFINE S == {k \in Nat : cell[k] \in D}
  <2>1. 0 \in S
      BY <1>7
  <2>2. ASSUME NEW k \in Nat, k \in S
        PROVE  k + 1 \in S
    <3>1. k + 1 \in Nat /\ k + 1 # 0 /\ (k + 1) - 1 = k
        OBVIOUS
    <3>2. cell[k + 1] = IF cell[k] = Null THEN Null ELSE next[cell[k]]
        BY <1>7, <3>1
    <3> QED
        BY <2>2, <3>1, <3>2
  <2>3. Nat \subseteq S
    <3> HIDE DEF S
    <3> QED
        BY <2>1, <2>2, SetInduction
  <2> QED
      BY <2>3
<1> QED
    BY <1>6, <1>7, <1>8 DEF IsTrail

\* A trail that begins in a chain follows it.
LEMMA TrailFollowsChain ==
    ASSUME NEW n \in Nat, NEW p \in [1 .. n -> Cell], IsChain(n, p), NEW i \in 1 .. n + 1, NEW cell,
           IsTrail(cell, Nth(n, p, i))
    PROVE  \A k \in Nat : cell[k] = Nth(n, p, i + k)
<1> DEFINE S == {k \in Nat : cell[k] = Nth(n, p, i + k)}
<1>1. 0 \in S
    BY DEF IsTrail
<1>2. ASSUME NEW k \in Nat, k \in S
      PROVE  k + 1 \in S
  <2>1. k + 1 \in Nat /\ k + 1 # 0 /\ (k + 1) - 1 = k
      OBVIOUS
  <2>2. cell[k + 1] = IF cell[k] = Null THEN Null ELSE next[cell[k]]
      BY <2>1 DEF IsTrail
  <2>3. cell[k] = Nth(n, p, i + k)
      BY <1>2
  <2>4. CASE i + k \in 1 .. n
    <3>1. cell[k] = p[i + k] /\ cell[k] # Null
        BY <2>3, <2>4, CellListAssumption DEF Nth
    <3>2. next[p[i + k]] = Nth(n, p, (i + k) + 1)
        BY <2>4 DEF IsChain
    <3>3. (i + k) + 1 = i + (k + 1)
        OBVIOUS
    <3> QED
        BY <2>2, <3>1, <3>2, <3>3
  <2>5. CASE i + k \notin 1 .. n
      BY <2>2, <2>3, <2>5 DEF Nth
  <2> QED
      BY <2>4, <2>5
<1>3. Nat \subseteq S
  <2> HIDE DEF S
  <2> QED
      BY <1>1, <1>2, SetInduction
<1> QED
    BY <1>3

\* A chain is no longer than there are cells.
LEMMA ChainFits ==
    ASSUME NEW n \in Nat, NEW p \in [1 .. n -> Cell], IsChain(n, p)
    PROVE  Cardinality(Cell) \in Nat /\ n <= Cardinality(Cell)
<1>1. p \in Injection(1 .. n, Cell)
    BY DEF IsChain, Injection, IsInjective
<1>2. Cardinality(1 .. n) <= Cardinality(Cell)
    BY <1>1, FS_Injection, CellListAssumption
<1>3. Cardinality(1 .. n) = n
    BY FS_Interval
<1> QED
    BY <1>2, <1>3, FS_CardinalityType, CellListAssumption

\* From one place of a chain to another there are the cells between them.
LEMMA CellsOfChain ==
    ASSUME next \in [Cell -> Cell \cup {Null}], NEW n \in Nat, NEW p \in [1 .. n -> Cell], IsChain(n, p),
           NEW i \in 1 .. n + 1, NEW j \in i .. n + 1
    PROVE  Cells(Nth(n, p, i), Nth(n, p, j)) = [k \in 1 .. j - i |-> p[i + k - 1]]
<1> DEFINE from == Nth(n, p, i)
           to == Nth(n, p, j)
<1>1. from \in Cell \cup {Null}
    BY DEF Nth
<1>2. PICK cell : IsTrail(cell, from) /\ Cells(from, to) = [k \in Stages(cell, to) |-> cell[k - 1]]
  <2> HIDE DEF from, to
  <2> QED
      BY <1>1, CellsTrail
<1>3. \A k \in Nat : cell[k] = Nth(n, p, i + k)
    BY <1>2, TrailFollowsChain
<1>4. Cardinality(Cell) \in Nat /\ n <= Cardinality(Cell)
    BY ChainFits
<1>5. ASSUME NEW k \in 1 .. j - i
      PROVE  k \in Stages(cell, to) /\ cell[k - 1] = p[i + k - 1]
  <2>1. ASSUME NEW l \in 1 .. k
        PROVE  cell[l - 1] = p[i + l - 1] /\ cell[l - 1] \notin {to, Null}
    <3>1. l - 1 \in Nat /\ i + (l - 1) = i + l - 1 /\ i + l - 1 \in 1 .. n /\ i + l - 1 # j
        OBVIOUS
    <3>2. cell[l - 1] = Nth(n, p, i + l - 1)
        BY <1>3, <3>1
    <3>3. cell[l - 1] = p[i + l - 1] /\ p[i + l - 1] # Null
        BY <3>1, <3>2, CellListAssumption DEF Nth
    <3>4. p[i + l - 1] # to
        BY <3>1, <3>3 DEF IsChain, Nth
    <3> QED
        BY <3>3, <3>4
  <2>2. k \in 1 .. Cardinality(Cell)
      BY <1>4
  <2>3. \A l \in 1 .. k : cell[l - 1] \notin {to, Null}
      BY <2>1
  <2>4. k \in 1 .. k
      OBVIOUS
  <2> HIDE DEF to
  <2> QED
      BY <2>1, <2>2, <2>3, <2>4 DEF Stages
<1>6. ASSUME NEW k \in Stages(cell, to)
      PROVE  k \in 1 .. j - i
  <2>1. k \in Nat /\ k >= 1 /\ \A l \in 1 .. k : cell[l - 1] \notin {to, Null}
      BY <1>4, <1>6 DEF Stages
  <2>2. CASE k > j - i
    <3>1. j - i + 1 \in 1 .. k /\ (j - i + 1) - 1 \in Nat /\ i + ((j - i + 1) - 1) = j
        BY <2>1, <2>2
    <3>2. cell[(j - i + 1) - 1] = Nth(n, p, j)
        BY <1>3, <3>1
    <3> QED
        BY <2>1, <3>1, <3>2
  <2> QED
      BY <2>1, <2>2
<1>7. Stages(cell, to) = 1 .. j - i
    BY <1>5, <1>6
<1> HIDE DEF from, to
<1>8. Cells(from, to) = [k \in 1 .. j - i |-> p[i + k - 1]]
    BY <1>2, <1>5, <1>7
<1> QED
    BY <1>8 DEF from, to
-----------------------------------------------------------------------------
(* What the users of a list see of it.                                     *)

\* Where a loop stands, or one that begins will stand.
Stand(i) == IF walking THEN i ELSE 1

KeptOf(p, j) == [k \in 1 .. j - 1 |-> data[p[k]]]
RestOf(n, p, j) == [k \in 1 .. n + 1 - j |-> data[p[j + k - 1]]]

\* The cells passed and the cells to visit are those before and after the loop's place.
Splits ==
    \A n \in Nat : \A p \in [1 .. n -> Cell] : \A i \in 1 .. n + 1 :
       TypeOK /\ IsChain(n, p) /\ IsPlace(n, p, i) /\ ~Severed =>
          /\ Passed = [k \in 1 .. Stand(i) - 1 |-> p[k]]
          /\ ToVisit = [k \in 1 .. n + 1 - Stand(i) |-> p[Stand(i) + k - 1]]

LEMMA ListSplits == Splits
<1> SUFFICES ASSUME NEW n \in Nat, NEW p \in [1 .. n -> Cell], NEW i \in 1 .. n + 1,
                    TypeOK, IsChain(n, p), IsPlace(n, p, i), ~Severed
             PROVE  /\ Passed = [k \in 1 .. Stand(i) - 1 |-> p[k]]
                    /\ ToVisit = [k \in 1 .. n + 1 - Stand(i) |-> p[Stand(i) + k - 1]]
    BY DEF Splits
<1>1. next \in [Cell -> Cell \cup {Null}]
    BY DEF TypeOK
<1>2. Null = Nth(n, p, n + 1)
    BY DEF Nth
<1>3. ASSUME NEW j \in 1 .. n + 1
      PROVE  Cells(Nth(n, p, j), Null) = [k \in 1 .. n + 1 - j |-> p[j + k - 1]]
  <2> DEFINE m == n + 1
  <2>1. m \in j .. n + 1
      OBVIOUS
  <2> HIDE DEF m
  <2>2. Cells(Nth(n, p, j), Nth(n, p, m)) = [k \in 1 .. m - j |-> p[j + k - 1]]
      BY <1>1, <2>1, CellsOfChain
  <2> QED
      BY <1>2, <2>2 DEF m
<1>4. CASE ~walking
  <2>1. prev = Null /\ HeadIsSound
      BY <1>4 DEF TypeOK, Severed
  <2>2. head = Nth(n, p, 1)
      BY <2>1 DEF IsPlace
  <2>3. Passed = [k \in 1 .. 1 - 1 |-> p[k]]
      BY <2>1 DEF Passed
  <2>4. ToVisit = [k \in 1 .. n + 1 - 1 |-> p[1 + k - 1]]
      BY <1>3, <1>4, <2>2 DEF ToVisit
  <2> QED
      BY <1>4, <2>3, <2>4 DEF Stand
<1>5. CASE walking
  <2>1. at = Nth(n, p, i) /\ prev = Nth(n, p, i - 1)
      BY <1>5 DEF IsPlace
  <2>2. ToVisit = [k \in 1 .. n + 1 - i |-> p[i + k - 1]]
      BY <1>3, <1>5, <2>1 DEF ToVisit
  <2>3. Passed = [k \in 1 .. i - 1 |-> p[k]]
    <3>1. CASE i = 1
        BY <2>1, <3>1 DEF Passed, Nth
    <3>2. CASE i # 1
      <4>1. prev # Null
          BY <2>1, <3>2, CellListAssumption DEF Nth
      <4>2. head = Nth(n, p, 1)
          BY <4>1, <1>5 DEF Severed, IsPlace
      <4>3. Cells(Nth(n, p, 1), Nth(n, p, i)) = [k \in 1 .. i - 1 |-> p[1 + k - 1]]
          BY <1>1, CellsOfChain
      <4>4. Cells(Nth(n, p, 1), Nth(n, p, i)) = [k \in 1 .. i - 1 |-> p[k]]
          BY <4>3
      <4> QED
          BY <2>1, <4>1, <4>2, <4>4 DEF Passed
    <3> QED
        BY <3>1, <3>2
  <2> QED
      BY <1>5, <2>2, <2>3 DEF Stand
<1> QED
    BY <1>4, <1>5

\* No cell is lost and none freed too soon by list_pop_at and the loops of server.c: the
\* allocated cells are those passed and those still to visit, until the list is severed.
THEOREM NoCellIsLost == Spec => []NothingIsLost
<1>1. IInv => NothingIsLost
  <2> SUFFICES ASSUME IInv, ~Severed
               PROVE  live = {Passed[k] : k \in DOMAIN Passed} \cup {ToVisit[k] : k \in DOMAIN ToVisit}
      BY DEF NothingIsLost
  <2>1. PICK n \in Nat : HasChain(n)
      BY DEF IInv, ChainInv
  <2>2. PICK p \in [1 .. n -> Cell], i \in 1 .. n + 1 : IsChain(n, p) /\ IsPlace(n, p, i)
      BY <2>1 DEF HasChain
  <2> DEFINE j == Stand(i)
  <2>3. j \in 1 .. n + 1
      BY DEF Stand
  <2> HIDE DEF j
  <2>4. Passed = [k \in 1 .. j - 1 |-> p[k]] /\ ToVisit = [k \in 1 .. n + 1 - j |-> p[j + k - 1]]
      BY <2>2, ListSplits DEF Splits, IInv, j
  <2>5. {Passed[k] : k \in DOMAIN Passed} = {p[k] : k \in 1 .. j - 1}
      BY <2>4
  <2>6. {ToVisit[k] : k \in DOMAIN ToVisit} = {p[k] : k \in j .. n}
    <3>1. \A k \in j .. n : k - j + 1 \in 1 .. n + 1 - j /\ ToVisit[k - j + 1] = p[k]
        BY <2>3, <2>4
    <3>2. \A k \in 1 .. n + 1 - j : j + k - 1 \in j .. n /\ ToVisit[k] = p[j + k - 1]
        BY <2>3, <2>4
    <3>3. DOMAIN ToVisit = 1 .. n + 1 - j
        BY <2>4
    <3> QED
        BY <3>1, <3>2, <3>3
  <2>7. {p[k] : k \in 1 .. n} = {p[k] : k \in 1 .. j - 1} \cup {p[k] : k \in j .. n}
      BY <2>3
  <2> QED
      BY <2>2, <2>5, <2>6, <2>7 DEF IsChain
<1> QED
    BY <1>1, Invariance, PTL

\* Sequences as functions of their places.
LEMMA PlacesAreASeq ==
    ASSUME NEW S, NEW n \in Nat, NEW f \in [1 .. n -> S]
    PROVE  f \in Seq(S) /\ Len(f) = n /\ (f = << >> <=> n = 0)
<1>1. f \in Seq(S) /\ Len(f) = n
    OBVIOUS
<1> QED
    BY <1>1, EmptySeq

LEMMA OneMore ==
    ASSUME NEW S, NEW n \in Nat, NEW f \in [1 .. n -> S], NEW g \in [1 .. n + 1 -> S],
           \A k \in 1 .. n : g[k] = f[k]
    PROVE  g = Append(f, g[n + 1])
<1>1. f \in Seq(S) /\ Len(f) = n /\ g \in Seq(S) /\ Len(g) = n + 1
    BY PlacesAreASeq
<1>2. Append(f, g[n + 1]) \in Seq(S) /\ Len(Append(f, g[n + 1])) = n + 1
    BY <1>1
<1>3. \A k \in 1 .. n + 1 : Append(f, g[n + 1])[k] = g[k]
    BY <1>1
<1> QED
    BY <1>1, <1>2, <1>3, SeqEqual

LEMMA OneLess ==
    ASSUME NEW S, NEW n \in Nat, n # 0, NEW f \in [1 .. n -> S], NEW g \in [1 .. n - 1 -> S],
           \A k \in 1 .. n - 1 : g[k] = f[k + 1]
    PROVE  f # << >> /\ g = Tail(f) /\ f[1] = Head(f)
<1>1. f \in Seq(S) /\ Len(f) = n /\ f # << >>
    BY PlacesAreASeq
<1>2. g \in Seq(S) /\ Len(g) = n - 1
    BY PlacesAreASeq
<1>3. Tail(f) \in Seq(S) /\ Len(Tail(f)) = n - 1 /\ \A k \in 1 .. n - 1 : Tail(f)[k] = f[k + 1]
    BY <1>1, HeadTailProperties
<1> QED
    BY <1>1, <1>2, <1>3, SeqEqual

\* What the users see, of one chain.
Looks ==
    \A n \in Nat : \A p \in [1 .. n -> Cell] : \A i \in 1 .. n + 1 :
       TypeOK /\ IsChain(n, p) /\ IsPlace(n, p, i) /\ ~Severed =>
          Contents(Passed) = KeptOf(p, Stand(i)) /\ Contents(ToVisit) = RestOf(n, p, Stand(i))

LEMMA ListLooks == Looks
<1> SUFFICES ASSUME NEW n \in Nat, NEW p \in [1 .. n -> Cell], NEW i \in 1 .. n + 1,
                    TypeOK, IsChain(n, p), IsPlace(n, p, i), ~Severed
             PROVE  Contents(Passed) = KeptOf(p, Stand(i)) /\ Contents(ToVisit) = RestOf(n, p, Stand(i))
    BY DEF Looks
<1>1. /\ Passed = [k \in 1 .. Stand(i) - 1 |-> p[k]]
      /\ ToVisit = [k \in 1 .. n + 1 - Stand(i) |-> p[Stand(i) + k - 1]]
    BY ListSplits DEF Splits
<1> QED
    BY <1>1 DEF Contents, KeptOf, RestOf

LEMMA LooksNext == Looks'
    BY ListLooks, PTL

-----------------------------------------------------------------------------
(* CellList implements AbstractList.                                       *)

KeptSeen == IF Severed THEN << >> ELSE Contents(Passed)
RestSeen == IF Severed THEN << >> ELSE Contents(ToVisit)
Beheaded == walking /\ prev = Null /\ ~HeadIsSound

\* The users see what the chain holds, before a step and after it.
LEMMA Look ==
    ASSUME IInv, ~Severed, NEW n \in Nat, NEW p \in [1 .. n -> Cell], NEW i \in 1 .. n + 1,
           IsChain(n, p), IsPlace(n, p, i)
    PROVE  KeptSeen = KeptOf(p, Stand(i)) /\ RestSeen = RestOf(n, p, Stand(i))
BY ListLooks DEF Looks, KeptSeen, RestSeen, IInv

LEMMA LookNext ==
    ASSUME IInv', ~Severed', NEW n \in Nat, NEW p \in [1 .. n -> Cell], NEW i \in 1 .. n + 1,
           IsChain(n, p)', IsPlace(n, p, i)'
    PROVE  KeptSeen' = KeptOf(p, Stand(i))' /\ RestSeen' = RestOf(n, p, Stand(i))'
BY LooksNext DEF Looks, KeptSeen, RestSeen, IInv

\* There is a chain, and a loop stands at a place of it.
LEMMA Chained ==
    ASSUME IInv
    PROVE  \E n \in Nat : \E p \in [1 .. n -> Cell], i \in 1 .. n + 1 : IsChain(n, p) /\ IsPlace(n, p, i)
BY DEF IInv, ChainInv, HasChain

\* list_push_back appends.
LEMMA PushSeen ==
    ASSUME IInv, IInv', ~Severed, NEW v \in Value, Push(v)
    PROVE  /\ ~walking /\ ~walking' /\ mayKeep' = mayKeep /\ ~Severed' /\ ~Beheaded /\ ~Beheaded'
           /\ KeptSeen' = KeptSeen /\ RestSeen' = Append(RestSeen, v)
<1>1. ~walking /\ ~walking' /\ mayKeep' = mayKeep /\ HeadIsSound
    BY DEF Push, Severed
<1>2. PICK n \in Nat : \E p \in [1 .. n -> Cell], i \in 1 .. n + 1 : IsChain(n, p) /\ IsPlace(n, p, i)
    BY Chained
<1>3. PICK p \in [1 .. n -> Cell], i \in 1 .. n + 1 : IsChain(n, p) /\ IsPlace(n, p, i)
    BY <1>2
<1>4. PICK q \in [1 .. n + 1 -> Cell] :
         /\ \A k \in 1 .. n : q[k] = p[k] /\ data'[q[k]] = data[p[k]]
         /\ data'[q[n + 1]] = v
         /\ IsChain(n + 1, q)' /\ IsPlace(n + 1, q, 1)'
    BY <1>1, <1>3, PushChain
<1>5. ~Severed'
  <2>1. HeadIsSound' /\ wild' = wild
      BY <1>1 DEF Push, HeadIsSound
  <2> QED
      BY <2>1 DEF Severed
<1>6. KeptSeen = KeptOf(p, 1) /\ RestSeen = RestOf(n, p, 1)
    BY <1>1, <1>3, Look DEF Stand
<1>7. KeptSeen' = KeptOf(q, 1)' /\ RestSeen' = RestOf(n + 1, q, 1)'
  <2> DEFINE m == n + 1
  <2>1. m \in Nat /\ q \in [1 .. m -> Cell] /\ 1 \in 1 .. m + 1 /\ IsChain(m, q)' /\ IsPlace(m, q, 1)'
      BY <1>4
  <2> HIDE DEF m
  <2>2. KeptSeen' = KeptOf(q, Stand(1))' /\ RestSeen' = RestOf(m, q, Stand(1))'
      BY <1>5, <2>1, LookNext
  <2> QED
      BY <1>1, <2>2 DEF Stand, m
<1>8. KeptSeen' = KeptSeen
    BY <1>6, <1>7 DEF KeptOf
<1>9. RestSeen' = Append(RestSeen, v)
  <2>1. RestSeen = [k \in 1 .. n |-> data[p[k]]] /\ RestSeen' = [k \in 1 .. n + 1 |-> data'[q[k]]]
      BY <1>6, <1>7 DEF RestOf
  <2>2. RestSeen \in [1 .. n -> Value] /\ RestSeen' \in [1 .. n + 1 -> Value]
      BY <1>4, <2>1 DEF IInv, TypeOK
  <2>3. \A k \in 1 .. n : RestSeen'[k] = RestSeen[k]
      BY <1>4, <2>1
  <2>4. RestSeen'[n + 1] = v
      BY <1>4, <2>1
  <2>5. RestSeen' = Append(RestSeen, RestSeen'[n + 1])
      BY <2>2, <2>3, OneMore
  <2> QED
      BY <2>4, <2>5
<1> QED
    BY <1>1, <1>5, <1>8, <1>9 DEF Beheaded

\* A loop that starts changes nothing.
LEMMA BeginSeen ==
    ASSUME IInv, IInv', ~Severed, Begin
    PROVE  /\ ~walking /\ walking' = TRUE /\ mayKeep' = mayKeep /\ ~Severed' /\ ~Beheaded /\ ~Beheaded'
           /\ KeptSeen' = KeptSeen /\ RestSeen' = RestSeen
<1>1. ~walking /\ walking' = TRUE /\ UNCHANGED <<mayKeep, head, next, data, live, wild>> /\ HeadIsSound
    BY DEF Begin, Severed
<1>2. PICK n \in Nat : \E p \in [1 .. n -> Cell], i \in 1 .. n + 1 : IsChain(n, p) /\ IsPlace(n, p, i)
    BY Chained
<1>3. PICK p \in [1 .. n -> Cell], i \in 1 .. n + 1 : IsChain(n, p) /\ IsPlace(n, p, i)
    BY <1>2
<1>4. IsChain(n, p)' /\ IsPlace(n, p, 1)'
    BY <1>3, BeginChain
<1>5. HeadIsSound' /\ ~Severed'
    BY <1>1 DEF Severed, HeadIsSound
<1>6. KeptSeen = KeptOf(p, 1) /\ RestSeen = RestOf(n, p, 1)
    BY <1>1, <1>3, Look DEF Stand
<1>7. KeptSeen' = KeptOf(p, 1)' /\ RestSeen' = RestOf(n, p, 1)'
    BY <1>1, <1>4, <1>5, LookNext DEF Stand
<1>8. KeptOf(p, 1)' = KeptOf(p, 1) /\ RestOf(n, p, 1)' = RestOf(n, p, 1)
    BY <1>1 DEF KeptOf, RestOf
<1> QED
    BY <1>1, <1>5, <1>6, <1>7, <1>8 DEF Beheaded

\* A loop that keeps an entry has passed it, unless the first one is gone.
LEMMA KeepSeen ==
    ASSUME IInv, IInv', ~Severed, Keep
    PROVE  /\ walking /\ walking' /\ mayKeep /\ mayKeep' /\ RestSeen # << >>
           /\ Beheaded => Severed'
           /\ ~Beheaded => /\ ~Severed' /\ ~Beheaded'
                           /\ KeptSeen' = Append(KeptSeen, Head(RestSeen)) /\ RestSeen' = Tail(RestSeen)
<1>1. /\ walking /\ walking' = walking /\ mayKeep /\ mayKeep' = mayKeep
      /\ UNCHANGED <<head, next, data, live, wild>> /\ at # Null /\ prev' = at
    BY DEF Keep
<1>2. PICK n \in Nat : \E p \in [1 .. n -> Cell], i \in 1 .. n + 1 : IsChain(n, p) /\ IsPlace(n, p, i)
    BY Chained
<1>3. PICK p \in [1 .. n -> Cell], i \in 1 .. n + 1 : IsChain(n, p) /\ IsPlace(n, p, i)
    BY <1>2
<1>4. i \in 1 .. n /\ IsChain(n, p)' /\ IsPlace(n, p, i + 1)'
    BY <1>3, KeepChain
<1>5. KeptSeen = KeptOf(p, i) /\ RestSeen = RestOf(n, p, i)
    BY <1>1, <1>3, Look DEF Stand
<1> DEFINE r == [k \in 1 .. n - i |-> data[p[i + 1 + k - 1]]]
<1>6. r \in [1 .. n - i -> Value] /\ RestSeen \in [1 .. n + 1 - i -> Value] /\ KeptSeen \in [1 .. i - 1 -> Value]
    BY <1>4, <1>5 DEF IInv, TypeOK, RestOf, KeptOf
<1>7. RestSeen # << >> /\ r = Tail(RestSeen) /\ RestSeen[1] = Head(RestSeen)
  <2> DEFINE m == n + 1 - i
  <2>1. m \in Nat /\ m # 0 /\ m - 1 = n - i
      BY <1>4
  <2>2. \A k \in 1 .. m - 1 : r[k] = RestSeen[k + 1]
      BY <1>4, <1>5 DEF RestOf
  <2> HIDE DEF r
  <2>3. RestSeen \in [1 .. m -> Value] /\ r \in [1 .. m - 1 -> Value]
      BY <1>6, <2>1
  <2> HIDE DEF m
  <2> QED
      BY <2>1, <2>2, <2>3, OneLess
<1>8. CASE Beheaded
  <2>1. Severed'
      BY <1>1, <1>8 DEF Beheaded, Severed, HeadIsSound
  <2> QED
      BY <1>1, <1>7, <1>8, <2>1
<1>9. CASE ~Beheaded
  <2>1. HeadIsSound /\ ~wild
      BY <1>1, <1>9 DEF Beheaded, Severed
  <2>2. HeadIsSound' /\ ~Severed' /\ ~Beheaded'
      BY <1>1, <2>1 DEF HeadIsSound, Severed, Beheaded
  <2>3. KeptSeen' = KeptOf(p, i + 1)' /\ RestSeen' = RestOf(n, p, i + 1)'
    <3> DEFINE j == i + 1
    <3>1. j \in 1 .. n + 1 /\ IsPlace(n, p, j)'
        BY <1>4
    <3> HIDE DEF j
    <3>2. KeptSeen' = KeptOf(p, Stand(j))' /\ RestSeen' = RestOf(n, p, Stand(j))'
        BY <1>4, <2>2, <3>1, LookNext
    <3> QED
        BY <1>1, <3>2 DEF Stand, j
  <2>4. RestSeen' = r
      BY <1>1, <1>4, <2>3 DEF RestOf
  <2>5. KeptSeen' = [k \in 1 .. i |-> data[p[k]]]
      BY <1>1, <1>4, <2>3 DEF KeptOf
  <2>6. KeptSeen' = Append(KeptSeen, data[p[i]])
    <3> DEFINE l == i - 1
    <3>1. l \in Nat /\ l + 1 = i
        BY <1>4
    <3>2. KeptSeen' \in [1 .. i -> Value] /\ KeptSeen'[i] = data[p[i]]
        BY <1>4, <2>5 DEF IInv, TypeOK
    <3>3. \A k \in 1 .. l : KeptSeen'[k] = KeptSeen[k]
        BY <1>4, <1>5, <2>5 DEF KeptOf
    <3>4. KeptSeen \in [1 .. l -> Value] /\ KeptSeen' \in [1 .. l + 1 -> Value]
        BY <1>6, <3>1, <3>2
    <3> HIDE DEF l
    <3>5. KeptSeen' = Append(KeptSeen, KeptSeen'[l + 1])
        BY <3>1, <3>3, <3>4, OneMore
    <3> QED
        BY <3>1, <3>2, <3>5
  <2>7. RestSeen[1] = data[p[i]]
      BY <1>4, <1>5 DEF RestOf
  <2> HIDE DEF r
  <2> QED
      BY <1>1, <1>7, <1>9, <2>2, <2>4, <2>6, <2>7
<1> QED
    BY <1>8, <1>9

\* list_pop_at takes out the entry at which the loop stands, and severs nothing yet.
LEMMA RemoveSeen ==
    ASSUME IInv, IInv', ~Severed, Remove
    PROVE  /\ walking /\ walking' = walking /\ mayKeep' = mayKeep /\ ~Severed' /\ RestSeen # << >>
           /\ KeptSeen' = KeptSeen /\ RestSeen' = Tail(RestSeen)
           /\ Beheaded' <=> KeptSeen = << >> /\ RestSeen' # << >>
<1>1. /\ walking /\ UNCHANGED <<mayKeep, data, walking, prev, wild>>
      /\ live' = live \ {at} /\ at' = next[at]
    BY DEF Remove
<1>2. PICK n \in Nat : \E p \in [1 .. n -> Cell], i \in 1 .. n + 1 : IsChain(n, p) /\ IsPlace(n, p, i)
    BY Chained
<1>3. PICK p \in [1 .. n -> Cell], i \in 1 .. n + 1 : IsChain(n, p) /\ IsPlace(n, p, i)
    BY <1>2
<1>4. i \in 1 .. n /\ at = p[i]
    BY <1>3, RemoveChain
<1>5. PICK q \in [1 .. n - 1 -> Cell] :
         /\ \A k \in 1 .. n - 1 : q[k] = IF k < i THEN p[k] ELSE p[k + 1]
         /\ IsChain(n - 1, q)' /\ IsPlace(n - 1, q, i)'
    BY <1>3, RemoveChain
<1>6. prev = Nth(n, p, i - 1)
    BY <1>1, <1>3 DEF IsPlace
<1>7. prev = Null <=> i = 1
    BY <1>4, <1>6, CellListAssumption DEF Nth
<1>8. ~Severed' /\ (Beheaded' <=> i = 1 /\ n # 1)
  <2>1. CASE i # 1
    <3>1. HeadIsSound /\ ~wild /\ head' = head
        BY <1>7, <2>1 DEF Severed, Remove
    <3>2. head = p[1]
        BY <1>3, <1>4, <3>1 DEF IsPlace, Nth
    <3>3. p[1] \in live /\ p[1] # at
        BY <1>3, <1>4, <2>1 DEF IsChain
    <3>4. HeadIsSound'
        BY <1>1, <3>1, <3>2, <3>3 DEF HeadIsSound
    <3> QED
        BY <1>1, <2>1, <3>1, <3>4 DEF Severed, Beheaded
  <2>2. CASE i = 1 /\ n = 1
    <3>1. next[p[1]] = Nth(n, p, 2)
        BY <1>3, <2>2 DEF IsChain
    <3>2. next[at] = Null /\ prev = Null
        BY <1>4, <1>7, <2>2, <3>1 DEF Nth
    <3>3. HeadIsSound'
        BY <3>2 DEF Remove, HeadIsSound
    <3> QED
        BY <1>1, <2>2, <3>2, <3>3 DEF Severed, Beheaded
  <2>3. CASE i = 1 /\ n # 1
    <3>1. next[p[1]] = Nth(n, p, 2)
        BY <1>3, <1>4, <2>3 DEF IsChain
    <3>2. next[at] = p[2] /\ p[2] # Null /\ prev = Null
        BY <1>4, <1>7, <2>3, <3>1, CellListAssumption DEF Nth
    <3>3. head' = head
        BY <3>2 DEF Remove
    <3>4. head \in live \cup {Null} => head = at
        BY <1>3, <1>4, <2>3 DEF IsPlace, Nth, HeadIsSound
    <3>5. at \in Cell
        BY <1>4
    <3>6. ~HeadIsSound'
        BY <1>1, <3>3, <3>4, <3>5, CellListAssumption DEF HeadIsSound
    <3>7. ~wild
        BY DEF Severed
    <3> QED
        BY <1>1, <2>3, <3>2, <3>6, <3>7 DEF Severed, Beheaded
  <2> QED
      BY <2>1, <2>2, <2>3
<1>9. KeptSeen = KeptOf(p, i) /\ RestSeen = RestOf(n, p, i)
    BY <1>1, <1>3, Look DEF Stand
<1>10. KeptSeen' = KeptOf(q, i)' /\ RestSeen' = RestOf(n - 1, q, i)'
  <2> DEFINE m == n - 1
  <2>1. m \in Nat /\ q \in [1 .. m -> Cell] /\ i \in 1 .. m + 1 /\ IsChain(m, q)' /\ IsPlace(m, q, i)'
      BY <1>4, <1>5
  <2> HIDE DEF m
  <2>2. KeptSeen' = KeptOf(q, Stand(i))' /\ RestSeen' = RestOf(m, q, Stand(i))'
      BY <1>8, <2>1, LookNext
  <2> QED
      BY <1>1, <2>2 DEF Stand, m
<1>11. KeptSeen' = KeptSeen
    BY <1>1, <1>4, <1>5, <1>9, <1>10 DEF KeptOf
<1>12. RestSeen # << >> /\ RestSeen' = Tail(RestSeen)
  <2> DEFINE m == n + 1 - i
  <2>1. m \in Nat /\ m # 0
      BY <1>4
  <2>2. RestSeen \in [1 .. m -> Value] /\ RestSeen' \in [1 .. m - 1 -> Value]
    <3>1. RestSeen \in [1 .. m -> Value]
        BY <1>4, <1>9 DEF IInv, TypeOK, RestOf
    <3>2. RestSeen' = [k \in 1 .. m - 1 |-> data[q[i + k - 1]]]
        BY <1>1, <1>4, <1>10 DEF RestOf
    <3>3. \A k \in 1 .. m - 1 : i + k - 1 \in 1 .. n - 1
        BY <1>4
    <3> QED
        BY <3>1, <3>2, <3>3 DEF IInv, TypeOK
  <2>3. ASSUME NEW k \in 1 .. m - 1
        PROVE  RestSeen'[k] = RestSeen[k + 1]
    <3>1. i + k - 1 \in 1 .. n - 1 /\ ~(i + k - 1 < i) /\ k + 1 \in 1 .. n + 1 - i /\ k \in 1 .. (n - 1) + 1 - i
        BY <1>4
    <3>2. RestSeen'[k] = data[q[i + k - 1]]
        BY <1>1, <1>10, <3>1 DEF RestOf
    <3>3. RestSeen[k + 1] = data[p[i + (k + 1) - 1]]
        BY <1>9, <3>1 DEF RestOf
    <3>4. q[i + k - 1] = p[(i + k - 1) + 1]
        BY <1>5, <3>1
    <3>5. i + (k + 1) - 1 = (i + k - 1) + 1
        BY <1>4
    <3> QED
        BY <3>2, <3>3, <3>4, <3>5
  <2> HIDE DEF m
  <2> QED
      BY <2>1, <2>2, <2>3, OneLess
<1>13. KeptSeen = << >> <=> i = 1
  <2> DEFINE l == i - 1
  <2>1. l \in Nat /\ KeptSeen \in [1 .. l -> Value]
      BY <1>4, <1>9 DEF IInv, TypeOK, KeptOf
  <2> HIDE DEF l
  <2>2. KeptSeen = << >> <=> l = 0
      BY <2>1, PlacesAreASeq
  <2> QED
      BY <1>4, <2>2 DEF l
<1>14. RestSeen' = << >> <=> i = n
  <2> DEFINE l == n - i
  <2>1. l \in Nat
      BY <1>4
  <2>2. RestSeen' = [k \in 1 .. l |-> data[q[i + k - 1]]]
      BY <1>1, <1>4, <1>10 DEF RestOf
  <2>3. \A k \in 1 .. l : i + k - 1 \in 1 .. n - 1
      BY <1>4
  <2>4. RestSeen' \in [1 .. l -> Value]
      BY <2>2, <2>3 DEF IInv, TypeOK
  <2> HIDE DEF l
  <2>5. RestSeen' = << >> <=> l = 0
      BY <2>1, <2>4, PlacesAreASeq
  <2> QED
      BY <1>4, <2>5 DEF l
<1> QED
    BY <1>1, <1>4, <1>8, <1>11, <1>12, <1>13, <1>14

\* What a loop leaves is what it kept.
LEMMA EndSeen ==
    ASSUME IInv, IInv', ~Severed, End
    PROVE  /\ walking /\ walking' = FALSE /\ mayKeep' = mayKeep /\ ~Severed' /\ ~Beheaded /\ ~Beheaded'
           /\ RestSeen = << >> /\ RestSeen' = KeptSeen /\ KeptSeen' = << >>
<1>1. walking /\ walking' = FALSE /\ UNCHANGED <<mayKeep, head, next, data, live, wild>>
    BY DEF End
<1>2. PICK n \in Nat : \E p \in [1 .. n -> Cell], i \in 1 .. n + 1 : IsChain(n, p) /\ IsPlace(n, p, i)
    BY Chained
<1>3. PICK p \in [1 .. n -> Cell], i \in 1 .. n + 1 : IsChain(n, p) /\ IsPlace(n, p, i)
    BY <1>2
<1>4. i = n + 1 /\ (prev = Null => head = Null) /\ IsChain(n, p)' /\ IsPlace(n, p, i)'
    BY <1>3, EndChain
<1>5. HeadIsSound /\ ~wild
    BY <1>1, <1>4 DEF Severed, HeadIsSound
<1>6. HeadIsSound' /\ ~Severed'
    BY <1>1, <1>5 DEF HeadIsSound, Severed
<1>7. KeptSeen = KeptOf(p, n + 1) /\ RestSeen = RestOf(n, p, n + 1)
    BY <1>1, <1>3, <1>4, Look DEF Stand
<1>8. KeptSeen' = KeptOf(p, 1)' /\ RestSeen' = RestOf(n, p, 1)'
    BY <1>1, <1>4, <1>6, LookNext DEF Stand
<1> DEFINE E == [k \in 1 .. 0 |-> data[p[k]]]
<1>9. E = << >>
  <2>1. E \in [1 .. 0 -> Value]
      OBVIOUS
  <2> HIDE DEF E
  <2> QED
      BY <2>1, PlacesAreASeq
<1>10. RestSeen = << >>
  <2>1. RestSeen = E
      BY <1>7 DEF RestOf
  <2> QED
      BY <1>9, <2>1
<1>11. KeptSeen' = << >>
  <2>1. KeptSeen' = E
      BY <1>1, <1>8 DEF KeptOf
  <2> QED
      BY <1>9, <2>1
<1>12. RestSeen' = KeptSeen
    BY <1>1, <1>7, <1>8 DEF KeptOf, RestOf
<1> QED
    BY <1>1, <1>5, <1>6, <1>10, <1>11, <1>12 DEF Beheaded

\* Without cells there is nothing to see.
LEMMA EmptySeen ==
    ASSUME IInv', ~Severed', ~walking', live' = {}
    PROVE  RestSeen' = << >> /\ KeptSeen' = << >>
<1>1. PICK n \in Nat : HasChain(n)'
    BY DEF IInv, ChainInv
<1>2. PICK p \in [1 .. n -> Cell], i \in 1 .. n + 1 : IsChain(n, p)' /\ IsPlace(n, p, i)'
    BY <1>1 DEF HasChain
<1>3. n = 0
  <2>1. live' = {p[k] : k \in 1 .. n}
      BY <1>2 DEF IsChain
  <2>2. n # 0 => p[1] \in {p[k] : k \in 1 .. n}
      OBVIOUS
  <2> QED
      BY <2>1, <2>2
<1>4. KeptSeen' = KeptOf(p, 1)' /\ RestSeen' = RestOf(n, p, 1)'
    BY <1>2, LookNext DEF Stand
<1>5. KeptSeen' \in [1 .. 0 -> Value] /\ RestSeen' \in [1 .. 0 -> Value]
    BY <1>3, <1>4 DEF KeptOf, RestOf
<1> QED
    BY <1>5, PlacesAreASeq

\* list_destroy leaves an empty list.
LEMMA DestroySeen ==
    ASSUME IInv, IInv', ~Severed, Destroy
    PROVE  /\ ~walking /\ ~walking' /\ mayKeep' = mayKeep /\ ~Severed' /\ ~Beheaded /\ ~Beheaded'
           /\ KeptSeen' = KeptSeen /\ RestSeen' = << >>
<1>1. ~walking /\ ~walking' /\ mayKeep' = mayKeep /\ prev = Null /\ HeadIsSound
    BY DEF Destroy, Severed, IInv, TypeOK
<1>2. head' = Null /\ live' = {} /\ wild' = wild
    BY <1>1 DEF Destroy
<1>3. ~Severed'
    BY <1>2 DEF Severed, HeadIsSound
<1>4. KeptSeen' = << >> /\ RestSeen' = << >>
    BY <1>1, <1>2, <1>3, EmptySeen
<1>5. KeptSeen = << >>
  <2>1. Passed = << >> /\ DOMAIN << >> = {}
      BY <1>1 DEF Passed
  <2>2. Contents(Passed) = << >>
      BY <2>1 DEF Contents
  <2> QED
      BY <2>2 DEF KeptSeen
<1> QED
    BY <1>1, <1>3, <1>4, <1>5 DEF Beheaded

\* A list stays severed.
LEMMA StaysSevered ==
    ASSUME IInv, Severed, Next
    PROVE  Severed' /\ mayKeep' = mayKeep
<1>1. ASSUME NEW v \in Value, Push(v)
      PROVE  Severed' /\ mayKeep' = mayKeep
    BY <1>1 DEF Push, Severed
<1>2. CASE Begin
    BY <1>2 DEF Begin, Severed
<1>3. CASE Keep
    BY <1>3 DEF Keep, Severed, HeadIsSound
<1>4. CASE Remove
    BY <1>4 DEF Remove, Severed, HeadIsSound
<1>5. CASE End
    BY <1>5 DEF End, Severed, HeadIsSound
<1>6. CASE Destroy
    BY <1>6 DEF Destroy, Severed
<1> QED
    BY <1>1, <1>2, <1>3, <1>4, <1>5, <1>6 DEF Next

\* Every step of the cells is a step of the sequence.
LEMMA SeenStep ==
    ASSUME IInv, IInv', Next
    PROVE  Seen!Next
<1>1. CASE Severed
    BY <1>1, StaysSevered DEF Seen!Next
<1>2. CASE ~Severed
  <2>0. Severed = FALSE /\ (~Severed' => Severed' = FALSE) /\ {walking, walking', mayKeep} \subseteq BOOLEAN
      BY <1>2 DEF Severed, IInv, TypeOK
  <2>1. ASSUME NEW v \in Value, Push(v)
        PROVE  Seen!Push(v)
      BY <1>2, <2>0, <2>1, PushSeen DEF Seen!Push, KeptSeen, RestSeen, Beheaded
  <2>2. ASSUME Begin
        PROVE  Seen!Begin
      BY <1>2, <2>0, <2>2, BeginSeen DEF Seen!Begin, KeptSeen, RestSeen, Beheaded
  <2>3. ASSUME Keep
        PROVE  Seen!Keep \/ Seen!KeepAfterBeheading
      BY <1>2, <2>0, <2>3, KeepSeen DEF Seen!Keep, Seen!KeepAfterBeheading, KeptSeen, RestSeen, Beheaded
  <2>4. ASSUME Remove
        PROVE  Seen!Remove
      BY <1>2, <2>0, <2>4, RemoveSeen DEF Seen!Remove, KeptSeen, RestSeen, Beheaded
  <2>5. ASSUME End
        PROVE  Seen!End
      BY <1>2, <2>0, <2>5, EndSeen DEF Seen!End, KeptSeen, RestSeen, Beheaded
  <2>6. ASSUME Destroy
        PROVE  Seen!Clear
      BY <1>2, <2>0, <2>6, DestroySeen DEF Seen!Clear, KeptSeen, RestSeen, Beheaded
  <2> QED
      BY <2>0, <2>1, <2>2, <2>3, <2>4, <2>5, <2>6 DEF Next, Seen!Next
<1> QED
    BY <1>1, <1>2

\* Both begin empty.
LEMMA SeenInit == Init => Seen!Init
<1> SUFFICES ASSUME Init
             PROVE  Seen!Init
    OBVIOUS
<1>1. HeadIsSound /\ ~Severed /\ mayKeep \in BOOLEAN /\ walking = FALSE /\ ~Beheaded /\ prev = Null
    BY DEF Init, HeadIsSound, Severed, Beheaded
<1>2. Passed = << >> /\ DOMAIN << >> = {}
    BY <1>1 DEF Passed
<1>3. Contents(Passed) = << >>
    BY <1>2 DEF Contents
<1>4. RestSeen = << >>
  <2>1. IInv
      BY InitIInv
  <2>2. PICK n \in Nat : \E p \in [1 .. n -> Cell], i \in 1 .. n + 1 : IsChain(n, p) /\ IsPlace(n, p, i)
      BY <2>1, Chained
  <2>3. PICK p \in [1 .. n -> Cell], i \in 1 .. n + 1 : IsChain(n, p) /\ IsPlace(n, p, i)
      BY <2>2
  <2>4. n = 0
    <3>1. {p[k] : k \in 1 .. n} = {}
        BY <2>3 DEF IsChain, Init
    <3>2. n # 0 => p[1] \in {p[k] : k \in 1 .. n}
        OBVIOUS
    <3> QED
        BY <3>1, <3>2
  <2>5. RestSeen = RestOf(n, p, 1)
      BY <1>1, <2>1, <2>3, Look DEF Stand
  <2>6. RestSeen \in [1 .. 0 -> Value]
      BY <2>4, <2>5 DEF RestOf
  <2> QED
      BY <2>6, PlacesAreASeq
<1> QED
    BY <1>1, <1>3, <1>4 DEF Seen!Init, RestSeen, Beheaded

\* The cells of a list implement the sequence its users count on (list_push_back, list_pop_at,
\* list_destroy and the loops of server.c), up to the loop that removes the first entry and
\* then keeps another one.
THEOREM CellsAreAList == Spec => IsAList
<1>1. Init => Seen!Init
    BY SeenInit
<1>2. IInv /\ IInv' /\ [Next]_vars => [Seen!Next]_(Seen!vars)
  <2> SUFFICES ASSUME IInv, IInv', [Next]_vars
               PROVE  [Seen!Next]_(Seen!vars)
      OBVIOUS
  <2>1. CASE Next
      BY <2>1, SeenStep
  <2>2. CASE UNCHANGED vars
    <3>1. Cells(head, at)' = Cells(head, at) /\ Cells(at, Null)' = Cells(at, Null) /\ Cells(head, Null)' = Cells(head, Null)
        BY <2>2 DEF vars, Cells
    <3>2. Passed' = Passed /\ ToVisit' = ToVisit
        BY <2>2, <3>1 DEF vars, Passed, ToVisit
    <3>3. Severed' = Severed /\ HeadIsSound' = HeadIsSound
        BY <2>2 DEF vars, Severed, HeadIsSound
    <3>4. Contents(Passed)' = Contents(Passed) /\ Contents(ToVisit)' = Contents(ToVisit)
        BY <2>2, <3>2 DEF vars, Contents
    <3>5. UNCHANGED <<mayKeep, walking, prev>>
        BY <2>2 DEF vars
    <3>6. Seen!vars' = Seen!vars
        BY <3>3, <3>4, <3>5 DEF Seen!vars
    <3> QED
        BY <3>6
  <2> QED
      BY <2>1, <2>2
<1> QED
    BY <1>1, <1>2, Invariance, PTL DEF Spec, IsAList, Seen!Spec
=============================================================================
