--------------------------- MODULE TransferProofs ---------------------------
(***************************************************************************)
(* Proofs about Transfer, for any servents, files and number of downloads. *)
(* The bookkeeping of downloads is a ledger: how often each one is in each *)
(* queue (Times).  A step of a servent moves an entry from one queue to    *)
(* another, and the ledger balances after it.                              *)
(***************************************************************************)
EXTENDS Transfer, FunctionTheorems, FiniteSetTheorems, SequenceTheorems, TLAPS

-----------------------------------------------------------------------------
(* How often something is in a queue, after the operations on queues.      *)

Places(queue, x) == {k \in DOMAIN queue : queue[k] = x}

LEMMA PlacesFinite ==
    ASSUME NEW S, NEW queue \in Seq(S), NEW x
    PROVE  /\ IsFiniteSet(Places(queue, x))
           /\ Times(queue, x) = Cardinality(Places(queue, x))
           /\ Times(queue, x) \in Nat
<1>1. Len(queue) \in Nat /\ DOMAIN queue = 1 .. Len(queue)
    BY LenProperties
<1>2. IsFiniteSet(1 .. Len(queue))
    BY <1>1, FS_Interval
<1>3. Places(queue, x) \in SUBSET (1 .. Len(queue))
    BY <1>1 DEF Places
<1>4. IsFiniteSet(Places(queue, x))
    BY <1>2, <1>3, FS_Subset
<1>5. Times(queue, x) = Cardinality(Places(queue, x))
    BY DEF Times, Places
<1> QED
    BY <1>4, <1>5, FS_CardinalityType

\* It is not 0 if and only if there is such an entry.
LEMMA TimesPositive ==
    ASSUME NEW S, NEW queue \in Seq(S), NEW x
    PROVE  Times(queue, x) # 0 <=> \E k \in 1 .. Len(queue) : queue[k] = x
<1>1. Times(queue, x) # 0 <=> Places(queue, x) # {}
    BY PlacesFinite, FS_EmptySet
<1>2. Places(queue, x) # {} <=> \E k \in 1 .. Len(queue) : queue[k] = x
    BY LenProperties DEF Places
<1> QED
    BY <1>1, <1>2

LEMMA TimesEmpty == \A x : Times(<< >>, x) = 0
<1> TAKE x
<1>1. << >> \in Seq({x})
    OBVIOUS
<1>2. Len(<< >>) = 0
    OBVIOUS
<1>3. Times(<< >>, x) # 0 <=> \E k \in 1 .. Len(<< >>) : << >>[k] = x
    BY <1>1, TimesPositive
<1> QED
    BY <1>2, <1>3

LEMMA TimesAppend ==
    ASSUME NEW S, NEW queue \in Seq(S), NEW e \in S, NEW x
    PROVE  Times(Append(queue, e), x) = Times(queue, x) + (IF e = x THEN 1 ELSE 0)
<1> DEFINE longer == Append(queue, e)
           n == Len(queue) + 1
<1>1. /\ Len(queue) \in Nat /\ DOMAIN queue = 1 .. Len(queue)
      /\ longer \in Seq(S) /\ DOMAIN longer = 1 .. n
      /\ \A k \in 1 .. n : longer[k] = IF k = n THEN e ELSE queue[k]
    OBVIOUS
<1>2. Places(longer, x) = IF e = x THEN Places(queue, x) \cup {n} ELSE Places(queue, x)
    BY <1>1 DEF Places
<1>3. n \notin Places(queue, x)
    BY <1>1 DEF Places
<1>4. IsFiniteSet(Places(queue, x)) /\ Times(queue, x) = Cardinality(Places(queue, x))
         /\ Times(queue, x) \in Nat
    BY PlacesFinite
<1>5. Times(longer, x) = Cardinality(Places(longer, x))
    BY <1>1, PlacesFinite
<1>6. Cardinality(Places(queue, x) \cup {n}) = Cardinality(Places(queue, x)) + 1
    BY <1>3, <1>4, FS_AddElement
<1> QED
    BY <1>2, <1>4, <1>5, <1>6

\* list_pop_at: the entry at place p is taken out.
Without(queue, p) == SubSeq(queue, 1, p - 1) \o SubSeq(queue, p + 1, Len(queue))

LEMMA WithoutProperties ==
    ASSUME NEW S, NEW queue \in Seq(S), NEW p \in 1 .. Len(queue)
    PROVE  /\ Without(queue, p) \in Seq(S)
           /\ Len(Without(queue, p)) = Len(queue) - 1
           /\ \A k \in 1 .. Len(queue) - 1 :
                 Without(queue, p)[k] = IF k < p THEN queue[k] ELSE queue[k + 1]
<1> DEFINE a == SubSeq(queue, 1, p - 1)
           b == SubSeq(queue, p + 1, Len(queue))
<1>1. Len(queue) \in Nat /\ \A i \in 1 .. Len(queue) : queue[i] \in S
    BY LenProperties, ElementOfSeq
<1>2. a \in Seq(S) /\ Len(a) = p - 1 /\ \A i \in 1 .. p - 1 : a[i] = queue[i]
    BY <1>1, SubSeqProperties
<1>3. b \in Seq(S) /\ Len(b) = Len(queue) - p
        /\ \A i \in 1 .. Len(queue) - p : b[i] = queue[p + i]
  <2>1. \A i \in p + 1 .. Len(queue) : queue[i] \in S
      BY <1>1
  <2>2. b \in Seq(S)
      BY <1>1, <2>1, SubSeqProperties
  <2>3. Len(b) = IF p + 1 <= Len(queue) THEN Len(queue) - (p + 1) + 1 ELSE 0
      BY <1>1, <2>1, SubSeqProperties
  <2>4. \A i \in 1 .. Len(queue) - (p + 1) + 1 : b[i] = queue[p + 1 + i - 1]
      BY <1>1, <2>1, SubSeqProperties
  <2> QED
      BY <1>1, <2>2, <2>3, <2>4
<1>4. /\ a \o b \in Seq(S)
      /\ Len(a \o b) = Len(a) + Len(b)
      /\ \A i \in 1 .. Len(a) + Len(b) : (a \o b)[i] = IF i <= Len(a) THEN a[i] ELSE b[i - Len(a)]
    BY <1>2, <1>3, ConcatProperties
<1> HIDE DEF a, b
<1>5. \A k \in 1 .. Len(queue) - 1 : (a \o b)[k] = IF k < p THEN queue[k] ELSE queue[k + 1]
  <2> TAKE k \in 1 .. Len(queue) - 1
  <2>1. CASE k < p
      BY <1>1, <1>2, <1>3, <1>4, <2>1
  <2>2. CASE k >= p
    <3>1. k - (p - 1) \in 1 .. Len(queue) - p /\ p + (k - (p - 1)) = k + 1
        BY <1>1, <2>2
    <3>2. b[k - (p - 1)] = queue[k + 1]
        BY <1>3, <3>1
    <3> QED
        BY <1>1, <1>2, <1>3, <1>4, <2>2, <3>2
  <2>3. k < p \/ k >= p
      BY <1>1
  <2> QED
      BY <2>1, <2>2, <2>3
<1>6. Len(a) + Len(b) = Len(queue) - 1
    BY <1>1, <1>2, <1>3
<1>7. Without(queue, p) = a \o b
    BY DEF Without, a, b
<1> QED
    BY <1>4, <1>5, <1>6, <1>7

LEMMA TimesWithout ==
    ASSUME NEW S, NEW queue \in Seq(S), NEW p \in 1 .. Len(queue), NEW x
    PROVE  Times(Without(queue, p), x) = Times(queue, x) - (IF queue[p] = x THEN 1 ELSE 0)
<1> DEFINE shorter == Without(queue, p)
           A == Places(shorter, x)
           B == Places(queue, x) \ {p}
           f == [k \in A |-> IF k < p THEN k ELSE k + 1]
<1>1. Len(queue) \in Nat /\ DOMAIN queue = 1 .. Len(queue)
    BY LenProperties
<1>2. /\ shorter \in Seq(S)
      /\ Len(shorter) = Len(queue) - 1
      /\ \A k \in 1 .. Len(queue) - 1 :
            shorter[k] = IF k < p THEN queue[k] ELSE queue[k + 1]
    BY WithoutProperties
<1> HIDE DEF shorter
<1>3. DOMAIN shorter = 1 .. Len(queue) - 1
    BY <1>2, LenProperties
<1>4. /\ A \subseteq 1 .. Len(queue) - 1
      /\ \A k \in 1 .. Len(queue) - 1 :
            k \in A <=> (IF k < p THEN queue[k] ELSE queue[k + 1]) = x
    BY <1>2, <1>3 DEF Places
<1>5. /\ B \subseteq 1 .. Len(queue)
      /\ \A k \in 1 .. Len(queue) : k \in B <=> queue[k] = x /\ k # p
    BY <1>1 DEF Places
<1> HIDE DEF A, B
<1>6. f \in [A -> B] /\ \A k \in A : f[k] = IF k < p THEN k ELSE k + 1
  <2>1. ASSUME NEW k \in A PROVE (IF k < p THEN k ELSE k + 1) \in B
    <3>1. k \in 1 .. Len(queue) - 1
        BY <1>4
    <3>2. CASE k < p
        BY <1>1, <1>4, <1>5, <3>1, <3>2
    <3>3. CASE ~(k < p)
      <4>1. queue[k + 1] = x
          BY <1>4, <3>1, <3>3
      <4>2. k + 1 \in 1 .. Len(queue) /\ k + 1 # p
          BY <1>1, <3>1, <3>3
      <4> QED
          BY <1>5, <3>3, <4>1, <4>2
    <3> QED
        BY <3>2, <3>3
  <2> QED
      BY <2>1
<1> HIDE DEF f
<1>7. \A j, k \in A : f[j] = f[k] => j = k
    BY <1>1, <1>4, <1>6
<1>8. \A t \in B : \E k \in A : f[k] = t
  <2> TAKE t \in B
  <2>1. t \in 1 .. Len(queue) /\ queue[t] = x /\ t # p
      BY <1>5
  <2>2. CASE t < p
    <3>1. t \in 1 .. Len(queue) - 1
        BY <1>1, <2>1, <2>2
    <3>2. t \in A
        BY <1>4, <2>1, <2>2, <3>1
    <3> QED
        BY <1>6, <2>2, <3>2
  <2>3. CASE ~(t < p)
    <3>1. t - 1 \in 1 .. Len(queue) - 1 /\ ~(t - 1 < p) /\ (t - 1) + 1 = t
        BY <1>1, <2>1, <2>3
    <3>2. t - 1 \in A
        BY <1>4, <2>1, <3>1
    <3> QED
        BY <1>6, <3>1, <3>2
  <2> QED
      BY <2>2, <2>3
<1>9. ExistsBijection(A, B)
    BY <1>6, <1>7, <1>8, Fun_IsBij, Fun_ExistsBij
<1>10. /\ IsFiniteSet(A) /\ Times(shorter, x) = Cardinality(A)
       /\ IsFiniteSet(Places(queue, x)) /\ Times(queue, x) = Cardinality(Places(queue, x))
    BY <1>2, PlacesFinite DEF A
<1>11. Cardinality(B) = Cardinality(A)
    BY <1>9, <1>10, FS_Bijection
<1>12. Cardinality(B) = IF p \in Places(queue, x) THEN Cardinality(Places(queue, x)) - 1
                        ELSE Cardinality(Places(queue, x))
    BY <1>10, FS_RemoveElement DEF B
<1>13. p \in Places(queue, x) <=> queue[p] = x
    BY <1>1 DEF Places
<1>14. Times(queue, x) \in Nat
    BY PlacesFinite
<1> QED
    BY <1>10, <1>11, <1>12, <1>13, <1>14 DEF shorter

LEMMA TimesTail ==
    ASSUME NEW S, NEW queue \in Seq(S), queue # << >>, NEW x
    PROVE  Times(Tail(queue), x) = Times(queue, x) - (IF Head(queue) = x THEN 1 ELSE 0)
<1>1. 1 \in 1 .. Len(queue) /\ Tail(queue) \in Seq(S) /\ Head(queue) = queue[1]
    OBVIOUS
<1>2. Tail(queue) = SubSeq(queue, 2, Len(queue))
    BY TailIsSubSeq
<1>3. SubSeq(queue, 1, 1 - 1) = << >>
    BY SubSeqEmpty
<1>4. Without(queue, 1) = Tail(queue)
    BY <1>1, <1>2, <1>3, ConcatEmptySeq DEF Without
<1>5. Times(Without(queue, 1), x) = Times(queue, x) - (IF queue[1] = x THEN 1 ELSE 0)
    BY <1>1, TimesWithout
<1> QED
    BY <1>1, <1>4, <1>5

-----------------------------------------------------------------------------
(* The inductive invariant.                                                *)

\* Whatever is in a queue or on a connection is a download of that servent: of its asker
\* or of its holder.  Of a download nobody has asked for nothing is known.
Belonging ==
    /\ \A d \in Download : d \notin DOMAIN asked => told[d] = "none" /\ arrived[d] = "nothing"
    /\ \A n \in Node, d \in Download :
          /\ Times(pending[n], Local(d)) # 0 => d \in DOMAIN asked /\ Asker(d) = n
          /\ Times(downloads[n], d) # 0 => d \in DOMAIN asked /\ Asker(d) = n
          /\ Times(pending[n], Remote(d)) # 0 => d \in DOMAIN asked /\ Holder(d) = n
          /\ d \in backlog[n] => d \in DOMAIN asked /\ Holder(d) = n

\* Nothing has arrived of a download that is still to be requested.
Untouched ==
    \A n \in Node, d \in Download :
       Gone(n) \/ (Times(pending[n], Local(d)) # 0 => arrived[d] = "nothing")

\* What a servent in write() or read() is busy with, and that a process that is gone
\* has no list.
Working ==
    \A n \in Node :
       /\ thread[n] = "write" => /\ Head(pending[n]) = Remote(Sending(n))
                                 /\ disk[n][Name(Sending(n))] # "none"
       /\ thread[n] = "read" => arrived[Current(n)] \in {"part", "whole", "damaged"}
       /\ Gone(n) => list[n] = "sound"

NoneArrives == \A d \in Download : arrived[d] # "none"

IInv == /\ TypeOK /\ Belonging /\ Untouched /\ Working /\ NoneArrives
        /\ NoDownloadIsLost /\ RequestsAreHeld

\* What the type invariant says of downloads and queues.
LEMMA Facts ==
    ASSUME TypeOK
    PROVE  /\ Len(asked) \in Nat /\ DOMAIN asked = 1 .. Len(asked)
           /\ DOMAIN asked \subseteq Download
           /\ \A d \in DOMAIN asked : Asker(d) \in Node /\ Holder(d) \in Node /\ Name(d) \in File
           /\ \A n \in Node : \A x : Times(pending[n], x) \in Nat /\ Times(downloads[n], x) \in Nat
<1>1. asked \in Seq([asker : Node, holder : Node, file : File]) /\ Len(asked) <= MaxDownload
    BY DEF TypeOK
<1>2. Len(asked) \in Nat /\ DOMAIN asked = 1 .. Len(asked)
    BY <1>1, LenProperties
<1>3. DOMAIN asked \subseteq Download
    BY <1>1, <1>2, TransferAssumption DEF Download
<1>4. \A d \in DOMAIN asked : asked[d] \in [asker : Node, holder : Node, file : File]
    BY <1>1, <1>2, ElementOfSeq
<1>5. \A d \in DOMAIN asked : Asker(d) \in Node /\ Holder(d) \in Node /\ Name(d) \in File
    BY <1>4 DEF Asker, Holder, Name
<1>6. \A n \in Node : pending[n] \in Seq(Request) /\ downloads[n] \in Seq(Download)
    BY DEF TypeOK
<1>7. \A n \in Node : \A x : Times(pending[n], x) \in Nat /\ Times(downloads[n], x) \in Nat
    BY <1>6, PlacesFinite
<1> QED
    BY <1>2, <1>3, <1>5, <1>7

LEMMA RequestsDiffer ==
    /\ \A d, e : Local(d) # Remote(e) /\ (Local(d) = Local(e) <=> d = e)
                 /\ (Remote(d) = Remote(e) <=> d = e)
    /\ \A d \in Download : Local(d) \in Request /\ Remote(d) \in Request
    BY DEF Local, Remote, Request

\* The request at the head of the queue is taken out.
LEMMA NextRequestCounts ==
    ASSUME TypeOK, NEW n \in Node, pending[n] # << >>, NextRequest(n)
    PROVE  /\ pending' \in [Node -> Seq(Request)]
           /\ \A m \in Node : m # n => pending'[m] = pending[m] /\ thread'[m] = thread[m]
           /\ \A m \in Node : \A x : Times(pending'[m], x)
                 = Times(pending[m], x) - (IF m = n /\ Head(pending[n]) = x THEN 1 ELSE 0)
           /\ Times(pending[n], Head(pending[n])) # 0
           /\ thread'[n] \in {"loop", "drain"} /\ (thread'[n] = "drain" => pending'[n] # << >>)
           /\ thread' \in [Node -> Thread]
<1>1. /\ pending \in [Node -> Seq(Request)] /\ thread \in [Node -> Thread]
      /\ pending[n] \in Seq(Request)
    BY DEF TypeOK
<1>2. /\ pending' = [pending EXCEPT ![n] = Tail(@)]
      /\ thread' = [thread EXCEPT ![n] = IF Len(pending[n]) = 1 THEN "loop" ELSE "drain"]
    BY DEF NextRequest
<1>3. /\ Tail(pending[n]) \in Seq(Request) /\ Len(Tail(pending[n])) = Len(pending[n]) - 1
      /\ Len(pending[n]) \in Nat /\ Len(pending[n]) # 0
    BY <1>1
<1>4. pending' \in [Node -> Seq(Request)]
    BY <1>1, <1>2, <1>3
<1>5. \A m \in Node : m # n => pending'[m] = pending[m] /\ thread'[m] = thread[m]
    BY <1>1, <1>2
<1>6. \A m \in Node : \A x : Times(pending[m], x) \in Nat
    BY Facts
<1>7. ASSUME NEW m \in Node, NEW x
      PROVE  Times(pending'[m], x)
                = Times(pending[m], x) - (IF m = n /\ Head(pending[n]) = x THEN 1 ELSE 0)
  <2>1. CASE m = n
    <3>1. Times(Tail(pending[n]), x) = Times(pending[n], x) - (IF Head(pending[n]) = x THEN 1 ELSE 0)
        BY <1>1, TimesTail
    <3>2. pending'[m] = Tail(pending[n])
        BY <1>1, <1>2, <2>1
    <3> QED
        BY <2>1, <3>1, <3>2
  <2>2. CASE m # n
    <3>1. Times(pending'[m], x) = Times(pending[m], x)
        BY <1>5, <2>2
    <3> QED
        BY <1>6, <2>2, <3>1
  <2> QED
      BY <2>1, <2>2
<1>8. Times(pending[n], Head(pending[n])) # 0
  <2>1. 1 \in 1 .. Len(pending[n]) /\ pending[n][1] = Head(pending[n])
      BY <1>1, <1>3
  <2> QED
      BY <1>1, <2>1, TimesPositive
<1>9. thread'[n] = (IF Len(pending[n]) = 1 THEN "loop" ELSE "drain")
    BY <1>1, <1>2
<1>10. pending'[n] = Tail(pending[n])
    BY <1>1, <1>2
<1>11. thread'[n] = "drain" => pending'[n] # << >>
  <2> SUFFICES ASSUME thread'[n] = "drain" PROVE pending'[n] # << >>
      OBVIOUS
  <2>1. Len(pending'[n]) # 0
      BY <1>3, <1>9, <1>10
  <2>2. Len(<< >>) = 0
      OBVIOUS
  <2> QED
      BY <2>1, <2>2
<1>12. thread' \in [Node -> Thread]
    BY <1>1, <1>2 DEF Thread
<1> QED
    BY <1>4, <1>5, <1>7, <1>8, <1>9, <1>11, <1>12

\* The entry a loop stands at is taken out of pending_downloads.
LEMMA EntryDoneCounts ==
    ASSUME TypeOK, NEW n \in Node, thread[n] \in {"walk", "read"},
           place[n] \in DOMAIN downloads[n], EntryDone(n)
    PROVE  /\ downloads' \in [Node -> Seq(Download)]
           /\ \A m \in Node : m # n => downloads'[m] = downloads[m] /\ thread'[m] = thread[m]
           /\ \A m \in Node : \A x : Times(downloads'[m], x)
                 = Times(downloads[m], x) - (IF m = n /\ Current(n) = x THEN 1 ELSE 0)
           /\ Times(downloads[n], Current(n)) # 0 /\ Current(n) \in Download
           /\ thread'[n] = "walk" /\ thread' \in [Node -> Thread]
           /\ place[n] \in 1 .. Len(downloads'[n]) + 1
<1>1. /\ downloads \in [Node -> Seq(Download)] /\ thread \in [Node -> Thread]
      /\ downloads[n] \in Seq(Download)
    BY DEF TypeOK
<1>2. /\ downloads' = [downloads EXCEPT ![n] = Without(downloads[n], place[n])]
      /\ thread' = [thread EXCEPT ![n] = "walk"]
    BY DEF EntryDone, Without
<1>3. place[n] \in 1 .. Len(downloads[n]) /\ Len(downloads[n]) \in Nat
    BY <1>1, LenProperties
<1>4. /\ Without(downloads[n], place[n]) \in Seq(Download)
      /\ Len(Without(downloads[n], place[n])) = Len(downloads[n]) - 1
    BY <1>1, <1>3, WithoutProperties
<1>5. downloads' \in [Node -> Seq(Download)] /\ downloads'[n] = Without(downloads[n], place[n])
    BY <1>1, <1>2, <1>4
<1>6. \A m \in Node : m # n => downloads'[m] = downloads[m] /\ thread'[m] = thread[m]
    BY <1>1, <1>2
<1>7. \A m \in Node : \A x : Times(downloads[m], x) \in Nat
    BY Facts
<1>8. ASSUME NEW m \in Node, NEW x
      PROVE  Times(downloads'[m], x)
                = Times(downloads[m], x) - (IF m = n /\ Current(n) = x THEN 1 ELSE 0)
  <2>1. CASE m = n
    <3>1. Times(Without(downloads[n], place[n]), x)
             = Times(downloads[n], x) - (IF downloads[n][place[n]] = x THEN 1 ELSE 0)
        BY <1>1, <1>3, TimesWithout
    <3> QED
        BY <1>5, <2>1, <3>1 DEF Current
  <2>2. CASE m # n
    <3>1. Times(downloads'[m], x) = Times(downloads[m], x)
        BY <1>6, <2>2
    <3> QED
        BY <1>7, <2>2, <3>1
  <2> QED
      BY <2>1, <2>2
<1>9. Times(downloads[n], Current(n)) # 0 /\ Current(n) \in Download
    BY <1>1, <1>3, TimesPositive, ElementOfSeq DEF Current
<1>10. thread'[n] = "walk" /\ thread' \in [Node -> Thread]
    BY <1>1, <1>2 DEF Thread
<1>11. place[n] \in 1 .. Len(downloads'[n]) + 1
    BY <1>3, <1>4, <1>5
<1> QED
    BY <1>5, <1>6, <1>8, <1>9, <1>10, <1>11

-----------------------------------------------------------------------------
(* Each action keeps the invariant.                                        *)

LEMMA InitIInv == Init => IInv
<1> SUFFICES ASSUME Init PROVE IInv
    OBVIOUS
<1>1. TypeOK
  <2>1. << >> \in Seq([asker : Node, holder : Node, file : File]) /\ Len(<< >>) = 0
      OBVIOUS
  <2>2. << >> \in Seq(Request) /\ << >> \in Seq(Download)
      OBVIOUS
  <2> QED
      BY <2>1, <2>2, TransferAssumption DEF Init, TypeOK, Thread, Copy
<1>2. DOMAIN asked = {}
    BY DEF Init
<1>3. Belonging
    BY TimesEmpty DEF Init, Belonging
<1>4. Untouched /\ NoneArrives /\ Working
    BY DEF Init, Untouched, NoneArrives, Working, Gone
<1>5. NoDownloadIsLost /\ RequestsAreHeld
    BY <1>2 DEF NoDownloadIsLost, RequestsAreHeld
<1> QED
    BY <1>1, <1>3, <1>4, <1>5 DEF IInv

\* A process that ends takes its queues with it.
LEMMA DieStep == ASSUME IInv, NEW n \in Node, ~Gone(n), Dies(n) PROVE IInv'
<1> USE DEF Gone
<1>1. /\ thread' = [thread EXCEPT ![n] = "gone"]
      /\ pending' = [pending EXCEPT ![n] = << >>]
      /\ downloads' = [downloads EXCEPT ![n] = << >>]
      /\ place' = [place EXCEPT ![n] = 0]
      /\ list' = [list EXCEPT ![n] = "sound"]
      /\ backlog' = [backlog EXCEPT ![n] = {}]
      /\ disk' = disk /\ asked' = asked /\ arrived' = arrived /\ told' = told
    BY DEF Dies
<1>2. TypeOK'
  <2>1. << >> \in Seq(Request) /\ << >> \in Seq(Download) /\ Len(<< >>) = 0
      OBVIOUS
  <2>2. /\ thread' \in [Node -> Thread] /\ pending' \in [Node -> Seq(Request)]
        /\ downloads' \in [Node -> Seq(Download)] /\ place' \in [Node -> Nat]
        /\ list' \in [Node -> {"sound", "beheaded", "severed"}]
        /\ backlog' \in [Node -> SUBSET Download]
      BY <1>1, <2>1 DEF IInv, TypeOK, Thread
  <2>3. ASSUME NEW m \in Node
        PROVE  /\ place'[m] \in 0 .. Len(downloads'[m]) + 1
               /\ place'[m] # 0 <=> thread'[m] \in {"walk", "read"}
               /\ thread'[m] = "read" => place'[m] \in DOMAIN downloads'[m]
               /\ thread'[m] \in {"drain", "write"} => pending'[m] # << >>
    <3>1. CASE m = n
      <4>1. place'[m] = 0 /\ thread'[m] = "gone" /\ downloads'[m] = << >>
          BY <1>1, <3>1 DEF IInv, TypeOK
      <4> QED
          BY <2>1, <4>1
    <3>2. CASE m # n
      <4>1. /\ place'[m] = place[m] /\ thread'[m] = thread[m] /\ downloads'[m] = downloads[m]
            /\ pending'[m] = pending[m]
          BY <1>1, <3>2 DEF IInv, TypeOK
      <4> QED
          BY <4>1 DEF IInv, TypeOK
    <3> QED
        BY <3>1, <3>2
  <2> QED
      BY <1>1, <2>2, <2>3 DEF IInv, TypeOK
<1>3. \A m \in Node : /\ m # n => /\ thread'[m] = thread[m] /\ pending'[m] = pending[m]
                                  /\ downloads'[m] = downloads[m] /\ place'[m] = place[m]
                                  /\ list'[m] = list[m] /\ backlog'[m] = backlog[m]
                      /\ m = n => /\ thread'[m] = "gone" /\ pending'[m] = << >>
                                  /\ downloads'[m] = << >> /\ list'[m] = "sound" /\ backlog'[m] = {}
    BY <1>1 DEF IInv, TypeOK
<1>4. Belonging'
    BY <1>1, <1>3, TimesEmpty DEF IInv, Belonging, Asker, Holder
<1>5. Untouched' /\ NoneArrives'
    BY <1>1, <1>3 DEF IInv, Untouched, NoneArrives
<1>6. Working'
  <2> SUFFICES ASSUME NEW m \in Node
               PROVE  /\ thread'[m] = "write" => /\ Head(pending'[m]) = Remote(Sending(m)')
                                                 /\ disk[m][Name(Sending(m)')] # "none"
                      /\ thread'[m] = "read" => arrived[Current(m)'] \in {"part", "whole", "damaged"}
                      /\ Gone(m)' => list'[m] = "sound"
      BY <1>1 DEF Working, Name
  <2>1. CASE m = n
      BY <1>3, <2>1
  <2>2. CASE m # n
    <3>1. Sending(m)' = Sending(m) /\ Current(m)' = Current(m)
        BY <1>3, <2>2 DEF Sending, Current
    <3> QED
        BY <1>3, <2>2, <3>1 DEF IInv, Working
  <2> QED
      BY <2>1, <2>2
<1>7. NoDownloadIsLost'
    BY <1>1, <1>3, Facts DEF IInv, NoDownloadIsLost, Asker
<1>8. RequestsAreHeld'
    BY <1>1, <1>3, Facts DEF IInv, RequestsAreHeld, Asker, Holder, Sending
<1> QED
    BY <1>2, <1>4, <1>5, <1>6, <1>7, <1>8 DEF IInv

\* The loop over pending_downloads goes on, and nothing is moved.
LEMMA CalmStep ==
    ASSUME IInv, NEW n \in Node,
           UNCHANGED <<disk, asked, pending, downloads, backlog, arrived, told>>,
           thread[n] \in {"loop", "walk"},
           NEW t \in {"loop", "walk", "read"}, thread' = [thread EXCEPT ![n] = t],
           NEW k \in 0 .. Len(downloads[n]) + 1, place' = [place EXCEPT ![n] = k],
           t = "loop" <=> k = 0,
           t = "read" => k \in DOMAIN downloads[n]
                           /\ arrived[downloads[n][k]] \in {"part", "whole", "damaged"},
           NEW w \in {"sound", "beheaded", "severed"}, list' = [list EXCEPT ![n] = w]
    PROVE  IInv'
<1> USE DEF Gone
<1>1. \A m \in Node :
         /\ m # n => thread'[m] = thread[m] /\ place'[m] = place[m] /\ list'[m] = list[m]
         /\ m = n => thread'[m] = t /\ place'[m] = k /\ list'[m] = w
    BY DEF IInv, TypeOK
<1>2. TypeOK'
  <2>1. downloads[n] \in Seq(Download) /\ Len(downloads[n]) \in Nat
      BY LenProperties DEF IInv, TypeOK
  <2>2. /\ thread' \in [Node -> Thread] /\ place' \in [Node -> Nat]
        /\ list' \in [Node -> {"sound", "beheaded", "severed"}]
    <3>1. k \in Nat /\ t \in Thread
        BY <2>1 DEF Thread
    <3>2. /\ thread \in [Node -> Thread] /\ place \in [Node -> Nat]
          /\ list \in [Node -> {"sound", "beheaded", "severed"}]
        BY DEF IInv, TypeOK
    <3> QED
        BY <3>1, <3>2
  <2>3. ASSUME NEW m \in Node
        PROVE  /\ place'[m] \in 0 .. Len(downloads'[m]) + 1
               /\ place'[m] # 0 <=> thread'[m] \in {"walk", "read"}
               /\ thread'[m] = "read" => place'[m] \in DOMAIN downloads'[m]
               /\ thread'[m] \in {"drain", "write"} => pending'[m] # << >>
      BY <1>1, <2>3 DEF IInv, TypeOK
  <2> QED
      BY <2>2, <2>3 DEF IInv, TypeOK
<1>3. Belonging'
    BY DEF IInv, Belonging, Asker, Holder
<1>4. Untouched' /\ NoneArrives'
    BY <1>1 DEF IInv, Untouched, NoneArrives
<1>5. Working'
  <2> SUFFICES ASSUME NEW m \in Node
               PROVE  /\ thread'[m] = "write" => /\ Head(pending[m]) = Remote(Sending(m))
                                                 /\ disk[m][Name(Sending(m))] # "none"
                      /\ thread'[m] = "read" => arrived[Current(m)'] \in {"part", "whole", "damaged"}
                      /\ Gone(m)' => list'[m] = "sound"
      BY DEF Working, Name, Sending
  <2>1. CASE m = n
      BY <1>1, <2>1 DEF Current
  <2>2. CASE m # n
    <3>1. Current(m)' = Current(m)
        BY <1>1, <2>2 DEF Current
    <3> QED
        BY <1>1, <2>2, <3>1 DEF IInv, Working
  <2> QED
      BY <2>1, <2>2
<1>6. NoDownloadIsLost'
    BY <1>1, Facts DEF IInv, NoDownloadIsLost, Asker
<1>7. RequestsAreHeld'
    BY <1>1, Facts DEF IInv, RequestsAreHeld, Asker, Holder, Sending
<1> QED
    BY <1>2, <1>3, <1>4, <1>5, <1>6, <1>7 DEF IInv

LEMMA PlacesAndLists ==
    ASSUME TypeOK, NEW n \in Node
    PROVE  /\ downloads[n] \in Seq(Download) /\ Len(downloads[n]) \in Nat
           /\ DOMAIN downloads[n] = 1 .. Len(downloads[n])
           /\ list[n] \in {"sound", "beheaded", "severed"}
           /\ thread = [thread EXCEPT ![n] = thread[n]]
           /\ place = [place EXCEPT ![n] = place[n]]
           /\ list = [list EXCEPT ![n] = list[n]]
    BY LenProperties DEF TypeOK

LEMMA WalkStep ==
    ASSUME IInv, NEW n \in Node,
           \/ WalkBegins(n) \/ WalkEnds(n)
           \/ \E d \in Download : StillWaits(n, d) \/ ReadsOn(n, d)
    PROVE  IInv'
<1>0. /\ downloads[n] \in Seq(Download) /\ Len(downloads[n]) \in Nat
      /\ DOMAIN downloads[n] = 1 .. Len(downloads[n])
      /\ list[n] \in {"sound", "beheaded", "severed"}
      /\ thread = [thread EXCEPT ![n] = thread[n]]
      /\ place = [place EXCEPT ![n] = place[n]]
      /\ list = [list EXCEPT ![n] = list[n]]
    BY PlacesAndLists DEF IInv
<1>1. CASE WalkBegins(n)
  <2>1. Len(downloads[n]) # 0
      BY <1>0, <1>1 DEF WalkBegins
  <2>2. 1 \in 0 .. Len(downloads[n]) + 1
      BY <1>0, <2>1
  <2>3. /\ UNCHANGED <<disk, asked, pending, downloads, backlog, arrived, told>>
        /\ thread[n] = "loop" /\ thread' = [thread EXCEPT ![n] = "walk"]
        /\ place' = [place EXCEPT ![n] = 1] /\ list' = [list EXCEPT ![n] = list[n]]
      BY <1>0, <1>1 DEF WalkBegins
  <2>4. 1 # 0 /\ "walk" # "loop" /\ "walk" # "read"
      OBVIOUS
  <2> QED
      BY <1>0, <2>2, <2>3, <2>4, CalmStep
<1>2. CASE WalkEnds(n)
  <2>1. 0 \in 0 .. Len(downloads[n]) + 1
      BY <1>0
  <2>2. /\ UNCHANGED <<disk, asked, pending, downloads, backlog, arrived, told>>
        /\ thread[n] = "walk" /\ thread' = [thread EXCEPT ![n] = "loop"]
        /\ place' = [place EXCEPT ![n] = 0] /\ list' = [list EXCEPT ![n] = list[n]]
      BY <1>0, <1>2 DEF WalkEnds
  <2> QED
      BY <1>0, <2>1, <2>2, CalmStep
<1>3. ASSUME NEW d \in Download, StillWaits(n, d) PROVE IInv'
  <2>1. place[n] \in 1 .. Len(downloads[n])
      BY <1>0, <1>3 DEF StillWaits, Visits
  <2>2. place[n] + 1 \in 0 .. Len(downloads[n]) + 1 /\ place[n] + 1 # 0
      BY <1>0, <2>1
  <2>3. PICK w \in {"sound", "beheaded", "severed"} : list' = [list EXCEPT ![n] = w]
      BY <1>0, <1>3 DEF StillWaits
  <2>4. /\ UNCHANGED <<disk, asked, pending, downloads, backlog, arrived, told>>
        /\ thread[n] = "walk" /\ thread' = [thread EXCEPT ![n] = "walk"]
        /\ place' = [place EXCEPT ![n] = place[n] + 1]
      BY <1>0, <1>3 DEF StillWaits, Visits
  <2> QED
      BY <2>2, <2>3, <2>4, CalmStep
<1>4. ASSUME NEW d \in Download, ReadsOn(n, d) PROVE IInv'
  <2>1. place[n] \in 1 .. Len(downloads[n]) /\ arrived[downloads[n][place[n]]] = "part"
      BY <1>0, <1>4 DEF ReadsOn, Visits, Current
  <2>2. place[n] \in 0 .. Len(downloads[n]) + 1 /\ place[n] # 0
      BY <1>0, <2>1
  <2>3. /\ UNCHANGED <<disk, asked, pending, downloads, backlog, arrived, told>>
        /\ thread[n] = "walk" /\ thread' = [thread EXCEPT ![n] = "read"]
        /\ place' = [place EXCEPT ![n] = place[n]] /\ list' = [list EXCEPT ![n] = list[n]]
      BY <1>0, <1>4 DEF ReadsOn, Visits
  <2> QED
      BY <1>0, <2>1, <2>2, <2>3, CalmStep
<1> QED
    BY <1>1, <1>2, <1>3, <1>4

\* What a servent writes is a download it has been asked for, and it has the file.
LEMMA WritersWriteTheirs ==
    ASSUME IInv, NEW m \in Node, thread[m] = "write"
    PROVE  /\ pending[m] # << >> /\ Head(pending[m]) = Remote(Sending(m))
           /\ Sending(m) \in Download /\ Sending(m) \in DOMAIN asked
           /\ Name(Sending(m)) \in File /\ Asker(Sending(m)) \in Node
           /\ disk[m][Name(Sending(m))] \in {"whole", "damaged"}
<1>1. pending[m] \in Seq(Request) /\ pending[m] # << >>
    BY DEF IInv, TypeOK
<1>2. Head(pending[m]) = Remote(Sending(m)) /\ disk[m][Name(Sending(m))] # "none"
    BY DEF IInv, Working
<1>3. /\ 1 \in 1 .. Len(pending[m]) /\ pending[m][1] = Head(pending[m])
      /\ Head(pending[m]) \in Request
    BY <1>1
<1>4. Sending(m) \in Download
    BY <1>2, <1>3 DEF Request, Remote, Local
<1>5. Times(pending[m], Remote(Sending(m))) # 0
    BY <1>1, <1>2, <1>3, TimesPositive
<1>6. Sending(m) \in DOMAIN asked
    BY <1>4, <1>5 DEF IInv, Belonging
<1>7. Name(Sending(m)) \in File /\ Asker(Sending(m)) \in Node
    BY <1>6, Facts DEF IInv
<1>8. disk[m][Name(Sending(m))] \in Copy
    BY <1>7 DEF IInv, TypeOK
<1> QED
    BY <1>1, <1>2, <1>4, <1>6, <1>7, <1>8 DEF Copy

\* A download ends with a message to the client.  What had arrived of it is all there is
\* to come.
LEMMA FinishStep ==
    ASSUME IInv, NEW n \in Node, thread[n] \in {"walk", "read"},
           place[n] \in DOMAIN downloads[n], EntryDone(n),
           NEW answer \in Answer, Tell(Current(n), answer),
           disk' \in [Node -> [File -> Copy]],
           \A m \in Node, f \in File : disk[m][f] # "none" => disk'[m][f] # "none",
           arrived[Current(n)] \notin {"nothing", "part"} \/ Gone(Holder(Current(n)))
    PROVE  IInv'
<1> DEFINE c == Current(n)
<1>1. /\ downloads' \in [Node -> Seq(Download)]
      /\ \A m \in Node : m # n => downloads'[m] = downloads[m] /\ thread'[m] = thread[m]
      /\ \A m \in Node : \A x : Times(downloads'[m], x)
            = Times(downloads[m], x) - (IF m = n /\ c = x THEN 1 ELSE 0)
      /\ Times(downloads[n], c) # 0 /\ c \in Download
      /\ thread'[n] = "walk" /\ thread' \in [Node -> Thread]
      /\ place[n] \in 1 .. Len(downloads'[n]) + 1
    BY EntryDoneCounts DEF IInv
<1>2. /\ Len(asked) \in Nat /\ DOMAIN asked = 1 .. Len(asked)
      /\ DOMAIN asked \subseteq Download
      /\ \A d \in DOMAIN asked : Asker(d) \in Node /\ Holder(d) \in Node /\ Name(d) \in File
      /\ \A m \in Node : \A x : Times(pending[m], x) \in Nat /\ Times(downloads[m], x) \in Nat
    BY Facts DEF IInv
<1>3. c \in DOMAIN asked /\ Asker(c) = n
    BY <1>1 DEF IInv, Belonging
<1>4. /\ UNCHANGED <<place, asked, pending, backlog, arrived>>
      /\ list' \in [Node -> {"sound", "beheaded", "severed"}]
      /\ \A m \in Node : m # n => list'[m] = list[m]
    BY DEF EntryDone, IInv, TypeOK
<1>5. /\ told' \in [Download -> Answer \cup {"none"}] /\ told'[c] = answer
      /\ \A d \in Download : d # c => told'[d] = told[d]
    BY <1>1 DEF Tell, IInv, TypeOK
<1> HIDE DEF c
<1>6. \A m \in Node : Gone(m)' <=> Gone(m)
    BY <1>1 DEF Gone
<1>7. TypeOK'
  <2>1. ASSUME NEW m \in Node
        PROVE  /\ place'[m] \in 0 .. Len(downloads'[m]) + 1
               /\ place'[m] # 0 <=> thread'[m] \in {"walk", "read"}
               /\ thread'[m] = "read" => place'[m] \in DOMAIN downloads'[m]
               /\ thread'[m] \in {"drain", "write"} => pending'[m] # << >>
    <3>1. CASE m = n
        BY <1>1, <1>4, <3>1
    <3>2. CASE m # n
        BY <1>1, <1>4, <3>2 DEF IInv, TypeOK
    <3> QED
        BY <3>1, <3>2
  <2> QED
      BY <1>1, <1>4, <1>5, <2>1 DEF IInv, TypeOK
<1>8. Belonging'
  <2>1. \A d \in Download : d \notin DOMAIN asked => told'[d] = "none" /\ arrived[d] = "nothing"
      BY <1>3, <1>5 DEF IInv, Belonging
  <2>2. ASSUME NEW m \in Node, NEW d \in Download, Times(downloads[m], d) = 0
        PROVE  Times(downloads'[m], d) = 0
    <3>1. ~(m = n /\ c = d)
        BY <1>1, <2>2
    <3>2. Times(downloads'[m], d) = 0 - 0
        BY <1>1, <2>2, <3>1
    <3> QED
        BY <3>2
  <2> QED
      BY <1>4, <2>1, <2>2 DEF IInv, Belonging, Asker, Holder
<1>9. Untouched' /\ NoneArrives'
    BY <1>4, <1>6 DEF IInv, Untouched, NoneArrives
<1>10. Working'
  <2> SUFFICES ASSUME NEW m \in Node
               PROVE  /\ thread'[m] = "write" => /\ Head(pending[m]) = Remote(Sending(m))
                                                 /\ disk'[m][Name(Sending(m))] # "none"
                      /\ thread'[m] = "read" => arrived[Current(m)'] \in {"part", "whole", "damaged"}
                      /\ Gone(m)' => list'[m] = "sound"
      BY <1>4 DEF Working, Sending, Name
  <2>1. CASE m = n
      BY <1>1, <2>1 DEF Gone
  <2>2. CASE m # n
    <3>1. thread'[m] = thread[m] /\ Current(m)' = Current(m) /\ list'[m] = list[m]
        BY <1>1, <1>4, <2>2 DEF Current
    <3>2. thread[m] = "write" => Name(Sending(m)) \in File
        BY WritersWriteTheirs
    <3> QED
        BY <1>6, <3>1, <3>2 DEF IInv, Working
  <2> QED
      BY <2>1, <2>2
<1>11. NoDownloadIsLost'
  <2> SUFFICES ASSUME NEW d \in DOMAIN asked, ~Gone(Asker(d))
               PROVE  Times(pending[Asker(d)], Local(d)) + Times(downloads'[Asker(d)], d)
                         = IF told'[d] = "none" THEN 1 ELSE 0
      BY <1>2, <1>4, <1>6 DEF NoDownloadIsLost, Asker
  <2>1. Times(pending[Asker(d)], Local(d)) + Times(downloads[Asker(d)], d)
           = IF told[d] = "none" THEN 1 ELSE 0
      BY DEF IInv, NoDownloadIsLost
  <2>2. /\ Asker(d) \in Node /\ d \in Download
        /\ Times(pending[Asker(d)], Local(d)) \in Nat /\ Times(downloads[Asker(d)], d) \in Nat
      BY <1>2
  <2>3. Times(downloads'[Asker(d)], d)
           = Times(downloads[Asker(d)], d) - (IF Asker(d) = n /\ c = d THEN 1 ELSE 0)
      BY <1>1, <2>2
  <2>4. CASE d = c
    <3>1. answer # "none" /\ told'[d] = answer
        BY <1>5, <2>4 DEF Answer
    <3>2. Asker(d) = n /\ Times(downloads[Asker(d)], d) # 0
        BY <1>1, <1>3, <2>4
    <3>3. told[d] = "none"
        BY <2>1, <2>2, <3>2
    <3> QED
        BY <2>1, <2>2, <2>3, <2>4, <3>1, <3>2, <3>3
  <2>5. CASE d # c
    <3>1. told'[d] = told[d] /\ Times(downloads'[Asker(d)], d) = Times(downloads[Asker(d)], d)
        BY <1>5, <2>2, <2>3, <2>5
    <3> QED
        BY <2>1, <3>1
  <2> QED
      BY <2>4, <2>5
<1>12. RequestsAreHeld'
  <2> SUFFICES ASSUME NEW d \in DOMAIN asked, ~Gone(Asker(d)), ~Gone(Holder(d))
               PROVE  /\ (IF d \in backlog[Holder(d)] THEN 1 ELSE 0)
                            + Times(pending[Holder(d)], Remote(d))
                         = IF Times(downloads'[Asker(d)], d) = 1 /\ arrived[d] \in {"nothing", "part"}
                           THEN 1 ELSE 0
                      /\ arrived[d] = "part" => thread'[Holder(d)] = "write" /\ Sending(Holder(d)) = d
      BY <1>2, <1>4, <1>6 DEF RequestsAreHeld, Asker, Holder, Sending
  <2>1. /\ (IF d \in backlog[Holder(d)] THEN 1 ELSE 0) + Times(pending[Holder(d)], Remote(d))
               = IF Times(downloads[Asker(d)], d) = 1 /\ arrived[d] \in {"nothing", "part"}
                 THEN 1 ELSE 0
        /\ arrived[d] = "part" => thread[Holder(d)] = "write" /\ Sending(Holder(d)) = d
      BY DEF IInv, RequestsAreHeld
  <2>2. thread[Holder(d)] = "write" => thread'[Holder(d)] = "write"
      BY <1>1, <1>2
  <2>3. CASE d = c
      BY <2>1, <2>3 DEF c
  <2>4. CASE d # c
    <3>1. Asker(d) \in Node /\ Times(downloads[Asker(d)], d) \in Nat
        BY <1>2
    <3>2. Times(downloads'[Asker(d)], d)
             = Times(downloads[Asker(d)], d) - (IF Asker(d) = n /\ c = d THEN 1 ELSE 0)
        BY <1>1, <3>1
    <3>3. Times(downloads'[Asker(d)], d) = Times(downloads[Asker(d)], d)
        BY <2>4, <3>1, <3>2
    <3> QED
        BY <2>1, <2>2, <3>3
  <2> QED
      BY <2>3, <2>4
<1> QED
    BY <1>7, <1>8, <1>9, <1>10, <1>11, <1>12 DEF IInv

\* A copy is written under a name: no name loses its file.
LEMMA StoreKeeps ==
    ASSUME TypeOK, NEW n \in Node, NEW f \in File, NEW copy \in {"whole", "damaged"},
           Store(n, f, copy)
    PROVE  /\ disk' \in [Node -> [File -> Copy]]
           /\ \A m \in Node, g \in File : disk[m][g] # "none" => disk'[m][g] # "none"
<1>1. disk \in [Node -> [File -> Copy]]
    BY DEF TypeOK
<1>2. PICK stored \in {"whole", "damaged"} : disk' = [disk EXCEPT ![n][f] = stored]
    BY DEF Store, Copy
<1>3. \A m \in Node, g \in File : disk'[m][g] = IF m = n /\ g = f THEN stored ELSE disk[m][g]
    BY <1>1, <1>2
<1>4. disk' \in [Node -> [File -> Copy]]
    BY <1>1, <1>2 DEF Copy
<1> QED
    BY <1>3, <1>4

LEMMA SameDisk ==
    ASSUME TypeOK, UNCHANGED disk
    PROVE  /\ disk' \in [Node -> [File -> Copy]]
           /\ \A m \in Node, g \in File : disk[m][g] # "none" => disk'[m][g] # "none"
    BY DEF TypeOK

LEMMA ReadStep ==
    ASSUME IInv, NEW n \in Node,
           ReceiveEnds(n) \/ \E d \in Download : ReadsAnswer(n, d) \/ ReadsEof(n, d)
    PROVE  IInv'
<1>1. \A d \in Download, m \in Node : Times(downloads[m], d) # 0 => Name(d) \in File
    BY Facts DEF IInv, Belonging
<1>2. ASSUME place[n] \in DOMAIN downloads[n] PROVE Name(Current(n)) \in File
  <2>1. downloads[n] \in Seq(Download) /\ place[n] \in 1 .. Len(downloads[n])
      BY <1>2, PlacesAndLists DEF IInv
  <2>2. Times(downloads[n], Current(n)) # 0 /\ Current(n) \in Download
      BY <2>1, TimesPositive, ElementOfSeq DEF Current
  <2> QED
      BY <1>1, <2>2
<1>3. TypeOK
    BY DEF IInv
<1>4. CASE ReceiveEnds(n)
  <2>1. /\ thread[n] = "read" /\ EntryDone(n) /\ Tell(Current(n), "REMOTE_FOUND")
        /\ place[n] \in DOMAIN downloads[n]
        /\ arrived[Current(n)] \in {"part", "whole", "damaged"}
      BY <1>4 DEF ReceiveEnds, IInv, TypeOK, Working
  <2>2. "REMOTE_FOUND" \in Answer
      BY DEF Answer
  <2>3. PICK copy \in {"whole", "damaged"} : Store(n, Name(Current(n)), copy)
      BY <1>4, <2>1 DEF ReceiveEnds
  <2>4. /\ disk' \in [Node -> [File -> Copy]]
        /\ \A m \in Node, g \in File : disk[m][g] # "none" => disk'[m][g] # "none"
      BY <1>2, <1>3, <2>1, <2>3, StoreKeeps
  <2>5. arrived[Current(n)] \notin {"nothing", "part"} \/ Gone(Holder(Current(n)))
      BY <1>4, <2>1 DEF ReceiveEnds
  <2> QED
      BY <2>1, <2>2, <2>4, <2>5, FinishStep
<1>5. ASSUME NEW d \in Download, ReadsAnswer(n, d) PROVE IInv'
  <2>1. /\ thread[n] = "walk" /\ EntryDone(n) /\ d = Current(n)
        /\ place[n] \in DOMAIN downloads[n]
        /\ arrived[Current(n)] \in {"not found", "whole", "damaged"}
      BY <1>5 DEF ReadsAnswer, Visits
  <2>2. PICK answer \in Answer : Tell(Current(n), answer)
      BY <1>5, <2>1 DEF ReadsAnswer, Answer
  <2>3. /\ disk' \in [Node -> [File -> Copy]]
        /\ \A m \in Node, g \in File : disk[m][g] # "none" => disk'[m][g] # "none"
    <3>1. CASE UNCHANGED disk
        BY <1>3, <3>1, SameDisk
    <3>2. CASE arrived[d] \in {"whole", "damaged"} /\ Store(n, Name(Current(n)), arrived[d])
        BY <1>2, <1>3, <2>1, <3>2, StoreKeeps
    <3> QED
        BY <1>5, <2>1, <3>1, <3>2 DEF ReadsAnswer
  <2>4. arrived[Current(n)] \notin {"nothing", "part"} \/ Gone(Holder(Current(n)))
      BY <2>1
  <2> QED
      BY <2>1, <2>2, <2>3, <2>4, FinishStep
<1>6. ASSUME NEW d \in Download, ReadsEof(n, d) PROVE IInv'
  <2>1. /\ thread[n] = "walk" /\ d = Current(n) /\ place[n] \in DOMAIN downloads[n]
        /\ Gone(Holder(Current(n)))
      BY <1>6 DEF ReadsEof, Visits
  <2>2. CASE Dies(n)
      BY <2>1, <2>2, DieStep DEF Gone
  <2>3. CASE ~Dies(n)
    <3>1. EntryDone(n)
        BY <1>6, <2>3 DEF ReadsEof
    <3>2. PICK answer \in Answer : Tell(Current(n), answer)
        BY <1>6, <2>1, <2>3 DEF ReadsEof, Answer
    <3>3. UNCHANGED disk \/ \E f \in File : Store(n, f, "damaged")
        BY <1>6, <2>3 DEF ReadsEof
    <3>4. /\ disk' \in [Node -> [File -> Copy]]
          /\ \A m \in Node, g \in File : disk[m][g] # "none" => disk'[m][g] # "none"
        BY <1>3, <3>3, SameDisk, StoreKeeps
    <3> QED
        BY <2>1, <3>1, <3>2, <3>4, FinishStep
  <2> QED
      BY <2>2, <2>3
<1> QED
    BY <1>4, <1>5, <1>6

\* The other end of a request that has been accepted still waits for it, if it is there.
LEMMA RemoteIsAwaited ==
    ASSUME IInv, NEW n \in Node, ~Gone(n), NEW d \in Download,
           Times(pending[n], Remote(d)) # 0
    PROVE  /\ d \in DOMAIN asked /\ Holder(d) = n /\ Asker(d) \in Node
           /\ ~Gone(Asker(d)) => /\ Times(downloads[Asker(d)], d) = 1
                                 /\ arrived[d] \in {"nothing", "part"}
                                 /\ Times(pending[Asker(d)], Local(d)) = 0
                                 /\ Times(pending[n], Remote(d)) = 1
                                 /\ d \notin backlog[n]
<1>1. d \in DOMAIN asked /\ Holder(d) = n
    BY DEF IInv, Belonging
<1>2. /\ Asker(d) \in Node /\ Times(pending[n], Remote(d)) \in Nat
      /\ Times(pending[Asker(d)], Local(d)) \in Nat
    BY <1>1, Facts DEF IInv
<1>3. ASSUME ~Gone(Asker(d))
      PROVE  /\ Times(downloads[Asker(d)], d) = 1 /\ arrived[d] \in {"nothing", "part"}
             /\ Times(pending[n], Remote(d)) = 1 /\ d \notin backlog[n]
  <2>1. (IF d \in backlog[n] THEN 1 ELSE 0) + Times(pending[n], Remote(d))
           = IF Times(downloads[Asker(d)], d) = 1 /\ arrived[d] \in {"nothing", "part"}
             THEN 1 ELSE 0
      BY <1>1, <1>3 DEF IInv, RequestsAreHeld
  <2> QED
      BY <1>2, <2>1
<1>4. ASSUME ~Gone(Asker(d)) PROVE Times(pending[Asker(d)], Local(d)) = 0
  <2>1. Times(pending[Asker(d)], Local(d)) + Times(downloads[Asker(d)], d)
           = IF told[d] = "none" THEN 1 ELSE 0
      BY <1>1, <1>4 DEF IInv, NoDownloadIsLost
  <2> QED
      BY <1>2, <1>3, <1>4, <2>1
<1> QED
    BY <1>1, <1>2, <1>3, <1>4

\* What a servent reads is a download of its own.
LEMMA ReadersReadTheirs ==
    ASSUME IInv, NEW m \in Node, thread[m] = "read"
    PROVE  /\ Current(m) \in Download /\ Current(m) \in DOMAIN asked /\ Asker(Current(m)) = m
           /\ arrived[Current(m)] \in {"part", "whole", "damaged"}
<1>1. downloads[m] \in Seq(Download) /\ place[m] \in 1 .. Len(downloads[m])
    BY PlacesAndLists DEF IInv, TypeOK
<1>2. Times(downloads[m], Current(m)) # 0 /\ Current(m) \in Download
    BY <1>1, TimesPositive, ElementOfSeq DEF Current
<1> QED
    BY <1>2 DEF IInv, Belonging, Working

LEMMA NoPlace == \A k \in Nat : 0 \in 0 .. k + 1
    OBVIOUS

\* The request at the head of pending_requests is done with, and only the servent itself
\* and what is on connections has changed.
LEMMA Served ==
    ASSUME IInv, NEW n \in Node, ~Gone(n), place[n] = 0, pending[n] # << >>, NextRequest(n),
           UNCHANGED <<disk, asked, place, list>>,
           downloads' \in [Node -> Seq(Download)],
           \A m \in Node : m # n => downloads'[m] = downloads[m],
           backlog' \in [Node -> SUBSET Download],
           arrived' \in [Download -> {"nothing", "not found", "part"} \cup Copy],
           told' \in [Download -> Answer \cup {"none"}],
           \A m \in Node : thread[m] = "read" => arrived'[Current(m)] \in {"part", "whole", "damaged"}
    PROVE  TypeOK' /\ Working' /\ \A m \in Node : Gone(m)' <=> Gone(m)
<1>1. /\ pending' \in [Node -> Seq(Request)]
      /\ \A m \in Node : m # n => pending'[m] = pending[m] /\ thread'[m] = thread[m]
      /\ thread'[n] \in {"loop", "drain"} /\ (thread'[n] = "drain" => pending'[n] # << >>)
      /\ thread' \in [Node -> Thread]
    BY NextRequestCounts DEF IInv
<1>2. TypeOK'
  <2>1. ASSUME NEW m \in Node
        PROVE  /\ place'[m] \in 0 .. Len(downloads'[m]) + 1
               /\ place'[m] # 0 <=> thread'[m] \in {"walk", "read"}
               /\ thread'[m] = "read" => place'[m] \in DOMAIN downloads'[m]
               /\ thread'[m] \in {"drain", "write"} => pending'[m] # << >>
    <3>1. CASE m = n
      <4>1. Len(downloads'[n]) \in Nat /\ place'[n] = 0
          BY LenProperties
      <4>2. place'[n] \in 0 .. Len(downloads'[n]) + 1
          BY <4>1, NoPlace
      <4>3. thread'[n] \notin {"walk", "read", "write"}
          BY <1>1
      <4> QED
          BY <1>1, <3>1, <4>1, <4>2, <4>3
    <3>2. CASE m # n
        BY <1>1, <3>2 DEF IInv, TypeOK
    <3> QED
        BY <3>1, <3>2
  <2> QED
      BY <1>1, <2>1 DEF IInv, TypeOK
<1>3. \A m \in Node : Gone(m)' <=> Gone(m)
    BY <1>1 DEF Gone
<1>4. Working'
  <2> SUFFICES ASSUME NEW m \in Node
               PROVE  /\ thread'[m] = "write" => /\ Head(pending'[m]) = Remote(Sending(m)')
                                                 /\ disk[m][Name(Sending(m)')] # "none"
                      /\ thread'[m] = "read" => arrived'[Current(m)'] \in {"part", "whole", "damaged"}
                      /\ Gone(m)' => list[m] = "sound"
      BY DEF Working, Name
  <2>1. CASE m = n
      BY <1>1, <2>1 DEF Gone
  <2>2. CASE m # n
    <3>1. thread'[m] = thread[m] /\ pending'[m] = pending[m] /\ downloads'[m] = downloads[m]
        BY <1>1, <2>2
    <3>2. Sending(m)' = Sending(m) /\ Current(m)' = Current(m)
        BY <3>1 DEF Sending, Current
    <3> QED
        BY <1>3, <3>1, <3>2 DEF IInv, Working
  <2> QED
      BY <2>1, <2>2
<1> QED
    BY <1>2, <1>3, <1>4

\* How often the others are in the queue stays the same.
LEMMA NextRequestKeeps ==
    ASSUME TypeOK, NEW n \in Node, pending[n] # << >>, NextRequest(n)
    PROVE  /\ \A m \in Node : \A x : (m # n \/ x # Head(pending[n]))
                                    => Times(pending'[m], x) = Times(pending[m], x)
           /\ Times(pending'[n], Head(pending[n])) = Times(pending[n], Head(pending[n])) - 1
           /\ \A m \in Node : \A x : Times(pending[m], x) = 0 => Times(pending'[m], x) = 0
           /\ \A m \in Node : m # n => pending'[m] = pending[m] /\ thread'[m] = thread[m]
           /\ Times(pending[n], Head(pending[n])) # 0
           /\ \A m \in Node : \A x : Times(pending[m], x) \in Nat
<1> DEFINE r == Head(pending[n])
<1>1. \A m \in Node : \A x : Times(pending[m], x) \in Nat
    BY Facts
<1>2. /\ \A m \in Node : m # n => pending'[m] = pending[m] /\ thread'[m] = thread[m]
      /\ \A m \in Node : \A x : Times(pending'[m], x)
            = Times(pending[m], x) - (IF m = n /\ r = x THEN 1 ELSE 0)
      /\ Times(pending[n], r) # 0
    BY NextRequestCounts
<1> HIDE DEF r
<1>3. ASSUME NEW m \in Node, NEW x, m # n \/ x # r
      PROVE  Times(pending'[m], x) = Times(pending[m], x)
  <2>1. Times(pending[m], x) \in Nat
      BY <1>1
  <2>2. Times(pending'[m], x) = Times(pending[m], x) - 0
      BY <1>2, <1>3
  <2> QED
      BY <2>1, <2>2
<1>4. Times(pending'[n], r) = Times(pending[n], r) - 1
    BY <1>2
<1>5. ASSUME NEW m \in Node, NEW x, Times(pending[m], x) = 0 PROVE Times(pending'[m], x) = 0
    BY <1>2, <1>3, <1>5
<1> QED
    BY <1>1, <1>2, <1>3, <1>4, <1>5 DEF r

\* answer_local_download_request answers the client.
LEMMA LocalAnswered ==
    ASSUME IInv, NEW n \in Node, ~Gone(n), place[n] = 0, pending[n] # << >>,
           NEW d \in Download, Head(pending[n]) = Local(d), NextRequest(n),
           NEW answer \in Answer, Tell(d, answer), thread[n] # "write",
           UNCHANGED <<downloads, backlog, disk, asked, place, list, arrived>>
    PROVE  IInv'
<1>1. /\ \A m \in Node : \A x : (m # n \/ x # Local(d))
                               => Times(pending'[m], x) = Times(pending[m], x)
      /\ Times(pending'[n], Local(d)) = Times(pending[n], Local(d)) - 1
      /\ \A m \in Node : \A x : Times(pending[m], x) = 0 => Times(pending'[m], x) = 0
      /\ \A m \in Node : m # n => pending'[m] = pending[m] /\ thread'[m] = thread[m]
      /\ Times(pending[n], Local(d)) # 0
    BY NextRequestKeeps DEF IInv
<1>2. /\ told' \in [Download -> Answer \cup {"none"}] /\ told'[d] = answer
      /\ \A e \in Download : e # d => told'[e] = told[e]
      /\ answer # "none"
    BY DEF Tell, IInv, TypeOK, Answer
<1>3. d \in DOMAIN asked /\ Asker(d) = n
    BY <1>1 DEF IInv, Belonging
<1>4. /\ DOMAIN asked \subseteq Download
      /\ \A e \in DOMAIN asked : Asker(e) \in Node /\ Holder(e) \in Node
      /\ \A m \in Node : \A x : Times(pending[m], x) \in Nat /\ Times(downloads[m], x) \in Nat
    BY Facts DEF IInv
<1>5. TypeOK' /\ Working' /\ \A m \in Node : Gone(m)' <=> Gone(m)
  <2>1. \A m \in Node : thread[m] = "read" => arrived'[Current(m)] \in {"part", "whole", "damaged"}
      BY ReadersReadTheirs
  <2> QED
      BY <1>2, <2>1, Served DEF IInv, TypeOK
<1>7. \A m \in Node : \A e : Times(pending'[m], Remote(e)) = Times(pending[m], Remote(e))
    BY <1>1, RequestsDiffer
<1>8. Belonging'
  <2>1. \A e \in Download : e \notin DOMAIN asked => told'[e] = "none" /\ arrived[e] = "nothing"
      BY <1>2, <1>3 DEF IInv, Belonging
  <2> QED
      BY <1>1, <2>1 DEF IInv, Belonging, Asker, Holder
<1>9. Untouched' /\ NoneArrives'
    BY <1>1, <1>5 DEF IInv, Untouched, NoneArrives
<1>10. NoDownloadIsLost'
  <2> SUFFICES ASSUME NEW e \in DOMAIN asked, ~Gone(Asker(e))
               PROVE  Times(pending'[Asker(e)], Local(e)) + Times(downloads[Asker(e)], e)
                         = IF told'[e] = "none" THEN 1 ELSE 0
      BY <1>4, <1>5 DEF NoDownloadIsLost, Asker
  <2>1. /\ Asker(e) \in Node /\ e \in Download
        /\ Times(pending[Asker(e)], Local(e)) \in Nat /\ Times(downloads[Asker(e)], e) \in Nat
      BY <1>4
  <2>2. Times(pending[Asker(e)], Local(e)) + Times(downloads[Asker(e)], e)
           = IF told[e] = "none" THEN 1 ELSE 0
      BY DEF IInv, NoDownloadIsLost
  <2>3. CASE e = d
    <3>1. /\ Times(pending'[Asker(e)], Local(e)) = Times(pending[Asker(e)], Local(e)) - 1
          /\ Times(pending[Asker(e)], Local(e)) # 0 /\ told'[e] # "none"
        BY <1>1, <1>2, <1>3, <2>3
    <3> QED
        BY <2>1, <2>2, <3>1
  <2>4. CASE e # d
    <3>1. told'[e] = told[e] /\ Times(pending'[Asker(e)], Local(e)) = Times(pending[Asker(e)], Local(e))
        BY <1>1, <1>2, <2>1, <2>4, RequestsDiffer
    <3> QED
        BY <2>2, <3>1
  <2> QED
      BY <2>3, <2>4
<1>11. RequestsAreHeld'
  <2> SUFFICES ASSUME NEW e \in DOMAIN asked, ~Gone(Asker(e)), ~Gone(Holder(e))
               PROVE  /\ (IF e \in backlog[Holder(e)] THEN 1 ELSE 0)
                            + Times(pending'[Holder(e)], Remote(e))
                         = IF Times(downloads[Asker(e)], e) = 1 /\ arrived[e] \in {"nothing", "part"}
                           THEN 1 ELSE 0
                      /\ arrived[e] = "part" => thread'[Holder(e)] = "write"
                                                /\ Sending(Holder(e))' = e
      BY <1>4, <1>5 DEF RequestsAreHeld, Asker, Holder, Sending
  <2>1. /\ (IF e \in backlog[Holder(e)] THEN 1 ELSE 0) + Times(pending[Holder(e)], Remote(e))
               = IF Times(downloads[Asker(e)], e) = 1 /\ arrived[e] \in {"nothing", "part"}
                 THEN 1 ELSE 0
        /\ arrived[e] = "part" => thread[Holder(e)] = "write" /\ Sending(Holder(e)) = e
      BY DEF IInv, RequestsAreHeld
  <2>2. Holder(e) \in Node
      BY <1>4
  <2>3. Times(pending'[Holder(e)], Remote(e)) = Times(pending[Holder(e)], Remote(e))
      BY <1>7, <2>2
  <2>4. arrived[e] = "part" => thread'[Holder(e)] = "write" /\ Sending(Holder(e))' = e
      BY <1>1, <2>1, <2>2 DEF Sending, Holder
  <2> QED
      BY <2>1, <2>3, <2>4
<1> QED
    BY <1>5, <1>8, <1>9, <1>10, <1>11 DEF IInv

\* ... or asks the servent that has the file, and waits.
LEMMA LocalWaits ==
    ASSUME IInv, NEW n \in Node, ~Gone(n), place[n] = 0, pending[n] # << >>, thread[n] # "write",
           NEW d \in Download, Head(pending[n]) = Local(d), NextRequest(n), ~Gone(Holder(d)),
           downloads' = [downloads EXCEPT ![n] = Append(@, d)],
           backlog' = [backlog EXCEPT ![Holder(d)] = @ \cup {d}],
           UNCHANGED <<disk, asked, place, list, arrived, told>>
    PROVE  IInv'
<1>1. /\ \A m \in Node : \A x : (m # n \/ x # Local(d))
                               => Times(pending'[m], x) = Times(pending[m], x)
      /\ Times(pending'[n], Local(d)) = Times(pending[n], Local(d)) - 1
      /\ \A m \in Node : \A x : Times(pending[m], x) = 0 => Times(pending'[m], x) = 0
      /\ \A m \in Node : m # n => pending'[m] = pending[m] /\ thread'[m] = thread[m]
      /\ Times(pending[n], Local(d)) # 0
    BY NextRequestKeeps DEF IInv
<1>2. d \in DOMAIN asked /\ Asker(d) = n /\ arrived[d] = "nothing"
    BY <1>1 DEF IInv, Belonging, Untouched
<1>3. /\ DOMAIN asked \subseteq Download
      /\ \A e \in DOMAIN asked : Asker(e) \in Node /\ Holder(e) \in Node
      /\ \A m \in Node : \A x : Times(pending[m], x) \in Nat /\ Times(downloads[m], x) \in Nat
    BY Facts DEF IInv
<1>4. /\ downloads' \in [Node -> Seq(Download)]
      /\ \A m \in Node : m # n => downloads'[m] = downloads[m]
      /\ downloads'[n] = Append(downloads[n], d) /\ downloads[n] \in Seq(Download)
  <2>1. downloads \in [Node -> Seq(Download)] /\ downloads[n] \in Seq(Download)
      BY DEF IInv, TypeOK
  <2>2. Append(downloads[n], d) \in Seq(Download)
      BY <2>1, AppendProperties
  <2> QED
      BY <2>1, <2>2
<1>5. /\ backlog' \in [Node -> SUBSET Download]
      /\ \A m \in Node, e \in Download :
            e \in backlog'[m] <=> e \in backlog[m] \/ (e = d /\ m = Holder(d))
    BY <1>2, <1>3 DEF IInv, TypeOK
<1>6. /\ Times(downloads'[n], d) = Times(downloads[n], d) + 1
      /\ \A m \in Node : \A x : (m # n \/ x # d) => Times(downloads'[m], x) = Times(downloads[m], x)
  <2>1. ASSUME NEW x
        PROVE  Times(downloads'[n], x) = Times(downloads[n], x) + (IF d = x THEN 1 ELSE 0)
      BY <1>4, TimesAppend
  <2>2. ASSUME NEW m \in Node, NEW x, m # n \/ x # d
        PROVE  Times(downloads'[m], x) = Times(downloads[m], x)
    <3>1. CASE m # n
        BY <1>4, <3>1
    <3>2. CASE m = n
        BY <1>3, <2>1, <2>2, <3>2
    <3> QED
        BY <3>1, <3>2
  <2> QED
      BY <2>1, <2>2
<1>7. /\ Times(pending[n], Local(d)) = 1 /\ Times(downloads[n], d) = 0 /\ told[d] = "none"
  <2>1. Times(pending[n], Local(d)) + Times(downloads[n], d) = IF told[d] = "none" THEN 1 ELSE 0
      BY <1>2 DEF IInv, NoDownloadIsLost
  <2>2. Times(pending[n], Local(d)) \in Nat /\ Times(downloads[n], d) \in Nat
      BY <1>3
  <2> QED
      BY <1>1, <2>1, <2>2
<1>8. TypeOK' /\ Working' /\ \A m \in Node : Gone(m)' <=> Gone(m)
  <2>1. \A m \in Node : thread[m] = "read" => arrived'[Current(m)] \in {"part", "whole", "damaged"}
      BY ReadersReadTheirs
  <2> QED
      BY <1>4, <1>5, <2>1, Served DEF IInv, TypeOK
<1>9. Belonging'
  <2>1. \A m \in Node, e \in Download : Times(downloads'[m], e) # 0 => e \in DOMAIN asked /\ Asker(e) = m
      BY <1>2, <1>6 DEF IInv, Belonging
  <2>2. \A m \in Node, e \in Download : e \in backlog'[m] => e \in DOMAIN asked /\ Holder(e) = m
      BY <1>2, <1>5 DEF IInv, Belonging
  <2>3. ASSUME NEW m \in Node, NEW e \in Download
        PROVE  /\ Times(pending'[m], Local(e)) # 0 => e \in DOMAIN asked /\ Asker(e) = m
               /\ Times(pending'[m], Remote(e)) # 0 => e \in DOMAIN asked /\ Holder(e) = m
    <3>1. /\ Times(pending[m], Local(e)) = 0 => Times(pending'[m], Local(e)) = 0
          /\ Times(pending[m], Remote(e)) = 0 => Times(pending'[m], Remote(e)) = 0
        BY <1>1
    <3> QED
        BY <3>1 DEF IInv, Belonging
  <2> QED
      BY <2>1, <2>2, <2>3 DEF IInv, Belonging, Asker, Holder
<1>10. Untouched' /\ NoneArrives'
    BY <1>1, <1>8 DEF IInv, Untouched, NoneArrives
<1>11. NoDownloadIsLost'
  <2> SUFFICES ASSUME NEW e \in DOMAIN asked, ~Gone(Asker(e))
               PROVE  Times(pending'[Asker(e)], Local(e)) + Times(downloads'[Asker(e)], e)
                         = IF told[e] = "none" THEN 1 ELSE 0
      BY <1>3, <1>8 DEF NoDownloadIsLost, Asker
  <2>1. CASE e = d
      BY <1>1, <1>2, <1>6, <1>7, <2>1
  <2>2. CASE e # d
    <3>1. /\ Times(pending'[Asker(e)], Local(e)) = Times(pending[Asker(e)], Local(e))
          /\ Times(downloads'[Asker(e)], e) = Times(downloads[Asker(e)], e)
      <4>1. Asker(e) \in Node /\ Local(e) # Local(d)
          BY <1>3, <2>2, RequestsDiffer
      <4> QED
          BY <1>1, <1>6, <2>2, <4>1
    <3> QED
        BY <3>1 DEF IInv, NoDownloadIsLost
  <2> QED
      BY <2>1, <2>2
<1>12. RequestsAreHeld'
  <2> SUFFICES ASSUME NEW e \in DOMAIN asked, ~Gone(Asker(e)), ~Gone(Holder(e))
               PROVE  /\ (IF e \in backlog'[Holder(e)] THEN 1 ELSE 0)
                            + Times(pending'[Holder(e)], Remote(e))
                         = IF Times(downloads'[Asker(e)], e) = 1 /\ arrived[e] \in {"nothing", "part"}
                           THEN 1 ELSE 0
                      /\ arrived[e] = "part" => thread'[Holder(e)] = "write"
                                                /\ Sending(Holder(e))' = e
      BY <1>3, <1>8 DEF RequestsAreHeld, Asker, Holder, Sending
  <2>1. /\ (IF e \in backlog[Holder(e)] THEN 1 ELSE 0) + Times(pending[Holder(e)], Remote(e))
               = IF Times(downloads[Asker(e)], e) = 1 /\ arrived[e] \in {"nothing", "part"}
                 THEN 1 ELSE 0
        /\ arrived[e] = "part" => thread[Holder(e)] = "write" /\ Sending(Holder(e)) = e
      BY DEF IInv, RequestsAreHeld
  <2>2. Holder(e) \in Node /\ Asker(e) \in Node /\ e \in Download
        /\ Times(pending[Holder(e)], Remote(e)) \in Nat
      BY <1>3
  <2>3. Times(pending'[Holder(e)], Remote(e)) = Times(pending[Holder(e)], Remote(e))
      BY <1>1, <2>2, RequestsDiffer
  <2>4. arrived[e] = "part" => thread'[Holder(e)] = "write" /\ Sending(Holder(e))' = e
      BY <1>1, <2>1, <2>2 DEF Sending, Holder
  <2>5. CASE e = d
    <3>0. Times(downloads[Asker(e)], e) = 0
        BY <1>2, <1>7, <2>5
    <3>1. Times(pending[Holder(e)], Remote(e)) = 0 /\ e \notin backlog[Holder(e)]
        BY <2>1, <2>2, <3>0
    <3>2. e \in backlog'[Holder(e)] /\ Times(downloads'[Asker(e)], e) = 1 /\ arrived[e] = "nothing"
        BY <1>2, <1>5, <1>6, <1>7, <2>2, <2>5
    <3> QED
        BY <2>3, <2>4, <3>1, <3>2
  <2>6. CASE e # d
    <3>1. /\ e \in backlog'[Holder(e)] <=> e \in backlog[Holder(e)]
          /\ Times(downloads'[Asker(e)], e) = Times(downloads[Asker(e)], e)
        BY <1>5, <1>6, <2>2, <2>6
    <3> QED
        BY <2>1, <2>3, <2>4, <3>1
  <2> QED
      BY <2>5, <2>6
<1> QED
    BY <1>8, <1>9, <1>10, <1>11, <1>12 DEF IInv

\* What may be on the connection of a download once its request is done with.
Final(n, d, v) ==
    /\ v \in {"nothing", "not found", "part", "whole", "damaged"}
    /\ thread[n] = "write" => v \in {"whole", "damaged"} \/ Gone(Asker(d))
    /\ v \in {"nothing", "part"} => Gone(Asker(d))

\* answer_remote_download_request has answered, or has found the asker gone.
LEMMA RemoteAnswered ==
    ASSUME IInv, NEW n \in Node, ~Gone(n), place[n] = 0, pending[n] # << >>,
           NEW d \in Download, Head(pending[n]) = Remote(d), NextRequest(n),
           NEW v, Final(n, d, v), arrived' = [arrived EXCEPT ![d] = v],
           UNCHANGED <<disk, asked, downloads, place, list, backlog, told>>
    PROVE  IInv'
<1>1. /\ \A m \in Node : \A x : (m # n \/ x # Remote(d))
                               => Times(pending'[m], x) = Times(pending[m], x)
      /\ Times(pending'[n], Remote(d)) = Times(pending[n], Remote(d)) - 1
      /\ \A m \in Node : \A x : Times(pending[m], x) = 0 => Times(pending'[m], x) = 0
      /\ \A m \in Node : m # n => pending'[m] = pending[m] /\ thread'[m] = thread[m]
      /\ Times(pending[n], Remote(d)) # 0
    BY NextRequestKeeps DEF IInv
<1>2. /\ d \in DOMAIN asked /\ Holder(d) = n /\ Asker(d) \in Node
      /\ ~Gone(Asker(d)) => /\ Times(downloads[Asker(d)], d) = 1
                            /\ arrived[d] \in {"nothing", "part"}
                            /\ Times(pending[Asker(d)], Local(d)) = 0
                            /\ Times(pending[n], Remote(d)) = 1
                            /\ d \notin backlog[n]
    BY <1>1, RemoteIsAwaited
<1>3. /\ DOMAIN asked \subseteq Download
      /\ \A e \in DOMAIN asked : Asker(e) \in Node /\ Holder(e) \in Node
      /\ \A m \in Node : \A x : Times(pending[m], x) \in Nat
    BY Facts DEF IInv
<1>4. /\ arrived' \in [Download -> {"nothing", "not found", "part"} \cup Copy]
      /\ arrived'[d] = v /\ \A e \in Download : e # d => arrived'[e] = arrived[e]
    BY DEF IInv, TypeOK, Copy, Final
<1>5. TypeOK' /\ Working' /\ \A m \in Node : Gone(m)' <=> Gone(m)
  <2>1. ASSUME NEW m \in Node, thread[m] = "read"
        PROVE  arrived'[Current(m)] \in {"part", "whole", "damaged"}
    <3>1. /\ Current(m) \in Download /\ Asker(Current(m)) = m
          /\ arrived[Current(m)] \in {"part", "whole", "damaged"}
        BY <2>1, ReadersReadTheirs
    <3>2. CASE Current(m) = d
      <4>1. ~Gone(Asker(d))
          BY <2>1, <3>1, <3>2 DEF Gone
      <4>2. arrived[d] = "part"
          BY <1>2, <3>1, <3>2, <4>1
      <4>3. thread[n] = "write"
          BY <1>2, <4>1, <4>2 DEF IInv, RequestsAreHeld
      <4> QED
          BY <1>4, <3>2, <4>1, <4>3 DEF Final
    <3> QED
        BY <1>4, <3>1, <3>2
  <2> QED
      BY <1>4, <2>1, Served DEF IInv, TypeOK
<1>6. Belonging'
  <2>1. \A e \in Download : e \notin DOMAIN asked => told[e] = "none" /\ arrived'[e] = "nothing"
      BY <1>2, <1>4 DEF IInv, Belonging
  <2>2. ASSUME NEW m \in Node, NEW e \in Download
        PROVE  /\ Times(pending'[m], Local(e)) # 0 => e \in DOMAIN asked /\ Asker(e) = m
               /\ Times(pending'[m], Remote(e)) # 0 => e \in DOMAIN asked /\ Holder(e) = m
    <3>1. /\ Times(pending[m], Local(e)) = 0 => Times(pending'[m], Local(e)) = 0
          /\ Times(pending[m], Remote(e)) = 0 => Times(pending'[m], Remote(e)) = 0
        BY <1>1
    <3> QED
        BY <3>1 DEF IInv, Belonging
  <2> QED
      BY <2>1, <2>2 DEF IInv, Belonging, Asker, Holder
<1>7. Untouched'
  <2> SUFFICES ASSUME NEW m \in Node, NEW e \in Download, ~Gone(m), Times(pending'[m], Local(e)) # 0
               PROVE  arrived'[e] = "nothing"
      BY <1>5 DEF Untouched
  <2>1. Times(pending[m], Local(e)) # 0
      BY <1>1
  <2>2. Asker(e) = m /\ arrived[e] = "nothing"
      BY <2>1 DEF IInv, Belonging, Untouched
  <2>3. e # d
      BY <1>2, <2>1, <2>2
  <2> QED
      BY <1>4, <2>2, <2>3
<1>8. NoneArrives'
    BY <1>4 DEF IInv, NoneArrives, Final
<1>9. NoDownloadIsLost'
  <2> SUFFICES ASSUME NEW e \in DOMAIN asked, ~Gone(Asker(e))
               PROVE  Times(pending'[Asker(e)], Local(e)) + Times(downloads[Asker(e)], e)
                         = IF told[e] = "none" THEN 1 ELSE 0
      BY <1>3, <1>5 DEF NoDownloadIsLost, Asker
  <2>1. Times(pending'[Asker(e)], Local(e)) = Times(pending[Asker(e)], Local(e))
      BY <1>1, <1>3, RequestsDiffer
  <2> QED
      BY <2>1 DEF IInv, NoDownloadIsLost
<1>10. RequestsAreHeld'
  <2> SUFFICES ASSUME NEW e \in DOMAIN asked, ~Gone(Asker(e)), ~Gone(Holder(e))
               PROVE  /\ (IF e \in backlog[Holder(e)] THEN 1 ELSE 0)
                            + Times(pending'[Holder(e)], Remote(e))
                         = IF Times(downloads[Asker(e)], e) = 1 /\ arrived'[e] \in {"nothing", "part"}
                           THEN 1 ELSE 0
                      /\ arrived'[e] = "part" => thread'[Holder(e)] = "write"
                                                 /\ Sending(Holder(e))' = e
      BY <1>3, <1>5 DEF RequestsAreHeld, Asker, Holder, Sending
  <2>1. /\ (IF e \in backlog[Holder(e)] THEN 1 ELSE 0) + Times(pending[Holder(e)], Remote(e))
               = IF Times(downloads[Asker(e)], e) = 1 /\ arrived[e] \in {"nothing", "part"}
                 THEN 1 ELSE 0
        /\ arrived[e] = "part" => thread[Holder(e)] = "write" /\ Sending(Holder(e)) = e
      BY DEF IInv, RequestsAreHeld
  <2>2. Holder(e) \in Node /\ e \in Download /\ Times(pending[Holder(e)], Remote(e)) \in Nat
      BY <1>3
  <2>3. CASE e = d
    <3>1. Times(pending[n], Remote(d)) = 1 /\ d \notin backlog[n]
        BY <1>2, <2>3
    <3>2. Times(pending'[n], Remote(d)) = 0
        BY <1>1, <3>1
    <3>3. arrived'[d] \notin {"nothing", "part"}
        BY <1>4, <2>3 DEF Final
    <3> QED
        BY <1>2, <2>3, <3>1, <3>2, <3>3
  <2>4. CASE e # d
    <3>1. Times(pending'[Holder(e)], Remote(e)) = Times(pending[Holder(e)], Remote(e))
      <4>1. Remote(e) # Remote(d)
          BY <2>4, RequestsDiffer
      <4> QED
          BY <1>1, <2>2, <4>1
    <3>2. arrived'[e] = arrived[e]
        BY <1>4, <2>2, <2>4
    <3>3. arrived[e] = "part" => Holder(e) # n
        BY <2>1, <2>4 DEF Sending, Remote
    <3>4. arrived[e] = "part" => thread'[Holder(e)] = "write" /\ Sending(Holder(e))' = e
      <4>1. Holder(e) # n => thread'[Holder(e)] = thread[Holder(e)]
                             /\ pending'[Holder(e)] = pending[Holder(e)]
          BY <1>1, <2>2
      <4> QED
          BY <2>1, <3>3, <4>1 DEF Sending, Holder
    <3> QED
        BY <2>1, <3>1, <3>2, <3>4
  <2> QED
      BY <2>3, <2>4
<1> QED
    BY <1>5, <1>6, <1>7, <1>8, <1>9, <1>10 DEF IInv

\* A large file has begun to be sent.
LEMMA WriteBegins ==
    ASSUME IInv, NEW n \in Node, thread[n] \in {"loop", "drain"}, pending[n] # << >>,
           NEW d \in Download, Head(pending[n]) = Remote(d), disk[n][Name(d)] # "none",
           arrived' = [arrived EXCEPT ![d] = "part"],
           thread' = [thread EXCEPT ![n] = "write"],
           UNCHANGED <<pending, disk, asked, downloads, place, list, backlog, told>>
    PROVE  IInv'
<1>1. ~Gone(n) /\ Sending(n) = d
    BY DEF Gone, Sending, Remote
<1>2. Times(pending[n], Remote(d)) # 0
  <2>1. pending[n] \in Seq(Request)
      BY DEF IInv, TypeOK
  <2>2. 1 \in 1 .. Len(pending[n]) /\ pending[n][1] = Head(pending[n])
      BY <2>1
  <2> QED
      BY <2>1, <2>2, TimesPositive
<1>3. /\ d \in DOMAIN asked /\ Holder(d) = n /\ Asker(d) \in Node
      /\ ~Gone(Asker(d)) => /\ Times(downloads[Asker(d)], d) = 1
                            /\ arrived[d] \in {"nothing", "part"}
                            /\ Times(pending[Asker(d)], Local(d)) = 0
    BY <1>1, <1>2, RemoteIsAwaited
<1>4. /\ DOMAIN asked \subseteq Download
      /\ \A e \in DOMAIN asked : Asker(e) \in Node /\ Holder(e) \in Node
    BY Facts DEF IInv
<1>5. /\ arrived' \in [Download -> {"nothing", "not found", "part"} \cup Copy]
      /\ arrived'[d] = "part" /\ \A e \in Download : e # d => arrived'[e] = arrived[e]
    BY DEF IInv, TypeOK
<1>6. /\ thread' \in [Node -> Thread] /\ thread'[n] = "write"
      /\ \A m \in Node : m # n => thread'[m] = thread[m]
    BY DEF IInv, TypeOK, Thread
<1>7. \A m \in Node : Gone(m)' <=> Gone(m)
    BY <1>1, <1>6 DEF Gone
<1>8. TypeOK'
  <2>1. ASSUME NEW m \in Node
        PROVE  /\ place[m] \in 0 .. Len(downloads[m]) + 1
               /\ place[m] # 0 <=> thread'[m] \in {"walk", "read"}
               /\ thread'[m] = "read" => place[m] \in DOMAIN downloads[m]
               /\ thread'[m] \in {"drain", "write"} => pending[m] # << >>
    <3>1. thread[m] = thread'[m] \/ m = n
        BY <1>6
    <3> QED
        BY <1>6, <3>1 DEF IInv, TypeOK
  <2> QED
      BY <1>5, <1>6, <2>1 DEF IInv, TypeOK
<1>9. Belonging'
  <2>1. \A e \in Download : e \notin DOMAIN asked => told[e] = "none" /\ arrived'[e] = "nothing"
      BY <1>3, <1>5 DEF IInv, Belonging
  <2> QED
      BY <2>1 DEF IInv, Belonging, Asker, Holder
<1>10. Untouched'
  <2> SUFFICES ASSUME NEW m \in Node, NEW e \in Download, ~Gone(m), Times(pending[m], Local(e)) # 0
               PROVE  arrived'[e] = "nothing"
      BY <1>7 DEF Untouched
  <2>1. Asker(e) = m /\ arrived[e] = "nothing"
      BY DEF IInv, Belonging, Untouched
  <2>2. e # d
      BY <1>3, <2>1
  <2> QED
      BY <1>5, <2>1, <2>2
<1>11. NoneArrives' /\ NoDownloadIsLost'
    BY <1>5, <1>4, <1>7 DEF IInv, NoneArrives, NoDownloadIsLost, Asker
<1>12. Working'
  <2> SUFFICES ASSUME NEW m \in Node
               PROVE  /\ thread'[m] = "write" => /\ Head(pending[m]) = Remote(Sending(m))
                                                 /\ disk[m][Name(Sending(m))] # "none"
                      /\ thread'[m] = "read" => arrived'[Current(m)] \in {"part", "whole", "damaged"}
                      /\ Gone(m)' => list[m] = "sound"
      BY DEF Working, Name, Sending, Current
  <2>1. CASE m = n
      BY <1>1, <1>6, <2>1 DEF Gone
  <2>2. CASE m # n
    <3>1. thread[m] = "read" => Current(m) \in Download
                                /\ arrived[Current(m)] \in {"part", "whole", "damaged"}
        BY ReadersReadTheirs
    <3> QED
        BY <1>5, <1>6, <1>7, <2>2, <3>1 DEF IInv, Working
  <2> QED
      BY <2>1, <2>2
<1>13. RequestsAreHeld'
  <2> SUFFICES ASSUME NEW e \in DOMAIN asked, ~Gone(Asker(e)), ~Gone(Holder(e))
               PROVE  /\ (IF e \in backlog[Holder(e)] THEN 1 ELSE 0)
                            + Times(pending[Holder(e)], Remote(e))
                         = IF Times(downloads[Asker(e)], e) = 1 /\ arrived'[e] \in {"nothing", "part"}
                           THEN 1 ELSE 0
                      /\ arrived'[e] = "part" => thread'[Holder(e)] = "write"
                                                 /\ Sending(Holder(e)) = e
      BY <1>4, <1>7 DEF RequestsAreHeld, Asker, Holder, Sending
  <2>1. /\ (IF e \in backlog[Holder(e)] THEN 1 ELSE 0) + Times(pending[Holder(e)], Remote(e))
               = IF Times(downloads[Asker(e)], e) = 1 /\ arrived[e] \in {"nothing", "part"}
                 THEN 1 ELSE 0
        /\ arrived[e] = "part" => thread[Holder(e)] = "write" /\ Sending(Holder(e)) = e
      BY DEF IInv, RequestsAreHeld
  <2>2. Holder(e) \in Node /\ e \in Download
      BY <1>4
  <2>3. CASE e = d
    <3>1. /\ arrived[e] \in {"nothing", "part"} /\ arrived'[e] = "part"
          /\ thread'[Holder(e)] = "write" /\ Sending(Holder(e)) = e
        BY <1>1, <1>3, <1>5, <1>6, <2>3
    <3> QED
        BY <2>1, <3>1
  <2>4. CASE e # d
    <3>1. arrived'[e] = arrived[e]
        BY <1>5, <2>2, <2>4
    <3>2. thread[Holder(e)] = "write" => thread'[Holder(e)] = "write"
        BY <1>6, <2>2
    <3> QED
        BY <2>1, <3>1, <3>2
  <2> QED
      BY <2>3, <2>4
<1> QED
    BY <1>8, <1>9, <1>10, <1>11, <1>12, <1>13 DEF IInv

LEMMA DrainStep == ASSUME IInv, NEW n \in Node, Drain(n) PROVE IInv'
<1>1. \A request : Serves(n, request) => /\ ~Gone(n) /\ thread[n] \in {"loop", "drain"}
                                         /\ place[n] = 0 /\ pending[n] # << >>
                                         /\ Head(pending[n]) = request
    BY DEF Serves, Gone, IInv, TypeOK
<1>2. ASSUME thread[n] = "write"
      PROVE  /\ ~Gone(n) /\ place[n] = 0 /\ pending[n] # << >>
             /\ Sending(n) \in Download /\ Head(pending[n]) = Remote(Sending(n))
             /\ Name(Sending(n)) \in File
             /\ disk[n][Name(Sending(n))] \in {"whole", "damaged"}
  <2>1. ~Gone(n) /\ place[n] = 0
      BY <1>2 DEF Gone, IInv, TypeOK
  <2> QED
      BY <1>2, <2>1, WritersWriteTheirs
<1>3. ASSUME NEW d \in Download, AnswerLocal(n, d) PROVE IInv'
  <2>1. /\ ~Gone(n) /\ thread[n] # "write" /\ place[n] = 0 /\ pending[n] # << >>
        /\ Head(pending[n]) = Local(d)
      BY <1>1, <1>3 DEF AnswerLocal
  <2>2. CASE NextRequest(n) /\ UNCHANGED <<downloads, backlog, disk, asked, place, list, arrived>>
               /\ (Tell(d, "LOCAL") \/ Tell(d, "REMOTE_OFFLINE"))
    <3>1. PICK answer \in Answer : Tell(d, answer)
        BY <2>2 DEF Answer
    <3> QED
        BY <2>1, <2>2, <3>1, LocalAnswered
  <2>3. CASE /\ ~Gone(Holder(d)) /\ NextRequest(n)
             /\ downloads' = [downloads EXCEPT ![n] = Append(@, d)]
             /\ backlog' = [backlog EXCEPT ![Holder(d)] = @ \cup {d}]
             /\ UNCHANGED <<disk, asked, place, list, arrived, told>>
      BY <2>1, <2>3, LocalWaits
  <2>4. CASE Dies(n)
      BY <2>1, <2>4, DieStep
  <2> QED
      BY <1>3, <2>2, <2>3, <2>4 DEF AnswerLocal
<1>4. ASSUME NEW d \in Download, AnswerRemote(n, d) PROVE IInv'
  <2>1. /\ ~Gone(n) /\ thread[n] \in {"loop", "drain"} /\ place[n] = 0 /\ pending[n] # << >>
        /\ Head(pending[n]) = Remote(d)
        /\ UNCHANGED <<disk, asked, downloads, place, list, backlog, told>>
      BY <1>1, <1>4 DEF AnswerRemote
  <2>2. Name(d) \in File
    <3>1. pending[n] \in Seq(Request)
        BY DEF IInv, TypeOK
    <3>2. 1 \in 1 .. Len(pending[n]) /\ pending[n][1] = Head(pending[n])
        BY <2>1, <3>1
    <3>3. Times(pending[n], Remote(d)) # 0
        BY <2>1, <3>1, <3>2, TimesPositive
    <3> QED
        BY <3>3, Facts DEF IInv, Belonging
  <2>3. disk[n][Name(d)] \in {"none", "whole", "damaged"}
      BY <2>2 DEF IInv, TypeOK, Copy
  <2>4. CASE arrived' = [arrived EXCEPT ![d] = "not found"] /\ NextRequest(n)
    <3>1. Final(n, d, "not found")
        BY <2>1 DEF Final
    <3> QED
        BY <2>1, <2>4, <3>1, RemoteAnswered
  <2>5. CASE /\ disk[n][Name(d)] # "none"
             /\ arrived' = [arrived EXCEPT ![d] = disk[n][Name(d)]] /\ NextRequest(n)
    <3>1. Final(n, d, disk[n][Name(d)])
        BY <2>1, <2>3, <2>5 DEF Final
    <3> QED
        BY <2>1, <2>5, <3>1, RemoteAnswered
  <2>6. CASE /\ disk[n][Name(d)] # "none" /\ arrived' = [arrived EXCEPT ![d] = "part"]
             /\ thread' = [thread EXCEPT ![n] = "write"] /\ UNCHANGED pending
      BY <2>1, <2>6, WriteBegins
  <2> QED
      BY <1>4, <2>4, <2>5, <2>6 DEF AnswerRemote
<1>5. CASE SendEnds(n)
  <2> DEFINE d == Sending(n)
  <2>1. /\ thread[n] = "write" /\ NextRequest(n)
        /\ arrived' = [arrived EXCEPT ![d] = disk[n][Name(d)]]
        /\ UNCHANGED <<disk, asked, downloads, place, list, backlog, told>>
      BY <1>5 DEF SendEnds
  <2>2. /\ ~Gone(n) /\ place[n] = 0 /\ pending[n] # << >> /\ d \in Download
        /\ Head(pending[n]) = Remote(d) /\ Final(n, d, disk[n][Name(d)])
      BY <1>2, <2>1 DEF Final
  <2> HIDE DEF d
  <2> QED
      BY <2>1, <2>2, RemoteAnswered
<1>6. CASE SendFails(n)
  <2> DEFINE d == Sending(n)
  <2>1. /\ ~Gone(n) /\ place[n] = 0 /\ pending[n] # << >> /\ d \in Download
        /\ Head(pending[n]) = Remote(d) /\ Gone(Asker(d))
      BY <1>2, <1>6 DEF SendFails
  <2>2. CASE Dies(n)
      BY <2>1, <2>2, DieStep
  <2>3. CASE NextRequest(n) /\ UNCHANGED <<disk, asked, downloads, place, list,
                                           backlog, arrived, told>>
    <3>1. arrived' = [arrived EXCEPT ![d] = arrived[d]]
        BY <2>3 DEF IInv, TypeOK
    <3>2. arrived[d] \in {"nothing", "not found", "part", "whole", "damaged"}
        BY <2>1 DEF IInv, TypeOK, Copy, NoneArrives
    <3>3. Final(n, d, arrived[d])
        BY <2>1, <3>2 DEF Final
    <3> HIDE DEF d
    <3> QED
        BY <2>1, <2>3, <3>1, <3>3, RemoteAnswered
  <2> QED
      BY <1>6, <2>2, <2>3 DEF SendFails
<1> QED
    BY <1>3, <1>4, <1>5, <1>6 DEF Drain

\* A request is appended to a queue.
LEMMA Pushed ==
    ASSUME TypeOK, NEW n \in Node, NEW request \in Request,
           pending' = [pending EXCEPT ![n] = Append(@, request)]
    PROVE  /\ pending' \in [Node -> Seq(Request)]
           /\ \A m \in Node : m # n => pending'[m] = pending[m]
           /\ \A m \in Node : \A x : (m # n \/ x # request)
                                    => Times(pending'[m], x) = Times(pending[m], x)
           /\ Times(pending'[n], request) = Times(pending[n], request) + 1
           /\ pending'[n] # << >>
           /\ pending[n] # << >> => Head(pending'[n]) = Head(pending[n])
<1>1. pending \in [Node -> Seq(Request)] /\ pending[n] \in Seq(Request)
    BY DEF TypeOK
<1>2. pending'[n] = Append(pending[n], request)
    BY <1>1
<1>3. /\ Append(pending[n], request) \in Seq(Request)
      /\ Len(Append(pending[n], request)) = Len(pending[n]) + 1
      /\ \A k \in 1 .. Len(pending[n]) : Append(pending[n], request)[k] = pending[n][k]
      /\ Len(pending[n]) \in Nat
    BY <1>1, AppendProperties, LenProperties
<1>4. pending' \in [Node -> Seq(Request)] /\ \A m \in Node : m # n => pending'[m] = pending[m]
    BY <1>1, <1>3
<1>5. \A m \in Node : \A x : Times(pending[m], x) \in Nat
    BY Facts
<1>6. ASSUME NEW x
      PROVE  Times(pending'[n], x) = Times(pending[n], x) + (IF request = x THEN 1 ELSE 0)
    BY <1>1, <1>2, TimesAppend
<1>7. ASSUME NEW m \in Node, NEW x, m # n \/ x # request
      PROVE  Times(pending'[m], x) = Times(pending[m], x)
  <2>1. CASE m # n
      BY <1>4, <2>1
  <2>2. CASE m = n
      BY <1>5, <1>6, <1>7, <2>2
  <2> QED
      BY <2>1, <2>2
<1>8. pending'[n] # << >>
    BY <1>2, <1>3
<1>9. ASSUME pending[n] # << >> PROVE Head(pending'[n]) = Head(pending[n])
  <2>1. 1 \in 1 .. Len(pending[n])
      BY <1>1, <1>9
  <2>2. Head(pending[n]) = pending[n][1] /\ Head(pending'[n]) = pending'[n][1]
      BY <1>1, <1>4, <1>8, <1>9
  <2> QED
      BY <1>2, <1>3, <2>1, <2>2
<1> QED
    BY <1>4, <1>6, <1>7, <1>8, <1>9

LEMMA AcceptStep == ASSUME IInv, NEW n \in Node, NEW d \in Download, Accept(n, d) PROVE IInv'
<1>1. /\ thread[n] = "loop" /\ d \in backlog[n]
      /\ backlog' = [backlog EXCEPT ![n] = @ \ {d}]
      /\ pending' = [pending EXCEPT ![n] = Append(@, Remote(d))]
      /\ UNCHANGED <<thread, disk, asked, downloads, place, list, arrived, told>>
    BY DEF Accept
<1>2. /\ pending' \in [Node -> Seq(Request)]
      /\ \A m \in Node : m # n => pending'[m] = pending[m]
      /\ \A m \in Node : \A x : (m # n \/ x # Remote(d))
                               => Times(pending'[m], x) = Times(pending[m], x)
      /\ Times(pending'[n], Remote(d)) = Times(pending[n], Remote(d)) + 1
      /\ pending'[n] # << >>
    BY <1>1, Pushed, RequestsDiffer DEF IInv
<1>3. d \in DOMAIN asked /\ Holder(d) = n
    BY <1>1 DEF IInv, Belonging
<1>4. /\ DOMAIN asked \subseteq Download
      /\ \A e \in DOMAIN asked : Asker(e) \in Node /\ Holder(e) \in Node
      /\ \A m \in Node : \A x : Times(pending[m], x) \in Nat
    BY Facts DEF IInv
<1>5. /\ backlog' \in [Node -> SUBSET Download]
      /\ \A m \in Node, e \in Download : e \in backlog'[m] <=> e \in backlog[m] /\ ~(m = n /\ e = d)
    BY <1>1 DEF IInv, TypeOK
<1>6. \A m \in Node : Gone(m)' <=> Gone(m)
    BY <1>1 DEF Gone
<1>7. TypeOK'
  <2>1. \A m \in Node : thread[m] \in {"drain", "write"} => pending'[m] # << >>
      BY <1>2 DEF IInv, TypeOK
  <2> QED
      BY <1>1, <1>2, <1>5, <2>1 DEF IInv, TypeOK
<1>8. \A m \in Node, e \in Download : Times(pending'[m], Local(e)) = Times(pending[m], Local(e))
    BY <1>2, RequestsDiffer
<1>9. Belonging'
  <2>1. ASSUME NEW m \in Node, NEW e \in Download, Times(pending'[m], Remote(e)) # 0
        PROVE  e \in DOMAIN asked /\ Holder(e) = m
    <3>1. CASE m = n /\ e = d
        BY <1>3, <3>1
    <3>2. CASE ~(m = n /\ e = d)
      <4>1. Times(pending'[m], Remote(e)) = Times(pending[m], Remote(e))
          BY <1>2, <3>2, RequestsDiffer
      <4> QED
          BY <2>1, <4>1 DEF IInv, Belonging
    <3> QED
        BY <3>1, <3>2
  <2> QED
      BY <1>1, <1>5, <1>8, <2>1 DEF IInv, Belonging, Asker, Holder
<1>10. Untouched' /\ NoneArrives'
    BY <1>1, <1>6, <1>8 DEF IInv, Untouched, NoneArrives
<1>11. Working'
  <2> SUFFICES ASSUME NEW m \in Node
               PROVE  /\ thread[m] = "write" => /\ Head(pending'[m]) = Remote(Sending(m)')
                                                /\ disk[m][Name(Sending(m)')] # "none"
                      /\ thread[m] = "read" => arrived[Current(m)] \in {"part", "whole", "damaged"}
                      /\ Gone(m) => list[m] = "sound"
      BY <1>1, <1>6 DEF Working, Name, Current
  <2>1. CASE m = n
      BY <1>1, <2>1 DEF Gone
  <2>2. CASE m # n
    <3>1. Sending(m)' = Sending(m)
        BY <1>2, <2>2 DEF Sending
    <3> QED
        BY <1>2, <2>2, <3>1 DEF IInv, Working
  <2> QED
      BY <2>1, <2>2
<1>12. NoDownloadIsLost'
    BY <1>1, <1>4, <1>6, <1>8 DEF IInv, NoDownloadIsLost, Asker
<1>13. RequestsAreHeld'
  <2> SUFFICES ASSUME NEW e \in DOMAIN asked, ~Gone(Asker(e)), ~Gone(Holder(e))
               PROVE  /\ (IF e \in backlog'[Holder(e)] THEN 1 ELSE 0)
                            + Times(pending'[Holder(e)], Remote(e))
                         = IF Times(downloads[Asker(e)], e) = 1 /\ arrived[e] \in {"nothing", "part"}
                           THEN 1 ELSE 0
                      /\ arrived[e] = "part" => thread[Holder(e)] = "write"
                                                /\ Sending(Holder(e))' = e
      BY <1>1, <1>4, <1>6 DEF RequestsAreHeld, Asker, Holder, Sending
  <2>1. /\ (IF e \in backlog[Holder(e)] THEN 1 ELSE 0) + Times(pending[Holder(e)], Remote(e))
               = IF Times(downloads[Asker(e)], e) = 1 /\ arrived[e] \in {"nothing", "part"}
                 THEN 1 ELSE 0
        /\ arrived[e] = "part" => thread[Holder(e)] = "write" /\ Sending(Holder(e)) = e
      BY DEF IInv, RequestsAreHeld
  <2>2. Holder(e) \in Node /\ e \in Download /\ Times(pending[Holder(e)], Remote(e)) \in Nat
      BY <1>4
  <2>3. arrived[e] = "part" => Sending(Holder(e))' = e
      BY <1>1, <1>2, <2>1, <2>2 DEF Sending, Holder
  <2>4. (IF e \in backlog'[Holder(e)] THEN 1 ELSE 0) + Times(pending'[Holder(e)], Remote(e))
           = (IF e \in backlog[Holder(e)] THEN 1 ELSE 0) + Times(pending[Holder(e)], Remote(e))
    <3>1. CASE e = d
      <4>1. e \notin backlog'[Holder(e)] /\ e \in backlog[Holder(e)]
          BY <1>1, <1>3, <1>5, <2>2, <3>1
      <4>2. Times(pending'[Holder(e)], Remote(e)) = Times(pending[Holder(e)], Remote(e)) + 1
          BY <1>2, <1>3, <3>1
      <4> QED
          BY <2>2, <4>1, <4>2
    <3>2. CASE e # d
      <4>1. e \in backlog'[Holder(e)] <=> e \in backlog[Holder(e)]
          BY <1>5, <2>2, <3>2
      <4>2. Times(pending'[Holder(e)], Remote(e)) = Times(pending[Holder(e)], Remote(e))
          BY <1>2, <2>2, <3>2, RequestsDiffer
      <4> QED
          BY <4>1, <4>2
    <3> QED
        BY <3>1, <3>2
  <2> QED
      BY <2>1, <2>3, <2>4
<1> QED
    BY <1>7, <1>9, <1>10, <1>11, <1>12, <1>13 DEF IInv

LEMMA AskStep ==
    ASSUME IInv, NEW n \in Node, NEW h \in Node, NEW f \in File, Ask(n, h, f)
    PROVE  IInv'
<1> DEFINE entry == [asker |-> n, holder |-> h, file |-> f]
<1>1. /\ thread[n] = "loop" /\ Len(asked) < MaxDownload
      /\ asked' = Append(asked, entry)
      /\ pending' = [pending EXCEPT ![n] = Append(@, Local(Len(asked')))]
      /\ UNCHANGED <<thread, disk, downloads, place, list, backlog, arrived, told>>
    BY DEF Ask
<1>2. /\ Len(asked) \in Nat /\ DOMAIN asked = 1 .. Len(asked) /\ DOMAIN asked \subseteq Download
      /\ \A e \in DOMAIN asked : Asker(e) \in Node /\ Holder(e) \in Node
      /\ \A m \in Node : \A x : Times(pending[m], x) \in Nat /\ Times(downloads[m], x) \in Nat
    BY Facts DEF IInv
<1>0. PICK new \in Nat : new = Len(asked) + 1
    BY <1>2
<1>3. /\ asked' \in Seq([asker : Node, holder : Node, file : File])
      /\ Len(asked') = new /\ DOMAIN asked' = 1 .. new
      /\ asked'[new] = entry /\ \A e \in DOMAIN asked : asked'[e] = asked[e]
  <2>1. /\ asked \in Seq([asker : Node, holder : Node, file : File])
        /\ entry \in [asker : Node, holder : Node, file : File]
      BY DEF IInv, TypeOK
  <2> HIDE DEF entry
  <2>2. /\ Append(asked, entry) \in Seq([asker : Node, holder : Node, file : File])
        /\ Len(Append(asked, entry)) = new
        /\ \A e \in 1 .. Len(asked) : Append(asked, entry)[e] = asked[e]
        /\ Append(asked, entry)[new] = entry
      BY <2>1, AppendProperties, <1>0
  <2>3. DOMAIN Append(asked, entry) = 1 .. new
      BY <2>2, LenProperties
  <2> QED
      BY <1>0, <1>1, <1>2, <2>2, <2>3
<1>4. /\ new \in Download /\ new \notin DOMAIN asked /\ DOMAIN asked' = DOMAIN asked \cup {new}
    BY <1>0, <1>1, <1>2, <1>3, TransferAssumption DEF Download
<1>5. /\ Asker(new)' = n /\ Holder(new)' = h
      /\ \A e \in DOMAIN asked : Asker(e)' = Asker(e) /\ Holder(e)' = Holder(e) /\ Name(e)' = Name(e)
    BY <1>3 DEF Asker, Holder, Name, entry
<1>6. Len(asked') = new
    BY <1>3
<1> HIDE DEF entry
<1>7. /\ pending' \in [Node -> Seq(Request)]
      /\ \A m \in Node : m # n => pending'[m] = pending[m]
      /\ \A m \in Node : \A x : (m # n \/ x # Local(new))
                               => Times(pending'[m], x) = Times(pending[m], x)
      /\ Times(pending'[n], Local(new)) = Times(pending[n], Local(new)) + 1
      /\ pending'[n] # << >>
  <2>1. Local(new) \in Request /\ pending' = [pending EXCEPT ![n] = Append(@, Local(new))]
      BY <1>1, <1>4, <1>6, RequestsDiffer
  <2> QED
      BY <2>1, Pushed DEF IInv
<1>8. /\ told[new] = "none" /\ arrived[new] = "nothing"
      /\ \A m \in Node : /\ Times(pending[m], Local(new)) = 0 /\ Times(pending[m], Remote(new)) = 0
                         /\ Times(downloads[m], new) = 0 /\ new \notin backlog[m]
    BY <1>4 DEF IInv, Belonging
<1>9. \A m \in Node : Gone(m)' <=> Gone(m)
    BY <1>1 DEF Gone
<1>10. \A m \in Node, e \in Download :
          /\ Times(pending'[m], Remote(e)) = Times(pending[m], Remote(e))
          /\ e # new => Times(pending'[m], Local(e)) = Times(pending[m], Local(e))
    BY <1>7, RequestsDiffer
<1>11. TypeOK'
  <2>1. \A m \in Node : thread[m] \in {"drain", "write"} => pending'[m] # << >>
      BY <1>7 DEF IInv, TypeOK
  <2>2. Len(asked') <= MaxDownload
      BY <1>0, <1>1, <1>2, <1>6, TransferAssumption
  <2> QED
      BY <1>1, <1>3, <1>7, <2>1, <2>2 DEF IInv, TypeOK
<1>12. Belonging'
  <2>1. ASSUME NEW m \in Node, NEW e \in Download, Times(pending'[m], Local(e)) # 0
        PROVE  e \in DOMAIN asked' /\ Asker(e)' = m
    <3>1. CASE e = new
      <4>1. m = n
          BY <1>7, <1>8, <2>1, <3>1
      <4> QED
          BY <1>4, <1>5, <3>1, <4>1
    <3>2. CASE e # new
      <4>1. e \in DOMAIN asked /\ Asker(e) = m
          BY <1>10, <2>1, <3>2 DEF IInv, Belonging
      <4> QED
          BY <1>4, <1>5, <4>1
    <3> QED
        BY <3>1, <3>2
  <2>2. ASSUME NEW m \in Node, NEW e \in Download
        PROVE  /\ Times(downloads[m], e) # 0 => e \in DOMAIN asked' /\ Asker(e)' = m
               /\ Times(pending'[m], Remote(e)) # 0 => e \in DOMAIN asked' /\ Holder(e)' = m
               /\ e \in backlog[m] => e \in DOMAIN asked' /\ Holder(e)' = m
    <3>1. /\ Times(downloads[m], e) # 0 => e \in DOMAIN asked /\ Asker(e) = m
          /\ Times(pending'[m], Remote(e)) # 0 => e \in DOMAIN asked /\ Holder(e) = m
          /\ e \in backlog[m] => e \in DOMAIN asked /\ Holder(e) = m
        BY <1>10 DEF IInv, Belonging
    <3> QED
        BY <1>4, <1>5, <3>1
  <2>3. \A e \in Download : e \notin DOMAIN asked' => told[e] = "none" /\ arrived[e] = "nothing"
      BY <1>4 DEF IInv, Belonging
  <2> QED
      BY <1>1, <2>1, <2>2, <2>3 DEF Belonging
<1>13. Untouched' /\ NoneArrives'
  <2>1. ASSUME NEW m \in Node, NEW e \in Download, ~Gone(m), Times(pending'[m], Local(e)) # 0
        PROVE  arrived[e] = "nothing"
    <3>1. CASE e = new
        BY <1>8, <3>1
    <3>2. CASE e # new
        BY <1>10, <2>1, <3>2 DEF IInv, Untouched
    <3> QED
        BY <3>1, <3>2
  <2> QED
      BY <1>1, <1>9, <2>1 DEF IInv, Untouched, NoneArrives
<1>14. Working'
  <2> SUFFICES ASSUME NEW m \in Node
               PROVE  /\ thread[m] = "write" => /\ Head(pending'[m]) = Remote(Sending(m)')
                                                /\ disk[m][Name(Sending(m))'] # "none"
                      /\ thread[m] = "read" => arrived[Current(m)] \in {"part", "whole", "damaged"}
                      /\ Gone(m) => list[m] = "sound"
      BY <1>1, <1>9 DEF Working, Current
  <2>1. CASE thread[m] = "write"
    <3>1. Sending(m)' = Sending(m) /\ Head(pending'[m]) = Head(pending[m])
        BY <1>1, <1>7, <2>1 DEF Sending
    <3>2. Head(pending[m]) = Remote(Sending(m)) /\ disk[m][Name(Sending(m))] # "none"
        BY <2>1 DEF IInv, Working
    <3>3. Sending(m) \in DOMAIN asked
        BY <2>1, WritersWriteTheirs
    <3>4. Name(Sending(m))' = Name(Sending(m))
        BY <1>3, <3>1, <3>3 DEF Name
    <3> QED
        BY <2>1, <3>1, <3>2, <3>4 DEF Gone
  <2>2. CASE thread[m] # "write"
      BY <2>2 DEF IInv, Working
  <2> QED
      BY <2>1, <2>2
<1>15. NoDownloadIsLost'
  <2> SUFFICES ASSUME NEW e \in DOMAIN asked', ~Gone(Asker(e)')
               PROVE  Times(pending'[Asker(e)'], Local(e)) + Times(downloads[Asker(e)'], e)
                         = IF told[e] = "none" THEN 1 ELSE 0
    <3>1. \A e \in DOMAIN asked' : Asker(e)' \in Node
        BY <1>2, <1>4, <1>5
    <3> QED
        BY <1>1, <1>9, <3>1 DEF NoDownloadIsLost, Gone
  <2>1. CASE e = new
      BY <1>5, <1>7, <1>8, <2>1
  <2>2. CASE e # new
    <3>1. e \in DOMAIN asked /\ Asker(e)' = Asker(e) /\ Asker(e) \in Node /\ e \in Download
        BY <1>2, <1>4, <1>5, <2>2
    <3>2. Times(pending'[Asker(e)], Local(e)) = Times(pending[Asker(e)], Local(e))
        BY <1>10, <2>2, <3>1
    <3> QED
        BY <3>1, <3>2 DEF IInv, NoDownloadIsLost
  <2> QED
      BY <2>1, <2>2
<1>16. RequestsAreHeld'
  <2> SUFFICES ASSUME NEW e \in DOMAIN asked', ~Gone(Asker(e)'), ~Gone(Holder(e)')
               PROVE  /\ (IF e \in backlog[Holder(e)'] THEN 1 ELSE 0)
                            + Times(pending'[Holder(e)'], Remote(e))
                         = IF Times(downloads[Asker(e)'], e) = 1 /\ arrived[e] \in {"nothing", "part"}
                           THEN 1 ELSE 0
                      /\ arrived[e] = "part" => thread[Holder(e)'] = "write"
                                                /\ Head(pending'[Holder(e)']).of = e
    <3>1. \A e \in DOMAIN asked' : Asker(e)' \in Node /\ Holder(e)' \in Node
        BY <1>2, <1>4, <1>5
    <3> QED
        BY <1>1, <1>9, <3>1 DEF RequestsAreHeld, Sending, Gone
  <2>1. CASE e = new
    <3>1. Holder(e)' = h /\ Asker(e)' = n /\ Times(pending'[h], Remote(e)) = 0
        BY <1>4, <1>5, <1>8, <1>10, <2>1
    <3> QED
        BY <1>8, <2>1, <3>1
  <2>2. CASE e # new
    <3>1. /\ e \in DOMAIN asked /\ Asker(e)' = Asker(e) /\ Holder(e)' = Holder(e)
          /\ Holder(e) \in Node /\ e \in Download
        BY <1>2, <1>4, <1>5, <2>2
    <3>2. Times(pending'[Holder(e)], Remote(e)) = Times(pending[Holder(e)], Remote(e))
        BY <1>10, <3>1
    <3>3. /\ (IF e \in backlog[Holder(e)] THEN 1 ELSE 0) + Times(pending[Holder(e)], Remote(e))
                 = IF Times(downloads[Asker(e)], e) = 1 /\ arrived[e] \in {"nothing", "part"}
                   THEN 1 ELSE 0
          /\ arrived[e] = "part" => thread[Holder(e)] = "write" /\ Head(pending[Holder(e)]).of = e
        BY <3>1 DEF IInv, RequestsAreHeld, Sending
    <3>4. arrived[e] = "part" => Holder(e) # n
        BY <1>1, <3>3
    <3>5. Holder(e) # n => pending'[Holder(e)] = pending[Holder(e)]
        BY <1>7, <3>1
    <3> QED
        BY <3>1, <3>2, <3>3, <3>4, <3>5
  <2> QED
      BY <2>1, <2>2
<1> QED
    BY <1>11, <1>12, <1>13, <1>14, <1>15, <1>16 DEF IInv

LEMMA StutterStep == ASSUME IInv, UNCHANGED vars PROVE IInv'
<1>1. /\ thread' = thread /\ disk' = disk /\ asked' = asked /\ pending' = pending
      /\ downloads' = downloads /\ place' = place /\ list' = list /\ backlog' = backlog
      /\ arrived' = arrived /\ told' = told
    BY DEF vars
<1>2. TypeOK'
    BY <1>1 DEF IInv, TypeOK
<1>3. Belonging' /\ Untouched' /\ Working' /\ NoneArrives'
    BY <1>1 DEF IInv, Belonging, Untouched, Working, NoneArrives, Asker, Holder, Name, Gone,
                Sending, Current
<1>4. NoDownloadIsLost' /\ RequestsAreHeld'
    BY <1>1 DEF IInv, NoDownloadIsLost, RequestsAreHeld, Asker, Holder, Gone, Sending
<1> QED
    BY <1>2, <1>3, <1>4 DEF IInv

LEMMA NextIInv == IInv /\ [Next]_vars => IInv'
<1> SUFFICES ASSUME IInv, [Next]_vars PROVE IInv'
    OBVIOUS
<1>1. CASE UNCHANGED vars
    BY <1>1, StutterStep
<1>2. ASSUME NEW n \in Node, NEW h \in Node, NEW f \in File, Ask(n, h, f) PROVE IInv'
    BY <1>2, AskStep
<1>3. ASSUME NEW n \in Node, NEW d \in Download, Accept(n, d) PROVE IInv'
    BY <1>3, AcceptStep
<1>4. ASSUME NEW n \in Node, Drain(n) PROVE IInv'
    BY <1>4, DrainStep
<1>5. ASSUME NEW n \in Node, Walk(n) PROVE IInv'
    BY <1>5, WalkStep, ReadStep DEF Walk
<1>6. ASSUME NEW n \in Node, WalkGoesWild(n) \/ Ends(n) PROVE IInv'
  <2>1. ~Gone(n) /\ Dies(n)
      BY <1>6 DEF WalkGoesWild, Ends, Gone
  <2> QED
      BY <2>1, DieStep
<1> QED
    BY <1>1, <1>2, <1>3, <1>4, <1>5, <1>6 DEF Next

LEMMA IInvHolds == Spec => []IInv
<1>1. IInv /\ [Next]_vars => IInv'
    BY NextIInv
<1> QED
    BY InitIInv, <1>1, PTL DEF Spec

-----------------------------------------------------------------------------
(* What the code can rely on.                                              *)

\* Whatever is downloaded from whom, the queues of server_t hold requests and downloads
\* that were asked for, and the loop over pending_downloads stands inside the list or
\* just behind it.
THEOREM DownloadsTypeCorrect == Spec => []TypeOK
<1>1. IInv => TypeOK
    BY DEF IInv
<1> QED
    BY IInvHolds, <1>1, PTL

\* list_push and list_pop_at of pending_requests and pending_downloads never drop and
\* never double a download, for any number of servents and downloads.
THEOREM DownloadsAreNeverLost == Spec => []NoDownloadIsLost
<1>1. IInv => NoDownloadIsLost
    BY DEF IInv
<1> QED
    BY IInvHolds, <1>1, PTL

\* For every entry of pending_downloads that waits, the servent that was asked has
\* exactly one request, as long as both are there.
THEOREM RequestsStayHeld == Spec => []RequestsAreHeld
<1>1. IInv => RequestsAreHeld
    BY DEF IInv
<1> QED
    BY IInvHolds, <1>1, PTL

-----------------------------------------------------------------------------
(* What is on the disks.                                                   *)

AllThere == \A n \in Node : ~Gone(n)

\* As long as nobody has gone, nothing is damaged on the way.
Undamaged ==
    AllThere =>
       /\ \A n \in Node, f \in File : disk[n][f] # "damaged"
       /\ \A d \in Download : arrived[d] # "damaged"
       /\ FoundMeansWhole

\* No step brings back a process that is gone.
LEMMA GoneStays ==
    ASSUME TypeOK, [Next]_vars, NEW m \in Node, Gone(m)
    PROVE  Gone(m)'
<1> USE DEF Gone
<1>1. thread \in [Node -> Thread]
    BY DEF TypeOK
<1>2. ASSUME NEW n \in Node, thread[n] # "gone", NEW t, thread' = [thread EXCEPT ![n] = t]
      PROVE  Gone(m)'
    BY <1>1, <1>2
<1>3. CASE thread' = thread
    BY <1>3
<1>4. ASSUME NEW n \in Node, thread[n] # "gone", NextRequest(n) PROVE Gone(m)'
    BY <1>2, <1>4 DEF NextRequest
<1>5. ASSUME NEW n \in Node, thread[n] # "gone", Dies(n) PROVE Gone(m)'
    BY <1>2, <1>5 DEF Dies
<1>6. ASSUME NEW n \in Node, thread[n] # "gone", EntryDone(n) PROVE Gone(m)'
    BY <1>2, <1>6 DEF EntryDone
<1>7. ASSUME NEW n \in Node, NEW d \in Download, AnswerLocal(n, d) PROVE Gone(m)'
    BY <1>4, <1>5, <1>7 DEF AnswerLocal, Serves
<1>8. ASSUME NEW n \in Node, NEW d \in Download, AnswerRemote(n, d) PROVE Gone(m)'
    BY <1>2, <1>4, <1>8 DEF AnswerRemote, Serves
<1>9. ASSUME NEW n \in Node, SendEnds(n) \/ SendFails(n) PROVE Gone(m)'
    BY <1>4, <1>5, <1>9 DEF SendEnds, SendFails
<1>10. ASSUME NEW n \in Node, WalkBegins(n) \/ WalkEnds(n) \/ ReceiveEnds(n) PROVE Gone(m)'
    BY <1>2, <1>6, <1>10 DEF WalkBegins, WalkEnds, ReceiveEnds
<1>11. ASSUME NEW n \in Node, NEW d \in Download,
              StillWaits(n, d) \/ ReadsAnswer(n, d) \/ ReadsEof(n, d) \/ ReadsOn(n, d)
       PROVE  Gone(m)'
    BY <1>2, <1>3, <1>5, <1>6, <1>11 DEF StillWaits, ReadsAnswer, ReadsEof, ReadsOn, Visits
<1>12. ASSUME NEW n \in Node, WalkGoesWild(n) \/ Ends(n) PROVE Gone(m)'
    BY <1>5, <1>12 DEF WalkGoesWild, Ends
<1>13. CASE UNCHANGED vars
    BY <1>3, <1>13 DEF vars
<1>14. ASSUME NEW n \in Node,
              \/ \E h \in Node, f \in File : Ask(n, h, f)
              \/ \E d \in Download : Accept(n, d)
       PROVE  Gone(m)'
    BY <1>3, <1>14 DEF Ask, Accept
<1> QED
    BY <1>7, <1>8, <1>9, <1>10, <1>11, <1>12, <1>13, <1>14 DEF Next, Drain, Walk

\* A whole file is stored where no damaged one is.
LEMMA FinishUndamaged ==
    ASSUME IInv, AllThere, Undamaged, NEW n \in Node, thread[n] \in {"walk", "read"},
           place[n] \in DOMAIN downloads[n], EntryDone(n),
           \/ UNCHANGED disk /\ Tell(Current(n), "REMOTE_NOT_FOUND")
           \/ /\ arrived[Current(n)] \in {"whole", "damaged"}
              /\ Store(n, Name(Current(n)), arrived[Current(n)])
              /\ Tell(Current(n), "REMOTE_FOUND")
    PROVE  Undamaged'
<1> DEFINE c == Current(n)
<1>1. /\ c \in Download /\ c \in DOMAIN asked /\ Asker(c) = n /\ Name(c) \in File
      /\ UNCHANGED <<asked, arrived>>
  <2>1. c \in Download /\ Times(downloads[n], c) # 0
      BY EntryDoneCounts DEF IInv
  <2>2. c \in DOMAIN asked /\ Asker(c) = n
      BY <2>1 DEF IInv, Belonging
  <2> QED
      BY <2>1, <2>2, Facts DEF IInv, EntryDone
<1>2. /\ disk \in [Node -> [File -> Copy]] /\ told \in [Download -> Answer \cup {"none"}]
      /\ DOMAIN asked \subseteq Download
      /\ \A d \in DOMAIN asked : Asker(d) \in Node /\ Name(d) \in File
    BY Facts DEF IInv, TypeOK
<1>3. /\ \A m \in Node, f \in File : disk[m][f] # "damaged"
      /\ \A d \in Download : arrived[d] # "damaged"
      /\ \A d \in DOMAIN asked : told[d] = "REMOTE_FOUND" => disk[Asker(d)][Name(d)] = "whole"
    BY DEF Undamaged, AllThere, FoundMeansWhole
<1> HIDE DEF c
<1>4. CASE UNCHANGED disk /\ Tell(c, "REMOTE_NOT_FOUND")
  <2>1. \A d \in Download : told'[d] = "REMOTE_FOUND" => told[d] = "REMOTE_FOUND"
      BY <1>1, <1>2, <1>4 DEF Tell
  <2> QED
      BY <1>1, <1>2, <1>3, <1>4, <2>1 DEF Undamaged, FoundMeansWhole, Asker, Name
<1>5. CASE /\ arrived[c] \in {"whole", "damaged"} /\ Store(n, Name(c), arrived[c])
           /\ Tell(c, "REMOTE_FOUND")
  <2>1. arrived[c] = "whole" /\ disk[n][Name(c)] # "damaged"
      BY <1>1, <1>3, <1>5
  <2>2. disk' = [disk EXCEPT ![n][Name(c)] = "whole"]
      BY <1>5, <2>1 DEF Store
  <2>3. \A m \in Node, f \in File :
           disk'[m][f] = IF m = n /\ f = Name(c) THEN "whole" ELSE disk[m][f]
      BY <1>1, <1>2, <2>2
  <2>4. \A d \in Download : d # c => told'[d] = told[d]
      BY <1>1, <1>2, <1>5 DEF Tell
  <2>5. \A m \in Node, f \in File : disk'[m][f] # "damaged"
      BY <1>3, <2>3
  <2>6. ASSUME NEW d \in DOMAIN asked, told'[d] = "REMOTE_FOUND"
        PROVE  disk'[Asker(d)][Name(d)] = "whole"
    <3>1. d \in Download /\ Asker(d) \in Node /\ Name(d) \in File
        BY <1>2
    <3>2. CASE d = c
        BY <1>1, <2>3, <3>1, <3>2
    <3>3. CASE d # c
        BY <1>3, <2>3, <2>4, <2>6, <3>1, <3>3
    <3> QED
        BY <3>2, <3>3
  <2> QED
      BY <1>1, <1>3, <2>5, <2>6 DEF Undamaged, FoundMeansWhole, Asker, Name
<1> QED
    BY <1>4, <1>5 DEF c

LEMMA NextUndamaged == ASSUME IInv, Undamaged, [Next]_vars PROVE Undamaged'
<1> SUFFICES ASSUME AllThere' PROVE Undamaged'
    BY DEF Undamaged
<1>1. AllThere
    BY GoneStays DEF AllThere, IInv
<1>2. /\ \A m \in Node, f \in File : disk[m][f] # "damaged"
      /\ \A d \in Download : arrived[d] # "damaged"
      /\ \A d \in DOMAIN asked : told[d] = "REMOTE_FOUND" => disk[Asker(d)][Name(d)] = "whole"
    BY <1>1 DEF Undamaged, AllThere, FoundMeansWhole
<1>3. \A n \in Node : ~Dies(n)
    BY DEF Dies, AllThere, Gone, IInv, TypeOK
<1>4. /\ DOMAIN asked \subseteq Download
      /\ \A d \in DOMAIN asked : Asker(d) \in Node /\ Holder(d) \in Node /\ Name(d) \in File
    BY Facts DEF IInv
<1>5. CASE UNCHANGED <<disk, asked, arrived, told>>
    BY <1>2, <1>5 DEF Undamaged, FoundMeansWhole, Asker, Name
<1>6. ASSUME NEW n \in Node, NEW h \in Node, NEW f \in File, Ask(n, h, f) PROVE Undamaged'
  <2>1. /\ asked' = Append(asked, [asker |-> n, holder |-> h, file |-> f])
        /\ UNCHANGED <<disk, arrived, told>> /\ Len(asked) < MaxDownload
      BY <1>6 DEF Ask
  <2>2. asked \in Seq([asker : Node, holder : Node, file : File]) /\ Len(asked) \in Nat
        /\ DOMAIN asked = 1 .. Len(asked)
      BY Facts DEF IInv, TypeOK
  <2>3. /\ DOMAIN asked' = 1 .. Len(asked) + 1
        /\ \A d \in DOMAIN asked : asked'[d] = asked[d]
      BY <2>1, <2>2
  <2>4. \A d \in DOMAIN asked' : told[d] = "REMOTE_FOUND" => d \in DOMAIN asked
    <3>1. \A d \in DOMAIN asked' : d \in Download
        BY <2>1, <2>2, <2>3, TransferAssumption DEF Download
    <3> QED
        BY <3>1 DEF IInv, Belonging
  <2> QED
      BY <1>2, <2>1, <2>3, <2>4 DEF Undamaged, FoundMeansWhole, Asker, Name
<1>7. ASSUME NEW n \in Node, NEW d \in Download, AnswerLocal(n, d) PROVE Undamaged'
  <2>1. CASE UNCHANGED told
      BY <1>3, <1>5, <1>7, <2>1 DEF AnswerLocal
  <2>2. CASE Tell(d, "LOCAL") \/ Tell(d, "REMOTE_OFFLINE")
    <3>1. UNCHANGED <<disk, asked, arrived>>
        BY <1>3, <1>7 DEF AnswerLocal
    <3>2. \A e \in Download : told'[e] = "REMOTE_FOUND" => told[e] = "REMOTE_FOUND"
        BY <2>2 DEF Tell, IInv, TypeOK
    <3> QED
        BY <1>2, <1>4, <3>1, <3>2 DEF Undamaged, FoundMeansWhole, Asker, Name
  <2> QED
      BY <1>3, <1>7, <2>1, <2>2 DEF AnswerLocal
<1>8. ASSUME NEW n \in Node, NEW d \in Download, NEW v \in {"not found", "part", "whole"},
             arrived' = [arrived EXCEPT ![d] = v], UNCHANGED <<disk, asked, told>>
      PROVE  Undamaged'
  <2>1. \A e \in Download : arrived'[e] # "damaged"
      BY <1>2, <1>8 DEF IInv, TypeOK
  <2> QED
      BY <1>2, <1>8, <2>1 DEF Undamaged, FoundMeansWhole, Asker, Name
<1>9. ASSUME NEW n \in Node, NEW d \in Download, AnswerRemote(n, d) PROVE Undamaged'
  <2>1. Name(d) \in File
    <3>1. pending[n] \in Seq(Request) /\ pending[n] # << >> /\ Head(pending[n]) = Remote(d)
        BY <1>9 DEF AnswerRemote, Serves, IInv, TypeOK
    <3>2. 1 \in 1 .. Len(pending[n]) /\ pending[n][1] = Head(pending[n])
        BY <3>1
    <3>3. Times(pending[n], Remote(d)) # 0
        BY <3>1, <3>2, TimesPositive
    <3> QED
        BY <1>4, <3>3 DEF IInv, Belonging
  <2>2. disk[n][Name(d)] \in {"none", "whole"}
    <3>1. disk[n][Name(d)] \in Copy
        BY <2>1 DEF IInv, TypeOK
    <3> QED
        BY <1>2, <2>1, <3>1 DEF Copy
  <2>3. UNCHANGED <<disk, asked, told>>
      BY <1>9 DEF AnswerRemote
  <2>4. PICK v \in {"not found", "part", "whole"} : arrived' = [arrived EXCEPT ![d] = v]
      BY <1>9, <2>2 DEF AnswerRemote
  <2> QED
      BY <1>8, <2>3, <2>4
<1>10. ASSUME NEW n \in Node, SendEnds(n) PROVE Undamaged'
  <2>1. /\ thread[n] = "write" /\ UNCHANGED <<disk, asked, told>>
        /\ thread[Asker(Sending(n))] = "read" /\ Current(Asker(Sending(n))) = Sending(n)
        /\ arrived' = [arrived EXCEPT ![Sending(n)] = disk[n][Name(Sending(n))]]
      BY <1>10 DEF SendEnds
  <2>2. /\ Sending(n) \in Download /\ Name(Sending(n)) \in File
        /\ disk[n][Name(Sending(n))] \in {"whole", "damaged"}
      BY <2>1, WritersWriteTheirs
  <2>3. disk[n][Name(Sending(n))] = "whole"
      BY <1>2, <2>2
  <2> QED
      BY <1>8, <2>1, <2>2, <2>3
<1>11. ASSUME NEW n \in Node, SendFails(n) PROVE Undamaged'
    BY <1>3, <1>5, <1>11 DEF SendFails
<1>12. ASSUME NEW n \in Node, WalkBegins(n) \/ WalkEnds(n) PROVE Undamaged'
    BY <1>5, <1>12 DEF WalkBegins, WalkEnds
<1>13. ASSUME NEW n \in Node, NEW d \in Download, StillWaits(n, d) \/ ReadsOn(n, d) \/ Accept(n, d)
       PROVE  Undamaged'
    BY <1>5, <1>13 DEF StillWaits, ReadsOn, Accept
<1>14. ASSUME NEW n \in Node, place[n] \in DOMAIN downloads[n]
       PROVE  ~Gone(Holder(Current(n)))
  <2>1. downloads[n] \in Seq(Download) /\ place[n] \in 1 .. Len(downloads[n])
      BY <1>14, PlacesAndLists DEF IInv
  <2>2. Times(downloads[n], Current(n)) # 0 /\ Current(n) \in Download
      BY <2>1, TimesPositive, ElementOfSeq DEF Current
  <2> QED
      BY <1>1, <1>4, <2>2 DEF IInv, Belonging, AllThere
<1>15. ASSUME NEW n \in Node, ReceiveEnds(n) PROVE Undamaged'
  <2>1. /\ thread[n] = "read" /\ EntryDone(n) /\ Tell(Current(n), "REMOTE_FOUND")
        /\ place[n] \in DOMAIN downloads[n]
        /\ arrived[Current(n)] \in {"part", "whole", "damaged"}
      BY <1>15 DEF ReceiveEnds, IInv, TypeOK, Working
  <2>2. arrived[Current(n)] # "part" /\ Store(n, Name(Current(n)), arrived[Current(n)])
      BY <1>14, <1>15, <2>1 DEF ReceiveEnds
  <2> QED
      BY <1>1, <2>1, <2>2, FinishUndamaged
<1>16. ASSUME NEW n \in Node, NEW d \in Download, ReadsAnswer(n, d) PROVE Undamaged'
  <2>1. /\ thread[n] = "walk" /\ EntryDone(n) /\ d = Current(n)
        /\ place[n] \in DOMAIN downloads[n]
      BY <1>16 DEF ReadsAnswer, Visits
  <2> QED
      BY <1>1, <1>16, <2>1, FinishUndamaged DEF ReadsAnswer
<1>17. ASSUME NEW n \in Node, NEW d \in Download PROVE ~ReadsEof(n, d)
    BY <1>14 DEF ReadsEof, Visits
<1>18. ASSUME NEW n \in Node PROVE ~WalkGoesWild(n) /\ ~Ends(n)
    BY <1>3 DEF WalkGoesWild, Ends
<1>19. CASE UNCHANGED vars
    BY <1>5, <1>19 DEF vars
<1> QED
    BY <1>6, <1>7, <1>9, <1>10, <1>11, <1>12, <1>13, <1>15, <1>16, <1>17, <1>18, <1>19
    DEF Next, Drain, Walk

\* handle_remote_download_answer: a file that is announced to the client is the whole
\* file that was asked for, as long as no servent has ended, however large it is and
\* however many downloads write under the same name.
THEOREM FoundFilesAreWhole == Spec => []FoundMeansWhole
<1>1. Init => Undamaged
  <2> SUFFICES ASSUME Init PROVE Undamaged
      OBVIOUS
  <2>1. DOMAIN asked = {}
      BY DEF Init
  <2>2. \A n \in Node, f \in File : disk[n][f] # "damaged"
      BY DEF Init
  <2>3. \A d \in Download : arrived[d] # "damaged"
      BY DEF Init
  <2> QED
      BY <2>1, <2>2, <2>3 DEF Undamaged, FoundMeansWhole
<1>2. IInv /\ Undamaged /\ [Next]_vars => Undamaged'
    BY NextUndamaged
<1>3. Undamaged => FoundMeansWhole
    BY DEF Undamaged, AllThere, FoundMeansWhole
<1> QED
    BY IInvHolds, <1>1, <1>2, <1>3, PTL DEF Spec

-----------------------------------------------------------------------------
(* Transfers that never end.                                               *)

\* What keeps a servent where it is: a write that is not over, or an entry that no loop
\* comes by any more.
Blocked(m) == thread[m] = "write" \/ (list[m] = "severed" /\ place[m] = 0)

\* A step of servent n leaves the others as they are, as far as that is concerned.
LEMMA OthersStayBlocked ==
    ASSUME IInv, NEW n \in Node,
           \/ \E h \in Node, f \in File : Ask(n, h, f)
           \/ \E d \in Download : Accept(n, d)
           \/ Drain(n) \/ Walk(n) \/ WalkGoesWild(n) \/ Ends(n),
           NEW m \in Node, m # n
    PROVE  thread'[m] = thread[m] /\ pending'[m] = pending[m]
           /\ list'[m] = list[m] /\ place'[m] = place[m]
<1>1. /\ thread \in [Node -> Thread] /\ list \in [Node -> {"sound", "beheaded", "severed"}]
      /\ pending \in [Node -> Seq(Request)] /\ place \in [Node -> Nat]
    BY DEF IInv, TypeOK
<1> DEFINE Same == /\ thread'[m] = thread[m] /\ pending'[m] = pending[m]
                   /\ list'[m] = list[m] /\ place'[m] = place[m]
<1>2. CASE Dies(n)
    BY <1>1, <1>2 DEF Dies
<1>3. CASE NextRequest(n) /\ UNCHANGED <<place, list>>
    BY <1>1, <1>3 DEF NextRequest
<1>4. CASE EntryDone(n)
    BY <1>1, <1>4 DEF EntryDone
<1>5. ASSUME NEW d \in Download, AnswerLocal(n, d) PROVE Same
    BY <1>2, <1>3, <1>5 DEF AnswerLocal
<1>6. ASSUME NEW d \in Download, AnswerRemote(n, d) PROVE Same
  <2>1. CASE thread' = [thread EXCEPT ![n] = "write"] /\ UNCHANGED <<pending, place, list>>
      BY <1>1, <2>1
  <2> QED
      BY <1>3, <1>6, <2>1 DEF AnswerRemote
<1>7. CASE SendEnds(n) \/ SendFails(n)
    BY <1>2, <1>3, <1>7 DEF SendEnds, SendFails
<1>8. CASE WalkBegins(n)
    BY <1>1, <1>8 DEF WalkBegins
<1>9. CASE WalkEnds(n)
    BY <1>1, <1>9 DEF WalkEnds
<1>10. CASE ReceiveEnds(n)
    BY <1>4, <1>10 DEF ReceiveEnds
<1>11. ASSUME NEW d \in Download, StillWaits(n, d) PROVE Same
    BY <1>1, <1>11 DEF StillWaits
<1>12. ASSUME NEW d \in Download, ReadsAnswer(n, d) PROVE Same
    BY <1>4, <1>12 DEF ReadsAnswer
<1>13. ASSUME NEW d \in Download, ReadsEof(n, d) PROVE Same
    BY <1>2, <1>4, <1>13 DEF ReadsEof
<1>14. ASSUME NEW d \in Download, ReadsOn(n, d) PROVE Same
    BY <1>1, <1>14 DEF ReadsOn
<1>15. ASSUME NEW h \in Node, NEW f \in File, Ask(n, h, f) PROVE Same
    BY <1>1, <1>15 DEF Ask
<1>16. ASSUME NEW d \in Download, Accept(n, d) PROVE Same
    BY <1>1, <1>16 DEF Accept
<1>17. CASE WalkGoesWild(n) \/ Ends(n)
    BY <1>2, <1>17 DEF WalkGoesWild, Ends
<1> QED
    BY <1>5, <1>6, <1>7, <1>8, <1>9, <1>10, <1>11, <1>12, <1>13, <1>14, <1>15, <1>16, <1>17
    DEF Drain, Walk

\* A servent whose write() is not answered, or whose list is severed, stays that way
\* until its process ends.
LEMMA ActorStaysBlocked ==
    ASSUME IInv, NEW n \in Node, ~Gone(n),
           \/ \E h \in Node, f \in File : Ask(n, h, f)
           \/ \E d \in Download : Accept(n, d)
           \/ Drain(n) \/ Walk(n) \/ WalkGoesWild(n) \/ Ends(n),
           ~Dies(n)
    PROVE  /\ thread[n] = "write" => SendEnds(n) \/ SendFails(n)
           /\ thread[n] # "write" /\ list[n] = "severed" /\ place[n] = 0
                 => list'[n] = "severed" /\ place'[n] = 0
<1>1. /\ place \in [Node -> Nat] /\ list \in [Node -> {"sound", "beheaded", "severed"}]
      /\ thread[n] \in {"walk", "read"} => place[n] # 0
    BY DEF IInv, TypeOK
<1>2. ASSUME thread[n] = "write" PROVE SendEnds(n) \/ SendFails(n)
    BY <1>2 DEF Ask, Accept, Drain, AnswerLocal, AnswerRemote, Serves, Walk, WalkBegins, WalkEnds,
                ReceiveEnds, StillWaits, ReadsAnswer, ReadsEof, ReadsOn, Visits, WalkGoesWild, Ends
<1>3. ASSUME thread[n] # "write", list[n] = "severed", place[n] = 0
      PROVE  list'[n] = "severed" /\ place'[n] = 0
  <2>1. thread[n] \notin {"walk", "read", "write"}
      BY <1>1, <1>3
  <2>2. ~Walk(n) /\ ~WalkGoesWild(n) /\ ~Ends(n) /\ ~SendEnds(n) /\ ~SendFails(n)
      BY <1>3, <2>1 DEF Walk, WalkBegins, WalkEnds, ReceiveEnds, StillWaits, ReadsAnswer, ReadsEof,
                        ReadsOn, Visits, WalkGoesWild, Ends, SendEnds, SendFails
  <2>3. UNCHANGED <<place, list>>
      BY <2>2 DEF Ask, Accept, Drain, AnswerLocal, AnswerRemote
  <2> QED
      BY <1>3, <2>3
<1> QED
    BY <1>2, <1>3

\* The download a servent writes stays the same, and so does who asked for it.
LEMMA WritesForTheSame ==
    ASSUME IInv, [Next]_vars, NEW m \in Node, thread[m] = "write", pending'[m] = pending[m]
    PROVE  Asker(Sending(m))' = Asker(Sending(m)) /\ Asker(Sending(m)) \in Node
<1>1. Sending(m) \in DOMAIN asked /\ Asker(Sending(m)) \in Node
    BY WritersWriteTheirs
<1>2. Sending(m)' = Sending(m)
    BY DEF Sending
<1>3. asked'[Sending(m)] = asked[Sending(m)]
  <2>1. CASE asked' = asked
      BY <2>1
  <2>2. ASSUME NEW n \in Node, NEW h \in Node, NEW f \in File, Ask(n, h, f)
        PROVE  asked'[Sending(m)] = asked[Sending(m)]
    <3>1. asked \in Seq([asker : Node, holder : Node, file : File])
          /\ DOMAIN asked = 1 .. Len(asked) /\ Len(asked) \in Nat
        BY Facts DEF IInv, TypeOK
    <3>2. asked' = Append(asked, [asker |-> n, holder |-> h, file |-> f])
        BY <2>2 DEF Ask
    <3> QED
        BY <1>1, <3>1, <3>2
  <2>3. ASSUME NEW n \in Node,
               \/ \E d \in Download : Accept(n, d)
               \/ Drain(n) \/ Walk(n) \/ WalkGoesWild(n) \/ Ends(n)
        PROVE  asked' = asked
      BY <2>3 DEF Accept, Drain, AnswerLocal, AnswerRemote, SendEnds, SendFails, Walk, WalkBegins,
                  WalkEnds, ReceiveEnds, StillWaits, ReadsAnswer, ReadsEof, ReadsOn, EntryDone,
                  WalkGoesWild, Ends, Dies
  <2>4. CASE UNCHANGED vars
      BY <2>1, <2>4 DEF vars
  <2> QED
      BY <2>1, <2>2, <2>3, <2>4 DEF Next
<1> QED
    BY <1>1, <1>2, <1>3 DEF Asker

LEMMA StuckStays ==
    ASSUME IInv, [Next]_vars, NEW n \in Node, Stuck(n), \A m \in Node : Gone(m)' => Gone(m)
    PROVE  Stuck(n)'
<1>1. PICK S \in SUBSET Node :
         /\ n \in S
         /\ \A m \in S : \/ thread[m] = "write" /\ Asker(Sending(m)) \in S
                         \/ list[m] = "severed" /\ place[m] = 0
    BY DEF Stuck
<1>2. \A m \in S : ~Gone(m) /\ thread[m] # "read"
    BY <1>1 DEF Gone, IInv, TypeOK, Working
<1>3. thread \in [Node -> Thread]
    BY DEF IInv, TypeOK
<1> SUFFICES ASSUME NEW m \in S
             PROVE  \/ thread'[m] = "write" /\ Asker(Sending(m))' \in S
                    \/ list'[m] = "severed" /\ place'[m] = 0
    BY <1>1 DEF Stuck
<1>4. CASE UNCHANGED vars
    BY <1>1, <1>4 DEF vars, Asker, Sending
<1>5. ASSUME NEW a \in Node,
             \/ \E h \in Node, f \in File : Ask(a, h, f)
             \/ \E d \in Download : Accept(a, d)
             \/ Drain(a) \/ Walk(a) \/ WalkGoesWild(a) \/ Ends(a)
      PROVE  \/ thread'[m] = "write" /\ Asker(Sending(m))' \in S
             \/ list'[m] = "severed" /\ place'[m] = 0
  <2>1. CASE a # m
    <3>1. /\ thread'[m] = thread[m] /\ pending'[m] = pending[m]
          /\ list'[m] = list[m] /\ place'[m] = place[m]
        BY <1>5, <2>1, OthersStayBlocked
    <3> QED
        BY <1>1, <3>1, WritesForTheSame
  <2>2. CASE a = m
    <3>1. ~Dies(m)
        BY <1>2, <1>3 DEF Dies, Gone
    <3>2. /\ thread[m] = "write" => SendEnds(m) \/ SendFails(m)
          /\ thread[m] # "write" /\ list[m] = "severed" /\ place[m] = 0
                => list'[m] = "severed" /\ place'[m] = 0
        BY <1>2, <1>5, <2>2, <3>1, ActorStaysBlocked
    <3>3. CASE thread[m] = "write"
      <4>1. Asker(Sending(m)) \notin S
          BY <1>2, <3>2, <3>3 DEF SendEnds, SendFails
      <4>2. UNCHANGED <<place, list>>
          BY <3>1, <3>2, <3>3 DEF SendEnds, SendFails
      <4> QED
          BY <1>1, <4>1, <4>2
    <3>4. CASE thread[m] # "write"
        BY <1>1, <3>2, <3>4
    <3> QED
        BY <3>3, <3>4
  <2> QED
      BY <2>1, <2>2
<1> QED
    BY <1>4, <1>5 DEF Next

\* write_to_fd has no timeout: servents that write files to each other, or to one that
\* has lost the entry, wait as long as their processes live, however many they are.
THEOREM StuckStaysStuck == Spec => StuckIsForGood
<1>1. IInv /\ [Next]_vars
         => [\A n \in Node : Stuck(n) /\ (\A m \in Node : Gone(m)' => Gone(m)) => Stuck(n)']_vars
    BY StuckStays
<1> QED
    BY IInvHolds, <1>1, PTL DEF Spec, StuckIsForGood
=============================================================================
