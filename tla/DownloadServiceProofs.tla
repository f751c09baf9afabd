------------------------ MODULE DownloadServiceProofs ------------------------
(***************************************************************************)
(* Transfer implements DownloadService, for any servents, files and number *)
(* of downloads.  That an answer is the only one is what the ledger of     *)
(* TransferProofs says: an entry that is still in a queue has not been     *)
(* answered.  That a file comes from a servent that has it is Had.         *)
(***************************************************************************)
EXTENDS TransferProofs

\* What arrives was in the directory of the holder, and stays there.
Had == \A d \in DOMAIN asked :
          arrived[d] \in {"part", "whole", "damaged"} => disk[Holder(d)][Name(d)] # "none"

Has == [n \in Node |-> {f \in File : disk[n][f] # "none"}]
Ended == {n \in Node : Gone(n)}

-----------------------------------------------------------------------------
(* Facts about single steps.                                               *)

\* A download whose entry a servent works on is its own, and has not been answered.
LEMMA EntryIsOpen ==
    ASSUME IInv, NEW n \in Node, ~Gone(n), NEW d,
           \/ d \in Download /\ pending[n] # << >> /\ Head(pending[n]) = Local(d)
           \/ place[n] \in DOMAIN downloads[n] /\ d = Current(n)
    PROVE  /\ d \in Download /\ d \in DOMAIN asked /\ Asker(d) = n /\ told[d] = "none"
           /\ Holder(d) \in Node /\ Name(d) \in File
<1>1. pending[n] \in Seq(Request) /\ downloads[n] \in Seq(Download)
    BY DEF IInv, TypeOK
<1>2. d \in Download /\ (Times(pending[n], Local(d)) # 0 \/ Times(downloads[n], d) # 0)
  <2>1. CASE d \in Download /\ pending[n] # << >> /\ Head(pending[n]) = Local(d)
    <3>1. 1 \in 1 .. Len(pending[n]) /\ pending[n][1] = Local(d)
        BY <1>1, <2>1
    <3> QED
        BY <1>1, <2>1, <3>1, TimesPositive
  <2>2. CASE place[n] \in DOMAIN downloads[n] /\ d = Current(n)
    <3>1. place[n] \in 1 .. Len(downloads[n]) /\ downloads[n][place[n]] = d
        BY <1>1, <2>2, LenProperties DEF Current
    <3> QED
        BY <1>1, <3>1, TimesPositive, ElementOfSeq
  <2> QED
      BY <2>1, <2>2
<1>3. d \in DOMAIN asked /\ Asker(d) = n
    BY <1>2 DEF IInv, Belonging
<1>4. Times(pending[n], Local(d)) \in Nat /\ Times(downloads[n], d) \in Nat
    BY Facts DEF IInv
<1>5. Times(pending[n], Local(d)) + Times(downloads[n], d) = IF told[d] = "none" THEN 1 ELSE 0
    BY <1>3 DEF IInv, NoDownloadIsLost
<1>6. told[d] = "none"
    BY <1>2, <1>4, <1>5
<1> QED
    BY <1>2, <1>3, <1>6, Facts DEF IInv

\* A servent that goes on to something else stays.
LEMMA NobodyEnds ==
    ASSUME TypeOK, NEW n \in Node, ~Gone(n), NEW t, t # "gone",
           thread' = [thread EXCEPT ![n] = t]
    PROVE  \A m \in Node : Gone(m)' <=> Gone(m)
BY DEF TypeOK, Gone

LEMMA ThreadKept ==
    ASSUME thread' = thread
    PROVE  \A m \in Node : Gone(m)' <=> Gone(m)
BY DEF Gone

LEMMA RequestDoneKeeps ==
    ASSUME TypeOK, NEW n \in Node, ~Gone(n), NextRequest(n)
    PROVE  \A m \in Node : Gone(m)' <=> Gone(m)
<1>1. PICK t \in {"loop", "drain"} : thread' = [thread EXCEPT ![n] = t]
    BY DEF NextRequest
<1>2. t # "gone"
    OBVIOUS
<1> QED
    BY <1>1, <1>2, NobodyEnds

\* Nothing the users can tell has happened.
LEMMA Quiet ==
    ASSUME UNCHANGED <<asked, told, disk>>, \A m \in Node : Gone(m)' <=> Gone(m)
    PROVE  UNCHANGED <<asked, told, Has, Ended>>
BY DEF Has, Ended

LEMMA DiesIsEnd ==
    ASSUME TypeOK, NEW n \in Node, ~Gone(n), Dies(n)
    PROVE  Service!End(n)
<1>1. UNCHANGED <<asked, told, Has>>
    BY DEF Dies, Has
<1>2. \A m \in Node : Gone(m)' <=> (m = n \/ Gone(m))
    BY DEF Dies, Gone, TypeOK
<1>3. Ended' = Ended \cup {n} /\ n \notin Ended
    BY <1>2 DEF Ended
<1> QED
    BY <1>1, <1>3 DEF Service!End, Has, Ended

\* The file is in the directory from now on, in whatever state.
LEMMA StoredIsThere ==
    ASSUME TypeOK, NEW n \in Node, NEW f \in File, NEW copy \in {"whole", "damaged"},
           Store(n, f, copy)
    PROVE  Service!GetsFile(n, f)
<1>1. disk \in [Node -> [File -> Copy]]
    BY DEF TypeOK
<1>2. PICK stored \in {"whole", "damaged"} : disk' = [disk EXCEPT ![n][f] = stored]
    BY DEF Store, Copy
<1>3. \A m \in Node, g \in File : disk'[m][g] = IF m = n /\ g = f THEN stored ELSE disk[m][g]
    BY <1>1, <1>2
<1>4. \A m \in Node : Has'[m] = IF m = n THEN Has[n] \cup {f} ELSE Has[m]
  <2> SUFFICES ASSUME NEW m \in Node
               PROVE  {g \in File : disk'[m][g] # "none"}
                         = IF m = n THEN {g \in File : disk[m][g] # "none"} \cup {f}
                           ELSE {g \in File : disk[m][g] # "none"}
      BY DEF Has
  <2>1. \A g \in File : disk'[m][g] # "none" <=> disk[m][g] # "none" \/ (m = n /\ g = f)
      BY <1>3
  <2> QED
      BY <2>1
<1>5. Has' = [m \in Node |-> Has'[m]] /\ Has = [m \in Node |-> Has[m]]
    BY DEF Has
<1>6. Has' = [Has EXCEPT ![n] = @ \cup {f}]
    BY <1>4, <1>5
<1> QED
    BY <1>6 DEF Service!GetsFile, Has

-----------------------------------------------------------------------------
(* The steps that answer a client.                                         *)

LEMMA AnswerIsAnswer ==
    ASSUME IInv, NEW d \in DOMAIN asked, Asker(d) \in Node, ~Gone(Asker(d)), told[d] = "none",
           NEW answer, Tell(d, answer), asked' = asked,
           \A m \in Node : Gone(m)' <=> Gone(m)
    PROVE  Service!Answer(d, answer)
<1>1. Ended' = Ended /\ asked[d].asker \notin Ended
    BY DEF Ended, Asker
<1> QED
    BY <1>1 DEF Service!Answer, Tell, Ended

\* answer_local_download_request: the client is told, or a connection is made.
LEMMA LocalRefines ==
    ASSUME IInv, NEW n \in Node, NEW d \in Download, AnswerLocal(n, d)
    PROVE  [Service!Next]_<<asked, told, Has, Ended>>
<1>1. /\ ~Gone(n) /\ pending[n] # << >> /\ Head(pending[n]) = Local(d)
      /\ TypeOK
    BY DEF AnswerLocal, Serves, Gone, IInv
<1>2. /\ d \in DOMAIN asked /\ Asker(d) = n /\ told[d] = "none"
      /\ Holder(d) \in Node /\ Name(d) \in File
    BY <1>1, EntryIsOpen
<1>3. CASE Dies(n)
    BY <1>1, <1>3, DiesIsEnd DEF Service!Next
<1>4. CASE NextRequest(n) /\ UNCHANGED <<disk, asked>>
  <2>1. \A m \in Node : Gone(m)' <=> Gone(m)
      BY <1>1, <1>4, RequestDoneKeeps
  <2>2. CASE UNCHANGED told
      BY <1>4, <2>1, <2>2, Quiet
  <2>3. CASE disk[n][Name(d)] # "none" /\ Tell(d, "LOCAL")
    <3>1. Service!Answer(d, "LOCAL")
        BY <1>1, <1>2, <1>4, <2>1, <2>3, AnswerIsAnswer
    <3>2. asked[d].file \in Has[asked[d].asker] /\ Has' = Has
        BY <1>2, <1>4, <2>3 DEF Has, Asker, Name
    <3> QED
        BY <1>2, <3>1, <3>2 DEF Service!Next, Service!HadIt, Has
  <2>4. CASE Gone(Holder(d)) /\ Tell(d, "REMOTE_OFFLINE")
    <3>1. Service!Answer(d, "REMOTE_OFFLINE")
        BY <1>1, <1>2, <1>4, <2>1, <2>4, AnswerIsAnswer
    <3>2. asked[d].holder \in Ended /\ Has' = Has
        BY <1>2, <1>4, <2>4 DEF Has, Ended, Holder
    <3> QED
        BY <1>2, <3>1, <3>2 DEF Service!Next, Service!Offline, Has, Ended
  <2> QED
      BY <2>2, <2>3, <2>4, <1>1 DEF AnswerLocal, Dies, NextRequest
<1> QED
    BY <1>3, <1>4 DEF AnswerLocal

\* handle_pending_download: an entry is answered and removed.
LEMMA ReadRefines ==
    ASSUME IInv, Had, NEW n \in Node,
           ReceiveEnds(n) \/ \E d \in Download : ReadsAnswer(n, d) \/ ReadsEof(n, d)
    PROVE  [Service!Next]_<<asked, told, Has, Ended>>
<1> PICK c : c = Current(n)
    OBVIOUS
<1>1. TypeOK /\ thread[n] \in {"walk", "read"} /\ place[n] \in DOMAIN downloads[n] /\ ~Gone(n)
    BY DEF ReceiveEnds, ReadsAnswer, ReadsEof, Visits, Gone, IInv, TypeOK
<1>2. /\ c \in DOMAIN asked /\ Asker(c) = n /\ told[c] = "none"
      /\ Holder(c) \in Node /\ Name(c) \in File
    BY <1>1, EntryIsOpen
<1>3. ASSUME NEW answer, EntryDone(n), Tell(c, answer)
      PROVE  Service!Answer(c, answer)
  <2>1. asked' = asked /\ thread' = [thread EXCEPT ![n] = "walk"]
      BY <1>3 DEF EntryDone
  <2>2. \A m \in Node : Gone(m)' <=> Gone(m)
      BY <1>1, <2>1, NobodyEnds
  <2> QED
      BY <1>1, <1>2, <1>3, <2>1, <2>2, AnswerIsAnswer
<1>4. ASSUME NEW f \in File, NEW copy \in {"whole", "damaged"}, Store(n, f, copy)
      PROVE  Service!GetsFile(asked[c].asker, f)
  <2>1. Service!GetsFile(n, f)
      BY <1>1, <1>4, StoredIsThere
  <2>2. asked[c].asker = n
      BY <1>2 DEF Asker
  <2> QED
      BY <2>1, <2>2 DEF Service!GetsFile
<1>5. ASSUME EntryDone(n), Tell(c, "REMOTE_FOUND"), NEW copy \in {"whole", "damaged"},
             Store(n, Name(c), copy), arrived[c] \in {"part", "whole", "damaged"}
      PROVE  Service!Next
  <2>1. disk[Holder(c)][Name(c)] # "none"
      BY <1>2, <1>5 DEF Had
  <2>2. asked[c].file \in Has[asked[c].holder]
      BY <1>2, <2>1 DEF Has, Holder, Name
  <2> PICK f \in File : f = Name(c)
      BY <1>2
  <2>3. Store(n, f, copy) /\ asked[c].file = f
      BY <1>5 DEF Store, Name
  <2>4. Service!GetsFile(asked[c].asker, asked[c].file)
      BY <1>4, <2>3 DEF Service!GetsFile
  <2> QED
    <3>1. Service!Answer(c, "REMOTE_FOUND")
        BY <1>3, <1>5
    <3>2. Service!Downloaded(c)
        BY <2>2, <2>4, <3>1 DEF Service!Downloaded, Service!GetsFile, Has
    <3> QED
        BY <1>2, <3>2 DEF Service!Next
<1>6. ASSUME EntryDone(n), Tell(c, "REMOTE_NOT_FOUND"), UNCHANGED disk PROVE Service!Next
  <2>1. Service!Answer(c, "REMOTE_NOT_FOUND")
      BY <1>3, <1>6
  <2>2. Service!NotFound(c)
      BY <1>6, <2>1 DEF Service!NotFound
  <2> QED
      BY <1>2, <2>2 DEF Service!Next
<1>7. CASE ReceiveEnds(n)
  <2>1. /\ EntryDone(n) /\ Tell(c, "REMOTE_FOUND")
        /\ arrived[c] \in {"part", "whole", "damaged"}
      BY <1>7 DEF ReceiveEnds, Tell, IInv, Working
  <2>2. PICK copy \in {"whole", "damaged"} : Store(n, Name(c), copy)
    <3>1. CASE arrived[c] # "part" /\ Store(n, Name(Current(n)), arrived[Current(n)])
      <4> PICK copy \in {"whole", "damaged"} : copy = arrived[c]
          BY <2>1, <3>1
      <4> QED
          BY <3>1 DEF Store
    <3>2. CASE Store(n, Name(Current(n)), "damaged")
        BY <3>2 DEF Store
    <3> QED
        BY <1>7, <3>1, <3>2 DEF ReceiveEnds
  <2> QED
      BY <1>5, <2>1, <2>2
<1>8. ASSUME NEW d \in Download, ReadsAnswer(n, d) PROVE Service!Next
  <2>1. EntryDone(n) /\ d = c
      BY <1>8 DEF ReadsAnswer, Visits
  <2>2. CASE Tell(c, "REMOTE_NOT_FOUND") /\ UNCHANGED disk
      BY <1>6, <2>1, <2>2
  <2>3. CASE /\ arrived[c] \in {"whole", "damaged"} /\ Tell(c, "REMOTE_FOUND")
             /\ Store(n, Name(c), arrived[c])
    <3> PICK copy \in {"whole", "damaged"} : copy = arrived[c]
        BY <2>3
    <3>1. Store(n, Name(c), copy)
        BY <2>3 DEF Store
    <3> QED
        BY <1>5, <2>1, <2>3, <3>1
  <2> QED
      BY <1>8, <2>1, <2>2, <2>3 DEF ReadsAnswer
<1>9. ASSUME NEW d \in Download, ReadsEof(n, d) PROVE Service!Next
  <2>1. d = c /\ Gone(Holder(c))
      BY <1>9 DEF ReadsEof, Visits
  <2>2. CASE Dies(n)
      BY <1>1, <2>2, DiesIsEnd DEF Service!Next
  <2>3. CASE EntryDone(n) /\ Tell(c, "REMOTE_NOT_FOUND") /\ UNCHANGED disk
      BY <1>6, <2>3
  <2>4. CASE /\ EntryDone(n) /\ Tell(c, "REMOTE_FOUND")
             /\ UNCHANGED disk \/ \E f \in File : Store(n, f, "damaged")
    <3>1. asked[c].holder \in Ended
        BY <1>2, <2>1 DEF Ended, Holder
    <3>2. UNCHANGED Has \/ \E f \in File : Service!GetsFile(asked[c].asker, f)
        BY <1>4, <2>4 DEF Has
    <3>3. Service!Answer(c, "REMOTE_FOUND")
        BY <1>3, <2>4
    <3>4. Service!Misinformed(c)
        BY <3>1, <3>2, <3>3 DEF Service!Misinformed, Service!GetsFile, Has, Ended
    <3> QED
        BY <1>2, <3>4 DEF Service!Next
  <2> QED
      BY <1>9, <2>1, <2>2, <2>3, <2>4 DEF ReadsEof
<1> QED
    BY <1>7, <1>8, <1>9

-----------------------------------------------------------------------------
(* What arrives was there.                                                 *)

LEMMA HadKept ==
    ASSUME TypeOK, Had, UNCHANGED <<asked, arrived>>,
           UNCHANGED disk \/ \E n \in Node, f \in File, copy \in {"whole", "damaged"} : Store(n, f, copy)
    PROVE  Had'
<1>1. \A m \in Node, g \in File : disk[m][g] # "none" => disk'[m][g] # "none"
    BY SameDisk, StoreKeeps
<1>2. \A d \in DOMAIN asked : Holder(d) \in Node /\ Name(d) \in File
    BY Facts
<1> QED
    BY <1>1, <1>2 DEF Had, Holder, Name

\* The holder has looked the file up.
LEMMA HadSent ==
    ASSUME TypeOK, Had, NEW d \in DOMAIN asked, NEW v,
           v = "not found" \/ disk[Holder(d)][Name(d)] # "none",
           arrived' = [arrived EXCEPT ![d] = v], UNCHANGED <<asked, disk>>
    PROVE  Had'
<1>1. arrived \in [Download -> {"nothing", "not found", "part"} \cup Copy]
    BY DEF TypeOK
<1>2. \A e \in DOMAIN asked : arrived'[e] = IF e = d THEN v ELSE arrived[e]
    BY <1>1, Facts
<1> QED
    BY <1>2 DEF Had, Holder, Name

LEMMA NextHad == ASSUME IInv, Had, [Next]_vars PROVE Had'
<1>0. TypeOK
    BY DEF IInv
<1>1. CASE UNCHANGED <<asked, arrived, disk>>
    BY <1>0, <1>1, HadKept
<1>2. ASSUME NEW n \in Node, NEW h \in Node, NEW f \in File, Ask(n, h, f) PROVE Had'
  <2>1. /\ asked' = Append(asked, [asker |-> n, holder |-> h, file |-> f])
        /\ UNCHANGED <<disk, arrived>> /\ Len(asked) < MaxDownload
      BY <1>2 DEF Ask
  <2>2. asked \in Seq([asker : Node, holder : Node, file : File]) /\ Len(asked) \in Nat
        /\ DOMAIN asked = 1 .. Len(asked)
      BY Facts DEF IInv, TypeOK
  <2>3. /\ DOMAIN asked' = 1 .. Len(asked) + 1
        /\ \A d \in DOMAIN asked : asked'[d] = asked[d]
      BY <2>1, <2>2
  <2>4. \A d \in DOMAIN asked' : d \notin DOMAIN asked => arrived[d] = "nothing"
    <3>1. \A d \in DOMAIN asked' : d \in Download
        BY <2>1, <2>2, <2>3, TransferAssumption DEF Download
    <3> QED
        BY <3>1 DEF IInv, Belonging
  <2> QED
      BY <2>1, <2>3, <2>4 DEF Had, Holder, Name
<1>3. ASSUME NEW n \in Node, NEW d \in Download, AnswerRemote(n, d) PROVE Had'
  <2>1. d \in DOMAIN asked /\ Holder(d) = n
    <3>1. pending[n] \in Seq(Request) /\ pending[n] # << >> /\ Head(pending[n]) = Remote(d)
        BY <1>3 DEF AnswerRemote, Serves, IInv, TypeOK
    <3>2. 1 \in 1 .. Len(pending[n]) /\ pending[n][1] = Head(pending[n])
        BY <3>1
    <3>3. Times(pending[n], Remote(d)) # 0
        BY <3>1, <3>2, TimesPositive
    <3> QED
        BY <3>3 DEF IInv, Belonging
  <2>2. UNCHANGED <<asked, disk>>
      BY <1>3 DEF AnswerRemote
  <2>3. PICK v : /\ v = "not found" \/ disk[n][Name(d)] # "none"
                 /\ arrived' = [arrived EXCEPT ![d] = v]
      BY <1>3 DEF AnswerRemote
  <2> QED
      BY <1>0, <2>1, <2>2, <2>3, HadSent
<1>4. ASSUME NEW n \in Node, SendEnds(n) PROVE Had'
  <2>1. /\ thread[n] = "write" /\ UNCHANGED <<disk, asked>>
        /\ arrived' = [arrived EXCEPT ![Sending(n)] = disk[n][Name(Sending(n))]]
      BY <1>4 DEF SendEnds
  <2> PICK d : d = Sending(n)
      OBVIOUS
  <2>2. d \in DOMAIN asked /\ Holder(d) = n /\ disk[n][Name(d)] # "none"
    <3>1. /\ pending[n] # << >> /\ Head(pending[n]) = Remote(d) /\ d \in DOMAIN asked
          /\ d \in Download /\ disk[n][Name(d)] \in {"whole", "damaged"}
        BY <2>1, WritersWriteTheirs DEF Name
    <3>2. pending[n] \in Seq(Request)
        BY DEF IInv, TypeOK
    <3>3. 1 \in 1 .. Len(pending[n]) /\ pending[n][1] = Head(pending[n])
        BY <3>1, <3>2
    <3>4. Times(pending[n], Remote(d)) # 0
        BY <3>1, <3>2, <3>3, TimesPositive
    <3> QED
        BY <3>1, <3>4 DEF IInv, Belonging
  <2> PICK v : v = disk[n][Name(d)]
      OBVIOUS
  <2>3. arrived' = [arrived EXCEPT ![d] = v]
      BY <2>1 DEF Name
  <2> QED
      BY <1>0, <2>1, <2>2, <2>3, HadSent
<1>5. ASSUME NEW n \in Node,
             ReceiveEnds(n) \/ \E d \in Download : ReadsAnswer(n, d) \/ ReadsEof(n, d)
      PROVE  Had'
  <2>1. /\ ~Gone(n) /\ place[n] \in DOMAIN downloads[n]
        /\ thread[n] = "read" => arrived[Current(n)] \in {"part", "whole", "damaged"}
      BY <1>5 DEF ReceiveEnds, ReadsAnswer, ReadsEof, Visits, Gone, IInv, TypeOK, Working
  <2>2. Name(Current(n)) \in File
      BY <2>1, EntryIsOpen
  <2>3. CASE Dies(n)
      BY <1>1, <2>3 DEF Dies
  <2>4. CASE EntryDone(n)
    <3>1. UNCHANGED <<asked, arrived>>
        BY <2>4 DEF EntryDone
    <3>2. UNCHANGED disk \/ \E f \in File, copy \in {"whole", "damaged"} : Store(n, f, copy)
      <4>1. CASE ReceiveEnds(n)
          BY <2>1, <2>2, <4>1 DEF ReceiveEnds
      <4>2. ASSUME NEW d \in Download, ReadsAnswer(n, d)
            PROVE  UNCHANGED disk \/ \E f \in File, copy \in {"whole", "damaged"} : Store(n, f, copy)
          BY <2>2, <4>2 DEF ReadsAnswer, Visits
      <4>3. ASSUME NEW d \in Download, ReadsEof(n, d)
            PROVE  UNCHANGED disk \/ \E f \in File, copy \in {"whole", "damaged"} : Store(n, f, copy)
          BY <4>3 DEF ReadsEof, Dies
      <4> QED
          BY <1>5, <4>1, <4>2, <4>3
    <3> QED
        BY <1>0, <3>1, <3>2, HadKept
  <2> QED
      BY <1>5, <2>3, <2>4 DEF ReceiveEnds, ReadsAnswer, ReadsEof
<1>6. ASSUME NEW n \in Node, NEW d \in Download,
             AnswerLocal(n, d) \/ StillWaits(n, d) \/ ReadsOn(n, d) \/ Accept(n, d)
      PROVE  Had'
    BY <1>1, <1>6 DEF AnswerLocal, StillWaits, ReadsOn, Accept, Dies
<1>7. ASSUME NEW n \in Node,
             SendFails(n) \/ WalkBegins(n) \/ WalkEnds(n) \/ WalkGoesWild(n) \/ Ends(n)
      PROVE  Had'
    BY <1>1, <1>7 DEF SendFails, WalkBegins, WalkEnds, WalkGoesWild, Ends, Dies
<1>8. CASE UNCHANGED vars
    BY <1>1, <1>8 DEF vars
<1> QED
    BY <1>2, <1>3, <1>4, <1>5, <1>6, <1>7, <1>8 DEF Next, Drain, Walk

-----------------------------------------------------------------------------
(* The refinement.                                                         *)

LEMMA AskIsAsk ==
    ASSUME IInv, NEW n \in Node, NEW h \in Node, NEW f \in File, Ask(n, h, f)
    PROVE  Service!Ask(n, h, f)
<1>1. n \notin Ended /\ Ended' = Ended
    BY DEF Ask, Ended, Gone
<1>2. Has' = Has
    BY DEF Ask, Has
<1> QED
    BY <1>1, <1>2 DEF Ask, Service!Ask, Has, Ended

LEMMA StepRefines ==
    ASSUME IInv, Had, [Next]_vars
    PROVE  [Service!Next]_<<asked, told, Has, Ended>>
<1>0. TypeOK
    BY DEF IInv
<1>1. CASE UNCHANGED vars
    BY <1>1, ThreadKept, Quiet DEF vars
<1>2. ASSUME NEW n \in Node, NEW h \in Node, NEW f \in File, Ask(n, h, f) PROVE Service!Next
    BY <1>2, AskIsAsk DEF Service!Next
<1>3. ASSUME NEW n \in Node, ~Gone(n), Dies(n) PROVE Service!Next
    BY <1>0, <1>3, DiesIsEnd DEF Service!Next
<1>4. ASSUME NEW n \in Node, ~Gone(n), UNCHANGED <<asked, told, disk>>,
             \/ thread' = thread \/ NextRequest(n)
             \/ \E t \in Thread \ {"gone"} : thread' = [thread EXCEPT ![n] = t]
      PROVE  UNCHANGED <<asked, told, Has, Ended>>
    BY <1>0, <1>4, ThreadKept, RequestDoneKeeps, NobodyEnds, Quiet
<1>5. ASSUME NEW n \in Node, NEW d \in Download, Accept(n, d) \/ StillWaits(n, d)
      PROVE  UNCHANGED <<asked, told, Has, Ended>>
  <2>1. ~Gone(n) /\ UNCHANGED <<asked, told, disk, thread>>
      BY <1>5 DEF Accept, StillWaits, Visits, Gone
  <2> QED
      BY <1>4, <2>1
<1>6. ASSUME NEW n \in Node, NEW d \in Download, AnswerRemote(n, d) \/ ReadsOn(n, d)
      PROVE  UNCHANGED <<asked, told, Has, Ended>>
  <2>1. ~Gone(n) /\ UNCHANGED <<asked, told, disk>>
      BY <1>6 DEF AnswerRemote, Serves, ReadsOn, Visits, Gone
  <2>2. NextRequest(n) \/ \E t \in Thread \ {"gone"} : thread' = [thread EXCEPT ![n] = t]
      BY <1>6 DEF AnswerRemote, ReadsOn, Thread
  <2> QED
      BY <1>4, <2>1, <2>2
<1>7. ASSUME NEW n \in Node, WalkBegins(n) \/ WalkEnds(n) \/ SendEnds(n) \/ SendFails(n)
      PROVE  [Service!Next]_<<asked, told, Has, Ended>>
  <2>1. ~Gone(n)
      BY <1>7 DEF WalkBegins, WalkEnds, SendEnds, SendFails, Gone
  <2>2. CASE Dies(n)
      BY <1>3, <2>1, <2>2
  <2>3. CASE ~Dies(n)
    <3>1. UNCHANGED <<asked, told, disk>>
        BY <1>7, <2>3 DEF WalkBegins, WalkEnds, SendEnds, SendFails
    <3>2. NextRequest(n) \/ \E t \in Thread \ {"gone"} : thread' = [thread EXCEPT ![n] = t]
        BY <1>7, <2>3 DEF WalkBegins, WalkEnds, SendEnds, SendFails, Thread
    <3> QED
        BY <1>4, <2>1, <3>1, <3>2
  <2> QED
      BY <2>2, <2>3
<1>8. ASSUME NEW n \in Node, WalkGoesWild(n) \/ Ends(n) PROVE Service!Next
  <2>1. ~Gone(n) /\ Dies(n)
      BY <1>8 DEF WalkGoesWild, Ends, Gone
  <2> QED
      BY <1>3, <2>1
<1>9. ASSUME NEW n \in Node, Drain(n) PROVE [Service!Next]_<<asked, told, Has, Ended>>
    BY <1>6, <1>7, <1>9, LocalRefines DEF Drain
<1>10. ASSUME NEW n \in Node, Walk(n) PROVE [Service!Next]_<<asked, told, Has, Ended>>
    BY <1>5, <1>6, <1>7, <1>10, ReadRefines DEF Walk
<1> QED
    BY <1>1, <1>2, <1>5, <1>8, <1>9, <1>10 DEF Next

\* handle_local_download_request to send_download_answer_to_client: whatever the servents do
\* in between, and whenever they end, a client is answered once at most, and the file it is
\* told of is one that its holder had, for any number of servents, files and downloads.
THEOREM DownloadsAreAService == Spec => IsADownloadService
<1>1. Init => Service!Init /\ Had
  <2> SUFFICES ASSUME Init PROVE Service!Init /\ Had
      OBVIOUS
  <2>1. Has \in [Node -> SUBSET File]
      BY DEF Has
  <2>2. Ended = {}
      BY DEF Ended, Gone, Init
  <2>3. Service!Init
      BY <2>1, <2>2 DEF Service!Init, Init, Has, Ended, Service!Download, Download
  <2>4. Had
      BY DEF Had, Init
  <2> QED
      BY <2>3, <2>4
<1>2. IInv /\ Had /\ [Next]_vars => Had'
    BY NextHad
<1>3. IInv /\ Had /\ [Next]_vars => [Service!Next]_<<asked, told, Has, Ended>>
    BY StepRefines
<1> QED
    BY IInvHolds, <1>1, <1>2, <1>3, PTL
    DEF Spec, IsADownloadService, Service!Spec, Has, Ended
=============================================================================
