------------------------------ MODULE Transfer ------------------------------
(***************************************************************************)
(* Downloads: the two queues of a servent, pending_requests and            *)
(* pending_downloads, and the transfer of a file over a connection of its  *)
(* own.  The code is the download half of src/server/server_requests.c,    *)
(* handle_local_download_request, and the loops of src/server.c over the   *)
(* two queues.                                                             *)
(*                                                                         *)
(* A servent is one thread.  It is                                         *)
(*   "loop"   between two handlers of loop()                               *)
(*   "drain"  in handle_pending_requests, with requests left               *)
(*   "write"  ... writing a file to the servent that asked for it          *)
(*   "walk"   in handle_pending_downloads                                  *)
(*   "read"   ... reading a file that has begun to arrive                  *)
(*   "gone"   not there any more                                           *)
(* A small answer is written at once.  A large file is more than the       *)
(* connection holds: its sender stays in write() until the asker reads,    *)
(* and the asker stays in read() until it has everything.                  *)
(*                                                                         *)
(* A download is known by a number, which also names the connection it     *)
(* opens.                                                                  *)
(***************************************************************************)
EXTENDS Integers, Sequences, FiniteSets

CONSTANTS Node,        \* the servents
          File,        \* the names of files
          Large,       \* the files that do not fit in a connection's buffers
          Linked,      \* the servents with neighbours, nb_neighbours # 0
          MaxDownload, \* bound: downloads
          MaxGone      \* bound: once this many are gone, none is killed from outside

ASSUME TransferAssumption ==
    /\ Large \subseteq File
    /\ Linked \subseteq Node
    /\ MaxDownload \in Nat
    /\ MaxGone \in Nat

Download == 1 .. MaxDownload

Copy == {"none", "whole", "damaged"}

Local(d) == [type |-> "REQUEST_DOWNLOAD_LOCAL", of |-> d]
Remote(d) == [type |-> "REQUEST_DOWNLOAD_REMOTE", of |-> d]
Request == {Local(d) : d \in Download} \cup {Remote(d) : d \in Download}

Answer == {"LOCAL", "REMOTE_OFFLINE", "REMOTE_NOT_FOUND", "REMOTE_FOUND"}

VARIABLES
    thread,    \* where each servent is
    disk,      \* what each servent's shared directory has under each name
    asked,     \* the downloads so far: who asks whom for which file
    pending,   \* server_t.pending_requests
    downloads, \* server_t.pending_downloads
    place,     \* the entry of it a loop stands at, 0 outside of the loop
    list,      \* what the loop has done to it: "sound", "beheaded", "severed"
               \* (see AbstractList; severed is what it calls broken)
    backlog,   \* at each holder, connections whose CMSG_DOWNLOAD is unread
    arrived,   \* on each connection: nothing, the answer REMOTE_NOT_FOUND, a copy,
               \* or the first part of one
    told       \* the SMSG_INT_DOWNLOAD each download ended with

vars == <<thread, disk, asked, pending, downloads, place, list, backlog, arrived, told>>

Init ==
    /\ thread = [n \in Node |-> "loop"]
    /\ disk \in [Node -> [File -> {"none", "whole"}]]
    /\ asked = << >>
    /\ pending = [n \in Node |-> << >>]
    /\ downloads = [n \in Node |-> << >>]
    /\ place = [n \in Node |-> 0]
    /\ list = [n \in Node |-> "sound"]
    /\ backlog = [n \in Node |-> {}]
    /\ arrived = [d \in Download |-> "nothing"]
    /\ told = [d \in Download |-> "none"]

Gone(n) == thread[n] = "gone"
Asker(d) == asked[d].asker
Holder(d) == asked[d].holder
Name(d) == asked[d].file

\* The process ends, and the kernel closes its connections.
Dies(n) ==
    /\ thread' = [thread EXCEPT ![n] = "gone"]
    /\ pending' = [pending EXCEPT ![n] = << >>]
    /\ downloads' = [downloads EXCEPT ![n] = << >>]
    /\ place' = [place EXCEPT ![n] = 0]
    /\ list' = [list EXCEPT ![n] = "sound"]
    /\ backlog' = [backlog EXCEPT ![n] = {}]
    /\ UNCHANGED <<disk, asked, arrived, told>>

-----------------------------------------------------------------------------
(* Requests come in.                                                       *)

\* handle_client reads CMSG_INT_DOWNLOAD.
Ask(n, h, f) ==
    /\ thread[n] = "loop"
    /\ Len(asked) < MaxDownload
    /\ asked' = Append(asked, [asker |-> n, holder |-> h, file |-> f])
    /\ pending' = [pending EXCEPT ![n] = Append(@, Local(Len(asked')))]
    /\ UNCHANGED <<thread, disk, downloads, place, list, backlog, arrived, told>>

\* handle_awaiting_socket reads CMSG_DOWNLOAD and keeps the connection.
Accept(n, d) ==
    /\ thread[n] = "loop"
    /\ d \in backlog[n]
    /\ backlog' = [backlog EXCEPT ![n] = @ \ {d}]
    /\ pending' = [pending EXCEPT ![n] = Append(@, Remote(d))]
    /\ UNCHANGED <<thread, disk, asked, downloads, place, list, arrived, told>>

-----------------------------------------------------------------------------
(* handle_pending_requests, which a servent without neighbours skips.      *)

Serves(n, request) ==
    /\ thread[n] = "drain" \/ (thread[n] = "loop" /\ n \in Linked)
    /\ pending[n] # << >>
    /\ Head(pending[n]) = request

\* Faulty variant: the rest of the queue is forgotten.
NextRequestOfNone(n) ==
    /\ pending' = [pending EXCEPT ![n] = << >>]
    /\ thread' = [thread EXCEPT ![n] = "loop"]

\* list_pop_at, and on to the next request.
NextRequest(n) ==
    /\ pending' = [pending EXCEPT ![n] = Tail(@)]
    /\ thread' = [thread EXCEPT ![n] = IF Len(pending[n]) = 1 THEN "loop" ELSE "drain"]

Tell(d, answer) == told' = [told EXCEPT ![d] = answer]

\* Faulty variant: nothing is sent to the client when the connection fails.
AnswerLocalOrOffline(n, d) ==
    /\ Serves(n, Local(d))
    /\ IF disk[n][Name(d)] # "none" THEN Tell(d, "LOCAL") ELSE UNCHANGED told
    /\ IF disk[n][Name(d)] = "none" /\ ~Gone(Holder(d))
       THEN /\ downloads' = [downloads EXCEPT ![n] = Append(@, d)]
            /\ backlog' = [backlog EXCEPT ![Holder(d)] = @ \cup {d}]
       ELSE UNCHANGED <<downloads, backlog>>
    /\ NextRequest(n)
    /\ UNCHANGED <<disk, asked, place, list, arrived>>

\* answer_local_download_request.  A push to a list that has been severed follows
\* freed cells: it ends the process or puts the entry where no loop comes by.
AnswerLocal(n, d) ==
    /\ Serves(n, Local(d))
    /\ \/ /\ \/ disk[n][Name(d)] # "none" /\ Tell(d, "LOCAL")
             \/ disk[n][Name(d)] = "none" /\ Gone(Holder(d)) /\ Tell(d, "REMOTE_OFFLINE")
          /\ NextRequest(n)
          /\ UNCHANGED <<downloads, backlog, disk, asked, place, list, arrived>>
       \/ /\ disk[n][Name(d)] = "none" /\ ~Gone(Holder(d))
          /\ downloads' = [downloads EXCEPT ![n] = Append(@, d)]
          /\ backlog' = [backlog EXCEPT ![Holder(d)] = @ \cup {d}]
          /\ NextRequest(n)
          /\ UNCHANGED <<disk, asked, place, list, arrived, told>>
       \/ /\ disk[n][Name(d)] = "none" /\ ~Gone(Holder(d))
          /\ list[n] = "severed"
          /\ Dies(n)

\* Faulty variant: the connection is closed without an answer when there is no file.
AnswerRemoteIfFound(n, d) ==
    /\ Serves(n, Remote(d))
    /\ IF disk[n][Name(d)] = "none" THEN UNCHANGED arrived
       ELSE arrived' = [arrived EXCEPT ![d] = disk[n][Name(d)]]
    /\ NextRequest(n)
    /\ UNCHANGED <<disk, asked, downloads, place, list, backlog, told>>

\* answer_remote_download_request, as far as it goes without waiting.
AnswerRemote(n, d) ==
    /\ Serves(n, Remote(d))
    /\ \/ /\ disk[n][Name(d)] = "none"
          /\ arrived' = [arrived EXCEPT ![d] = "not found"]
          /\ NextRequest(n)
       \/ /\ disk[n][Name(d)] # "none" /\ Name(d) \notin Large
          /\ arrived' = [arrived EXCEPT ![d] = disk[n][Name(d)]]
          /\ NextRequest(n)
       \/ /\ disk[n][Name(d)] # "none" /\ Name(d) \in Large
          /\ arrived' = [arrived EXCEPT ![d] = "part"]
          /\ thread' = [thread EXCEPT ![n] = "write"]
          /\ UNCHANGED pending
    /\ UNCHANGED <<disk, asked, downloads, place, list, backlog, told>>

\* The download a servent in write() or read() is busy with.
Sending(n) == Head(pending[n]).of
Current(n) == downloads[n][place[n]]

\* Faulty variant: a write that would block is not gone on with.
SendEndsUnread(n) ==
    /\ thread[n] = "write"
    /\ NextRequest(n)
    /\ UNCHANGED <<disk, asked, downloads, place, list, backlog, arrived, told>>

\* The end of write_to_fd: the asker has been reading.
SendEnds(n) ==
    /\ thread[n] = "write"
    /\ LET d == Sending(n)
       IN  /\ thread[Asker(d)] = "read" /\ Current(Asker(d)) = d
           /\ arrived' = [arrived EXCEPT ![d] = disk[n][Name(d)]]
    /\ NextRequest(n)
    /\ UNCHANGED <<disk, asked, downloads, place, list, backlog, told>>

\* ... or the asker is gone: an error nobody looks at, or SIGPIPE.
SendFails(n) ==
    /\ thread[n] = "write"
    /\ Gone(Asker(Sending(n)))
    /\ \/ NextRequest(n) /\ UNCHANGED <<disk, asked, downloads, place, list,
                                        backlog, arrived, told>>
       \/ Dies(n)

-----------------------------------------------------------------------------
(* handle_pending_downloads.                                               *)

WalkBegins(n) ==
    /\ thread[n] = "loop"
    /\ downloads[n] # << >>
    /\ list[n] # "severed"
    /\ thread' = [thread EXCEPT ![n] = "walk"]
    /\ place' = [place EXCEPT ![n] = 1]
    /\ UNCHANGED <<disk, asked, pending, downloads, list, backlog, arrived, told>>

\* A severed list leads the loop to a freed cell.  If that does not end the process,
\* no entry is found.
WalkGoesWild(n) == thread[n] = "loop" /\ list[n] = "severed" /\ Dies(n)

Visits(n, d) ==
    /\ thread[n] = "walk"
    /\ place[n] \in DOMAIN downloads[n]
    /\ d = Current(n)

\* There is nothing to read on the socket, and its entry stays.
StillWaits(n, d) ==
    /\ Visits(n, d)
    /\ arrived[d] = "nothing" /\ ~Gone(Holder(d))
    /\ place' = [place EXCEPT ![n] = @ + 1]
    /\ list' = [list EXCEPT ![n] = IF @ = "beheaded" THEN "severed" ELSE @]
    /\ UNCHANGED <<thread, disk, asked, pending, downloads, backlog, arrived, told>>

\* Faulty variant: the entry after the one removed is skipped.
EntryDoneSkipping(n) ==
    /\ downloads' = [downloads EXCEPT ![n] = SubSeq(@, 1, place[n] - 1)
                                               \o SubSeq(@, place[n] + 1, Len(@))]
    /\ place' = [place EXCEPT ![n] = @ + 1]
    /\ thread' = [thread EXCEPT ![n] = "walk"]
    /\ UNCHANGED <<list, asked, pending, backlog, arrived>>

\* handle_pending_download has returned 1: list_pop_at.
EntryDone(n) ==
    /\ downloads' = [downloads EXCEPT ![n] = SubSeq(@, 1, place[n] - 1)
                                               \o SubSeq(@, place[n] + 1, Len(@))]
    /\ list' = [list EXCEPT ![n] = IF @ = "severed" THEN @
                                   ELSE IF place[n] = 1 /\ Len(downloads[n]) > 1 THEN "beheaded"
                                   ELSE "sound"]
    /\ thread' = [thread EXCEPT ![n] = "walk"]
    /\ UNCHANGED <<place, asked, pending, backlog, arrived>>

\* The file is written over what is there: O_TRUNC is not given, so a longer old
\* copy shows behind a shorter new one.
Store(n, f, copy) ==
    \E stored \in IF copy = "whole" /\ disk[n][f] = "damaged" THEN Copy \ {"none"} ELSE {copy} :
       disk' = [disk EXCEPT ![n][f] = stored]

\* Faulty variant: the code in the answer is not looked at.
ReadsAnswerUntested(n, d) ==
    /\ Visits(n, d)
    /\ arrived[d] \in {"not found", "whole", "damaged"}
    /\ Tell(d, "REMOTE_FOUND")
    /\ Store(n, Name(d), IF arrived[d] = "not found" THEN "damaged" ELSE arrived[d])
    /\ EntryDone(n)

\* handle_remote_download_answer with the whole answer there.
ReadsAnswer(n, d) ==
    /\ Visits(n, d)
    /\ \/ arrived[d] = "not found" /\ Tell(d, "REMOTE_NOT_FOUND") /\ UNCHANGED disk
       \/ arrived[d] \in {"whole", "damaged"} /\ Tell(d, "REMOTE_FOUND")
                                              /\ Store(n, Name(d), arrived[d])
    /\ EntryDone(n)

\* The other end was closed before it answered.  The opcode is not written: the
\* assertion fails, or the old value passes, and then so may the other fields.
ReadsEof(n, d) ==
    /\ Visits(n, d)
    /\ arrived[d] = "nothing" /\ Gone(Holder(d))
    /\ \/ Dies(n)
       \/ /\ \/ Tell(d, "REMOTE_NOT_FOUND") /\ UNCHANGED disk
             \/ Tell(d, "REMOTE_FOUND") /\ UNCHANGED disk
             \/ Tell(d, "REMOTE_FOUND") /\ \E f \in File : Store(n, f, "damaged")
          /\ EntryDone(n)

\* Faulty variant: what has arrived is taken for the file.
ReadsOnce(n, d) ==
    /\ Visits(n, d)
    /\ arrived[d] = "part"
    /\ Tell(d, "REMOTE_FOUND")
    /\ Store(n, Name(d), "damaged")
    /\ EntryDone(n)

\* The first part of a file is there; the rest is waited for.
ReadsOn(n, d) ==
    /\ Visits(n, d)
    /\ arrived[d] = "part"
    /\ thread' = [thread EXCEPT ![n] = "read"]
    /\ UNCHANGED <<disk, asked, pending, downloads, place, list, backlog, arrived, told>>

\* read_from_fd returns, with everything or because the sender is gone; what it
\* returns is not looked at.
ReceiveEnds(n) ==
    /\ thread[n] = "read"
    /\ LET d == Current(n)
       IN  /\ \/ arrived[d] # "part" /\ Store(n, Name(d), arrived[d])
              \/ arrived[d] = "part" /\ Gone(Holder(d)) /\ Store(n, Name(d), "damaged")
           /\ Tell(d, "REMOTE_FOUND")
    /\ EntryDone(n)

WalkEnds(n) ==
    /\ thread[n] = "walk"
    /\ place[n] > Len(downloads[n])
    /\ thread' = [thread EXCEPT ![n] = "loop"]
    /\ place' = [place EXCEPT ![n] = 0]
    /\ UNCHANGED <<disk, asked, pending, downloads, list, backlog, arrived, told>>

-----------------------------------------------------------------------------
\* The servent leaves, or is killed.
Ends(n) ==
    /\ ~Gone(n)
    /\ Cardinality({m \in Node : Gone(m)}) < MaxGone
    /\ Dies(n)

Drain(n) == \/ \E d \in Download : AnswerLocal(n, d) \/ AnswerRemote(n, d)
            \/ SendEnds(n) \/ SendFails(n)

Walk(n) == \/ WalkBegins(n) \/ WalkEnds(n) \/ ReceiveEnds(n)
           \/ \E d \in Download : \/ StillWaits(n, d) \/ ReadsAnswer(n, d)
                                  \/ ReadsEof(n, d) \/ ReadsOn(n, d)

Next ==
    \E n \in Node :
       \/ \E h \in Node, f \in File : Ask(n, h, f)
       \/ \E d \in Download : Accept(n, d)
       \/ Drain(n) \/ Walk(n) \/ WalkGoesWild(n) \/ Ends(n)

Spec == Init /\ [][Next]_vars

\* A handler that is not in a blocking call goes on, and the loop over pending_downloads
\* does not keep the servent from its other handlers, as each turn of loop() comes to
\* all of them.
Fairness ==
    \A n \in Node :
       /\ WF_vars(Walk(n))
       /\ SF_vars(Drain(n))
       /\ SF_vars(\E d \in Download : Accept(n, d))

FairSpec == Spec /\ Fairness

-----------------------------------------------------------------------------
Thread == {"loop", "drain", "write", "walk", "read", "gone"}

TypeOK ==
    /\ thread \in [Node -> Thread]
    /\ disk \in [Node -> [File -> Copy]]
    /\ asked \in Seq([asker : Node, holder : Node, file : File])
    /\ Len(asked) <= MaxDownload
    /\ pending \in [Node -> Seq(Request)]
    /\ downloads \in [Node -> Seq(Download)]
    /\ place \in [Node -> Nat]
    /\ \A n \in Node : /\ place[n] \in 0 .. Len(downloads[n]) + 1
                       /\ place[n] # 0 <=> thread[n] \in {"walk", "read"}
                       /\ thread[n] = "read" => place[n] \in DOMAIN downloads[n]
                       /\ thread[n] \in {"drain", "write"} => pending[n] # << >>
    /\ list \in [Node -> {"sound", "beheaded", "severed"}]
    /\ backlog \in [Node -> SUBSET Download]
    /\ arrived \in [Download -> {"nothing", "not found", "part"} \cup Copy]
    /\ told \in [Download -> Answer \cup {"none"}]

-----------------------------------------------------------------------------
\* How often something is in a queue.
Times(queue, x) == Cardinality({k \in DOMAIN queue : queue[k] = x})

\* A download is never dropped and never doubled: until its client has been told how
\* it ended, it is either a request still to be looked at or an entry of
\* pending_downloads, once.
NoDownloadIsLost ==
    \A d \in DOMAIN asked :
       LET n == Asker(d)
       IN  Gone(n) \/ Times(pending[n], Local(d)) + Times(downloads[n], d)
                       = IF told[d] = "none" THEN 1 ELSE 0

\* What pending_downloads waits for will come: as long as the holder is there, it has
\* the request, once, on the connection or in its queue, or it is writing the file;
\* and it has no request that nobody waits for.
RequestsAreHeld ==
    \A d \in DOMAIN asked :
       LET n == Asker(d)
           h == Holder(d)
           held == (IF d \in backlog[h] THEN 1 ELSE 0) + Times(pending[h], Remote(d))
       IN  Gone(n) \/ Gone(h) \/
           /\ held = IF Times(downloads[n], d) = 1 /\ arrived[d] \in {"nothing", "part"}
                     THEN 1 ELSE 0
           /\ arrived[d] = "part" => thread[h] = "write" /\ Sending(h) = d

\* As long as nobody is gone, a file that was announced as downloaded is there and is
\* the file that was asked for, whoever else it was downloaded from in the meantime.
FoundMeansWhole ==
    (\A n \in Node : ~Gone(n)) =>
       \A d \in DOMAIN asked : told[d] = "REMOTE_FOUND" => disk[Asker(d)][Name(d)] = "whole"

\* Servents that write to each other, or to one whose loop has lost the entry.
Stuck(n) ==
    \E S \in SUBSET Node :
       /\ n \in S
       /\ \A m \in S : \/ thread[m] = "write" /\ Asker(Sending(m)) \in S
                       \/ list[m] = "severed" /\ place[m] = 0

\* There is no timeout on a transfer: servents whose write() waits for each other stay
\* that way until one of the processes ends.
StuckIsForGood ==
    [][\A n \in Node : Stuck(n) /\ (\A m \in Node : Gone(m)' => Gone(m)) => Stuck(n)']_vars

\* What all of this comes to for the users is DownloadService: one answer at most, no file
\* announced that its holder never had, no file in a directory without an announcement, but
\* for what stale memory makes of a holder that has ended.
Service == INSTANCE DownloadService
           WITH has <- [n \in Node |-> {f \in File : disk[n][f] # "none"}],
                ended <- {n \in Node : Gone(n)}
IsADownloadService == Service!Spec

\* Every download ends with a message to the client, unless its asker ends or loses
\* its list, or one of the two servents is stuck in a transfer or has no neighbour.
Settled(d) ==
    /\ d \in DOMAIN asked
    /\ \/ told[d] # "none" \/ Gone(Asker(d))
       \/ \E n \in {Asker(d), Holder(d)} : Stuck(n) \/ n \notin Linked

DownloadsAreSettled == \A d \in Download : d \in DOMAIN asked ~> Settled(d)

-----------------------------------------------------------------------------
(* What the repository says of it.                                         *)

\* src/client/client_download.c:111 prints that the file has been downloaded for every
\* download that ends with ANSWER_CODE_REMOTE_FOUND; here, for those of which something
\* did arrive.
AnnouncedFilesAreThere ==
    \A d \in DOMAIN asked : told[d] = "REMOTE_FOUND" /\ arrived[d] # "nothing"
                              => disk[Asker(d)][Name(d)] = "whole"
=============================================================================
