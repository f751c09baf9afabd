--------------------------- MODULE DownloadService ---------------------------
(***************************************************************************)
(* What downloads promise to the users, queues, connections and threads    *)
(* left out: a download is answered at most once, in the life of its       *)
(* servent, and truly.  Files come from servents that have them, with the  *)
(* announcement to the client that wanted one.  The exception is a holder  *)
(* that has ended: of such a download anything may be said, and any file   *)
(* may appear where it was wanted.                                         *)
(***************************************************************************)
EXTENDS Integers, Sequences

CONSTANTS Node, File,
          MaxDownload \* bound: downloads

VARIABLES asked, \* the downloads wanted so far: who asks whom for which file
          told,  \* how each of them was answered, or "none"
          has,   \* the files in each servent's directory, in whatever state
          ended  \* the servents that are there no more

Download == 1 .. MaxDownload

Init ==
    /\ asked = << >>
    /\ told = [d \in Download |-> "none"]
    /\ has \in [Node -> SUBSET File]
    /\ ended = {}

Ask(n, h, f) ==
    /\ n \notin ended
    /\ Len(asked) < MaxDownload
    /\ asked' = Append(asked, [asker |-> n, holder |-> h, file |-> f])
    /\ UNCHANGED <<told, has, ended>>

\* Download d gets its only answer.
Answer(d, answer) ==
    /\ asked[d].asker \notin ended
    /\ told[d] = "none"
    /\ told' = [told EXCEPT ![d] = answer]
    /\ UNCHANGED <<asked, ended>>

GetsFile(n, f) == has' = [has EXCEPT ![n] = @ \cup {f}]

HadIt(d) ==
    /\ asked[d].file \in has[asked[d].asker]
    /\ Answer(d, "LOCAL")
    /\ UNCHANGED has

Downloaded(d) ==
    /\ asked[d].file \in has[asked[d].holder]
    /\ Answer(d, "REMOTE_FOUND")
    /\ GetsFile(asked[d].asker, asked[d].file)

\* What the holder had when it looked for the file is not known any more.
NotFound(d) ==
    /\ Answer(d, "REMOTE_NOT_FOUND")
    /\ UNCHANGED has

Offline(d) ==
    /\ asked[d].holder \in ended
    /\ Answer(d, "REMOTE_OFFLINE")
    /\ UNCHANGED has

Misinformed(d) ==
    /\ asked[d].holder \in ended
    /\ Answer(d, "REMOTE_FOUND")
    /\ UNCHANGED has \/ \E f \in File : GetsFile(asked[d].asker, f)

End(n) ==
    /\ n \notin ended
    /\ ended' = ended \cup {n}
    /\ UNCHANGED <<asked, told, has>>

Next ==
    \/ \E n, h \in Node, f \in File : Ask(n, h, f)
    \/ \E d \in DOMAIN asked :
          HadIt(d) \/ Downloaded(d) \/ NotFound(d) \/ Offline(d) \/ Misinformed(d)
    \/ \E n \in Node : End(n)

Spec == Init /\ [][Next]_<<asked, told, has, ended>>
=============================================================================
