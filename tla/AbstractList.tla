---------------------------- MODULE AbstractList ----------------------------
(***************************************************************************)
(* What a list of the servent promises to the loops of src/server.c that   *)
(* walk it and remove entries on the way: it is a sequence, up to the      *)
(* moment a walk that has removed the first entry keeps another one.       *)
(*                                                                         *)
(* Outside of a walk the entries are rest.  In a walk, kept are those it   *)
(* has passed and left in place, rest those still to be visited.           *)
(***************************************************************************)
EXTENDS Sequences

CONSTANT Value    \* what entries hold

VARIABLES mayKeep, \* whether walks may leave entries in place
          kept, rest, walking,
          beheaded, \* the walk has removed the first entry, and there are others
          broken    \* the promise is void

vars == <<mayKeep, kept, rest, walking, beheaded, broken>>

Init == /\ mayKeep \in BOOLEAN
        /\ kept = << >>
        /\ rest = << >>
        /\ walking = FALSE
        /\ beheaded = FALSE
        /\ broken = FALSE

Push(v) == /\ ~walking
           /\ rest' = Append(rest, v)
           /\ UNCHANGED <<mayKeep, kept, walking, beheaded, broken>>

Begin == /\ ~walking
         /\ walking' = TRUE
         /\ UNCHANGED <<mayKeep, kept, rest, beheaded, broken>>

Keep == /\ mayKeep
        /\ walking
        /\ rest # << >>
        /\ ~beheaded
        /\ kept' = Append(kept, Head(rest))
        /\ rest' = Tail(rest)
        /\ UNCHANGED <<mayKeep, walking, beheaded, broken>>

KeepAfterBeheading == mayKeep /\ walking /\ rest # << >> /\ beheaded /\ broken' /\ UNCHANGED mayKeep

Remove == /\ walking
          /\ rest # << >>
          /\ rest' = Tail(rest)
          /\ beheaded' = (kept = << >> /\ rest' # << >>)
          /\ UNCHANGED <<mayKeep, kept, walking, broken>>

End == /\ walking
       /\ rest = << >>
       /\ walking' = FALSE
       /\ rest' = kept
       /\ kept' = << >>
       /\ UNCHANGED <<mayKeep, beheaded, broken>>

Clear == /\ ~walking
         /\ rest' = << >>
         /\ UNCHANGED <<mayKeep, kept, walking, beheaded, broken>>

Next == \/ ~broken /\ (\E v \in Value : Push(v))
        \/ ~broken /\ (Begin \/ Keep \/ KeepAfterBeheading \/ Remove \/ End \/ Clear)
        \/ broken /\ broken' /\ UNCHANGED mayKeep

Spec == Init /\ [][Next]_vars
=============================================================================
