---------------------------- MODULE FieldStream ----------------------------
(***************************************************************************)
(* What the servents rely on when they read a packet field by field: each  *)
(* field is there whole and in its place, up to the one at which the       *)
(* connection ended; from that one on nothing is, but the empty fields.    *)
(***************************************************************************)
EXTENDS Integers, Sequences

CONSTANTS Fields,  \* how many fields there are
          Empty    \* those whose length is 0

VARIABLE got       \* what has become of the fields asked for so far

Init == got = << >>

IsCut == \E k \in DOMAIN got : got[k] = "cut"

Whole == /\ Len(got) < Fields
         /\ IsCut => Len(got) + 1 \in Empty
         /\ got' = Append(got, "whole")

Cut == /\ Len(got) < Fields
       /\ Len(got) + 1 \notin Empty
       /\ got' = Append(got, "cut")

Next == Whole \/ Cut

Spec == Init /\ [][Next]_got
=============================================================================
