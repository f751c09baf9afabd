------------------------------ MODULE MCOverlay ------------------------------
(* Instances of Overlay for TLC.  The first machine is f, every other one is *)
(* started with f as its contact.                                            *)
EXTENDS OverlayClaims, TLC

CONSTANTS f, others

MCNode == {f} \cup others
MCContact == [n \in MCNode |-> IF n = f THEN NoNode ELSE f]
Symmetry == Permutations(others)
=============================================================================
