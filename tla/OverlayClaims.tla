---------------------------- MODULE OverlayClaims ----------------------------
(***************************************************************************)
(* What a comment of the repository says of the overlay and the code does  *)
(* not do; TLC refutes it on Overlay.                                      *)
(***************************************************************************)
EXTENDS Overlay

\* "Ensure that we are not adding the same IP again inside our list of neighbours"
\* (server_join.c:22-27): two entries of a table are two machines.
NoDuplicateNeighbour ==
    \A n \in Node : \A s1, s2 \in Sockets(table[n]) :
       net.host[Peer(s1)] = net.host[Peer(s2)] => s1 = s2
=============================================================================
