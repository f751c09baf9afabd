------------------------------ MODULE MCSearch ------------------------------
(* Instances of Search for TLC: three servents in a row, and in a ring.    *)
EXTENDS Search

CONSTANTS first, second, third

\* A link from l[1] to l[2]: the first free connection, in both tables; what was
\* said on it has been read.
Linked(w, l) ==
    LET c == CHOOSE d \in Conn : NextConn(w.net, d)
    IN  [net   |-> Receive(Dial(w.net, c, l[1], l[2], LeavePacket), Callee(c)),
         table |-> [w.table EXCEPT ![l[1]] = AddNeighbour(@, Caller(c)),
                                   ![l[2]] = AddNeighbour(@, Callee(c))]]

Wired(links) ==
    FoldLeft(Linked, [net |-> EmptyNet, table |-> [n \in Node |-> EmptyTable]], links)

Row  == Wired(<< <<second, first>>, <<second, third>> >>)
Ring == Wired(<< <<second, first>>, <<third, second>>, <<first, third>> >>)

RowNet == Row.net
RowTable == Row.table
RingNet == Ring.net
RingTable == Ring.table
=============================================================================
