--------------------------- MODULE NeighbourTable ---------------------------
(***************************************************************************)
(* server_t.neighbours and server_t.nb_neighbours: a fixed array of        *)
(* sockets, NoSock (-1 in the code) in the free entries, and a counter     *)
(* that is kept beside it and never recomputed from it.  The operators are *)
(* the two functions that write them, add_neighbour and handle_leave.      *)
(***************************************************************************)
EXTENDS Network

CONSTANT MaxNeighbours    \* MAX_NEIGHBOURS

ASSUME MaxNeighboursAssumption == MaxNeighbours \in Nat \ {0}

Slot == 1 .. MaxNeighbours

NeighbourTables == [sock : [Slot -> Socket \cup {NoSock}], nb : Int]

EmptyTable == [sock |-> [i \in Slot |-> NoSock], nb |-> 0]

LiveSlots(t) == {i \in Slot : t.sock[i] # NoSock}

Sockets(t) == {t.sock[i] : i \in LiveSlots(t)}

FirstFree(t) == CHOOSE i \in Slot : /\ t.sock[i] = NoSock
                                    /\ \A j \in Slot : j < i => t.sock[j] # NoSock

\* Faulty variants, which the properties must notice: the test for a full table
\* off by one; the counter taken for the first free entry.
AddNeighbourFullTooSoon(t, s) ==
    IF t.nb >= MaxNeighbours - 1 \/ LiveSlots(t) = Slot
    THEN t
    ELSE [sock |-> [t.sock EXCEPT ![FirstFree(t)] = s], nb |-> t.nb + 1]

AddNeighbourAtCounter(t, s) ==
    IF t.nb = MaxNeighbours
    THEN t
    ELSE [sock |-> [t.sock EXCEPT ![t.nb + 1] = s], nb |-> t.nb + 1]

\* A table that the counter says is full is left as it is, and so is one whose
\* entries are all taken; the caller is not told.
AddNeighbour(t, s) ==
    IF t.nb = MaxNeighbours \/ LiveSlots(t) = Slot
    THEN t
    ELSE [sock |-> [t.sock EXCEPT ![FirstFree(t)] = s], nb |-> t.nb + 1]

\* Faulty variant: the counter is not decremented.
DropNeighbourUncounted(t, i) == [sock |-> [t.sock EXCEPT ![i] = NoSock], nb |-> t.nb]

DropNeighbour(t, i) == [sock |-> [t.sock EXCEPT ![i] = NoSock], nb |-> t.nb - 1]

\* What the two functions are to keep: the counter counts the live entries, and
\* no socket is in two of them.
Accounted(t) ==
    /\ t \in NeighbourTables
    /\ t.nb = Cardinality(LiveSlots(t))
    /\ \A i, j \in LiveSlots(t) : t.sock[i] = t.sock[j] => i = j

\* The enumerations of a set of slots in the order of the code's for loops:
\* there is exactly one.
InOrder(S) == {e \in [1 .. Cardinality(S) -> S] :
                  \A i, j \in 1 .. Cardinality(S) : i < j => e[i] < e[j]}
=============================================================================
