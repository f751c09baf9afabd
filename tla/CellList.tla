------------------------------ MODULE CellList ------------------------------
(***************************************************************************)
(* One list of src/list.c, cell by cell, with the two ways in which        *)
(* src/server.c uses it: an entry is pushed at the end, and a loop walks   *)
(* the list and removes entries on the way.                                *)
(*                                                                         *)
(* handle_pending_requests removes every entry (~mayKeep).                 *)
(* handle_awaiting_sockets and handle_pending_downloads keep those whose   *)
(* socket has nothing to read (mayKeep); update_log_timers is of           *)
(* that kind too, over a list nothing is ever pushed to.                   *)
(*                                                                         *)
(* No loop pushes to the list it walks.  Once a cell has been read after   *)
(* it was freed anything may happen: wild is set and the model stops.      *)
(***************************************************************************)
EXTENDS Naturals, Sequences, FiniteSets

CONSTANTS Cell,    \* addresses malloc can return for a cell_t
          Null,
          Value    \* what entries hold: sockets, requests

ASSUME CellListAssumption == Null \notin Cell /\ IsFiniteSet(Cell)

VARIABLES mayKeep,  \* whether the loops over this list may leave entries in place
          head,     \* list->head
          next,     \* cell_t.next
          data,     \* *cell_t.data
          live,     \* the cells that are allocated
          walking,  \* a loop is at work
          prev, at, \* its prev and head
          wild      \* a freed cell has been read

vars == <<mayKeep, head, next, data, live, walking, prev, at, wild>>

Init ==
    /\ mayKeep \in BOOLEAN
    /\ head = Null
    /\ next \in [Cell -> {Null}]
    /\ data \in [Cell -> Value]
    /\ live = {}
    /\ walking = FALSE
    /\ prev = Null
    /\ at = Null
    /\ wild = FALSE

\* list->head can be followed.
HeadIsSound == head \in live \cup {Null}

\* The end of the list.  There is one list, so at most one cell has no successor.
LastCells == {c \in live : next[c] = Null}

\* list_push_back, between walks.
Push(v) ==
    /\ ~walking /\ ~wild
    /\ \/ /\ ~HeadIsSound
          /\ wild' = TRUE
          /\ UNCHANGED <<head, next, data, live>>
       \/ /\ HeadIsSound
          /\ \E c \in Cell \ live :
                /\ live' = live \cup {c}
                /\ data' = [data EXCEPT ![c] = v]
                /\ head' = IF head = Null THEN c ELSE head
                /\ next' = [d \in Cell |-> IF d = c THEN Null
                                           ELSE IF head # Null /\ d \in LastCells THEN c
                                           ELSE next[d]]
          /\ UNCHANGED wild
    /\ UNCHANGED <<mayKeep, walking, prev, at>>

\* A loop starts, and reads the first cell.
Begin ==
    /\ ~walking /\ ~wild
    /\ IF HeadIsSound
       THEN walking' = TRUE /\ at' = head /\ UNCHANGED wild
       ELSE wild' = TRUE /\ UNCHANGED <<walking, at>>
    /\ UNCHANGED <<mayKeep, head, next, data, live, prev>>

\* The entry stays: prev = head; head = head->next.
Keep ==
    /\ walking /\ at # Null
    /\ mayKeep
    /\ prev' = at
    /\ at' = next[at]
    /\ UNCHANGED <<mayKeep, head, next, data, live, walking, wild>>

\* Faulty variant: the previous cell is not told of its new successor.
RemoveUnlinked ==
    /\ walking /\ at # Null
    /\ head' = IF prev = Null /\ next[at] = Null THEN Null ELSE head
    /\ live' = live \ {at}
    /\ at' = next[at]
    /\ UNCHANGED <<mayKeep, next, data, walking, prev, wild>>

\* Faulty variant: the list is not told that its last cell is gone.
RemoveKeepingHead ==
    /\ walking /\ at # Null
    /\ next' = IF prev = Null THEN next ELSE [next EXCEPT ![prev] = next[at]]
    /\ live' = live \ {at}
    /\ at' = next[at]
    /\ UNCHANGED <<mayKeep, head, data, walking, prev, wild>>

\* list_pop_at.  Without a previous cell, list->head is written only if the
\* removed cell is the last one.
Remove ==
    /\ walking /\ at # Null
    /\ IF prev # Null
       THEN next' = [next EXCEPT ![prev] = next[at]] /\ UNCHANGED head
       ELSE head' = (IF next[at] = Null THEN Null ELSE head) /\ UNCHANGED next
    /\ live' = live \ {at}
    /\ at' = next[at]
    /\ UNCHANGED <<mayKeep, data, walking, prev, wild>>

\* Faulty variant: prev is not reset before the next loop.
EndKeepingPrev ==
    /\ walking /\ at = Null
    /\ walking' = FALSE
    /\ UNCHANGED <<mayKeep, head, next, data, live, prev, at, wild>>

\* The end of a loop: prev and head go out of scope.
End ==
    /\ walking /\ at = Null
    /\ walking' = FALSE
    /\ prev' = Null
    /\ UNCHANGED <<mayKeep, head, next, data, live, at, wild>>

\* list_destroy; what follows is a new list from list_create.
Destroy ==
    /\ ~walking /\ ~wild
    /\ IF HeadIsSound
       THEN head' = Null /\ live' = {} /\ UNCHANGED wild
       ELSE wild' = TRUE /\ UNCHANGED <<head, live>>
    /\ UNCHANGED <<mayKeep, next, data, walking, prev, at>>

Next == (\E v \in Value : Push(v)) \/ Begin \/ Keep \/ Remove \/ End \/ Destroy

Spec == Init /\ [][Next]_vars

-----------------------------------------------------------------------------
TypeOK ==
    /\ mayKeep \in BOOLEAN
    /\ head \in Cell \cup {Null}
    /\ next \in [Cell -> Cell \cup {Null}]
    /\ data \in [Cell -> Value]
    /\ live \in SUBSET Cell
    /\ walking \in BOOLEAN
    /\ prev \in Cell \cup {Null}
    /\ at \in Cell \cup {Null}
    /\ ~walking => prev = Null /\ at = Null
    /\ wild \in BOOLEAN

\* A walk has removed the first cell and gone on to keep another.
Severed == wild \/ (~HeadIsSound /\ (~walking \/ prev # Null))

\* The cells from one to another, the last excluded, in order.
Cells(from, to) ==
    LET cell[k \in Nat] == IF k = 0 THEN from
                           ELSE IF cell[k - 1] = Null THEN Null ELSE next[cell[k - 1]]
        places == {k \in 1 .. Cardinality(Cell) : \A j \in 1 .. k : cell[j - 1] \notin {to, Null}}
    IN  [k \in places |-> cell[k - 1]]

Passed == IF prev = Null THEN << >> ELSE Cells(head, at)
ToVisit == Cells(IF walking THEN at ELSE head, Null)

\* A list whose loops remove every entry is never read after it was freed, although
\* list_pop_at leaves its head dangling all along such a loop.
NoWildRead == ~mayKeep => ~wild

\* "Loop over the sockets that have a download initiated through them"
\* (src/server.c:194): a loop reads the cells of its list and no others.
LoopsReadTheirList == ~wild

\* A loop that has started never stands on a freed cell, nor remembers one as prev,
\* although list_pop_at frees one under its feet: what goes wrong goes wrong between
\* two loops.
WalkStandsOnLiveCells == walking => {prev, at} \subseteq live \cup {Null}

\* No cell is lost and none is freed too soon: the cells that are allocated are
\* those the loop kept and those it has still to visit, unless the list is severed.
NothingIsLost ==
    \/ Severed
    \/ live = {Passed[k] : k \in DOMAIN Passed} \cup {ToVisit[k] : k \in DOMAIN ToVisit}

-----------------------------------------------------------------------------
\* The list as its users see it.
Contents(cells) == [k \in DOMAIN cells |-> data[cells[k]]]

Seen == INSTANCE AbstractList WITH
    kept <- IF Severed THEN << >> ELSE Contents(Passed),
    mayKeep <- mayKeep,
    rest <- IF Severed THEN << >> ELSE Contents(ToVisit),
    walking <- walking,
    beheaded <- walking /\ prev = Null /\ ~HeadIsSound,
    broken <- Severed

\* The cells implement a sequence, and stop doing so only when a loop that has
\* removed the first entry keeps another one.
IsAList == Seen!Spec
=============================================================================
