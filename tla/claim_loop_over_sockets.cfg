\* The loop over pending_downloads reaches what is not a socket of the list.
SPECIFICATION Spec
CONSTANTS
    Cell = {c1, c2, c3, c4}
    Null = Null
    Value = {x, y}
INVARIANT LoopsReadTheirList
CHECK_DEADLOCK FALSE
