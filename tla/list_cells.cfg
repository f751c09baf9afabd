\* A list whose loops remove every entry, and one whose loops may keep some.
SPECIFICATION Spec
CONSTANTS
    Cell = {c1, c2, c3, c4}
    Null = Null
    Value = {x, y}
INVARIANTS TypeOK NoWildRead WalkStandsOnLiveCells NothingIsLost
PROPERTY IsAList
CHECK_DEADLOCK FALSE
