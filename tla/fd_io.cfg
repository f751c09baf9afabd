\* Eight bytes over a connection that holds three.
SPECIFICATION FairSpec
CONSTANTS
    Total = 8
    Writes = 2
    Reads = 4
    WriteEnd <- MCWriteEnd
    ReadEnd <- MCReadEnd
    Capacity = 3
INVARIANTS TypeOK ResultTellsTheField BuffersAreApart
PROPERTIES IsAFieldStream PacketsArrive
CHECK_DEADLOCK FALSE
