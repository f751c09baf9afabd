\* Three servents in a ring, one of them the first, the others unsure of their own
\* address; one search, and one departure at any time.
SPECIFICATION FairSpec
CONSTANTS
    first = first
    second = second
    third = third
    Node = {first, second, third}
    NoNode = NoNode
    Junk = Junk
    Unsure = {second, third}
    StartNet <- RingNet
    StartTable <- RingTable
    MaxConn = 3
    MaxNeighbours = 2
    DefaultTtl = 1
    MaxSearch = 1
    MaxLeavers = 1
INVARIANTS
    TypeOK
    
    QuestionsNeverComeHome
    MachinesListedOnce
PROPERTIES
    SearchesDieOut
    
CHECK_DEADLOCK FALSE
