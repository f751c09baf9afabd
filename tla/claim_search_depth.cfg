\* Three servents in a row: a request does not get past the first that reads it.
SPECIFICATION FairSpec
CONSTANTS
    first = first
    second = second
    third = third
    Node = {first, second, third}
    NoNode = NoNode
    Junk = Junk
    Unsure = {}
    StartNet <- RowNet
    StartTable <- RowTable
    MaxConn = 2
    MaxNeighbours = 2
    DefaultTtl = 2
    MaxSearch = 1
    MaxLeavers = 0
PROPERTY FoundTwoLinksAway
CHECK_DEADLOCK FALSE
