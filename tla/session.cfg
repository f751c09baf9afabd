\* A servent, its neighbour, and a process that connects as a second client or to join
\* through 127.0.0.1.
SPECIFICATION FairSpec
CONSTANTS
    Server = Server
    Own = Own
    Far = Far
    Others = {d}
    Node = {Server, Own, Far, d}
    NoNode = NoNode
    MaxConn = 3
    MaxAttempts = 2
    MaxRequests = 1
INVARIANTS TypeOK AgreeOnSession  
PROPERTIES  HandshakesEnd 
CHECK_DEADLOCK FALSE
