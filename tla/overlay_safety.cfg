\* Two servents join a first machine; one servent dies, two may be asked to leave.
SPECIFICATION Spec
CONSTANTS
    f = f
    others = {a, b}
    NoNode = NoNode
    Unreachable = Unreachable
    Node <- MCNode
    Contact <- MCContact
    MinNeighbours = 2
    MaxNeighbours = 2
    JoinMaxAttempts = 1
    MaxConn = 8
    MaxLeavers = 2
    MaxCrashed = 1
SYMMETRY Symmetry
INVARIANTS TypeOK SocketAccounting AnswersAreTrue OutgoingLinksAreMutual DeparturesAreAnnounced  LinksInOrder
PROPERTY HangsAreForGood
CHECK_DEADLOCK FALSE
