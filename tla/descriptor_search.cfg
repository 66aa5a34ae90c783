CONSTANTS
    T = T
    N = N
    M = M
    X = X
    NoMessage = NoMessage
    Message <- MCMessage
    Search <- MCSearch
SPECIFICATION FairSpec
INVARIANTS
    TypeOK
    NoDuplicates
    ReturnsWanted
    SearchedOnce
PROPERTIES
    Termination
    SelectsWanted
CHECK_DEADLOCK FALSE
