CONSTANTS
    T = T
    N = N
    M = M
    X = X
    NoMessage = NoMessage
    Message <- MCMessage
    Search <- LinkedListSearch
SPECIFICATION FairSpec
PROPERTY
    SearchEnds
CHECK_DEADLOCK FALSE
