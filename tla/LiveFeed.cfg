SPECIFICATION FairSpec
CONSTANTS
    Stores = {k1, k2}
    Sockets = {s1, s2}
    MaxReading = 2
    Cap = 1
    Wire = 1
    MayHalfOpen = TRUE
    None = None
INVARIANTS
    TypeOK
    OneStore
PROPERTIES
    Forward
    Converges
    RejectedEnds
    SocketsEnd
