SPECIFICATION FairSpec
CONSTANTS
    Writes = {w1, w2, w3}
    Admin = admin
    ReadOnly = {w3}
    Capacity = 1
    MayLoseReply = TRUE
    MayHangUp = TRUE
    None = None
INVARIANTS
    TypeOK
    AuditIsTrue
PROPERTIES
    AnsweredWhenReachable
    ImplementsQueue
