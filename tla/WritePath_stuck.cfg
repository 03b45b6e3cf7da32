SPECIFICATION FairSpec
CONSTANTS
    Writes = {w1, w2}
    Admin = admin
    ReadOnly = {}
    Capacity = 1
    MayLoseReply = FALSE
    MayHangUp = FALSE
    None = None
PROPERTIES
    RemoveEnds
