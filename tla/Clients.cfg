SPECIFICATION FairSpec
CONSTANTS
    Regs = {r1, r2}
    Unmonitored = {}
    Variants <- OneOrNull
    Protocols = {"modbus", "opcua"}
    StaleLimit = 1
    MayHalfOpen = TRUE
    MaxNotes = 2
    None = None
INVARIANTS
    TypeOK
    CacheComplete
    BlindBounded
PROPERTIES
    ImplementsLink
    Converges
