SPECIFICATION FairSpec
CONSTANTS
    Devices = {d1}
    Codes = {0, 1, 2, 4}
    None = None
    MaxBatches = 3
INVARIANTS
    TypeOK
    AtMostOneRunning
    BatchInv
PROPERTIES
    TerminalIsFinal
    CompletionCloses
