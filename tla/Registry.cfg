SPECIFICATION FairSpec
CONSTANTS
    d1 = d1
    Devices = {d1, d2}
    Configs <- UpToTwice
    Handlers = {h1, h2}
    MayHangUp = TRUE
    None = None
    MaxTasks = 2
INVARIANTS
    TypeOK
    OnePollerIfSerial
    AgreeIfSerial
    AddedSurvive
PROPERTIES
    RequestsFinish
