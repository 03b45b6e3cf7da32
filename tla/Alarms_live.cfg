SPECIFICATION FairSpec
CONSTANTS
    Devices = {d1}
    Users = {u1}
    ALARM_THRESHOLDS <- OneThreshold
    Values = {80, 90, 100}
    Durations = {0}
    MAX_SHELVE_MINUTES = 1
    None = None
    DbMayFail = FALSE
    MaxAlarms = 2
INVARIANTS
    NoDuplicateVisible
PROPERTIES
    SafeValueClears
    CriticalValueAlarms
