SPECIFICATION Spec
CONSTANTS
    Devices = {d1}
    Users = {u1}
    ALARM_THRESHOLDS <- OneThreshold
    Values = {80, 100}
    Durations = {0}
    MAX_SHELVE_MINUTES = 1
    None = None
    DbMayFail = FALSE
    MaxAlarms = 1
PROPERTIES
    ClearedIsNotShelved
