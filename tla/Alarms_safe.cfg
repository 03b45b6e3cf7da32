SPECIFICATION Spec
CONSTANTS
    Devices = {d1}
    Users = {u1, u2}
    ALARM_THRESHOLDS <- BothThresholds
    Values = {80, 90, 1400}
    Durations = {0, 3}
    MAX_SHELVE_MINUTES = 1
    None = None
    DbMayFail = TRUE
    MaxAlarms = 1
SYMMETRY UserSymmetry
INVARIANTS
    TypeOK
    RowsConsistent
PROPERTIES
    ClearJustified
