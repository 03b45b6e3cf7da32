SPECIFICATION Spec
CONSTANTS
    Devices = {d1}
    Codes = {0, 1, 4}
    None = None
    MaxBatches = 3
PROPERTIES
    StartIsRecorded
