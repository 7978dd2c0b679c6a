SPECIFICATION Spec
CONSTANTS
    Steps = 1
    Decimation = 3
    Raw <- MCRaw
    Shifts = {0, 1, 7, 8}
    MaxValues = 5
INVARIANTS
    TypeOK
    SaturationCounted
    ReportsAgree
CHECK_DEADLOCK FALSE
