SPECIFICATION Spec
CONSTANTS
    Steps = 2
    Decimation = 8
    Raw <- MCRawSteady
    Shifts = {8}
    MaxValues = 40
INVARIANTS
    HistogramStandsForAll
CHECK_DEADLOCK FALSE
