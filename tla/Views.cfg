SPECIFICATION Spec
CONSTANTS
    Alids = {1001}
    NoClick = NoClick
    MaxLag = 1
    MAX_ATTEMPTS = 2
    MaxBatches = 4
    MaxTime = 2
    MaxFaults = 2
INVARIANTS
    TypeOK
    StateViewConverges
    AlarmViewConverges
CHECK_DEADLOCK FALSE
