SPECIFICATION Spec
CONSTANTS
    Alids = {1001}
    NoClick = NoClick
    MaxLag = 0
    MAX_ATTEMPTS = 2
    MaxBatches = 2
    MaxTime = 2
    MaxFaults = 0
INVARIANT AlarmsClear
CHECK_DEADLOCK FALSE
