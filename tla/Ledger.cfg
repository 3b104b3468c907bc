SPECIFICATION Spec
CONSTANTS
    Origin = "RUN"
    Rate = 1
    Zones = {"naive", "aware"}
    MaxLag = 1
    MAX_ATTEMPTS = 2
    MaxEvents = 4
    MaxTime = 2
    MaxFaults = 2
INVARIANTS
    TypeOK
    ChargesAreBacked
    LossesAreCharged
    RowsFollowTheLog
    UndisturbedLedgerIsExact
CHECK_DEADLOCK FALSE
