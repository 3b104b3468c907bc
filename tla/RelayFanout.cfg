SPECIFICATION Spec
CONSTANTS
    Producers = {p1}
    NumHandlers = 2
    MAX_ATTEMPTS = 2
    BatchSize = 2
    MaxSeq = 3
    MaxFaults = 1
    Faults <- AllFaults
INVARIANTS
    TypeOK
    DeadOnlyAfterMaxAttempts
    RepeatsHaveACause
PROPERTY ImplementsDelivery
CHECK_DEADLOCK FALSE
