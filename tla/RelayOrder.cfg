SPECIFICATION FairSpec
CONSTANTS
    Producers = {p1, p2}
    NumHandlers = 1
    MAX_ATTEMPTS = 2
    BatchSize = 2
    MaxSeq = 3
    MaxFaults = 1
    Faults <- AllFaults
PROPERTIES
    OvertakenOnlyAfterFailure
    EveryEventIsWorkedOff
CHECK_DEADLOCK FALSE
