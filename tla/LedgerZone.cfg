SPECIFICATION Spec
CONSTANTS
    Origin = "RUN"
    Rate = 1
    Zones = {"aware"}
    MaxLag = 0
    MAX_ATTEMPTS = 2
    MaxEvents = 3
    MaxTime = 2
    MaxFaults = 0
INVARIANT DowntimeEnds
CHECK_DEADLOCK FALSE
