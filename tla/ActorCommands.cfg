SPECIFICATION Spec
CONSTANTS
    c1 = c1
    Clicks = {c1}
    Issued = {"START", "STOP", "PAUSE", "RESUME", "RESET", "ABORT"}
    NoClick = NoClick
    SensorAlids = {1001, 1002}
    AbortAlid = 9999
    MailboxSize = 2
    HeartbeatInterval = 2
    Gaps = {1}
    MaxTime = 2
    Faults = {}
INVARIANT CommandsApplyWhereAllowed
CHECK_DEADLOCK FALSE
