SPECIFICATION Spec
CONSTANTS
    c1 = c1
    c2 = c2
    Clicks = {c1, c2}
    Issued = {"START", "STOP", "RESET", "ABORT"}
    NoClick = NoClick
    SensorAlids = {1001}
    AbortAlid = 9999
    MailboxSize = 1
    HeartbeatInterval = 2
    Gaps = {1}
    MaxTime = 2
    Faults = {"append", "crash", "stop"}
SYMMETRY ClickSymmetry
INVARIANTS
    TypeOK
    StateIsCommitted
    ChainContiguous
    AlarmOpenIffAlarm
    HoldMatchesState
    ClickAudit
PROPERTY ImplementsHeldTool
CHECK_DEADLOCK FALSE
