SPECIFICATION FairSpec
CONSTANTS
    MaxRows = 3
    MaxFrames = 2
    FrameKeys = {k1, k2}
    Strangers = {2}
    QueueSize = 2
    Window = 1
    MailboxSize = 1
    TailBatch = 2
    MaxStarts = 2
INVARIANTS
    TypeOK
    EverySignalIsAccountedFor
    RowsInOrderFramesOnce
    ShutdownLosesOnlyTheQueue
PROPERTIES
    ShutdownEnds
CHECK_DEADLOCK FALSE
