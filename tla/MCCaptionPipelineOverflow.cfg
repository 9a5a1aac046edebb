SPECIFICATION Spec
CONSTANTS
    MaxChunks = 4
    RingMax = 2
    QueueMax = 2
    LastN = 2
    DbMayFail = TRUE
INVARIANTS
    NoCaptionTwice
CHECK_DEADLOCK FALSE
