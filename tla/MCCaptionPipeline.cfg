SPECIFICATION Spec
CONSTANTS
    MaxChunks = 4
    RingMax = 2
    QueueMax = 2
    LastN = 2
    DbMayFail = TRUE
INVARIANTS
    OncePerConnection
    RepeatsAreReplays
    OnlyShownIsSuppressed
    HistoryKeepsUp
PROPERTIES
    TentativeRespectsPause
    EndIsFinal
CHECK_DEADLOCK FALSE
