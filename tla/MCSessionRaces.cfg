SPECIFICATION FairSpec
CONSTANTS
    Handlers = {p1, p2}
    Stoppers = {stop1}
    Admins = {}
    NoOne = NoOne
    DbMayFail = TRUE
INVARIANTS
    TypeOK
    EndIsExclusive
    CurrentIsRunning
    EndAnnouncedLast
    NotAbandoned
PROPERTIES
    NoAudioAfterStop
    EndingCompletes
    PiGetsSession
CHECK_DEADLOCK FALSE
