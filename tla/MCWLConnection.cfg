SPECIFICATION FairSpec
CONSTANTS
    Conns = {c1, c2, c3}
    NoConn = NoConn
INVARIANTS
    SingleSocket
    ReadyMatchesSocket
    NothingLeftBehind
PROPERTIES
    DropsOnlyItsOwn
    BothServed
    StopCompletes
    ImplementsLink
CHECK_DEADLOCK FALSE
