SPECIFICATION Spec
CONSTANTS
    Handlers = {p1, p2}
    Stoppers = {}
    Admins = {}
    NoOne = NoOne
    DbMayFail = FALSE
INVARIANTS
    PiIsHeard
CHECK_DEADLOCK FALSE
