SPECIFICATION Spec
CONSTANTS
    Handlers = {p1, p2}
    Stoppers = {}
    Admins = {a1, a2}
    NoOne = NoOne
    DbMayFail = TRUE
INVARIANTS
    StatusIsTrue
    OpenRowIsActive
    PauseHonoured
PROPERTIES
    LiveIsTrue
CHECK_DEADLOCK FALSE
SYMMETRY Symmetry
