SPECIFICATION Spec
CONSTANTS
    Limit = 1
    Window = 3
    Second = 2
    MaxTime = 5
    Sessions = {s1,s2}
    Ids = {1,2}
    Retention = 2
    PageSize = 1
    MaxOthers = 1
SYMMETRY Symmetry
CHECK_DEADLOCK FALSE
INVARIANTS NeverTooMany WalkIsComplete NoOrphans RetrySucceeds
