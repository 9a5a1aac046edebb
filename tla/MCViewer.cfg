SPECIFICATION Spec
CONSTANTS
    HistoryLimit = 1
    MaxEvents = 3
    MaxLosses = 2
    MaxVisits = 1
CHECK_DEADLOCK FALSE
INVARIANTS
    ShownIsFaithful
    PageAgrees
PROPERTIES
    StaysConnected
