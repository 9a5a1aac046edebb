SPECIFICATION Spec
CONSTANTS
    Talks = {"t1", "t2", "t3"}
    Start <- MCStart
    End <- MCEnd
    MaxTime = 4
    MaxChanges = 2
    MaxFailures = 2
CHECK_DEADLOCK FALSE
PROPERTIES
    PageCatchesUp
