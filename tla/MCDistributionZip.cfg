SPECIFICATION Spec
CONSTANTS
    recv = recv
    other = other
    Viewers = {v1, v2, v3}
    Streams = {s1}
    Callers <- MCCallers
    MaxPerIp = 2
    QueueMax = 2
    MaxCasts <- MCCasts
SYMMETRY Symmetry
INVARIANTS
    HealthyStaySubscribed
CHECK_DEADLOCK FALSE
