SPECIFICATION Spec
CHECK_DEADLOCK FALSE
INVARIANTS NothingLeftOpen
PROPERTIES StreamsAgain StopCompletes
