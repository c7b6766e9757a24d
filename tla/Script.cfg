SPECIFICATION Spec
CONSTANTS
    t1 = t1
    f1 = f1
    f2 = f2
    x1 = x1
    Timers <- MCTimers
    Funcs <- MCFuncs
    Requests <- MCRequests
    Files <- MCFiles
INVARIANTS
    TimersDisciplined
    RequestsOwned
    StreamsOwned
PROPERTIES
    Answered
CHECK_DEADLOCK FALSE
