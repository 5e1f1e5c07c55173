SPECIFICATION LiveSpec
CONSTANTS
    handler = handler
    app1 = app1
    app2 = app2
    None = None
    Threads <- MCThreads
    Handlers <- MCHandlers
    Deadline <- MCDeadline
    IdLimit = 3
    MaxCalls = 3
    MaxPops = 1
    MaxPauses = 1
CHECK_DEADLOCK FALSE
INVARIANTS OwnOperation OwnAnswer
PROPERTIES PauseEnds
