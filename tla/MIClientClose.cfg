\* Close at any moment of the actor's call, with the fairness of the goroutines alone: gdb may never read again.
SPECIFICATION WedgedSpec
CONSTANTS
    actor = actor
    tab = tab
    closer = closer
    Callers = {actor, closer}
    Lockers = {actor}
    Actor = actor
    Closer = closer
    Gdb = gdb
    NoCaller = none
    MaxCalls <- OneAndClose
    MaxAsync = 0
    QueueSize = 1
    PipeSize = 1
    StdinSize = 1
    MaxTombs = 1
PROPERTIES CloseEnds
CHECK_DEADLOCK FALSE
