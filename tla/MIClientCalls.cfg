\* Crashes, abandoned calls and late replies; a waiting actor drains nothing while gdb fills the pipe and the queue.
SPECIFICATION FairSpec
CONSTANTS
    actor = actor
    tab = tab
    closer = closer
    Callers = {actor, tab, closer}
    Lockers = {actor, tab}
    Actor = actor
    Closer = closer
    Gdb = gdb
    NoCaller = none
    MaxCalls <- TwoAndOne
    MaxAsync = 2
    QueueSize = 1
    PipeSize = 1
    StdinSize = 1
    MaxTombs = 1
INVARIANTS TypeOK OwnReply NothingLost
PROPERTIES CallsEnd InOrder ImplementsCalls
CHECK_DEADLOCK FALSE
