\* A tab that may read nothing comes and goes during broadcasts; the actor may answer nothing.
SPECIFICATION FairSpec
CONSTANTS
    Conns = {browser}
    Actor = actor
    Pumps = {pump}
    Main = main
    QueueSize = 1
    MaxEvents = 2
    MaxOutput = 1
    MaxSeq = 2
    MaxAsked = 1
    ShutsDown = TRUE
INVARIANT EveryEventArrives
PROPERTY BroadcastEnds
CHECK_DEADLOCK FALSE
