\* What a request leaves behind that was repeated and then ran out of time.
SPECIFICATION KunaSpec
CONSTANTS
    Callers = {stack, pane}
    Functions = {f, g}
    NoFunction = nothing
    Index = index
    MaxCalls = 2
    MaxFaults = 1
INVARIANT OneAtATime
CHECK_DEADLOCK FALSE
