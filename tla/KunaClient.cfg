\* The page forgets the binary or drops the connection, and may never answer.
SPECIFICATION KunaFairSpec
CONSTANTS
    Callers = {stack, pane}
    Functions = {f, g}
    NoFunction = nothing
    Index = index
    MaxCalls = 2
    MaxFaults = 2
INVARIANT OwnAnswer
PROPERTY CallsAndCloseEnd
CHECK_DEADLOCK FALSE
