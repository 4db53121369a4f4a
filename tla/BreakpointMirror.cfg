\* Every setting: deferred starts, the console, timeouts, a gdb that is replaced.
SPECIFICATION Spec
CONSTANTS
    MaxQueue = 2
    Settings <- AllSettings
INVARIANTS MirrorAgrees UsersBreakpointsKept NamesPlaced RunToCleansUp
CHECK_DEADLOCK FALSE
