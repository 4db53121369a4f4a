\* Every setting: frames, a full registry, re-runs, lost answers.
SPECIFICATION Spec
CONSTANTS
    MaxRoots = 2
    Settings <- AllSettings
INVARIANTS ObjectsKnown ValuesCurrent
PROPERTIES WatchesShown
CHECK_DEADLOCK FALSE
