\* Every kind of command line, two programs, one with a sidecar.
SPECIFICATION FairSpec
CONSTANTS
    Programs = {hello, tree}
    NoProgram = none
    Own = own
    HasSidecar = {hello}
    MaxStarts = 3
    MaxLoads = 2
    Configs <- AllConfigs
INVARIANTS OneStory NoOrphan Describes AnchorOfClient PaneCurrent
PROPERTIES ProcessesEnd
CHECK_DEADLOCK FALSE
