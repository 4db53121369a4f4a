\* What gdb writes, cut or mixed with output; and the paths it reports, in a project with two files of one name.
SPECIFICATION ReadSpec
CONSTANTS
    Lines <- MCLines
    Noise <- MCNoise
    MaxToken = 999
    Root <- MCRoot
    Files <- MCFiles
    Stacks <- MCStacks
    Rewrites <- MCRewrites
    Dirs <- MCDirs
    MaxRules = 2
INVARIANTS RoundTrip CutNeverLies ChoiceTakesEffect
CHECK_DEADLOCK FALSE
