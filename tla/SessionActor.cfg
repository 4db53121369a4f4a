\* A tab and a tool, in every setting, with fairness.
SPECIFICATION FairSpec
CONSTANTS
    tab = tab
    tool = tool
    Clients = {tab, tool}
    Tabs = {tab}
    Files = {hello}
    NoFile = nofile
    MaxWalk = 2
    Settings <- AllSettings
INVARIANTS SettledAgreement BrowserAgrees NoOldStack
PROPERTIES ResumesShownStop EventsShown WalkEnds StopsShown
CHECK_DEADLOCK FALSE
