\* Any tools, a person at the browser, events that overflow a channel, a connection that breaks; and how a bridge gets in.
SPECIFICATION MCFairSpec
CONSTANTS
    WatchCap = 2
    WireCap = 3
    Settings <- AllSettings
    Joiners = {bridge, printer}
    Printers = {printer}
    Owner = browser
    MaxServers = 2
    MaxLinks = 4
INVARIANTS NothingOverlooked LinkGoodOnce
PROPERTIES NewerStop ToolsEnd
CHECK_DEADLOCK FALSE
