SPECIFICATION FairSpec
CONSTANTS
    Links <- FrrLinks
    NumSwitches = 8
    Hosts <- DemoHosts
    Groups <- TunnelGroup
    Entries <- TunnelEntries
    Source <- TunnelSource
    Fragile = {6}
    Monitored = {3}
    Detoured <- TunnelDetoured
    Covered <- TunnelCovered
    FilledBefore <- TunnelFilledBefore
    Late = {}
PROPERTY AllMembersServed
CHECK_DEADLOCK FALSE
