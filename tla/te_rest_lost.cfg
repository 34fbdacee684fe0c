SPECIFICATION FairSpec
CONSTANTS
    Links <- FrrLinks
    NumSwitches = 8
    Hosts <- DemoHosts
    Groups <- ForkGroup
    Entries <- ForkEntries
    Source <- ForkSource
    Fragile = {4}
    Monitored = {3}
    Detoured <- ForkDetoured
    Covered <- ForkCovered
    FilledBefore <- ForkFilledBefore
    Late = {}
PROPERTY HealthyMembersServed
CHECK_DEADLOCK FALSE
