SPECIFICATION FairSpec
CONSTANTS
    Links <- FrrLinks
    NumSwitches = 8
    Hosts <- DemoHosts
    Groups <- ReachGroups
    Entries <- ReachEntries
    Source <- ReachSource
    Fragile = {6}
    Monitored = {3, 6}
    Detoured <- ReachDetoured
    Covered <- ReachCovered
    FilledBefore <- ReachFilledBefore
    Late <- FailingLate
    Reach <- ReachOfGroups
INVARIANTS
    TypeOK
    AtMostOncePerHost
    NoThirdHeader
    KeptApart
    NoneForgotten
PROPERTIES
    AllMembersServed
    HealthyMembersServed
    Drains
CHECK_DEADLOCK FALSE
