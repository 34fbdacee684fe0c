SPECIFICATION FairSpec
CONSTANTS
    Networks <- CommittedRings
    MaxLosses = 1
INVARIANTS
    Disjoint
    AtMostOncePerHost
    Accounted
    OneCopyPerLink
PROPERTIES
    Drains
CHECK_DEADLOCK FALSE
