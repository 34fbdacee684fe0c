SPECIFICATION FairSpec
CONSTANTS
    Networks <- GeneratedRings
    MaxLosses = 1
PROPERTY Drains
CHECK_DEADLOCK FALSE
