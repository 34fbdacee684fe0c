SPECIFICATION FairSpec
CONSTANTS
    Ports = {2, 3, 5}
    NumSwitches = 8
    Hosts = 1
    Switch = 3
    Regimes <- MCRegimes
    MaxChanges = 6
INVARIANTS
    TypeOK
    HandleKnown
    NoFalseAlarm
    Protected
PROPERTIES
    OrphanStays
    Settles
CHECK_DEADLOCK FALSE
