SPECIFICATION FairSpec
CONSTANTS
    Arrivals = {a1, a2}
    Bits = {1, 2, 3, 4, 5}
    Ports = {1, 3, 4}
    HostPort = 1
    BfrId = 2
    Bift <- MCBift
INVARIANTS
    ServedOnce
    NoneLost
CHECK_DEADLOCK FALSE
