SPECIFICATION FairSpec
CONSTANTS
    Arrivals = {a1}
    Bits = {1, 2, 3, 4, 5}
    Dsts = {"mc", "h2", "h3", "h9"}
    Ports = {1, 3, 4}
    HostPort = 1
    NullPort = 0
    BfrId = 3
    BfrBm = {3}
    Bift <- MCBift
    BierIngress <- MCBierIngress
    Ipv4Lpm <- MCIpv4Lpm
    Neighbours = {"h3", "s2"}
    SendFrame = {1}
    Preinstalled = 0
INVARIANTS
    ServedOnceWhileInstalling
PROPERTIES
    ServedAfterInstall
    HeaderConfinedOnceFilled
CHECK_DEADLOCK FALSE
