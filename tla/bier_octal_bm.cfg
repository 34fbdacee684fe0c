SPECIFICATION FairSpec
CONSTANTS
    Arrivals = {a1}
    Bits = {1, 2, 3, 4, 5}
    Dsts = {"mc", "h2", "h3", "h9"}
    Ports = {1, 3, 4}
    HostPort = 1
    NullPort = 0
    BfrId = 2
    BfrBm <- S2BfrBm
    Bift <- S2Bift
    BierIngress <- MCBierIngress
    Ipv4Lpm <- MCIpv4Lpm
    Neighbours = {"h2", "s3"}
    SendFrame = {1}
    Preinstalled = 10
INVARIANT OwnBitCleared
CHECK_DEADLOCK FALSE
