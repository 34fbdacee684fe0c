SPECIFICATION Spec
CONSTANTS
    Networks <- MCNetworks
    Ttls = {1, 64}
INVARIANTS
    StartedRight
    OnlyAddressee
    FewHops
PROPERTY
    Reached
