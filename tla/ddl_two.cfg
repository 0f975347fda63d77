SPECIFICATION Spec
CONSTANTS
    c1 = c1
    c2 = c2
    u1 = u1
    u2 = u2
    h1 = h1
    Collectors = {c1, c2}
    Units <- MCOneUnit
    Hosts <- MCHosts
    SvrIp <- MCSvrIp
    RequestIds <- MCIds2
    EndStep = 1
    ServerWideIds = TRUE
    MaxEnd = 2
    MaxRestarts = 1
    MaxFlaps = 2
    MaxFaults = 1
INVARIANTS
    TypeOK
    CursorInv
    CursorCovers
PROPERTY
    TrailSpec
CHECK_DEADLOCK FALSE
