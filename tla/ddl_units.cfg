SPECIFICATION FairSpec
CONSTANTS
    c1 = c1
    c2 = c2
    u1 = u1
    u2 = u2
    h1 = h1
    Collectors = {c1}
    Units <- MCTwoUnits
    Hosts <- MCHosts
    SvrIp <- MCSvrIp
    RequestIds <- MCIds2
    EndStep = 1
    ServerWideIds = TRUE
    MaxEnd = 2
    MaxRestarts = 0
    MaxFlaps = 2
    MaxFaults = 2
INVARIANT
    NoDdlLost
PROPERTIES
    MonotoneCursor
    EventuallyCaughtUp
CHECK_DEADLOCK FALSE
