SPECIFICATION FairSpec
CONSTANTS
    Sessids = {1}
    IdsReused = TRUE
    RotationSeen = TRUE
    HeaderAtOnce = TRUE
    MaxLines = 4
    MaxFiles = 3
    MaxFaults = 1
INVARIANTS
    TypeOK
    NothingSkipped
    ClosedByRotation
PROPERTIES
    AllHandled
    SessionTrailSpec
