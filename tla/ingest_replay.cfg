SPECIFICATION FairSpec
CONSTANTS
    Sessids = {1}
    IdsReused = TRUE
    RotationSeen = TRUE
    HeaderAtOnce = TRUE
    MaxLines = 4
    MaxFiles = 2
    MaxFaults = 0
PROPERTY
    RepeatChangesNothing
