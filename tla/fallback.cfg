SPECIFICATION Spec
CONSTANTS
    FallbackThreshold = 12
    DdlDclStaleThreshold = 6
    DdlDclInterval = 2
    MaxCollect = 4
    MaxFaults = 3
INVARIANTS
    TypeOK
    TakesOver
PROPERTY
    FallbackLeavesMainAlone
