SPECIFICATION FairPipeline
CONSTANTS
    c1 = c1
    c2 = c2
    s1 = s1
    Cleaners = {c1, c2}
    Senders = {s1}
    MaxRows = 3
    ChunkSize = 2
    BatchSize = 2
    MaxId = 6
    MaxFaults = 1
INVARIANTS
    TypeOK
PROPERTIES
    NewestRowStays
    LimitRestored
    OnlyBacklogLost
CHECK_DEADLOCK FALSE
