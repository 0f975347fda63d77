SPECIFICATION FairHistory
CONSTANTS
    s1 = s1
    s2 = s2
    Senders = {s1, s2}
    BatchSize = 1
    IdsInOrder = TRUE
    MaxId = 2
    MaxSessionId = 2
    MaxTime = 2
    MaxFaults = 1
INVARIANTS
    HistoryTypeOK
    NoIdSkipped
    OnlyLateSkipped
    OneBatchAhead
PROPERTY
    AllSent
CHECK_DEADLOCK FALSE
