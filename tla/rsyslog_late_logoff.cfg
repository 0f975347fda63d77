SPECIFICATION HistorySpec
CONSTANTS
    s1 = s1
    s2 = s2
    Senders = {s1}
    BatchSize = 2
    IdsInOrder = TRUE
    MaxId = 2
    MaxSessionId = 2
    MaxTime = 2
    MaxFaults = 0
INVARIANT
    NoLogoffSkipped
CHECK_DEADLOCK FALSE
