SPECIFICATION FairSpec
CONSTANTS
    c1 = c1
    Clients = {c1}
    SmId <- MCSmId
    FailureKinds = {"update_cmd_stats", "error_transfer"}
    MaxServers = 2
    MaxLines <- MCMaxLines
    MaxFiles <- MCMaxFiles
    MaxFaults = 1
INVARIANTS
    TypeOK
    OutcomeTrue
    OneRowPerLogin
    ClosedAfterEnd
    RecoveredByRotation
PROPERTIES
    RefusedIsClosed
    EndedIsClosed
