SPECIFICATION FairService
CONSTANTS
    DdlDclAuditMode = 1
    RsyslogHost = FALSE
    Interval <- MCInterval
    WatchdogThreshold = 4
    CheckInterval = 2
    ShutdownTimeout = 3
    RestartSec = 1
    StartLimitBurst = 2
    StartLimitInterval = 12
    Files <- MCFiles
    MaxOutages = 1
INVARIANTS
    TypeOK
    ServiceTypeOK
    StaleIsHung
    HangNoticed
    ShutdownIsClean
    GivesUpOnlyOnFailedStarts
PROPERTIES
    SignalEnds
    TicksAgain
    BacklogRead
CHECK_DEADLOCK FALSE
