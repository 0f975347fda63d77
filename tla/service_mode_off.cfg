SPECIFICATION ServiceSpec
CONSTANTS
    DdlDclAuditMode = 0
    RsyslogHost = FALSE
    Interval <- MCInterval
    WatchdogThreshold = 4
    CheckInterval = 2
    ShutdownTimeout = 3
    RestartSec = 1
    StartLimitBurst = 2
    StartLimitInterval = 12
    Files <- MCFiles
    MaxOutages = 1
INVARIANT
    NoFalseAlarm
CHECK_DEADLOCK FALSE
