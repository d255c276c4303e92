SPECIFICATION FairSpec
CONSTANTS
    SyncClick = SyncClick
    SyncVisitLog = SyncVisitLog
    r1 = r1
    c1 = c1
    NoJob = NoJob
    ScheduledJobKind <- OneKind
    Redirects <- NoRequests
    Creates <- NoRequests
    QueueCap = 1
    MaxConcurrency = 1
    PoolSize = 1
    MaxOutages = 1
PROPERTIES
    Recurs
CHECK_DEADLOCK FALSE
