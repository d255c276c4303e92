SPECIFICATION FairSpec
CONSTANTS
    SyncClick = SyncClick
    SyncVisitLog = SyncVisitLog
    r1 = r1
    c1 = c1
    NoJob = NoJob
    ScheduledJobKind <- OneKind
    Redirects <- OneRedirect
    Creates <- OneCreate
    QueueCap = 2
    MaxConcurrency = 1
    PoolSize = 1
    MaxOutages = 1
PROPERTIES
    QueueDrains
    SentIsRun
    ClaimSettles
