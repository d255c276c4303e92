SPECIFICATION Spec
CONSTANTS
    SyncClick = SyncClick
    SyncVisitLog = SyncVisitLog
    r1 = r1
    c1 = c1
    NoJob = NoJob
    ScheduledJobKind <- TwoKinds
    Redirects <- OneRedirect
    Creates <- OneCreate
    QueueCap = 2
    MaxConcurrency = 2
    PoolSize = 2
    MaxOutages = 1
INVARIANTS
    NoConcurrentRuns
    OneCopy
    ClaimCoversWork
    ConnsConserved
PROPERTIES
    ClaimReturned
    OnlyFailedGetsAbandon
    ImplementsScheduledJobs
SYMMETRY KindSymmetry
