SPECIFICATION DriverFairSpec
CONSTANTS
    f1 = f1
    f2 = f2
    Flushers = {f1, f2}
    NoFlusher = NoFlusher
    QueueLimit = 4
    DropFrom = 1
    DropTo = 4
    ReportMaxRecords = 2
    SeqModulus = 64
    FlushMin = 2
    FlushStep = 2
    BackoffIntervals = 1
    MaxRecords = 2
    MaxActions = 2
    Outcomes <- EffectOutcomes
INVARIANTS
    DriverTypeOK
    NoWorkerForgotten
    RetryDelayRespected
PROPERTIES
    TeardownReturns
    FlushReturns
    FlushFreesWorker
