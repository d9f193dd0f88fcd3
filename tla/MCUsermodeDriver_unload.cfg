SPECIFICATION DriverSpec
CONSTANTS
    f1 = f1
    f2 = f2
    Flushers = {f1}
    NoFlusher = NoFlusher
    QueueLimit = 4
    DropFrom = 1
    DropTo = 4
    ReportMaxRecords = 2
    SeqModulus = 64
    FlushMin = 2
    FlushStep = 2
    BackoffIntervals = 1
    MaxRecords = 3
    MaxActions = 2
    Outcomes <- OnlySuccess
INVARIANTS
    WorkerReleased
