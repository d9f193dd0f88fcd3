SPECIFICATION FairSpec
CONSTANTS
    f1 = f1
    f2 = f2
    Flushers = {}
    NoFlusher = NoFlusher
    QueueLimit = 4
    DropFrom = 1
    DropTo = 4
    ReportMaxRecords = 2
    SeqModulus = 64
    FlushMin = 2
    FlushStep = 2
    BackoffIntervals = 1
    MaxRecords = 7
    MaxActions = 2
    Outcomes <- QueueOutcomes
INVARIANTS
    TypeOK
    NoRecordLost
    NoRecordResent
    HeldInOrder
    QueueBounded
    EndsDrained
PROPERTIES
    ImplementsDelivery
    ShutdownEndsWorker
