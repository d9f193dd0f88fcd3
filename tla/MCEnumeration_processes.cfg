SPECIFICATION FairSpec
CONSTANTS
    Ids <- ManyIds
    NoId = NoId
    Protected = {2}
    Capacity = 1
    Slack = 1
    DriverCapacity = 2
    Retries = 2
    ReportsNeeded = FALSE
    MaxExits = 1
    MaxStarts = 4
INVARIANTS
    TypeOK
    ListIsFresh
    NothingMissed
    GivesUpOnGrowth
PROPERTIES
    ListingReturns
