SPECIFICATION Spec
CONSTANTS
    Ids <- FewIds
    NoId = NoId
    Protected = {}
    Capacity = 4
    Slack = 0
    DriverCapacity = 2
    Retries = 3
    ReportsNeeded = TRUE
    MaxExits = 0
    MaxStarts = 0
INVARIANTS
    AllListed
