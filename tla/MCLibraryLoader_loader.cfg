SPECIFICATION Spec
CONSTANTS
    Directories = {"env", "exe"}
    NoDirectory = NoDirectory
    Names = {"driver_a", "driver_b", "other"}
    NoName = NoName
    DriverNames = {"driver_a", "driver_b"}
    Environments <- SomeEnvironments
    Disks <- SomeDisks
    NoFile = NoFile
    NoPath = NoPath
    Versions = {2, 3}
    ProtocolVersion = 3
    MaxCalls = 1
    MaxChanges = 1
INVARIANTS
    TypeOK
    NothingLeftBehind
    BestIsChosen
    NothingOverlooked
PROPERTIES
    ImplementsLife
