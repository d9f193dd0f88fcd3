SPECIFICATION Spec
CONSTANTS
    Keys = {30, 31}
    Buttons = {0}
    Unsigned = 4
    MaxLength = 6
    MaxStates = 2
    TypeSize = 2
    ErrorSize = 4
    MaxBytes = 2
    MaxText = 5
INVARIANTS
    TypeOK
    HandledAsSent
    AdvertisedIsServed
    ReadIsWhole
    KeysFollow
    RecordTypeKept
    MessageReadable
