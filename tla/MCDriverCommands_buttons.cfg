SPECIFICATION Spec
CONSTANTS
    Keys = {30, 31}
    Buttons = {0, 1}
    Unsigned = 4
    MaxLength = 6
    MaxStates = 2
    TypeSize = 3
    ErrorSize = 3
    MaxBytes = 4
    MaxText = 1
INVARIANTS
    ButtonsFollow
