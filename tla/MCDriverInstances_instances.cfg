SPECIFICATION Spec
CONSTANTS
    i1 = i1
    i2 = i2
    i3 = i3
    Interfaces = {i1, i2, i3}
    Libraries = {"a", "b"}
    NoLibrary = NoLibrary
    Structures <- TheStructures
    MaxStructures = 2
INVARIANTS
    TypeOK
    AloneIsSafe
    MetricsKept
    DeviceIdentified
PROPERTIES
    NoClientAbandoned
