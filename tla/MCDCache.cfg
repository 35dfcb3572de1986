CONSTANTS
    a = a
    b = b
    c = c
    Instance <- Three
    Type = {"t", "u"}
    TypeOf <- Kinds
    Readings <- AnyReading
    PoolSize = 1
    MaxWrites = 3
    MaxFaults = 2
SPECIFICATION Spec
SYMMETRY Symmetry
INVARIANTS
    TypeOK
    HoldsNewestHeard
    LaterWritesNewer
    SameWritesSameValue
    TypesApart
CHECK_DEADLOCK FALSE
