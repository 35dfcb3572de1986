CONSTANTS
    a = a
    b = b
    c = c
    Instance <- Three
    Type = {"t"}
    TypeOf <- OneKind
    Readings <- OwnReadings
    PoolSize = 1
    MaxWrites = 3
    MaxFaults = 0
SPECIFICATION Spec
INVARIANT ClocksSeparateWrites
CHECK_DEADLOCK FALSE
