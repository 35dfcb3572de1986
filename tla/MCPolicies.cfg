CONSTANTS
    b1 = b1
    b2 = b2
    r = r
    s = s
    Rule = {r, s}
    Batch <- Two
    Changes <- Calls
    LocksNamed = TRUE
    Retry = Retry
    Periodic = Periodic
    NoOne = NoOne
    MaxFaults = 2
SPECIFICATION Spec
INVARIANTS
    TypeOK
    InStep
    GrantsWereStored
PROPERTY Settles
CHECK_DEADLOCK FALSE
