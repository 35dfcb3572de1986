CONSTANTS
    Replica = {r1, r2}
    MaxInstant = 2
    Skew = 1
    Faults = 0
SPECIFICATION FairSpec
INVARIANTS
    ClaimsInOrder
    SkipsOnlyThePast
PROPERTY CutShortResolved
CHECK_DEADLOCK FALSE
