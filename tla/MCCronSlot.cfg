CONSTANTS
    Replica = {r1, r2}
    MaxInstant = 2
    Skew = 0
    Faults = 1
SPECIFICATION Spec
SYMMETRY Symmetry
INVARIANTS
    TypeOK
    ClaimsInOrder
    UnfinishedIsLastClaim
PROPERTIES
    FinishedNeverClaimed
    ImplementsOneRoundEach
CHECK_DEADLOCK FALSE
