CONSTANTS
    p1 = p1
    p2 = p2
    w1 = w1
    w2 = w2
    Provider = {p1, p2}
    Worker = {w1, w2}
    Rank <- Order
    MaxSignals = 2
SPECIFICATION Spec
INVARIANTS
    TypeOK
    FailureIsReported
    SignalsExitClean
    FailNowIsReported
    ProvidersOutliveWork
    StartedAreStopped
PROPERTIES
    ShutdownEnds
    HurryEnds
CHECK_DEADLOCK FALSE
