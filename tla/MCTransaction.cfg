CONSTANTS
    Instance = {p, q}
    Crossing = TRUE
    MaxTx = 3
    MaxRow = 2
    MaxDepth = 4
    MaxFaults = 1
SPECIFICATION Spec
SYMMETRY Symmetry
INVARIANTS
    TypeOK
    NoStaleContext
    RunInOrder
    ActionsFollowBoundary
    AnswersTrue
PROPERTY SettledForGood
CHECK_DEADLOCK FALSE
