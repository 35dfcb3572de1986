CONSTANTS
    Instance = {p, q}
    Crossing = TRUE
    MaxTx = 2
    MaxRow = 1
    MaxDepth = 4
    MaxFaults = 0
SPECIFICATION Spec
SYMMETRY Symmetry
INVARIANT ActionsFollowData
CHECK_DEADLOCK FALSE
