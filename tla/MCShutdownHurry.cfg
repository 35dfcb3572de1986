CONSTANTS
    p1 = p1
    p2 = p2
    w1 = w1
    w2 = w2
    Provider = {p1, p2}
    Worker = {w1, w2}
    Rank <- Order
    MaxSignals = 2
SPECIFICATION Spec
PROPERTY SecondSignalEnds
CHECK_DEADLOCK FALSE
