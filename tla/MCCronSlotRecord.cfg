CONSTANTS
    Replica = {r1, r2}
    MaxInstant = 3
    Skew = 0
    Faults = 0
SPECIFICATION Spec
PROPERTY RecordNeverGoesBack
CHECK_DEADLOCK FALSE
