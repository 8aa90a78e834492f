SPECIFICATION LiveSpec
CONSTANTS
    Array = {a1, a2}
    Responsive = {a1}
    Alerting = {a1}
    MaxPools = 1
    MaxCycles = 2
CHECK_DEADLOCK FALSE
PROPERTIES
    CycleEnds
    CancelEndsLoop
