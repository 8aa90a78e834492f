SPECIFICATION Spec
CONSTANTS
    Array = {a1, a2}
    Responsive = {a1}
    Alerting = {a1}
    MaxPools = 2
    MaxCycles = 2
CHECK_DEADLOCK FALSE
INVARIANTS
    TypeOK
    Isolation
    OneCycle
    NoBulkOnOldRelease
PROPERTIES
    OnlyClusterIsFatal
    FeedSpec
