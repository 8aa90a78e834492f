SPECIFICATION LiveSpec
CONSTANTS
    Arrays = {a1, a2}
    Flaky = {a1}
    Creds = {c1}
    Pool = {p1, p2, p3}
    None = None
    MaxEdits = 2
    MaxSignals = 0
CHECK_DEADLOCK FALSE
INVARIANTS
    QuietAgreement
    CollectorPoolOpen
PROPERTIES
    SkippedRebuildIsHarmless
    ReloadTakesEffect
    ClosedPoolLeavesStore
