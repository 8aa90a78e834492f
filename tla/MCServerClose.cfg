SPECIFICATION Spec
CONSTANTS
    Arrays = {a1, a2}
    Flaky = {a1}
    Creds = {c1}
    Pool = {p1, p2, p3}
    None = None
    MaxEdits = 1
    MaxSignals = 1
CHECK_DEADLOCK FALSE
INVARIANTS
    TypeOK
    ClosedAtMostOnce
    HeldPoolOpen
    LeakOnlyByOverlap
