SPECIFICATION Spec
CONSTANTS
    Arrays = {a1, a2}
    Flaky = {}
    Creds = {c1}
    Pool = {p1, p2, p3, p4}
    None = None
    MaxEdits = 2
    MaxSignals = 1
CHECK_DEADLOCK FALSE
INVARIANT NeverLeftOnClosedPool
