SPECIFICATION Spec
CONSTANTS
    Arrays = {a1, a2}
    Flaky = {}
    Creds = {c1}
    Pool = {p1, p2}
    None = None
    MaxEdits = 1
    MaxSignals = 0
CHECK_DEADLOCK FALSE
INVARIANT PoolFollowsArraySet
