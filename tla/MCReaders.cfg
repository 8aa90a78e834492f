SPECIFICATION Spec
CONSTANTS
    Null = Null
    Blank = Blank
    NoInput = NoInput
    Array <- MCArray
    Inputs <- MCInputs
    MaxCycles = 2
INVARIANTS
    TypeOK
    SeriesUnique
    ScrapeExact
    PushMatchesScrape
    PathParity
    AlertsCounted
CHECK_DEADLOCK FALSE
