SPECIFICATION LiveSpec
CONSTANTS
    Name = {n1, n2}
    Reloaders = {r1}
    Nobody = Nobody
CHECK_DEADLOCK FALSE
INVARIANTS
    TypeOK
    RegisteredOnce
    HookCoversCycle
    FlushTriedOnceFound
    PanicOnlyOnFailure
PROPERTIES
    NamesReachOTLP
    ShutdownEnds
    ServerErrorEnds
