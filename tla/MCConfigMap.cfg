SPECIFICATION LiveSpec
CONSTANTS
    Name = {"a", "b"}
    Value = {"true", "s"}
    Var = {V}
    AnyVar = V
    Path = {"p"}
    Secrets = {"", "s"}
    Unset = Unset
    Missing = Missing
    Omitted = Omitted
    Malformed = Malformed
    Failed = Failed
    NoConfig = NoConfig
    Files <- MCFiles
    Environments <- MCEnvironments
    DotEnvs <- MCDotEnvs
    Edits = {"swap"}
    MaxEdits = 1
    MaxSignals = 0
CHECK_DEADLOCK FALSE
PROPERTY ConfigMapUpdateTakesEffect
