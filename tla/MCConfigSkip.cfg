SPECIFICATION Spec
CONSTANTS
    Name = {"a", "b"}
    Value = {"true", "s"}
    Var = {V}
    AnyVar = V
    Path = {"p"}
    Secrets = {"", "s"}
    Unset = Unset
    Missing = Missing
    Omitted = Omitted
    Malformed = Malformed
    Failed = Failed
    NoConfig = NoConfig
    Files <- MCFiles
    Environments <- MCEnvironments
    DotEnvs <- MCDotEnvs
    Edits = {"inplace", "rename", "remove", "swap", "secret"}
    MaxEdits = 2
    MaxSignals = 1
CHECK_DEADLOCK FALSE
INVARIANT ReferencesExpanded
