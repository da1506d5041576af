SPECIFICATION StartupSpec
CONSTANTS
    Calls = {1, 2, 3}
    Names = {a, b}
    Sessions = {s1}
    MaxTotal = 1
    SSHNames = {a}
    ToolPackMode = "auto"
    None = None
    Configurations <- MCConfigurations
INVARIANTS
    FatalOnlyWithoutConnections
CHECK_DEADLOCK FALSE
