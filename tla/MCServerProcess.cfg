SPECIFICATION ProcessSpec
CONSTANTS
    Worlds <- SmallWorlds
    Requests = {r1, r2}
    ConfigEquals <- SomeConfigEquals
    TickLength = 10
    Grace = 1
    ForceWait = 1
    BodyTimeout = 3
    ShutdownTimeout = 3
    ReadTimeout = 3
    Slack = 1
INVARIANTS
    CheckPredictsStartup
    ServedAsConfigured
    NoClientHoldsServer
PROPERTIES
    CompleteRequestsGetTheirTime
CHECK_DEADLOCK FALSE
