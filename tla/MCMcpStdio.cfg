SPECIFICATION McpFairSpec
CONSTANTS
    a = a
    b = b
    d = d
    None = None
    Calls = {1, 2, 3, t1, t2}
    ToolCalls = {t1, t2}
    Names = {a, b}
    Sessions = {s1}
    Clients = {m1}
    SSHNames = {}
    ToolPackMode = "auto"
    MaxTotal = 1
    MaxSession = 1
    MaxStmts = 1
    Transport = "stdio"
    Configurations <- SomeConnections
PROPERTIES
    LastEntryWins
    FirstSuccessIsDefault
    ReservationsReleased
CHECK_DEADLOCK FALSE
