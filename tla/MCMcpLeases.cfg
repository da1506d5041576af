SPECIFICATION McpFairSpec
CONSTANTS
    a = a
    b = b
    d = d
    None = None
    Calls = {1, t1, t2}
    ToolCalls = {t1, t2}
    Names = {a, b}
    Sessions = {s1, s2}
    Clients = {m1}
    SSHNames = {}
    ToolPackMode = "off"
    MaxTotal = 1
    MaxSession = 2
    MaxStmts = 2
    Transport = "http"
    Configurations <- OneConnection
PROPERTIES
    SessionsNeverMoveDefault
    ImplementsLeases
    EndedSessionsDrain
    CallsReturn
CHECK_DEADLOCK FALSE
