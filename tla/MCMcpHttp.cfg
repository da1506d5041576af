SPECIFICATION McpSpec
CONSTANTS
    a = a
    b = b
    d = d
    None = None
    Calls = {1, t1, t2}
    ToolCalls = {t1, t2}
    Names = {a, b, d}
    Sessions = {s1, s2}
    Clients = {m1, m2}
    SSHNames = {}
    ToolPackMode = "off"
    MaxTotal = 2
    MaxSession = 1
    MaxStmts = 2
    Transport = "http"
    Configurations <- OneConnection
SYMMETRY Symm
INVARIANTS
    SessionPoolsReclaimed
    SlotsAccountedFor
    SessionIsolation
    OneServerPerCall
CHECK_DEADLOCK FALSE
