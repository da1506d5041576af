SPECIFICATION Spec
CONSTANTS
    Calls = {c1, c2, c3}
    Names = {a, b}
    Sessions = {s1}
    MaxTotal = 1
    SSHNames = {a}
    ToolPackMode = "auto"
    None = None
SYMMETRY Symm
INVARIANTS
    TypeOK
    NoOrphanHandles
    RegisteredPoolsUsable
    MetadataMatchesPool
    NoDuplicateOpen
    SessionCap
    ActiveConnRegistered
CHECK_DEADLOCK FALSE
