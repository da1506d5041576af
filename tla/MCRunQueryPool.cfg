SPECIFICATION QuerySpec
CONSTANTS
    None = None
    Queries = {q1, q2}
    Conns = {k1, k2}
    DBs = {d1, d2}
    DefaultDB = d2
    Allowlists = {{}, {d1}}
    RowCaps = {1}
    MaxRetries = 1
    OwnLimit = 1
    Kinds = {"select", "showDatabases"}
    MaxSize = 0
    MaxRowArgs = {}
    Offsets = {}
    RefSets = {{}, {d2}}
SYMMETRY Symm
INVARIANTS
    QueryTypeOK
    DatabaseRespected
    AllowedDatabasesOnly
    ConnsHeldByAttempts
CHECK_DEADLOCK FALSE
