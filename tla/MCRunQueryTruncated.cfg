SPECIFICATION QuerySpec
CONSTANTS
    None = None
    Queries = {q1}
    Conns = {k1}
    DBs = {d1}
    DefaultDB = d1
    Allowlists = {{}}
    RowCaps = {2}
    MaxRetries = 1
    OwnLimit = 3
    Kinds = {"select", "limited", "show", "showDatabases", "write"}
    MaxSize = 3
    MaxRowArgs = {}
    Offsets = {0}
    RefSets = {{}}
INVARIANTS
    TruncatedWhenMoreRows
CHECK_DEADLOCK FALSE
