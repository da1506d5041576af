SPECIFICATION FairQuerySpec
CONSTANTS
    None = None
    Queries = {q1}
    Conns = {k1}
    DBs = {d1}
    DefaultDB = d1
    Allowlists = {{}}
    RowCaps <- EdgeCaps
    MaxRetries = 2
    OwnLimit = 3
    Kinds = {"select", "limited", "show", "showDatabases", "write"}
    MaxSize = 4
    MaxRowArgs <- EdgeMaxRows
    Offsets <- EdgeOffsets
    RefSets = {{}}
INVARIANTS
    ResultExact
    PagesComplete
    RetryBudget
PROPERTIES
    QueriesReturn
CHECK_DEADLOCK FALSE
