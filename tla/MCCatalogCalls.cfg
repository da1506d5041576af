SPECIFICATION CatalogFairSpec
CONSTANTS
    a = a
    b = b
    c1 = c1
    c2 = c2
    tab1 = tab1
    tab2 = tab2
    col1 = col1
    col2 = col2
    def1 = def1
    def2 = def2
    None = None
    Conns = {a}
    Calls = {c1, c2}
    Tables = {tab1, tab2}
    Columns = {col1, col2}
    Defs = {def1, def2}
    Pinned = TRUE
    AccessControl = TRUE
    MaxRows = 2
    MaxProcessList = 3
    SlowLimit = 3
    MaxOpen = 2
    Catalogs <- OneServer
    ToolsOf <- SomeToolsOf
PROPERTIES
    CatalogCallsReturn
CHECK_DEADLOCK FALSE
