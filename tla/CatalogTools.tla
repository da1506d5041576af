---------------------------- MODULE CatalogTools ----------------------------
(***************************************************************************)
(* The catalog and diagnostic tools: tools_extended.go, the listing tools  *)
(* of tools.go, tools_diagnostics.go, and the tool pack of toolpack.go     *)
(* that they share.                                                        *)
(*                                                                         *)
(* A tool is a record: what it checks first and the statements it runs,    *)
(* one after the other.  A statement says whether it goes through the      *)
(* pack, whether it has a fallback, and what becomes of its rows and of    *)
(* its errors.  Calls run concurrently; they share the pack flag of a      *)
(* connection and the connections of its pool, and use_connection moves    *)
(* the active connection under them.                                       *)
(*                                                                         *)
(* A listing is the set of its positions, and the rows of an answer are a  *)
(* set of <<server, statement, position>>, appended in this order.  All    *)
(* that matters of a row is whether it scans, and whether its database is  *)
(* on the allowlist.                                                       *)
(***************************************************************************)
EXTENDS Integers, Sequences, FiniteSets

CONSTANTS
    Conns,            \* configured connections, one server and pool each
    Calls,            \* concurrent tool calls
    Pinned,           \* TRUE: MCP (toolCallMiddleware); FALSE: REST (httpContext)
    AccessControl,    \* MYSQL_MCP_ALLOWED_DATABASES is set
    MaxRows,          \* maxRows
    MaxProcessList,   \* maxProcessList
    SlowLimit,        \* limit of slow_query_log, after its clamping to 1..200
    MaxOpen,          \* MYSQL_MAX_OPEN_CONNS
    Tables, Columns, Defs,   \* bound: what schemas are made of
    Catalogs,         \* contents of the servers: Conns -> Content
    ToolsOf,          \* bound: call -> the tools it may call
    None

\* A schema: table -> column -> its type, nullability and default.
TableDefs == UNION {[S -> Defs] : S \in SUBSET Columns}
Schemas   == UNION {[S -> TableDefs] : S \in SUBSET Tables}

Content ==
    [rows : Seq({"ok", "bad", "other"}),  \* what every listing has: a row that scans,
                                          \* one that does not, one of a database
                                          \* that is not allowed
     exists : BOOLEAN,                    \* the database given exists
     type : {"mysql", "mariadb", "unknown"}, major : Nat,   \* server type, version
     slow : {"off", "file", "table"},     \* slow_query_log and log_output
     guard : BOOLEAN,                     \* component_mcp_guard is installed
     pack : BOOLEAN,                      \* the tool pack is installed
     source : Schemas, target : Schemas]  \* the databases of a schema_diff

ASSUME CatalogAssumption ==
    /\ \A k \in Catalogs : k \in [Conns -> Content]
    /\ Pinned \in BOOLEAN /\ AccessControl \in BOOLEAN
    /\ MaxRows \in Nat \ {0} /\ MaxProcessList \in Nat \ {0}
    /\ SlowLimit \in Nat \ {0} /\ MaxOpen \in Nat \ {0}
    /\ None \notin Conns

-----------------------------------------------------------------------------
(* The tools.                                                              *)

NoCap == 0   \* all rows

\* A listing through catalogRows as most handlers write it: rows that do not
\* scan are skipped, the loop ends at maxRows, rows.Err() is returned.
Listing ==
    [pack |-> TRUE, fallback |-> FALSE, rows |-> "list", scan |-> "skip",
     filter |-> "none", cap |-> MaxRows, limited |-> FALSE, checked |-> TRUE,
     onError |-> "fail", when |-> "always"]

\* QueryRowContext(...).Scan(...).
OneRow == [Listing EXCEPT !.pack = FALSE, !.rows = "one", !.cap = NoCap]

\* Handlers that need a database (and perhaps a table) and run one listing.
Tool == [db |-> "required", stmts |-> <<Listing>>, empty |-> "ok", diff |-> FALSE]

toolListDatabases ==
    [Tool EXCEPT !.db = "none",
                 !.stmts = <<[Listing EXCEPT !.scan = "fail", !.filter = "loop"]>>]
toolListTables ==
    [Tool EXCEPT !.stmts = <<[Listing EXCEPT !.scan = "fail"]>>,
                 !.empty = "schemaExists"]
toolDescribeTable ==
    [Tool EXCEPT !.stmts = <<[Listing EXCEPT !.scan = "fail"]>>,
                 !.empty = "tableExists"]
\* No maxRows, and rows.Err() is not looked at.
toolListIndexes ==
    [Tool EXCEPT !.stmts = <<[Listing EXCEPT !.cap = NoCap, !.checked = FALSE]>>]
toolShowCreateTable ==
    [Tool EXCEPT !.stmts = <<[OneRow EXCEPT !.pack = TRUE]>>]
\* EXPLAIN FORMAT=JSON must give exactly one row; the other formats give rows.
toolExplainQuery ==
    [Tool EXCEPT !.db = "ifControlled",
                 !.stmts = <<[OneRow EXCEPT !.when = "flag"],
                             [Listing EXCEPT !.pack = FALSE, !.scan = "fail",
                                             !.cap = NoCap, !.when = "noFlag"]>>]
toolListViews      == Tool
toolListTriggers   == Tool
toolListProcedures == Tool
toolListFunctions  == Tool
toolListPartitions == Tool
toolTableSize      == Tool
toolForeignKeys    == Tool
toolDatabaseSize ==
    [Tool EXCEPT !.db = "optional", !.stmts = <<[Listing EXCEPT !.filter = "loop"]>>]
\* performance_schema first, then SHOW GLOBAL STATUS (variables: the reverse).
toolListStatus ==
    [Tool EXCEPT !.db = "none", !.stmts = <<[Listing EXCEPT !.fallback = TRUE]>>]
toolListVariables == toolListStatus
\* Tables, then columns if there is room left, both cut by LIMIT.
toolSearchSchema ==
    LET search == [Listing EXCEPT !.scan = "fail", !.filter = "sql", !.limited = TRUE]
    IN  [Tool EXCEPT !.db = "optional",
                     !.stmts = <<search, [search EXCEPT !.when = "room"]>>]
toolSchemaDiff == [Tool EXCEPT !.stmts = <<>>, !.diff = TRUE]
\* LIMIT min(limit, maxRows); rows.Err() is not looked at.
toolVectorSearch ==
    [Tool EXCEPT !.stmts = <<[Listing EXCEPT !.pack = FALSE, !.limited = TRUE,
                                             !.checked = FALSE]>>]
\* The version; with vector support the columns, with a statement for the
\* index of each while the rows are open.  rows.Err() is not looked at.
toolVectorInfo ==
    [Tool EXCEPT !.stmts = <<OneRow,
        [Listing EXCEPT !.rows = "nested", !.cap = NoCap, !.checked = FALSE,
                        !.when = "vector"]>>]
VectorColumnIndex == [OneRow EXCEPT !.pack = TRUE, !.onError = "ignore"]
toolProcessList ==
    [Tool EXCEPT !.db = "none",
                 !.stmts = <<[Listing EXCEPT !.cap = MaxProcessList, !.onError = "note"]>>]
toolKillQuery ==
    [Tool EXCEPT !.db = "none", !.stmts = <<[OneRow EXCEPT !.onError = "note"]>>]
\* Settings, the counter, and then what log_output says.
toolSlowQueryLog ==
    [Tool EXCEPT !.db = "none",
                 !.stmts = <<[OneRow EXCEPT !.onError = "note"],
                             [OneRow EXCEPT !.onError = "ignore"],
                             [OneRow EXCEPT !.onError = "ignore", !.when = "file"],
                             [Listing EXCEPT !.pack = FALSE, !.filter = "sql",
                                             !.cap = SlowLimit, !.limited = TRUE,
                                             !.onError = "note", !.when = "table"]>>]
\* Fault: a lookup that fails says nothing.
guardInfoSilent == [Listing EXCEPT !.pack = FALSE, !.rows = "guard",
                                   !.onError = "ignore"]

\* guardInfo: whatever goes wrong is reported, never taken for "no guard".
guardInfo == [Listing EXCEPT !.pack = FALSE, !.rows = "guard", !.onError = "report"]

\* Version, variables, status, user; if detailed, ping and health; the guard.
toolServerInfo ==
    LET vars  == [Listing EXCEPT !.pack = FALSE, !.fallback = TRUE, !.cap = NoCap]
        extra == [OneRow EXCEPT !.onError = "ignore", !.when = "flag"]
    IN  [Tool EXCEPT !.db = "none",
                     !.stmts = <<OneRow, vars, vars, OneRow, extra,
                                 [extra EXCEPT !.fallback = TRUE], guardInfo>>]

AllTools ==
    {toolListDatabases, toolListTables, toolDescribeTable, toolListIndexes,
     toolShowCreateTable, toolExplainQuery, toolListViews, toolListTriggers,
     toolListProcedures, toolListFunctions, toolListPartitions, toolDatabaseSize,
     toolTableSize, toolForeignKeys, toolListStatus, toolListVariables,
     toolSearchSchema, toolSchemaDiff, toolVectorSearch, toolVectorInfo,
     toolProcessList, toolKillQuery, toolSlowQueryLog, toolServerInfo}

ASSUME ToolsAssumption == \A c \in Calls : ToolsOf[c] \subseteq AllTools

-----------------------------------------------------------------------------
VARIABLES
    catalog,   \* contents of the servers
    active,    \* cm.activeConn
    packs,     \* connections with an entry in cm.toolPacks
    refusal,   \* server -> the error a CALL of the pack gets there
    step,      \* where each call is
    tool,      \* its tool
    input,     \* its arguments
    pin,       \* the connection in its context
    stmt,      \* the statement of the tool it is at
    inner,     \* it is in the nested statement of vector_info
    rowsOn,    \* the pool the rows it is reading hold a connection of
    more,      \* a further result follows them: they are of a CALL
    kept,      \* the pool that rows read before hold a connection of
    pos,       \* the last row read of them, by vector_info
    out,       \* rows collected for the answer
    guard,     \* server_info: what its answer will say of the guard
    diff,      \* schema_diff: tables and differences so far
    expired,   \* queryTimeout has passed
    result,    \* how it returned
    blamed,    \* servers that have refused a CALL (history)
    failed     \* a statement or a check of the call has failed (history)

world   == <<catalog, active, refusal>>
open    == <<rowsOn, more, kept>>
request == <<tool, input, pin>>
history == <<blamed, failed>>
catalogVars == <<world, packs, step, request, stmt, inner, open, pos, out, guard, diff,
                 expired, result, history>>

\* db: the database argument; ok: the other arguments are there and valid;
\* flag: server_info detailed, explain_query in JSON.
Inputs == [db : {"empty", "given"} \cup (IF AccessControl THEN {"denied"} ELSE {}),
           ok : BOOLEAN, flag : BOOLEAN]
NoInput == [db |-> "empty", ok |-> FALSE, flag |-> FALSE]
NoDiff  == [source |-> {}, target |-> {}, todo |-> {}, cols |-> None, found |-> {}]

CatalogInit ==
    /\ catalog \in Catalogs
    /\ active \in Conns
    /\ packs = {p \in Conns : catalog[p].pack}
    /\ refusal = [p \in Conns |-> IF catalog[p].pack THEN 0 ELSE 1305]
    /\ step = [c \in Calls |-> "idle"]
    /\ tool = [c \in Calls |-> Tool]
    /\ input = [c \in Calls |-> NoInput]
    /\ pin = [c \in Calls |-> None]
    /\ stmt = [c \in Calls |-> 0]
    /\ inner = [c \in Calls |-> FALSE]
    /\ rowsOn = [c \in Calls |-> None]
    /\ more = [c \in Calls |-> FALSE]
    /\ kept = [c \in Calls |-> None]
    /\ pos = [c \in Calls |-> 0]
    /\ out = [c \in Calls |-> {}]
    /\ guard = [c \in Calls |-> "unknown"]
    /\ diff = [c \in Calls |-> NoDiff]
    /\ expired = [c \in Calls |-> FALSE]
    /\ result = [c \in Calls |-> "none"]
    /\ blamed = {}
    /\ failed = [c \in Calls |-> FALSE]

-----------------------------------------------------------------------------
(* What a call is looking at.                                              *)

\* Fault: resolve the active connection anew.
ServerUnpinned(c) == active

\* activeNameLocked: the pin of an MCP call, the active connection of a REST
\* request.
Server(c) == IF Pinned THEN pin[c] ELSE active

Stmt(c) == IF inner[c] THEN VectorColumnIndex ELSE tool[c].stmts[stmt[c]]

\* The first n of a set of positions.
FirstOf(S, n) == {i \in S : Cardinality({j \in S : j < i}) < n}

\* The rows MySQL sends for the statement, as positions of the listing.
Sent(c, s) ==
    LET rows == {i \in DOMAIN catalog[s].rows :
                   \/ catalog[s].rows[i] # "other"
                   \/ input[c].db # "given" /\ ~(Stmt(c).filter = "sql" /\ AccessControl)}
    IN  IF Stmt(c).limited THEN FirstOf(rows, Stmt(c).cap - Cardinality(out[c])) ELSE rows

Scans(s, i) == catalog[s].rows[i] # "bad"

\* Fault: every database is listed.
HiddenNever(c, s, i) == FALSE

\* list_databases and database_size leave out databases that are not allowed.
Hidden(c, s, i) ==
    Stmt(c).filter = "loop" /\ AccessControl /\ catalog[s].rows[i] = "other"

\* The row loop over the rows that arrive: what it appends, whether it ends at
\* the cap, and whether a row ends it with an error before that.
Loop(c, s, rows) ==
    LET seen   == {i \in rows : Stmt(c).scan = "fail" => \A j \in rows : j <= i => Scans(s, j)}
        wanted == {i \in seen : Scans(s, i) /\ ~Hidden(c, s, i)}
        cap    == IF Stmt(c).limited THEN NoCap ELSE Stmt(c).cap
        capped == cap # NoCap /\ Cardinality(wanted) >= cap
    IN  [rows |-> {<<s, stmt[c], i>> : i \in IF capped THEN FirstOf(wanted, cap) ELSE wanted},
         capped |-> capped, scanError |-> ~capped /\ seen # rows]

\* Fault: the end of the loop is taken for the end of the rows.
RowsErrIgnored(c, broken) == FALSE

\* rows.Err(), where the handler looks at it.
RowsErr(c, broken) == Stmt(c).checked /\ broken

\* VECTOR columns: MySQL 9.0 and later, never MariaDB or an unknown server.
isVectorSupported(k) == k.type = "mysql" /\ k.major >= 9

\* Statement n of the tool is run when the answer has come to o.
Applies(c, n, o) ==
    CASE tool[c].stmts[n].when = "always" -> TRUE
      [] tool[c].stmts[n].when = "room"   -> Cardinality(o) < MaxRows
      [] tool[c].stmts[n].when = "flag"   -> input[c].flag
      [] tool[c].stmts[n].when = "noFlag" -> ~input[c].flag
      [] tool[c].stmts[n].when = "vector" -> isVectorSupported(catalog[Server(c)])
      [] OTHER -> tool[c].stmts[n].when = catalog[Server(c)].slow

-----------------------------------------------------------------------------
(* Parts of actions: where a call goes next.                               *)

\* The handler returns; its locals are gone.
Answer(c, r) ==
    /\ step' = [step EXCEPT ![c] = "done"]
    /\ result' = [result EXCEPT ![c] = r]
    /\ out' = [out EXCEPT ![c] = IF r = "ok" THEN @ ELSE {}]
    /\ stmt' = [stmt EXCEPT ![c] = 0]
    /\ pos' = [pos EXCEPT ![c] = 0]
    /\ UNCHANGED <<inner, guard>>

Goto(c, s) ==
    /\ step' = [step EXCEPT ![c] = s]
    /\ UNCHANGED <<stmt, inner, out, guard, pos, result>>

\* The statement is done, the answer is o so far and says g of the guard: the
\* next row of the outer statement, the next statement, the existence check,
\* or the answer.
Proceed(c, o, g) ==
    LET rest == {n \in stmt[c]+1 .. Len(tool[c].stmts) : Applies(c, n, o)}
        check == o = {} /\ tool[c].empty # "ok"
    IN  /\ out' = [out EXCEPT ![c] = o]
        /\ guard' = [guard EXCEPT ![c] = g]
        /\ inner' = [inner EXCEPT ![c] = FALSE]
        /\ stmt' = [stmt EXCEPT ![c] =
                      IF inner[c] \/ check THEN @
                      ELSE IF rest = {} THEN 0
                      ELSE CHOOSE n \in rest : \A m \in rest : n <= m]
        /\ step' = [step EXCEPT ![c] = CASE inner[c] -> "row"
                                         [] ~inner[c] /\ rest # {} -> "plan"
                                         [] ~inner[c] /\ rest = {} /\ check -> "exists"
                                         [] OTHER -> "done"]
        /\ result' = [result EXCEPT ![c] =
                        IF inner[c] \/ rest # {} \/ check THEN @ ELSE "ok"]
        /\ UNCHANGED pos

\* The statement has failed, by itself or only because the pack is gone.  An
\* error that is neither the tool's nor ignored is reported in the answer.
StmtFails(c, byItself) ==
    /\ failed' = [failed EXCEPT ![c] = @ \/ byItself]
    /\ CASE Stmt(c).onError = "fail"   -> Answer(c, "error")
         [] Stmt(c).onError = "note"   -> Answer(c, "note")
         [] Stmt(c).onError = "ignore" -> Proceed(c, out[c], guard[c])
         [] OTHER                      -> Proceed(c, out[c], "error")

\* The query could not be run: its fallback, if it has one, else it has failed.
QueryFails(c, byItself) ==
    IF Stmt(c).fallback /\ step[c] # "fallback"
    THEN Goto(c, "fallback") /\ UNCHANGED failed
    ELSE StmtFails(c, byItself)

\* The connections of a pool that no rows hold.
Idle(p) == MaxOpen - Cardinality({c \in Calls : rowsOn[c] = p})
                   - Cardinality({c \in Calls : kept[c] = p})

\* Rows read to their end close themselves, unless a further result follows:
\* the OK packet of a CALL.  Those of a CALL hold their connection until the
\* handler returns; only list_tables closes them before it asks again.
CloseRows(c) ==
    IF step'[c] = "row" THEN UNCHANGED open
    ELSE /\ rowsOn' = [rowsOn EXCEPT ![c] = None]
         /\ more' = [more EXCEPT ![c] = FALSE]
         /\ kept' = [kept EXCEPT ![c] =
                       IF step'[c] = "done" THEN None
                       ELSE IF more[c] /\ tool[c].empty # "schemaExists" THEN rowsOn[c]
                       ELSE @]

\* The query runs on a connection of pool s; rows keep it until they are read.
QueryRuns(c, s) ==
    /\ ~expired[c] /\ Idle(s) > 0
    /\ IF Stmt(c).rows = "one"
       THEN Proceed(c, out[c], guard[c]) /\ CloseRows(c)
       ELSE /\ Goto(c, IF Stmt(c).rows = "nested" THEN "row" ELSE "scan")
            /\ rowsOn' = [rowsOn EXCEPT ![c] = s]
            /\ more' = [more EXCEPT ![c] = (step[c] = "call")]
            /\ UNCHANGED kept

\* A statement fails for want of a connection only when the deadline passes.
MayFail(c, s) == expired[c] \/ Idle(s) > 0

-----------------------------------------------------------------------------
(* The call.                                                               *)

Refused(t, in) ==
    \/ ~in.ok \/ in.db = "denied"
    \/ in.db = "empty" /\ \/ t.db = "required"
                          \/ t.db = "ifControlled" /\ AccessControl

\* A call arrives, is pinned, and its arguments are checked.
Arrive(c, t, in) ==
    /\ step[c] = "idle"
    /\ t.db = "none" => in.db = "empty"
    /\ in.flag => \E n \in DOMAIN t.stmts : t.stmts[n].when = "flag"
    /\ tool' = [tool EXCEPT ![c] = t]
    /\ input' = [input EXCEPT ![c] = in]
    /\ pin' = [pin EXCEPT ![c] = active]
    /\ LET rest == {n \in DOMAIN t.stmts :
                      t.stmts[n].when # (IF in.flag THEN "noFlag" ELSE "flag")}
       IN  stmt' = [stmt EXCEPT ![c] =
                      IF rest = {} THEN 0 ELSE CHOOSE n \in rest : \A m \in rest : n <= m]
    /\ IF Refused(t, in)
       THEN /\ step' = [step EXCEPT ![c] = "done"]
            /\ result' = [result EXCEPT ![c] = IF t = toolKillQuery THEN "note" ELSE "error"]
            /\ failed' = [failed EXCEPT ![c] = TRUE]
       ELSE /\ step' = [step EXCEPT ![c] = IF t.diff THEN "source" ELSE "plan"]
            /\ UNCHANGED <<result, failed>>
    /\ UNCHANGED <<world, packs, inner, open, pos, out, guard, diff, expired, blamed>>

\* catalogRows: usesToolPack.  search_schema over all databases of the
\* allowlist never goes through the pack, which has no such filter.
UsesToolPack(c) ==
    /\ Stmt(c).pack
    /\ Stmt(c).filter = "sql" /\ AccessControl => input[c].db = "given"
    /\ Server(c) \in packs

Plan(c) ==
    /\ step[c] = "plan"
    /\ Goto(c, IF UsesToolPack(c) THEN "call" ELSE "direct")
    /\ UNCHANGED <<world, packs, request, open, diff, expired, history>>

\* Fault: only a missing procedure counts.
PackMissing(e) == e = 1305

packUnavailable(e) == e \in {1305, 1370}

\* CALL mysql_mcp.<procedure>(...).
CallPack(c) ==
    LET s == Server(c) IN
    /\ step[c] = "call"
    /\ \/ /\ refusal[s] = 0
          /\ QueryRuns(c, s)
          /\ UNCHANGED history
       \/ /\ refusal[s] # 0 /\ ~expired[c] /\ Idle(s) > 0
          /\ blamed' = blamed \cup {s}
          /\ IF packUnavailable(refusal[s])
             THEN Goto(c, "drop") /\ UNCHANGED <<open, failed>>
             ELSE QueryFails(c, FALSE) /\ CloseRows(c)
       \/ /\ MayFail(c, s)
          /\ QueryFails(c, TRUE) /\ CloseRows(c)
          /\ UNCHANGED blamed
    /\ UNCHANGED <<world, packs, request, diff, expired>>

\* Fault: drop the pack of the active connection.
DroppedActive(c) == active

\* The connection whose pack dropToolPack drops.
Dropped(c) == Server(c)

dropToolPack(c) ==
    /\ step[c] = "drop"
    /\ packs' = packs \ {Dropped(c)}
    /\ Goto(c, "direct")
    /\ UNCHANGED <<world, request, open, diff, expired, history>>

\* The embedded query, and the second query of a tool that has one.
Query(c) ==
    /\ step[c] \in {"direct", "fallback"}
    /\ \/ QueryRuns(c, Server(c)) /\ UNCHANGED failed
       \/ MayFail(c, Server(c)) /\ QueryFails(c, TRUE) /\ CloseRows(c)
    /\ UNCHANGED <<world, packs, request, diff, expired, blamed>>

\* The row loop; the stream may break after any row k, and has broken if the
\* deadline has passed.  A loop that ends at its cap does not notice a broken
\* stream, but rows.Err() may still report the deadline.
Scan(c) ==
    LET s == rowsOn[c] IN
    /\ step[c] = "scan" /\ Stmt(c).rows # "guard"
    /\ \E k \in 0..Len(catalog[s].rows), broken \in BOOLEAN :
         LET rows == {i \in Sent(c, s) : i <= k}
             l    == Loop(c, s, rows)
         IN /\ broken \/ (rows = Sent(c, s) /\ ~expired[c])
            /\ \/ /\ \/ l.scanError
                     \/ RowsErr(c, broken) /\ (l.capped => expired[c])
                  /\ Answer(c, "error")
                  /\ failed' = [failed EXCEPT ![c] = TRUE]
               \/ /\ ~l.scanError /\ (l.capped \/ ~RowsErr(c, broken))
                  /\ Proceed(c, out[c] \cup l.rows, guard[c])
                  /\ UNCHANGED failed
    /\ CloseRows(c)
    /\ UNCHANGED <<world, packs, request, diff, expired, blamed>>

\* The row loop of guardInfo: any row means that the guard is installed; a row
\* that does not scan or a broken stream is an error.
ReadGuard(c) ==
    LET s == rowsOn[c] IN
    /\ step[c] = "scan" /\ Stmt(c).rows = "guard"
    /\ \/ /\ ~expired[c]
          /\ Proceed(c, out[c], IF catalog[s].guard THEN "installed" ELSE "absent")
          /\ UNCHANGED failed
       \/ StmtFails(c, TRUE)
    /\ CloseRows(c)
    /\ UNCHANGED <<world, packs, request, diff, expired, blamed>>

\* vector_info: the next column, and the statement for its index while the
\* rows are open ...
NextColumn(c) ==
    LET s == rowsOn[c] IN
    /\ step[c] = "row" /\ ~expired[c]
    /\ \E i \in Sent(c, s) :
         /\ pos[c] < i /\ \A j \in Sent(c, s) : pos[c] < j => i <= j
         /\ pos' = [pos EXCEPT ![c] = i]
         /\ IF Scans(s, i)
            THEN /\ out' = [out EXCEPT ![c] = @ \cup {<<s, stmt[c], i>>}]
                 /\ inner' = [inner EXCEPT ![c] = TRUE]
                 /\ step' = [step EXCEPT ![c] = "plan"]
            ELSE UNCHANGED <<out, inner, step>>
    /\ UNCHANGED <<world, packs, request, stmt, open, guard, diff, expired, result,
                   history>>

\* ... or no more rows: all read, the stream broken, or the deadline past.
EndColumns(c) ==
    /\ step[c] = "row"
    /\ Answer(c, "ok")
    /\ CloseRows(c)
    /\ UNCHANGED <<world, packs, request, diff, expired, history>>

\* An empty listing: schemaExists for list_tables; describe_table only finds
\* out which error to give.
ExistenceCheck(c) ==
    LET s == Server(c)
        found == tool[c].empty = "schemaExists" /\ catalog[s].exists
    IN
    /\ step[c] = "exists" /\ MayFail(c, s)
    /\ \/ ~expired[c] /\ found /\ Answer(c, "ok") /\ UNCHANGED failed
       \/ Answer(c, "error") /\ failed' = [failed EXCEPT ![c] = TRUE]
    /\ CloseRows(c)
    /\ UNCHANGED <<world, packs, request, diff, expired, blamed>>

\* Fault: a statement run beside open rows has no deadline.
ExpireOuter(c) ==
    /\ step[c] \notin {"idle", "done"} /\ ~expired[c] /\ ~inner[c] /\ kept[c] = None
    /\ expired' = [expired EXCEPT ![c] = TRUE]
    /\ UNCHANGED <<world, packs, step, request, stmt, inner, open, pos, out, guard, diff,
                   result, history>>

\* The context of the handler has a deadline, queryTimeout.
Expire(c) ==
    /\ step[c] \notin {"idle", "done"} /\ ~expired[c]
    /\ expired' = [expired EXCEPT ![c] = TRUE]
    /\ UNCHANGED <<world, packs, step, request, stmt, inner, open, pos, out, guard, diff,
                   result, history>>

-----------------------------------------------------------------------------
(* schema_diff: every statement asks for the connection again.             *)

\* Fault: columns that only the target has go unnoticed.
compareSourceColumns(s, t) ==
    {n \in DOMAIN s : n \notin DOMAIN t \/ s[n] # t[n]}

\* The columns that are missing, differ or are extra.
compareTableSchema(s, t) ==
    {n \in DOMAIN s : n \notin DOMAIN t \/ s[n] # t[n]} \cup (DOMAIN t \ DOMAIN s)

\* The columns of a table a server does not have: no rows.
ColumnsOf(schema, t) == IF t \in DOMAIN schema THEN schema[t] ELSE <<>>

\* One statement of the diff: s1 is where it leads and d what is known then.
DiffStmt(c, s0, s1, d) ==
    /\ step[c] = s0 /\ MayFail(c, Server(c))
    /\ \/ /\ ~expired[c]
          /\ diff' = [diff EXCEPT ![c] = d]
          /\ IF s1 = "done" THEN Answer(c, "ok") ELSE Goto(c, s1)
          /\ UNCHANGED failed
       \/ /\ Answer(c, "error")
          /\ failed' = [failed EXCEPT ![c] = TRUE]
          /\ UNCHANGED diff
    /\ UNCHANGED <<world, packs, request, open, expired, blamed>>

SourceTables(c) ==
    DiffStmt(c, "source", "target",
             [diff[c] EXCEPT !.source = DOMAIN catalog[Server(c)].source])

TargetTables(c) ==
    LET src == diff[c].source
        tgt == DOMAIN catalog[Server(c)].target
    IN  DiffStmt(c, "target", IF src \cap tgt = {} THEN "done" ELSE "columns",
                 [diff[c] EXCEPT !.target = tgt, !.todo = src \cap tgt,
                                 !.found = {<<t, "MISSING">> : t \in src \ tgt}
                                           \cup {<<t, "EXTRA">> : t \in tgt \ src}])

SourceColumns(c) ==
    \E t \in diff[c].todo :
        DiffStmt(c, "columns", "compare",
                 [diff[c] EXCEPT !.todo = @ \ {t},
                                 !.cols = <<t, ColumnsOf(catalog[Server(c)].source, t)>>])

TargetColumns(c) ==
    LET t == diff[c].cols[1]
        d == compareTableSchema(diff[c].cols[2],
                                ColumnsOf(catalog[Server(c)].target, t))
    IN  DiffStmt(c, "compare", IF diff[c].todo = {} THEN "done" ELSE "columns",
                 [diff[c] EXCEPT !.cols = None,
                                 !.found = IF d = {} THEN @ ELSE @ \cup {<<t, "CHANGED">>}])

-----------------------------------------------------------------------------
(* The rest of the world.                                                  *)

\* use_connection of another client.
UseConnection(p) ==
    /\ active' = p
    /\ UNCHANGED <<catalog, refusal, packs, step, request, stmt, inner, open, pos,
                   out, guard, diff, expired, result, history>>

\* The pack is dropped (1305) or EXECUTE on it revoked (1370).  (Bringing it
\* back changes nothing for a connection that has stopped using it.)
PackGoes(p, e) ==
    /\ refusal[p] = 0
    /\ refusal' = [refusal EXCEPT ![p] = e]
    /\ UNCHANGED <<catalog, active, packs, step, request, stmt, inner, open, pos,
                   out, guard, diff, expired, result, history>>

CatalogCall(c) ==
    \/ Plan(c) \/ CallPack(c) \/ dropToolPack(c) \/ Query(c) \/ Scan(c)
    \/ ReadGuard(c) \/ NextColumn(c) \/ EndColumns(c) \/ ExistenceCheck(c)
    \/ SourceTables(c) \/ TargetTables(c) \/ SourceColumns(c) \/ TargetColumns(c)

CatalogNext ==
    \/ \E c \in Calls : \/ \E t \in ToolsOf[c], in \in Inputs : Arrive(c, t, in)
                        \/ CatalogCall(c) \/ Expire(c)
    \/ \E p \in Conns : UseConnection(p) \/ \E e \in {1305, 1370} : PackGoes(p, e)

CatalogSpec == CatalogInit /\ [][CatalogNext]_catalogVars

\* A handler runs on, and its deadline passes.
CatalogFairSpec ==
    /\ CatalogSpec
    /\ \A c \in Calls : WF_catalogVars(CatalogCall(c)) /\ WF_catalogVars(Expire(c))

-----------------------------------------------------------------------------
(* Properties.                                                             *)

Answered(c) == result[c] = "ok"

\* The rows that the statements of a listing tool would bring from the server
\* the call started on if nothing went wrong: those that may be shown, cut by
\* the LIMIT if there is one, that scan.
Listed(c) == {n \in DOMAIN tool[c].stmts :
                 tool[c].stmts[n].rows = "list" /\ Applies(c, n, {})}

MayShow(c, n) ==
    {i \in DOMAIN catalog[pin[c]].rows :
        \/ catalog[pin[c]].rows[i] # "other"
        \/ input[c].db # "given" /\ (tool[c].stmts[n].filter = "none" \/ ~AccessControl)}

Brought(c, n) ==
    LET st   == tool[c].stmts[n]
        rows == IF st.limited THEN FirstOf(MayShow(c, n), st.cap) ELSE MayShow(c, n)
    IN  {i \in rows : catalog[pin[c]].rows[i] # "bad"}

\* What the answer is due to have: of these rows, in order, as many as the
\* tool's cap allows.
Due(c) ==
    LET rows == UNION {{<<pin[c], n, i>> : i \in Brought(c, n)} : n \in Listed(c)}
        Before(q, r) == q[2] < r[2] \/ (q[2] = r[2] /\ q[3] < r[3])
    IN  {r \in rows : LET cap == tool[c].stmts[r[2]].cap
                      IN  cap # NoCap => Cardinality({q \in rows : Before(q, r)}) < cap}

\* The answer of a listing tool that looks at rows.Err() is complete: whatever
\* happens to the pack, the pool, the active connection and the stream, an
\* answer that is not an error has exactly the rows due, all from the server
\* the call started on, and an empty list of tables is that of a database that
\* exists.
AnswerExact ==
    \A c \in Calls :
        /\ Answered(c)
        /\ \A n \in DOMAIN tool[c].stmts : tool[c].stmts[n].checked
        => /\ out[c] = Due(c)
           /\ tool[c] = toolListTables /\ out[c] = {} => catalog[pin[c]].exists

\* A connection loses its pack flag only after its own server has refused a
\* CALL: a missing pack on one server never switches another one's off.
PackVerdictSound ==
    \A p \in Conns : catalog[p].pack /\ p \notin packs => p \in blamed

\* The pack is invisible: a call whose statements and checks all work returns
\* an answer, even if the pack is dropped or EXECUTE on it is revoked meanwhile.
PackLossInvisible ==
    \A c \in Calls : result[c] \in {"error", "note"} => failed[c]

\* What server_info says of the guard is true of the server the call started
\* on, or an error: a lookup that fails is never taken for "no guard".
GuardNeverMissed ==
    \A c \in Calls :
        Answered(c) /\ tool[c] = toolServerInfo =>
           guard[c] \in {"error", IF catalog[pin[c]].guard THEN "installed" ELSE "absent"}

\* A schema_diff compares the two databases as they are on one server: tables
\* missing or extra, and those whose columns are not the same.
SchemaDiffExact ==
    \A c \in Calls :
        Answered(c) /\ tool[c].diff =>
        LET s == catalog[pin[c]].source
            t == catalog[pin[c]].target
        IN  diff[c].found =
               {<<n, "MISSING">> : n \in DOMAIN s \ DOMAIN t}
               \cup {<<n, "EXTRA">> : n \in DOMAIN t \ DOMAIN s}
               \cup {<<n, "CHANGED">> : n \in {m \in DOMAIN s \cap DOMAIN t : s[m] # t[m]}}

\* Every call returns, even when calls that hold a connection wait for another.
CatalogCallsReturn ==
    \A c \in Calls : step[c] # "idle" ~> step[c] = "done"

=============================================================================
