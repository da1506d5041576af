------------------------------ MODULE RunQuery ------------------------------
(***************************************************************************)
(* The run_query tool: toolRunQuery and runQueryScan in tools.go, the      *)
(* access control of access.go, LIMIT injection of internal/util/          *)
(* sql_parser.go, and the retries of internal/dbretry.                     *)
(*                                                                         *)
(* Concurrent calls share one pool.  An attempt takes a connection of it   *)
(* for itself, selects the database, runs the statement, scans rows and    *)
(* gives the connection back, with the database it has selected.  Every    *)
(* step may fail, and the call's deadline may pass at any time.            *)
(*                                                                         *)
(* A statement is its kind and the schemas it names; its result is the     *)
(* rows 1..size, the same for every statement and attempt.                 *)
(***************************************************************************)
EXTENDS Integers, Sequences, FiniteSets

CONSTANTS
    Queries,     \* callers of run_query
    Conns,       \* connections of the pool (MYSQL_MAX_OPEN_CONNS)
    DBs,         \* databases of the server
    DefaultDB,   \* the one in the DSN
    Allowlists,  \* values of MYSQL_MCP_ALLOWED_DATABASES ({} = no control)
    RowCaps,     \* values of MYSQL_MAX_ROWS
    MaxRetries,  \* dbRetryCfg.MaxRetries
    OwnLimit,    \* the LIMIT of a statement that has one
    Kinds,       \* bound: kinds of statement
    MaxSize,     \* bound: rows of a result
    MaxRowArgs,  \* bound: max_rows arguments
    Offsets,     \* bound: offset arguments
    RefSets,     \* bound: sets of schemas a statement names
    None

ASSUME QueryAssumption ==
    /\ Kinds \subseteq {"select", "limited", "show", "showDatabases", "write"}
    /\ DefaultDB \in DBs /\ None \notin DBs \cup Conns \cup Queries
    /\ Allowlists \subseteq SUBSET DBs /\ RefSets \subseteq SUBSET DBs
    /\ RowCaps \subseteq Int /\ MaxRowArgs \subseteq Int /\ Offsets \subseteq Int
    /\ None \notin Int
    /\ MaxRetries \in Nat /\ OwnLimit \in Nat /\ MaxSize \in Nat

Requests ==
    [kind : Kinds,
     maxRows : MaxRowArgs \cup {None}, offset : Offsets \cup {None},
     db : DBs \cup {None}, refs : RefSets]

VARIABLES
    maxRows,    \* the configured cap
    allowed,    \* allowedDatabaseSet
    size,       \* rows the statement has
    holder,     \* connection -> the call that holds it
    connDB,     \* connection -> its current database
    step,       \* where each call is
    req,        \* its input
    attempts,   \* attempts it has begun
    sent,       \* rows the current attempt has read
    rows,       \* out.Rows
    hasMore,    \* out.HasMore
    truncated,  \* out.Truncated
    outcome,    \* how it returned
    expired,    \* queryTimeout has passed
    touched,    \* databases its statement ran in or named (history)
    chain,      \* the caller is paging from the start (history)
    collected   \* rows of the pages it has got (history)

config  == <<maxRows, allowed, size>>
poolVars == <<holder, connDB>>
out     == <<sent, rows, hasMore, truncated>>
history == <<touched, chain, collected>>
queryVars == <<config, poolVars, step, req, attempts, out, outcome, expired, history>>

NoRequest == [kind |-> "show", maxRows |-> None, offset |-> None, db |-> None, refs |-> {}]

QueryTypeOK ==
    /\ maxRows \in RowCaps /\ allowed \in Allowlists /\ size \in 0..MaxSize
    /\ holder \in [Conns -> Queries \cup {None}]
    /\ connDB \in [Conns -> DBs]
    /\ step \in [Queries -> {"idle", "conn", "use", "query", "scan", "backoff", "done"}]
    /\ req \in [Queries -> [kind : Kinds \cup {"show"}, maxRows : MaxRowArgs \cup {None},
                           offset : Int \cup {None}, db : DBs \cup {None},
                           refs : SUBSET DBs]]
    /\ attempts \in [Queries -> Nat] /\ sent \in [Queries -> 0..size]
    /\ rows \in [Queries -> Seq(1..size)]
    /\ hasMore \in [Queries -> BOOLEAN] /\ truncated \in [Queries -> BOOLEAN]
    /\ outcome \in [Queries -> {"none", "ok", "failed", "refused"}]
    /\ expired \in [Queries -> BOOLEAN]
    /\ touched \in [Queries -> SUBSET DBs]
    /\ chain \in [Queries -> BOOLEAN] /\ collected \in [Queries -> Seq(1..size)]

QueryInit ==
    /\ maxRows \in RowCaps /\ allowed \in Allowlists /\ size \in 0..MaxSize
    /\ holder = [k \in Conns |-> None]
    /\ connDB = [k \in Conns |-> DefaultDB]
    /\ step = [q \in Queries |-> "idle"]
    /\ req = [q \in Queries |-> NoRequest]
    /\ attempts = [q \in Queries |-> 0]
    /\ sent = [q \in Queries |-> 0]
    /\ rows = [q \in Queries |-> <<>>]
    /\ hasMore = [q \in Queries |-> FALSE]
    /\ truncated = [q \in Queries |-> FALSE]
    /\ outcome = [q \in Queries |-> "none"]
    /\ expired = [q \in Queries |-> FALSE]
    /\ touched = [q \in Queries |-> {}]
    /\ chain = [q \in Queries |-> FALSE]
    /\ collected = [q \in Queries |-> <<>>]

-----------------------------------------------------------------------------
(* Before anything is sent: access control, validation, limits.            *)

\* The effective row limit.
Limit(r) ==
    LET limit == IF r.maxRows # None /\ r.maxRows > 0 /\ r.maxRows < maxRows
                 THEN r.maxRows ELSE maxRows
    IN  IF limit < 0 THEN 0 ELSE limit

Paginated(r) == r.offset # None

\* Fault: an empty database passes the access control.
DatabaseListed(r) == allowed # {} => (r.db = None \/ r.db \in allowed) /\ r.refs \subseteq allowed

\* With an allowlist: a listed database is given, every schema the statement
\* names is listed, and it does not enumerate schemas.
AccessAllowed(r) ==
    allowed # {} => r.db \in allowed /\ r.refs \subseteq allowed /\ r.kind # "showDatabases"

\* A page needs a SELECT or UNION without LIMIT, an offset and a limit to go by.
Pageable(r) == r.kind = "select" /\ r.offset >= 0 /\ Limit(r) > 0

Accepted(r) ==
    /\ AccessAllowed(r)
    /\ r.kind # "write"
    /\ Paginated(r) => Pageable(r)

\* What the server sends for the statement after LIMIT injection: the rows
\* First + 1 .. Last.
First(r) == IF Paginated(r) THEN r.offset ELSE 0

\* Fault: ask for a page without the extra row.
LastWithoutExtraRow(r) ==
    LET cap == CASE Paginated(r) -> r.offset + Limit(r)
                 [] ~Paginated(r) /\ r.kind = "limited" -> OwnLimit
                 [] OTHER -> size
    IN  IF cap < size THEN cap ELSE size

Last(r) ==
    LET cap == CASE Paginated(r) -> r.offset + Limit(r) + 1
                 [] ~Paginated(r) /\ r.kind = "select" /\ Limit(r) > 0 -> Limit(r)
                 [] ~Paginated(r) /\ r.kind = "limited" -> OwnLimit
                 [] OTHER -> size
    IN  IF cap < size THEN cap ELSE size

Available(r) == IF Last(r) > First(r) THEN Last(r) - First(r) ELSE 0

-----------------------------------------------------------------------------
(* The caller.                                                             *)

\* toolRunQuery up to dbretry.Do.
Begin(q, r) ==
    /\ req' = [req EXCEPT ![q] = r]
    /\ step' = [step EXCEPT ![q] = IF Accepted(r) THEN "conn" ELSE "done"]
    /\ outcome' = [outcome EXCEPT ![q] = IF Accepted(r) THEN "none" ELSE "refused"]
    /\ attempts' = [attempts EXCEPT ![q] = IF Accepted(r) THEN 1 ELSE 0]
    /\ sent' = [sent EXCEPT ![q] = 0]
    /\ rows' = [rows EXCEPT ![q] = <<>>]
    /\ hasMore' = [hasMore EXCEPT ![q] = FALSE]
    /\ truncated' = [truncated EXCEPT ![q] = FALSE]
    /\ expired' = [expired EXCEPT ![q] = FALSE]
    /\ touched' = [touched EXCEPT ![q] = {}]
    /\ UNCHANGED <<config, poolVars>>

\* A new query; one with offset 0 starts paging.
Submit(q, r) ==
    /\ step[q] \in {"idle", "done"}
    /\ Begin(q, r)
    /\ chain' = [chain EXCEPT ![q] = (r.offset = 0)]
    /\ collected' = [collected EXCEPT ![q] = <<>>]

\* Fault: the next page starts after the extra row.
NextOffsetAfterExtraRow(q) == req[q].offset + Limit(req[q]) + 1

\* out.NextOffset
NextOffset(q) == req[q].offset + Limit(req[q])

\* The caller passes next_offset back to get the next page ...
NextPage(q) ==
    /\ step[q] = "done" /\ outcome[q] = "ok" /\ hasMore[q]
    /\ Begin(q, [req[q] EXCEPT !.offset = NextOffset(q)])
    /\ UNCHANGED <<chain, collected>>

\* ... or asks again for one that failed.
SamePage(q) ==
    /\ step[q] = "done" /\ outcome[q] = "failed" /\ chain[q]
    /\ Begin(q, req[q])
    /\ UNCHANGED <<chain, collected>>

-----------------------------------------------------------------------------
(* One attempt: runQueryScan.                                              *)

ConnOf(q) == CHOOSE k \in Conns : holder[k] = q

\* db.Conn(ctx)
GetConn(q, k) ==
    /\ step[q] = "conn" /\ ~expired[q]
    /\ holder[k] = None
    /\ holder' = [holder EXCEPT ![k] = q]
    /\ step' = [step EXCEPT ![q] = "use"]
    /\ UNCHANGED <<config, connDB, req, attempts, out, outcome, expired, history>>

\* Fault: USE goes to the pool, which takes any free connection for it.
UseTargetAny(q) ==
    IF \E k \in Conns : holder[k] = None
    THEN CHOOSE k \in Conns : holder[k] = None ELSE ConnOf(q)

\* USE goes to the connection the statement will run on.
UseTarget(q) == ConnOf(q)

\* Fault: USE is sent without a database too.
SelectedAlways(q) == [connDB EXCEPT ![UseTarget(q)] = req[q].db]

SelectedDB(q) ==
    IF req[q].db = None THEN connDB ELSE [connDB EXCEPT ![UseTarget(q)] = req[q].db]

\* USE database, when one is given.
UseDatabase(q) ==
    /\ step[q] = "use" /\ ~expired[q]
    /\ connDB' = SelectedDB(q)
    /\ step' = [step EXCEPT ![q] = "query"]
    /\ UNCHANGED <<config, holder, req, attempts, out, outcome, expired, history>>

\* Fault: rows of an earlier attempt stay in the result.
RowsKept(q) == rows[q]

RowsAtStart(q) == <<>>

\* The statement runs; a result is built from nothing.
Execute(q) ==
    /\ step[q] = "query" /\ ~expired[q]
    /\ touched' = [touched EXCEPT ![q] = @ \cup {connDB[ConnOf(q)]} \cup req[q].refs]
    /\ sent' = [sent EXCEPT ![q] = 0]
    /\ rows' = [rows EXCEPT ![q] = RowsAtStart(q)]
    /\ step' = [step EXCEPT ![q] = "scan"]
    /\ UNCHANGED <<config, poolVars, req, attempts, hasMore, truncated, outcome,
                   expired, chain, collected>>

\* A row within the limit.
ScanRow(q) ==
    /\ step[q] = "scan" /\ sent[q] < Available(req[q])
    /\ Len(rows[q]) < Limit(req[q])
    /\ rows' = [rows EXCEPT ![q] = Append(@, First(req[q]) + sent[q] + 1)]
    /\ sent' = [sent EXCEPT ![q] = @ + 1]
    /\ UNCHANGED <<config, poolVars, step, req, attempts, hasMore, truncated,
                   outcome, expired, history>>

\* The deferred conn.Close: back to the pool as it is.
Released(q) == [k \in Conns |-> IF holder[k] = q THEN None ELSE holder[k]]

\* The result is returned.
Finish(q, more, cut) ==
    /\ step' = [step EXCEPT ![q] = "done"]
    /\ outcome' = [outcome EXCEPT ![q] = "ok"]
    /\ hasMore' = [hasMore EXCEPT ![q] = more]
    /\ truncated' = [truncated EXCEPT ![q] = cut]
    /\ holder' = Released(q)
    /\ collected' = [collected EXCEPT ![q] = IF chain[q] THEN @ \o rows[q] ELSE <<>>]
    /\ UNCHANGED <<config, connDB, req, attempts, sent, rows, expired, touched, chain>>

\* A row beyond the limit: it is dropped and noted.
RowBeyondLimit(q) ==
    /\ step[q] = "scan" /\ sent[q] < Available(req[q])
    /\ Len(rows[q]) >= Limit(req[q])
    /\ Finish(q, Paginated(req[q]), ~Paginated(req[q]))

\* No more rows.
RowsEnd(q) ==
    /\ step[q] = "scan" /\ sent[q] = Available(req[q])
    /\ Finish(q, FALSE, FALSE)

-----------------------------------------------------------------------------
(* Errors and dbretry.Do.                                                  *)

\* "deadline" stands for the context's errors; it is a net.Error as well.
Errors == {"net", "badConn", "busy", "sql", "deadline"}

\* IsTransientError asks for the context's errors first.
IsTransientError(e) == e # "deadline" /\ e \in {"net", "deadline", "badConn", "busy"}

\* Fault: one retry too many.
BudgetLeftInclusive(q) == attempts[q] <= MaxRetries + 1

\* backoff.WithMaxRetries; without retries Do calls op once.
BudgetLeft(q) == attempts[q] <= MaxRetries

\* Fault: the connection of a failed attempt is not given back.
ReleasedOnSuccess(q) == holder

ReleasedOnError(q) == Released(q)

\* An attempt fails.  A connection that broke is replaced by a new one; one
\* whose deadline passed may be (then Recycle follows).  Do may ping the pool
\* and then waits or gives up.
AttemptFails(q, e) ==
    /\ step[q] \in {"conn", "use", "query", "scan"}
    /\ e = "deadline" => expired[q]
    /\ holder' = ReleasedOnError(q)
    /\ connDB' = [k \in Conns |->
                    IF holder[k] = q /\ e \in {"net", "badConn"}
                    THEN DefaultDB ELSE connDB[k]]
    /\ LET again == IsTransientError(e) /\ BudgetLeft(q) /\ ~expired[q] IN
         /\ step' = [step EXCEPT ![q] = IF again THEN "backoff" ELSE "done"]
         /\ outcome' = [outcome EXCEPT ![q] = IF again THEN "none" ELSE "failed"]
    /\ UNCHANGED <<config, req, attempts, out, expired, history>>

\* The backoff timer fires (perhaps just after the deadline).
Retry(q) ==
    /\ step[q] = "backoff"
    /\ attempts' = [attempts EXCEPT ![q] = @ + 1]
    /\ step' = [step EXCEPT ![q] = "conn"]
    /\ UNCHANGED <<config, poolVars, req, out, outcome, expired, history>>

\* The deadline passes during the backoff.
BackoffCancelled(q) ==
    /\ step[q] = "backoff" /\ expired[q]
    /\ step' = [step EXCEPT ![q] = "done"]
    /\ outcome' = [outcome EXCEPT ![q] = "failed"]
    /\ UNCHANGED <<config, poolVars, req, attempts, out, expired, history>>

\* Fault: the deadline does not cover waiting for a connection.
ExpireWhileRunning(q) ==
    /\ step[q] \in {"use", "query", "scan", "backoff"} /\ ~expired[q]
    /\ expired' = [expired EXCEPT ![q] = TRUE]
    /\ UNCHANGED <<config, poolVars, step, req, attempts, out, outcome, history>>

\* queryTimeout passes: one deadline for all attempts and waits of the call.
Expire(q) ==
    /\ step[q] \notin {"idle", "done"} /\ ~expired[q]
    /\ expired' = [expired EXCEPT ![q] = TRUE]
    /\ UNCHANGED <<config, poolVars, step, req, attempts, out, outcome, history>>

\* The pool replaces an idle connection (lifetime, a failed ping).
Recycle(k) ==
    /\ holder[k] = None
    /\ connDB' = [connDB EXCEPT ![k] = DefaultDB]
    /\ UNCHANGED <<config, holder, step, req, attempts, out, outcome, expired, history>>

-----------------------------------------------------------------------------
Caller(q) == (\E r \in Requests : Submit(q, r)) \/ NextPage(q) \/ SamePage(q)

QueryStep(q) ==
    \/ \E k \in Conns : GetConn(q, k)
    \/ UseDatabase(q) \/ Execute(q)
    \/ ScanRow(q) \/ RowBeyondLimit(q) \/ RowsEnd(q)
    \/ \E e \in Errors : AttemptFails(q, e)
    \/ Retry(q) \/ BackoffCancelled(q)

QueryNext ==
    \/ \E q \in Queries : Caller(q) \/ QueryStep(q) \/ Expire(q)
    \/ \E k \in Conns : Recycle(k)

QuerySpec == QueryInit /\ [][QueryNext]_queryVars

\* The timers of the runtime and what they wake.  Nothing is assumed of MySQL
\* or of the pool: a server that never answers, or a connection that never
\* comes free, is a behaviour.
FairQuerySpec ==
    /\ QuerySpec
    /\ \A q \in Queries :
        /\ WF_queryVars(Expire(q))
        /\ WF_queryVars(AttemptFails(q, "deadline"))
        /\ WF_queryVars(Retry(q) \/ BackoffCancelled(q))

-----------------------------------------------------------------------------
(* Properties.                                                             *)

Returned(q) == step[q] = "done" /\ outcome[q] = "ok"

\* The rows a and later, up to row b.
RowsFrom(a, b) == [i \in 1..(IF b > a THEN b - a ELSE 0) |-> a + i]

\* Whatever was retried, a result is the first rows of the statement (from the
\* offset), as many as the limit allows, each once: never rows of two attempts,
\* never more than the limit.
ResultExact ==
    \A q \in Queries : Returned(q) =>
        LET r == req[q]
            upTo == First(r) + Limit(r)
            end == IF r.kind = "limited" /\ OwnLimit < size THEN OwnLimit ELSE size
        IN  rows[q] = RowsFrom(First(r), IF upTo < end THEN upTo ELSE end)

\* A caller that follows next_offset from 0, repeating failed pages, gets every
\* row exactly once and in order, and is told the end neither early nor late.
PagesComplete ==
    \A q \in Queries : Returned(q) /\ chain[q] =>
        /\ collected[q] = RowsFrom(0, Len(collected[q]))
        /\ hasMore[q] <=> Len(collected[q]) < size

\* A statement given a database runs in it, although connections come back to
\* the pool with whatever database their last user selected.
DatabaseRespected ==
    \A q \in Queries : req[q].db # None => touched[q] \subseteq {req[q].db} \cup req[q].refs

\* With an allowlist no statement runs in, or names, a database outside it:
\* not the DSN's default either, nor one an earlier call left selected.
AllowedDatabasesOnly ==
    \A q \in Queries : allowed # {} => touched[q] \subseteq allowed

\* MYSQL_MCP_DB_RETRY_MAX is the number of retries, over all kinds of
\* failure together.
RetryBudget == \A q \in Queries : attempts[q] <= MaxRetries + 1

\* Connections are held only while an attempt uses them, one each: not during
\* the backoff, and not by a call that has returned.
ConnsHeldByAttempts ==
    \A q \in Queries :
        Cardinality({k \in Conns : holder[k] = q})
            = IF step[q] \in {"use", "query", "scan"} THEN 1 ELSE 0

\* Every call returns, although calls wait for each other's connections and
\* MySQL may never answer.
QueriesReturn == \A q \in Queries : step[q] = "conn" ~> step[q] = "done"

\* What the documentation says of "truncated": set when more rows exist than
\* the cap, outside of pagination.
TruncatedWhenMoreRows ==
    \A q \in Queries : Returned(q) /\ ~Paginated(req[q]) /\ req[q].kind = "select"
        => (truncated[q] <=> size > Limit(req[q]))

=============================================================================
