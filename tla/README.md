# TLA+ specifications of mysql-mcp-server

mysql-mcp-server gives MCP clients (and, in another mode, REST clients) read access to
MySQL servers. One process holds a registry of connection pools; clients select one of
them, register further ones at run time, and call tools that run statements on the
selected pool. The specifications in this directory model the process from its command line
to its exit: configuration, connections, sessions, tools, and the HTTP servers. TLC checks
them on small instances and TLAPS proves the main invariants for every instance.

Paths are relative to the repository; `main` stands for `cmd/mysql-mcp-server`.

## 1. Inventory

| Component | State it keeps | Operations | What makes it correct |
|---|---|---|---|
| Connection manager (`main/connection.go`) | maps from name to pool, config, retry client, server type, tool pack, tunnel closer; the active name; reserved names (`pendingAdds`) | add (replacing / if absent), set active, remove, drop tool pack, close | no leaked pool or tunnel, metadata belongs to the pool, no duplicate work for one name, cap on session pools, default is registered and no session's |
| Startup (`main/main.go`) | the configured list | add each entry, decide, serve, exit | always decides; no entry's pool survives a later entry of its name; first success is the default |
| MCP sessions (`main/connection.go`, `main/mcp_http.go`) | per session: selected key, owned names, closed flag; the map from SDK session to that state | attach on request, reserve, release, close, remove owned | isolation, per-session limit, nothing survives the session |
| Tool calls (`main/call_middleware.go`, `main/tools.go`) | the pinned connection of the call | pin, run statements, `use_connection`, `add_connection` | one server per call; a failed add leaves nothing |
| Rate limiter (`internal/api/ratelimit.go`) | a token bucket per client address | allow, sweep, stop | a token bucket per client, refilled early at most after a long silence; buckets of idle clients go |
| Retry (`internal/dbretry`) and `run_query` (`main/tools.go`, `internal/util`) | attempt count, deadline; rows, page | validate, limit, run, scan, retry | bounded attempts, rows of one attempt only, pages neither skip nor repeat |
| Catalog and diagnostic tools (`main/tools_extended.go`, `tools_diagnostics.go`, `tools.go`) | statement in progress, open rows, answer | check arguments, run statements, fall back, scan, filter, compare | an answer is complete or an error, comes from one server, shows only allowed databases |
| Tool pack (`main/toolpack.go`, `internal/toolpack`) | version per connection | detect, call or fall back, drop | a vanished pack degrades, never fails, a catalog tool; one server's verdict is not another's |
| Access control, guard, labels (`main/access.go`, `guard.go`, `labels.go`) | allow list; guard hit of a call | decide, label, explain | no refused statement reaches the server; a guard is never overlooked |
| Configuration (`internal/config`) | the configuration | find, load, merge, normalise, validate | precedence; invalid combinations refused; the check predicts startup |
| Process (`main/main.go`, `serve.go`, `daemon_unix.go`) | arguments, configuration, mode, exit status | parse, act and exit, load, daemonize, initialise, serve | what was checked is what runs; a child in the background does not fail unseen |
| MCP HTTP server (`main/mcp_http.go`) | open connections, deadlines, shutdown timers | check host, origin, token; read the body; serve; shut down, force close | the token protects, configured browsers get in; a stalled client holds neither a request nor the exit |
| REST API (`main/http.go`, `internal/api`) | routes, read, write and request timeouts | route, check features and input, run the tool, shut down | routes, index and tool list agree; no complete request ends before one of its own two limits, nor without an answer |
| Token metrics, audit log (`main/token_metrics.go`, `logging.go`) | counters; the log file | record, snapshot; append, close | totals agree with the records |
| SSH tunnel (`internal/sshtunnel`) | listener, SSH client | open, proxy, close | closed exactly once |

### How they interact

`main` builds the manager, adds the configured connections one after the other and starts
one transport. Over stdio there is one client and one process-wide active connection. Over
MCP HTTP every SDK session gets a `sessionConn`; requests of one session run concurrently,
each in a goroutine, and a further goroutine per session waits for its end and removes what
the session registered. Every `tools/call` pins the connection it starts on. All of them
share the manager's maps under one mutex, but opening a pool (tunnel, open, ping, detection)
runs outside it. Catalog tools share a further bit per connection, whether its tool pack is to be
used, and compete for the connections of a pool. The REST API runs the same tools, on the active
connection of the process and without a pin.

### What is hard

* an add is a check, a long unlocked stretch and a registration: other adds, removals, the end
  of the session and process exit all fit in between;
* each step of it may fail, and each failure has its own handles to close;
* two limits (5 pools per session, 20 for all sessions) are tested in one critical section
  and used in another;
* the selected connection may change or disappear between two statements of a call;
* requests may arrive after the session they belong to has been cleaned up;
* a query may fail in the middle of its result and be run again, on another connection, in whatever
  database that connection was left in, while its deadline runs;
* the tool pack may vanish between the decision to use it and its CALL, while another client moves the
  active connection;
* a tool that runs a statement while the rows of another are open holds one connection and waits for a
  second: at the pool's limit such calls wait for each other, until their deadlines;
* read deadlines, write timeouts, request contexts, a grace period and a forced close all run at once;
* the same switches and checks are written down several times (routes, index, tool list; Load and
  ValidateConfigFile; the daemon's parent and its child) and must agree under every configuration;
* a rate limiter that refills lazily and forgets idle clients must still be a token bucket,
  with a rate and a burst that nothing relates to each other.

`PROJECT.json` lists these hazards with their lines.

## 2. Plan

Order of work, most important behaviour first.

1. `ConnectionManager`, with proofs (done).
2. `Startup`, over it (done, with proofs).
3. `McpServer`, composing the two with sessions and tool calls; `SessionLeases`, the abstract
   specification it implements (done, with the refinement and all safety properties proved).
4. `RateLimiter` and the abstract `TokenBucket` (done, with the refinement proved).
5. `RunQuery`: access control, limits, paging, scan, retry under a deadline (done, with proofs of all
   its safety properties).
6. `CatalogTools`: every catalog and diagnostic tool, the tool pack, and a pool at its limit (done, with
   proofs of all its safety properties).
7. `Configuration`: search path, file, environment, connections, normalisation, checks (done).
8. `ServerProcess`, over it: command line, daemon, the two HTTP servers and shutdown (done, with proofs of
   all its safety properties).
9. No safety property is left that is only model-checked; what stays with TLC is liveness (section 5).

## 3. Modules

**ConnectionManager.** The variables are the maps of the Go struct (one function for `configs`,
`clients` and `serverTypes`, which are always written together), `activeConn` and `pendingAdds`, and
for every add call its local state: how far it is (`pc`), its name, whether it replaces, the
pool and tunnel it opened, the error it returned. A pool is identified with the call that
opened it. Session keys (`mcp-session/<id>/<name>`) are pairs. Each action is one critical
section of `cm.mu` or one unlocked stretch: `RefuseAdd`, `ReserveAdd` and `BeginReplace` are the
first section, `StartTunnel` ... `PingFails` the unlocked part, `LoseRace` and `Register` the final
section, `ReleaseReservation` the deferred one. Only configured connections (which are added with
the replacing add) can have an SSH section. Pool settings, DSN rewriting and server types are
data; they can only make the add fail.

**Startup.** The loop of `main` over an arbitrary list of names, the decision and the exit. Entry `i` is
call `i` of the manager.

**McpServer.** Adds sessions and tool calls. A call arrives (with its session's state, a new one, or
none over stdio), is pinned, and runs statements, or `use_connection`, or `add_connection`; each of
their critical sections is an action, and the manager's actions are used as they are. What a request
asks for is arbitrary: any name, and for `use_connection` any internal key too. The SDK ends sessions at
any time (`SessionEnds`, external); the cleanup goroutine then takes its three kinds of steps. A
statement is only the pool it runs on.

**SessionLeases.** The abstract specification: registered and reserved session connections are leases
out of one budget; a session that is gone holds none and gets no more.

**RateLimiter.** The map of buckets, the cleanup loop with its ticker and stop channel, and requests in
flight. `Allow` is three actions (a new client, a token left, none left), each under the mutex. `Arrive` is
`WithRateLimit` up to `Allow`, with `getClientIP`; how requests can reach the server (`Deliveries`) is the
environment: directly with any headers, through a same-host proxy that appends to X-Forwarded-For, or
through one that sets X-Real-IP. A bucket has its age in place of `lastUpdate`. The code's floating-point
tokens are exact units, `Price` units to a token; rounding is not modelled. Neither the environment nor the file
has its rate and burst checked, so nothing is assumed of them but a rate that is not negative: the rate may be 0,
the burst 0 or below (a new client is served once all the same), and the burst larger than what the cleanup period
refills. `BoundAssumption` is about the bound `MaxIdle` only: ages beyond it make no difference.

**TokenBucket.** The abstract specification: every client has a level that rises with time up to the
capacity; a request of the client is served for a token's price, or limited when there is none. A client
that was quiet for longer than the cleanup period may be taken for a new one (`Forget`) and have a full bucket
again: with a burst of more than five minutes of refill that is more than it has earned. Nobody else's
level ever rises faster than the rate.

**RunQuery.** Callers of `run_query` on one pool. `Begin` is `toolRunQuery` up to `dbretry.Do`: access
control, validation, row limit and page. An attempt (`runQueryScan`) takes a connection, sends USE, runs the
statement, and scans row by row; `AttemptFails` is any error at any of these steps together with the
decision of `dbretry.Do`; then `Retry` or `BackoffCancelled`. `Expire` is the one deadline of the call. A
connection returns to the pool in the database it has selected; the pool may replace an idle one
(`Recycle`). A statement is its kind and the schemas it names, and its result the rows `1..size`, unchanged
during the behaviour: paging by offset promises nothing about a table that changes between pages. The
caller's side (following `next_offset`, asking again for a page that failed) is part of the model.

**CatalogTools.** A tool is a record: the checks it makes and its statements, each with the way it runs (through
the pack or not, with a second query to fall back on), what it does with its rows (skip those that do not
scan or fail, filter by the allowlist in SQL or in the loop, a cap in SQL or in the loop, look at `rows.Err`
or not) and with its errors (fail, answer with a note, ignore, report). `Listing` is the common shape, and
each `toolX` says where that handler differs. The actions are the steps all handlers share: `Arrive`
(arguments, access, pin), `Plan` (`usesToolPack`), `CallPack`, `dropToolPack`, `Query`, `Scan`, `ReadGuard` (the row
loop of `guardInfo`, which makes of all rows one verdict), the nested
statements of `vector_info`, the existence check of an empty listing, and the statements of `schema_diff`, each
of which asks for the connection again. A row is a position in the server's listing; it scans or not, and
belongs to an allowed database or not. A listing is the set of its positions and an answer a set of
(server, statement, position), which handlers append in this order: a LIMIT or a cap is `FirstOf`, the positions
with fewer than so many before them, so that nothing about rows is recursive. A loop that reaches its cap has
not met a row that fails to scan behind it and does not notice a broken stream, though `rows.Err` may still report
the deadline. Rows that were read to their end give their connection back, except those of a CALL, which another
result follows (the procedure's status): these hold it until the handler returns (`CloseRows`), or in `list_tables` until it
closes them before its second statement. So `vector_info`, `search_schema` and `describe_table` may hold one connection
and wait for another. The world moves: `UseConnection`, `PackGoes`, and any statement may fail.
`Pinned` chooses between MCP calls and REST requests.

**Configuration.** Operators only. `Load` and `ValidateConfigFile` are two compositions of the same parts: find the
file, `ToConfig`, `applyEnvOverrides` (tables from setting to variables, and one operator for each setting with a
rule of its own), `applyMCPHTTPDefaults`, `loadConnections`, the checks. A value is what the parsing functions
make of its text: a number that does not parse is 0, a set but blank variable is "". Hosts, origins and paths are
one representative of each class the code tells apart.

**ServerProcess.** Extends it with the process: `parseArgs` (with all its aliases; `ConfigEquals` says which
arguments have the form `--config=path`, and with which path) and the actions of `main` up to `Serve` or an
exit, `--daemon` as a second start of the same model with the parent's checks behind it, and then requests and
shutdown. Which requests are answered with which status is a function of the request and the configuration
(`RestStatus`, `McpStatus`), and what is registered a set (`buildMCPServer`, `httpAPIIndex`, and `RestRoutes`,
whose members say of a path which tool is behind it, what input it takes and which switch it needs). Whether
an OPTIONS request is a preflight depends on its Access-Control-Request-Method header (`asks`), as in
`withMCPCORS`. A request in progress is waiting for its body, draining, or running, and it can end without an
answer ("cut") or with one that says its time ran out ("failed"); its read deadline, the write timeout, the
handler's context (as long as the configuration's `HTTPRequestTimeout`), the base context and the shutdown
timers are counters of ticks, and time does not pass a timer that is due. Deadlines of net/http are modelled
from what the code relies on: an expired read deadline ends a wait for the body, and cancels the context of a
handler at work: a REST handler then answers with an error, and the answer goes out unless the write deadline
has passed.

**ConnectionManagerProofs**, **StartupProofs**, **McpServerProofs**, **RateLimiterProofs**, **RunQueryProofs**,
**RunQueryPagesProofs**, **CatalogToolsProofs** and **ServerProcessProofs** hold the theorems; the `MC` modules hold TLC's instances.

Definitions marked *Fault* are plausible bugs of the definition below them. No specification uses them;
each shows that some property can fail.

## 4. Runs

| Run | Instance | Shows |
|---|---|---|
| `manager` | 3 add calls, 2 configured names (one over SSH), 1 session, session cap 1 | the seven invariants of the registry |
| `mcp_http` | 2 clients, 2 session states, 2 tool calls, 1 configured and 2 free names, limit 1 per session, 2 in all | isolation (`SessionIsolation`), reclamation (`SessionPoolsReclaimed`), slots (`SlotsAccountedFor`), one server per call (`OneServerPerCall`) |
| `mcp_leases` | 1 client, 2 session states (so late requests occur), total limit 1, fair | lease refinement (`ImplementsLeases`), draining (`EndedSessionsDrain`), calls return (`CallsReturn`), default untouched (`SessionsNeverMoveDefault`) |
| `mcp_stdio` | 2 configured names, one of them given once or twice, 2 tool calls | no replaced entry is served (`LastEntryWins`), startup's first success is the default (`FirstSuccessIsDefault`), in the composed system; reservations are released (`ReservationsReleased`, fair) |
| `rate_limiter` | 2 clients (one local), 2 requests, burst 2, 1/2 token per tick, cleanup after 2 ticks (half a burst), fair | types (`RateTypeOK`), token bucket refinement (`ImplementsTokenBucket`), honest Retry-After (`RetryAfterHonoured`), idle buckets are forgotten (`IdleBucketsForgotten`) |
| `query_pages` | 1 caller, caps -1, 0, 2, max_rows -1, 0, 1, 3 or none, offsets -1, 0, 1 or none, results of 0 to 4 rows, 2 retries, fair | exact results (`ResultExact`), complete paging (`PagesComplete`), `RetryBudget`, every call returns (`QueriesReturn`) |
| `query_pool` | 2 callers, 2 connections, 2 databases, with and without an allowlist, 1 retry | types (`QueryTypeOK`), databases (`DatabaseRespected`), allowlist (`AllowedDatabasesOnly`), connections held (`ConnsHeldByAttempts`) |
| `query_truncated` | 1 caller, cap 2, results of 0 to 3 rows | `TruncatedWhenMoreRows`: a finding, below |
| `startup_duplicate_fatal` | every list of 1 to 3 entries over 2 names | `FatalOnlyWithoutConnections`: a finding, below |
| `catalog` | 2 servers in 2 combinations, 2 connections per pool, one call of any of the 24 tools beside a `vector_info`, caps 2 and 3, listings of 0, 1 and 4 rows, with an allowlist | exact answers (`AnswerExact`), pack verdict and loss (`PackVerdictSound`, `PackLossInvisible`), guard (`GuardNeverMissed`), schema diff (`SchemaDiffExact`) |
| `catalog_calls` | one server with 2 connections shared by 2 calls, one tool of each shape, fair | every call returns (`CatalogCallsReturn`) although calls hold one connection and wait for another |
| `server_process` | every combination of the REST switches and of the MCP deployment settings, pairs of 25 good and bad variables over 6 disks, 14 command lines, 2 requests, a tick of 10 s, request timeouts of 60 s and 10 s | checks predict startup (`CheckPredictsStartup`), what is served agrees with the configuration (`ServedAsConfigured`), clients hold nothing (`NoClientHoldsServer`), no complete request ends too early or unanswered (`CompleteRequestsGetTheirTime`) |

The bounds are the smallest at which the interesting cases occur: two adds compete for one name while a third
replaces it; a limit of one is reached by one connection and exceeded by a second; a list of three entries can
return to its first name; two session states for one client give the late request its second state; a result
of four rows in pages of one or two has first, middle, last and exactly full pages; a listing of four rows
with a bad and a hidden one is longer than a cap of two and shorter than one of three; two calls that each
hold one of two connections exhaust the pool; a bucket that takes four ticks to fill is forgotten after two;
the timeouts are those of the code in ticks of 10 s, rounded up (read timeout 30 s, body 30 s, slack of the
write timeout 5 s; grace 5 s, force 1 s and shutdown 30 s), with a request timeout of 60 s, the default, which
is longer than the read timeout, and one of 10 s, which is shorter; two connections are needed for USE and the
statement to go apart. The constants 5 and 20 of the code become `MaxSession` and `MaxTotal`; nothing depends
on their size (`CapCorrect` is proved for any cap). The instances may stop (the calls are a finite budget, and
the process exits), so deadlock is not checked.

**Fairness.** An add, a tool call and a cleanup goroutine are weakly fair: the SSH dial, the ping and
every statement have timeouts, and Go's mutexes do not starve a waiter. `main`'s startup loop is weakly
fair for the same reason. Arriving requests, ending sessions and process exit are not fair. For the rate
limiter, time passes (`Tick`) and the cleanup goroutine is scheduled. For `RunQuery` only timers and what
they wake are fair: `Expire`, the return of a call whose deadline has passed, and the end of a backoff.
Nothing is assumed of MySQL or the pool, so `QueriesReturn` holds for a server that never answers. For
`CatalogTools` the deadline passes and a handler that can take a step takes one; one that waits for a connection
cannot. `ServerProcess` needs no fairness: its timing properties say how far time may go.

### Findings

* `startup_duplicate_fatal`: configuring a name twice can end the process with "no valid MySQL connections
  available" while another connection works: a replacing add removes the old registration before the new one
  is validated, and the failed replacement has reset the active connection. The comment of
  `addConnectionWithPoolConfig` (`main/connection.go:149-152`: "a failed replace does not remove a working pool")
  and `docs/superpowers/specs/2026-04-07-issue-106-add-connection.md:23` say the opposite. `LastEntryWins`
  therefore says nothing of a name whose last entry fails: by these lines it should keep its pool, in the
  code it has none.
* `query_truncated`: README and the output schema say that `truncated` tells when more rows exist than the
  cap. For a SELECT without LIMIT the injected LIMIT is the cap itself, so the row that would show it is
  never sent and a cut result looks complete. (Pagination asks for one row more; statements that are not
  rewritten, and those with a LIMIT of their own, are reported correctly.)

The models also have, without a run of their own:

* `ValidateConfigFile` refuses an empty DSN, which `Load` accepts, although its comment promises the same steps
  as startup; `CheckPredictsStartup` states the equivalence with this exception.
* The child of `--daemon` gets the arguments without every `--daemon` and `-d` in them, also where one is the value of
  another option; `CommandLineAssumption` leaves such command lines out.
* REST requests have no pin. With `Pinned = FALSE`, TLC finds `AnswerExact`, `SchemaDiffExact` and
  `PackVerdictSound` violated: statements of one request are split over two servers, and `dropToolPack` switches
  off the pack of a connection that never refused anything. The properties are claimed for MCP calls only.
* `list_indexes`, `vector_search` and `vector_info` do not look at `rows.Err`, so a broken stream ends their listing
  silently; `AnswerExact` is about the tools that do.
* The REST server's `ReadTimeout` (30 s, `main/http.go:794`) also ends the context of a handler at work, so the 60 s
  that the repository's README.md:165 gives a request, and any longer `HTTPRequestTimeout`, have no effect: the client gets
  an error after 30 s. `CompleteRequestsGetTheirTime` states the two limits as they are, and that the error is
  sent. The `WriteTimeout` is the request timeout plus 5 s from the start of the request, so a body that took longer than
  that loses its answer (the exception in the same property).
* A burst of more than five minutes of refill (nothing refuses one: `internal/config/file.go:381-386`, `config.go:325-328`)
  gives a client tokens it has not earned, once the cleanup has forgotten it (`Forget` of `TokenBucket`).
* `MYSQL_HTTP_RATE_LIMIT_RPS` with a value that is no number turns a limit of 0.5 from the file into 0.
* `modes.vector` on the REST index page is read from the environment instead of the configuration (the list of
  routes is not); the modes are not modelled.
* The README's multi-connection section says that all MCP clients of a process share one active connection;
  over MCP HTTP each session has its own (`SessionIsolation`).

## 5. Proofs

`ConnectionManagerProofs` proves, for any sets of calls, names and sessions and any cap, with the
assumptions `KeysAssumption` (session keys are not user names, the reserved prefix), `LimitAssumption` and
`ConfigAssumption`:

* `TypeCorrect`: `TypeOK`. It needs `KeyInv`: a call that has started works on a manager key.
* `MetadataCorrect`: `MetadataMatchesPool`, inductive given the types.
* `ActiveCorrect`: `ActiveConnRegistered`.
* `NoLeak`, `UsableCorrect`: `NoOrphanHandles` and `RegisteredPoolsUsable` follow from `HandlesInv`: at each
  stage of an add its handles are in the expected state (`StageInv`), a registered pool belongs to a finished
  add of that key (`RegisteredInv`), and a finished add's open handle is registered under its key (`HeldInv`).
  The second is what makes closing one registration harmless for the others: two keys never share a pool.
* `ReservationCorrect`: `NoDuplicateOpen`, with the invariant that an add in flight has its name in `pendingAdds`
  and is alone with it. The final race check of the code is needed only against replacing adds.
* `CapCorrect`: `SessionCap`. Registering a session key does not change the count because the key was
  reserved (`ReservationInv`); that is where the two critical sections meet.

`StartupProofs`, for every list of configured names, from `StartupAssumption` (entries are user names, and add calls of the manager):

* `StartupLastEntry`: `LastEntryWins`, and `StartupFirstSuccess`: `FirstSuccessIsDefault`. `BootInv` says how far the
  loop is: entries not yet reached are idle, the one at work may be anywhere in its add, and each entry that is
  done is what is registered under its name unless a later one with that name has begun; with distinct names
  the active connection is the first success so far. When the loop is over, a registered pool is thus that of the
  last entry of its name (`NewestWins`; there is a last one by `LastEntryExists`, a well-foundedness argument).
* `FatalCorrect`: with distinct names, `FatalOnlyWithoutConnections` holds. The finding `startup_duplicate_fatal`
  has no other cause than a name given twice.

`McpServerProofs`, from `McpAssumption` and those above, for both transports and any clients, sessions, tool calls,
names and limits:

* `ManagerRefinement`: `McpSpec` implements the `Spec` of `ConnectionManager`. The state of the manager is
  mapped as it is; what has to be shown is that calls and cleanup use it as it allows (an add once per call, on
  a key the caller may use, never a removal of a configured name). Every theorem of `ConnectionManagerProofs`
  thereby holds inside the server, and the proofs below cite them (`RegistryInv`).
* `McpTypeCorrect`, with `BaseInv`: which step of a call goes with which tool, session and argument (`CallInv`), and
  what the manager knows of the add that the call makes (`AddInv`).
* `ReclaimCorrect`: `SessionPoolsReclaimed`, and `SlotsCorrect`: `SlotsAccountedFor`. Neither is inductive, nor both
  together: `ReclaimInv` adds that a session has at most one add of a name in flight (`Alone`, from `reserve`), that
  such an add owns its name until the session closes and its key is registered exactly once it has succeeded
  (`FlightInv`), and that a call which gives up after a success does so only because the session was
  closed, when the cleanup either has the key or has missed it and the call removes it itself.
* `OneServerCorrect`: `OneServerPerCall`. A pool a call has used is registered under the call's pin, or that key is
  `Retired`: its session is closed, so no later add can put another pool there (`UsedInv`).
* `IsolationCorrect`: `SessionIsolation`, from `SelectedInv` and `UsedInv`: `resolve` maps a name to the session's own key
  or a user name, and a user name is never a session key.
* `DefaultCorrect`: `SessionsNeverMoveDefault`: over HTTP calls register and remove session keys only, and the
  default is never one of those (`ActiveConnRegistered`).
* `LeasesCorrect`: `ImplementsLeases`. Reserving in the manager is `Acquire`, within the budget by the cap of
  the manager; a failed add and a removal give back; a session is gone when its cleanup has removed its keys and no
  add of it is in flight, and from then on it has none (`GoneDrained`), because a late add finds it closed.
* `LastEntryCorrect`, `FirstSuccessCorrect`: the two properties of startup in the composed server.

`RateLimiterProofs`, from `AddressAssumption`, `RateAssumption` (no rate below zero, any burst) and `BoundAssumption`:

* `RateTypeCorrect`: `RateTypeOK`, in particular no bucket beyond the burst.
* `RetryCorrect`: `RetryAfterHonoured`.
* `RateRefinement`: `RateSpec` implements `TokenBucket`. The level of a client is what its bucket would hold if
  it were refilled now, or a full one if it has none, and its quiet time the age of the bucket. A tick raises every level
  (`TickGains`); a lazy refill changes none (`AllowLevels`); the sweep is `Forget`, because a stale bucket's
  client has been quiet for longer than the cleanup period (`SweepForgets`). That the right client is charged is
  `OriginInv`, from `ClientFound` about `getClientIP`.
* `ForgettingInvisible`: with a burst of at least one that the cleanup period refills (200 <= 100 * 300 by default), the
  sweep changes no client's level, so that every client is held to its bucket whatever it does.

`RunQueryProofs` and `RunQueryPagesProofs`, from `QueryAssumption`, for any number of callers, connections,
databases and retries, any caps and result sizes:

* `QueryTypeCorrect`; `AccessCorrect`: `AllowedDatabasesOnly`; `DatabaseCorrect`: `DatabaseRespected`;
  `RetryBudgetCorrect`: `RetryBudget`; `ConnsCorrect`: `ConnsHeldByAttempts`. The inductive invariant says that
  a call at work was accepted (`AcceptInv`), that a connection belongs to the one attempt that runs on it
  (`HolderInv`), that past USE this connection is in the database asked for (`SelectInv`), and that a call
  waiting for a retry has one left (`BudgetInv`).
* `ResultCorrect`: `ResultExact`. While scanning, the rows are consecutive from the offset and within both the
  limit and what MySQL sends (`Scanning`); `ScanEnds` shows that either way to end leaves exactly the rows due.
* `PagesCorrect`: `PagesComplete`. Before a page the caller has the rows up to its offset (`PagesBefore`),
  after it those up to its end (`PagesAfter`); a failed page changes neither.

`CatalogToolsProofs`, from `CatalogAssumption` and, for `AnswerCorrect`, `ToolsAssumption` (calls are calls of the 24
tools), for any servers, contents, calls and caps. `Effect` is what a step
of a call can do to the things the proofs are about, and `CallEffect` shows it for every kind of step.

* `LossCorrect`: `PackLossInvisible`, over MCP and REST. A refused CALL has one of the two errors that
  `packUnavailable` knows, so it never ends a call; every other way to an error marks the call.
* `VerdictCorrect`: `PackVerdictSound`, if calls are pinned: a call about to drop a pack has had its own server's
  refusal (`VerdictInv`). Without the pin the statement is false (above).
* `DiffCorrect`: `SchemaDiffExact`, if calls are pinned. `Progress` says for each step of a `schema_diff` which
  tables have been compared; `CompareExact` that two tables have a difference exactly if they differ.
* `GuardCorrect`: `GuardNeverMissed`, if calls are pinned. `GuardInv` follows a `server_info` through its seven statements:
  it is at one of them until it is done, its open rows belong to its own server, and it answers only from the
  last one, whose outcome is the verdict. That the last statement is never skipped, whatever the flags are, is
  `GuardProceeds`; the least statement that applies exists by `LeastNumber`, a well-foundedness argument.
* `AnswerCorrect`: `AnswerExact`, if calls are pinned. The inductive invariant (`AnswerInv`) is about calls of the tools
  that look at `rows.Err`: at each statement the call has exactly the rows due of the statements before it, the
  statement applies, its open rows belong to its own server, and at the existence check no row is due. It
  is needed because the answer is built up over several statements and what is due of a later one depends on how
  many rows came before. `ToolFacts` reads off the records of the tools what the argument needs of them (`ListTool`: for
  instance, a capped listing follows no other listing, except the columns of `search_schema`). `DuePart` says what is
  due of one statement in terms of what is due before it, `LoopExact` that the row loop appends just that unless it
  ends with an error, whether it stops at a cap, at the end of a LIMIT or at the end of the rows, and
  `SkippedNotDue` that a statement that is not run has nothing due. Beneath them are the lemmas on `FirstOf`: the
  first n of an initial segment with n members are the first n of the whole (`FirstOfSegment`), a set with at most n
  members is its own first n (`FirstAll`), and the reverse (`FirstFew`).

`ServerProcessProofs`, from `TimerAssumption`, for any number of clients, any timeouts in any order (the grace period and
the forced close end within the shutdown timeout, as in the code), and any set of worlds:

* `ClientsReleased`: `NoClientHoldsServer`. The inductive invariant (`ProcessInv`) says that requests are in progress
  only while the process serves HTTP (`ServingInv`), that whoever waits for a body has a read deadline that has not
  passed unnoticed and an MCP handler at work has none (`DeadlineInv`), and where the shutdown timers are
  (`SignalInv`: the base context is cancelled only after the grace period).
* `AnswersSafe`: `CompleteRequestsGetTheirTime`, also from `RequestTimeoutAssumption` (a configuration that loads has a request
  timeout of at least a tick; `TimeoutKnown` in `PredictInv` carries it to the server that runs). That a REST answer is
  lost only to a slow body is arithmetic on two counters: the handler's context is never older than the request
  timeout (`ContextInv`), so an answer behind the write deadline belongs to a request that was older than its
  context by more than the slack.
* `CheckCorrect`: `CheckPredictsStartup`, also from `WorldAssumption` (the parts of a world) and `CommandLineAssumption`.
  `ValidateAgrees` compares `ValidateConfigFile` and `Load` step by step: after `ToConfig` both apply the same overrides,
  defaults and checks, the empty DSN aside. `PredictInv` carries the parent's checks to the child of `--daemon`: the
  child parses the same arguments but for `--daemon` and so loads the same configuration, whose key pair the
  parent has loaded. `CommandLineAssumption` excludes what the code does not handle: an empty path after
  `--validate-config`, for which `Load` would search, and `--daemon` or `-d` given as the value of another option, which
  the child would not see. TLC evaluates it on the command lines of the run.
* `ServedCorrect`: `ServedAsConfigured`. For the REST routes, `RouteKinds` splits them by the switch they need, and
  for each kind the status, the index and the tool list come down to the same switches (`RouteWorks`, `RouteOffered`,
  `RestAgrees`). For browsers, `LoadedOrigins` shows that the origins that `Load` returns are canonical, however they were
  written, so that an invited origin is found by comparison (`BrowsersGetThrough`), and `PathsApart` that the MCP
  endpoint cannot shadow the other paths.
* `TokenProtects`: `TokenlessIsLocal`, the part of `ServedAsConfigured` about the token, for every file, environment
  and command line. `LoadedConfig` shows that what `Load` returns passed `ValidateTransport` after the token file was
  read; `ConfigStep` that nothing later changes what was validated.

Only model-checked: all liveness (`EndedSessionsDrain`, `CallsReturn`, `ReservationsReleased`, `IdleBucketsForgotten`,
`QueriesReturn`, `CatalogCallsReturn`), since fairness is beyond the prover. Every invariant and every other action
property that a passing run checks is also a theorem.

## 6. Not modelled

* SQL: statements are kinds, databases and rows. The lexer and validator of `internal/util` and the MySQL parser
  behind it are a decision `RunQuery` uses (accepted or not); walking syntax trees would be a transcription.
* The analysis of EXPLAIN plans, the tokenizer and estimator, prompts, resources and the type declarations: pure
  conversions of text and JSON without state.
* Token metrics: counters behind one mutex that only the metrics page reads.
* Logging and the audit log beyond whether it opens; `read_audit_log` beyond whether it is offered: file I/O.
* Printing and masking of the configuration; SSL parameters of a DSN; statement labels; the hint added to a
  refusal of the guard: text.
* The MySQL client wrapper (the registry keeps one per connection, but no tool calls its methods) and the
  script of `install-schema`.
* TLS, SSH and the bytes an SSH tunnel copies; opening and closing it is part of `ConnectionManager`.
* The MCP SDK and net/http: their session end, deadlines and shutdown are external definitions.
