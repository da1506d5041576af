---------------------------- MODULE ServerProcess ----------------------------
(***************************************************************************)
(* The process, from the command line to its exit: main (main.go), the     *)
(* three ways to serve (MCP over stdio with an optional metrics listener,  *)
(* MCP over HTTP in mcp_http.go, the REST API in http.go), --daemon, and   *)
(* graceful shutdown (serve.go).  What a tool call does is modelled in     *)
(* McpServer, RunQuery and CatalogTools; here a request is a client that   *)
(* sends a body and a handler that runs.                                   *)
(*                                                                         *)
(* Time is discrete.  Tick is not enabled while a timer is due, so an      *)
(* expired timer acts before time goes on; anything else may be slow.      *)
(***************************************************************************)
EXTENDS Configuration, Functions

CONSTANTS
    Worlds,          \* what the process may be started with, see Init
    Requests,        \* connections to the HTTP listener
    Grace,           \* mcpHTTPShutdownGrace, in ticks
    ForceWait,       \* mcpHTTPShutdownForce
    BodyTimeout,     \* mcpHTTPBodyReadTimeout
    ShutdownTimeout, \* httpShutdownTimeout
    ReadTimeout,     \* http.Server.ReadTimeout of the REST API
    Slack,           \* what the REST API's WriteTimeout adds to the request timeout
    TickLength,      \* seconds in a tick
    ConfigEquals     \* arg[9:] for the arguments of the form --config=path

ASSUME TimerAssumption ==
    /\ {Grace, ForceWait, BodyTimeout, ShutdownTimeout, ReadTimeout, Slack,
        TickLength} \subseteq Nat \ {0}
    /\ Grace + ForceWait < ShutdownTimeout

ASSUME WorldAssumption ==
    \A w \in Worlds : {"argv", "env", "files", "tokenFiles", "tlsOK", "auditOK", "dbOK"}
                        \subseteq DOMAIN w

VARIABLES
    world,      \* command line, environment, files, and what works outside
    args,       \* what parseArgs returned
    phase,      \* where the process is
    mode,       \* how it serves: "stdio", "mcp" or "rest"
    cfg,        \* the configuration
    code,       \* exit status
    detached,   \* this is the child of --daemon: its output is discarded
    busy,       \* another process listens on the port
    checked,    \* the port was free when --daemon looked
    metrics,    \* the metrics listener of stdio mode is up
    req,        \* the requests
    sig,        \* ticks since SIGINT or SIGTERM
    base        \* the base context of MCP requests is cancelled

procVars == <<world, args, phase, mode, cfg, code, detached, busy, checked, metrics>>
httpVars == <<req, sig, base>>
allVars  == <<procVars, httpVars>>

-----------------------------------------------------------------------------
(* The command line.                                                       *)

NoArgs == [action |-> "", config |-> "", validate |-> "", daemon |-> FALSE,
           tokenCard |-> FALSE, silent |-> FALSE, wants |-> "", err |-> FALSE]

VersionFlags   == {"--version", "-v"}
HelpFlags      == {"--help", "-h", "help"}
ConfigFlags    == {"--config", "-c"}
SilentFlags    == {"--silent", "-s"}
DaemonFlags    == {"--daemon", "-d"}
InstallOptions == {"--print", "--uninstall", "--connection"}
Immediate == {"version", "help"}

\* One argument.  After an error, --version or --help nothing more is read.
ParseArg(a, arg) ==
    CASE a.err \/ a.action \in Immediate -> a
      [] ~a.err /\ a.wants = "config"   -> [a EXCEPT !.config = arg, !.wants = ""]
      [] ~a.err /\ a.wants = "validate" -> [a EXCEPT !.validate = arg, !.wants = ""]
      [] ~a.err /\ a.wants = "conn"     -> [a EXCEPT !.wants = ""]
      [] OTHER ->
           CASE arg \in VersionFlags     -> [a EXCEPT !.action = "version"]
             [] arg \in HelpFlags        -> [a EXCEPT !.action = "help"]
             [] arg \in ConfigFlags      -> [a EXCEPT !.wants = "config"]
             [] arg = "--print-config"   -> [a EXCEPT !.action = "print-config"]
             [] arg = "--validate-config" ->
                  [a EXCEPT !.action = "validate-config", !.wants = "validate"]
             [] arg \in SilentFlags      -> [a EXCEPT !.silent = TRUE]
             [] arg \in DaemonFlags      -> [a EXCEPT !.daemon = TRUE]
             [] arg = "--token-card"     -> [a EXCEPT !.tokenCard = TRUE]
             [] arg = "install-schema"   -> [a EXCEPT !.action = arg]
             [] arg \in InstallOptions ->
                  [a EXCEPT !.err = a.action # "install-schema",
                            !.wants = IF arg = "--connection" THEN "conn" ELSE ""]
             [] arg \in DOMAIN ConfigEquals -> [a EXCEPT !.config = ConfigEquals[arg]]
             [] OTHER                    -> [a EXCEPT !.err = TRUE]

parseArgs(argv) ==
    LET parsed[i \in 0..Len(argv)] ==
            IF i = 0 THEN NoArgs ELSE ParseArg(parsed[i - 1], argv[i])
        a == parsed[Len(argv)]
    IN [a EXCEPT !.err = @ \/ a.wants # "", !.wants = ""]

\* What maybeDaemonize starts the child with: the same arguments but for
\* --daemon and -d.
ChildArgs(argv) == SelectSeq(argv, LAMBDA x : x \notin DaemonFlags)

\* Neither an empty path, for which Load would search, nor the text
\* "--daemon" or "-d" is given to an option, so that the child reads the
\* remaining arguments as its parent did.
ASSUME CommandLineAssumption ==
    \A w \in Worlds :
       LET a     == parseArgs(w.argv)
           child == parseArgs(ChildArgs(w.argv))
       IN /\ ~a.err /\ a.action = "validate-config" => a.validate # ""
          /\ ~a.err /\ a.daemon =>
                child.action = a.action /\ child.config = a.config /\ ~child.daemon

\* cfg.HTTPRequestTimeout in ticks.  Load never makes it 0 or less; here it is
\* no shorter than a tick.
RequestTicks(c) == c.HTTPRequestTimeout \div TickLength

ASSUME RequestTimeoutAssumption ==
    \A w \in Worlds :
       LET a == parseArgs(w.argv) IN
       LoadOK(a.config, w.env, w.files, w.tokenFiles) =>
          RequestTicks(Load(a.config, w.env, w.files, w.tokenFiles)) \in Nat \ {0}

-----------------------------------------------------------------------------
(* The process starts.                                                     *)

\* A world has argv, env, files and tokenFiles, and says whether the TLS key
\* pair loads, the audit log opens and some connection can be opened.
Quiet == [st |-> "idle", stream |-> FALSE, age |-> 0, ran |-> 0, deadline |-> FALSE]

Init ==
    /\ world \in Worlds
    /\ args = NoArgs /\ phase = "start" /\ mode = "none" /\ cfg = Defaults
    /\ code = 0 /\ detached = FALSE
    /\ busy \in BOOLEAN /\ checked = FALSE /\ metrics = FALSE
    /\ req = [r \in Requests |-> Quiet] /\ sig = 0 /\ base = FALSE

Exit(c) ==
    /\ phase' = "exited" /\ code' = c
    /\ req' = [r \in Requests |->
                 IF req[r].st \in {"idle", "failed", "cut"} THEN req[r]
                 ELSE [req[r] EXCEPT !.st = "cut"]]
    /\ UNCHANGED <<world, mode, cfg, detached, busy, checked, metrics, sig, base>>

Loaded(a) == LoadOK(a.config, world.env, world.files, world.tokenFiles)
Valid(a)  == ValidateConfigFile(a.validate, world.env, world.files, world.tokenFiles)

\* main, the part that ends the process at once: a bad command line, the
\* immediate actions, or a configuration that does not load.
MainExits ==
    LET a == parseArgs(world.argv) IN
    /\ phase = "start"
    /\ args' = a
    /\ \/ a.err /\ Exit(1)
       \/ ~a.err /\ a.action \in Immediate /\ Exit(0)
       \/ ~a.err /\ a.action = "print-config" /\ Exit(IF Loaded(a) THEN 0 ELSE 1)
       \/ ~a.err /\ a.action = "validate-config" /\ Exit(IF Valid(a) THEN 0 ELSE 1)
       \/ ~a.err /\ a.action = "install-schema" /\ \E c \in {0, 1} : Exit(c)
       \/ ~a.err /\ a.action = "" /\ ~Loaded(a) /\ Exit(1)

\* The configuration is loaded.
MainLoads ==
    LET a == parseArgs(world.argv) IN
    /\ phase = "start" /\ ~a.err /\ a.action = "" /\ Loaded(a)
    /\ args' = a
    /\ cfg' = Load(a.config, world.env, world.files, world.tokenFiles)
    /\ phase' = "loaded"
    /\ UNCHANGED <<world, mode, code, detached, busy, checked, metrics, httpVars>>

\* Fault: the key pair is left to the child.
PreflightPortOnly == ~busy

\* preflightHTTPListener: what would make the child fail with nobody watching.
Preflight ==
    /\ cfg.HTTPMode \/ cfg.MCPHTTPTLSCert = "" \/ world.tlsOK
    /\ ~busy

\* --daemon: refused without an HTTP server, otherwise a child is started
\* with the same arguments but for --daemon, and the parent exits; from here
\* on the model follows the child.
DaemonRefused ==
    /\ phase = "loaded" /\ args.daemon
    /\ \/ ~cfg.HTTPMode /\ cfg.Transport # "http"
       \/ ~Preflight
       \/ TRUE      \* the child cannot be started
    /\ args' = args
    /\ Exit(1)

maybeDaemonize ==
    /\ phase = "loaded" /\ args.daemon
    /\ cfg.HTTPMode \/ cfg.Transport = "http"
    /\ Preflight
    /\ world' = [world EXCEPT !.argv = ChildArgs(@)]
    /\ phase' = "start" /\ detached' = TRUE /\ checked' = TRUE
    /\ args' = NoArgs /\ cfg' = Defaults
    /\ UNCHANGED <<mode, code, busy, metrics, httpVars>>

\* Another process takes the port.
PortTaken ==
    /\ phase \in {"start", "loaded", "ready"} /\ ~busy
    /\ busy' = TRUE /\ checked' = FALSE
    /\ UNCHANGED <<world, args, phase, mode, cfg, code, detached, metrics, httpVars>>

\* --token-card adds to the configuration.  The audit log is opened, then the
\* connections (module Startup); the process gives up without either.  The
\* files are not read again, and of the environment only one variable.
LaterEnv == {"MYSQL_MCP_ENABLE_ADD_CONNECTION"}

MainInitialises ==
    /\ phase = "loaded" /\ ~args.daemon
    /\ cfg.AuditLogPath # "" => world.auditOK
    /\ world.dbOK
    /\ cfg' = [cfg EXCEPT !.TokenCard = @ \/ args.tokenCard]
    /\ world' = [world EXCEPT !.files = <<>>, !.tokenFiles = <<>>,
                    !.env = [v \in DOMAIN @ \cap LaterEnv |-> @[v]]]
    /\ phase' = "ready"
    /\ mode' = CASE cfg.HTTPMode -> "rest"
                 [] ~cfg.HTTPMode /\ cfg.Transport = "http" -> "mcp"
                 [] OTHER -> "stdio"
    /\ UNCHANGED <<args, code, detached, busy, checked, metrics, httpVars>>

MainGivesUp ==
    /\ phase = "loaded" /\ ~args.daemon
    /\ (cfg.AuditLogPath # "" /\ ~world.auditOK) \/ ~world.dbOK
    /\ args' = args
    /\ Exit(1)

-----------------------------------------------------------------------------
(* What is served.                                                         *)

\* Fault: the audit tool is offered without an audit log.
AuditToolWithoutLog(f) ==
    CASE f = "extended" -> cfg.ExtendedMode
      [] f = "admin"    -> cfg.ProcessAdmin
      [] f = "audit"    -> cfg.ReadAuditTool
      [] f = "slow"     -> cfg.SlowQueryTool
      [] f = "vector"   -> cfg.VectorMode

\* The RequireFeature switches of the REST routes.
RequireFeature(f) ==
    CASE f = "extended" -> cfg.ExtendedMode
      [] f = "admin"    -> cfg.ProcessAdmin
      [] f = "audit"    -> cfg.ReadAuditTool /\ cfg.AuditLogPath # ""
      [] f = "slow"     -> cfg.SlowQueryTool
      [] f = "vector"   -> cfg.VectorMode

Route(path, tool, takes, needs) ==
    [path |-> path, tool |-> tool, takes |-> takes, needs |-> needs]

\* The handlers of the REST API: the tool each runs, what it takes from the client
\* (nothing that can be wrong, query parameters, or a JSON body that is POSTed),
\* and the features its route requires.
CoreRoutes ==
    {Route("/api/databases",       "list_databases", "nothing", {}),
     Route("/api/tables",          "list_tables", "params", {}),
     Route("/api/describe",        "describe_table", "params", {}),
     Route("/api/query",           "run_query", "json", {}),
     Route("/api/ping",            "ping", "nothing", {}),
     Route("/api/server-info",     "server_info", "nothing", {}),
     Route("/api/connections",     "list_connections", "nothing", {}),
     Route("/api/connections/use", "use_connection", "json", {})}

TableRoutes ==
    {Route("/api/indexes",         "list_indexes", "params", {"extended"}),
     Route("/api/create-table",    "show_create_table", "params", {"extended"}),
     Route("/api/explain",         "explain_query", "json", {"extended"})}

ObjectRoutes ==
    {Route("/api/views",           "list_views", "params", {"extended"}),
     Route("/api/triggers",        "list_triggers", "params", {"extended"}),
     Route("/api/procedures",      "list_procedures", "params", {"extended"}),
     Route("/api/functions",       "list_functions", "params", {"extended"}),
     Route("/api/partitions",      "list_partitions", "params", {"extended"})}

SizeRoutes ==
    {Route("/api/size/database",   "database_size", "nothing", {"extended"}),
     Route("/api/size/tables",     "table_size", "params", {"extended"}),
     Route("/api/foreign-keys",    "foreign_keys", "params", {"extended"}),
     Route("/api/status",          "list_status", "nothing", {"extended"}),
     Route("/api/variables",       "list_variables", "nothing", {"extended"})}

DiagnosticRoutes ==
    {Route("/api/processlist",     "process_list", "nothing", {"extended", "admin"}),
     Route("/api/kill",            "kill_query", "json", {"extended", "admin"}),
     Route("/api/audit-log",       "read_audit_log", "params", {"extended", "audit"}),
     Route("/api/slow-log",        "slow_query_log", "params", {"extended", "slow"})}

VectorRoutes ==
    {Route("/api/vector/search",   "vector_search", "json", {"vector"}),
     Route("/api/vector/info",     "vector_info", "params", {"vector"})}

\* The routes startHTTPServer registers for tools, and the one a path selects.
RestRoutes == CoreRoutes \cup TableRoutes \cup ObjectRoutes \cup SizeRoutes
              \cup DiagnosticRoutes \cup VectorRoutes

RoutePaths == {route.path : route \in RestRoutes}

RouteAt == [p \in RoutePaths |-> CHOOSE route \in RestRoutes : route.path = p]

CardPath    == "/status"
MetricsPath == "/api/metrics/tokens"

\* What httpAPIIndex lists.
CoreIndex == {"/health", "/api", "/api/databases", "/api/tables", "/api/describe",
              "/api/query", "/api/ping", "/api/server-info", "/api/connections",
              "/api/connections/use", MetricsPath}

ExtendedIndex == {"/api/indexes", "/api/create-table", "/api/explain", "/api/views",
                  "/api/triggers", "/api/procedures", "/api/functions",
                  "/api/partitions", "/api/size/database", "/api/size/tables",
                  "/api/foreign-keys", "/api/status", "/api/variables"}

httpAPIIndex ==
    LET If(b, paths) == IF b THEN paths ELSE {} IN
    CoreIndex
    \cup If(cfg.ExtendedMode,
            ExtendedIndex
            \cup If(cfg.ProcessAdmin, {"/api/processlist", "/api/kill"})
            \cup If(cfg.ReadAuditTool /\ cfg.AuditLogPath # "", {"/api/audit-log"})
            \cup If(cfg.SlowQueryTool, {"/api/slow-log"}))
    \cup If(cfg.VectorMode, {"/api/vector/search", "/api/vector/info"})
    \cup If(cfg.TokenCard, {CardPath})

\* The status of the REST API's answer, tool errors (500) aside.  OPTIONS is
\* answered before anything is looked at, switched-off features before
\* parameters and methods; below /api/ what has no route gets the index.
RestStatus(q) ==
    CASE q.path \in RoutePaths ->
           LET route == RouteAt[q.path] IN
           CASE q.method = "OPTIONS" -> 200
             [] q.method # "OPTIONS" /\ \E f \in route.needs : ~RequireFeature(f) -> 404
             [] OTHER -> IF route.takes = "json" /\ q.method # "POST" THEN 405
                         ELSE IF route.takes = "json" /\ q.input = "large" THEN 413
                         ELSE IF route.takes # "nothing" /\ q.input # "good" THEN 400
                         ELSE 200
      [] q.path = CardPath -> IF cfg.TokenCard THEN 200 ELSE 404
      [] OTHER -> 200

\* The tools that buildMCPServer registers.
CoreTools == {"list_databases", "list_tables", "describe_table", "run_query",
              "ping", "server_info"}
ConnectionTools == {"list_connections", "use_connection"}
VectorTools == {"vector_search", "vector_info"}
ExtendedTools == {"list_indexes", "show_create_table", "explain_query", "list_views",
                  "list_triggers", "list_procedures", "list_functions",
                  "list_partitions", "database_size", "table_size", "foreign_keys",
                  "list_status", "list_variables", "search_schema", "schema_diff"}

registerExtendedTools ==
    LET If(b, tools) == IF b THEN tools ELSE {} IN
    ExtendedTools
    \cup If(cfg.ProcessAdmin, {"process_list", "kill_query"})
    \cup If(cfg.ReadAuditTool /\ cfg.AuditLogPath # "", {"read_audit_log"})
    \cup If(cfg.SlowQueryTool, {"slow_query_log"})
    \cup If(EnvText(world.env, "MYSQL_MCP_ENABLE_ADD_CONNECTION") = "1",
            {"add_connection"})

buildMCPServer ==
    CoreTools \cup ConnectionTools
    \cup (IF cfg.VectorMode THEN VectorTools ELSE {})
    \cup (IF cfg.ExtendedMode THEN registerExtendedTools ELSE {})

\* withAllowedHosts: a request that arrives on a loopback address must name
\* this host, or a public name of the proxy in front.
withAllowedHosts(q) ==
    q.local => q.host \in LoopbackHosts \cup Range(cfg.MCPHTTPAllowedHosts)

\* With a token configured, every request needs it.
TokenSet == cfg.MCPHTTPToken # ""
requireBearerToken(q) == TokenSet => q.token

\* withMCPCORS: a browser at a configured origin asks first, with an OPTIONS
\* request that has an Access-Control-Request-Method; another OPTIONS request
\* goes the way of every request.
AllowedOrigin(q) == q.origin \in Range(cfg.MCPHTTPAllowedOrigins)
Preflighted(q)   == q.method = "OPTIONS" /\ q.asks /\ AllowedOrigin(q)

\* Cross-origin protection of net/http: a browser at another origin than the
\* server's own changes nothing.
SameOrigin(q) == q.origin = "https://app" /\ q.host = "app"

CrossOriginAllowed(q) ==
    q.origin = "" \/ SameOrigin(q) \/ AllowedOrigin(q) \/ q.method # "POST"

\* newMCPHTTPHandler, the rate limit (module RateLimiter) aside; on the MCP path
\* 200 is a request that gets to the protocol's handler, whatever that answers.
McpStatus(q) ==
    CASE ~withAllowedHosts(q) -> 403
      [] withAllowedHosts(q) /\ q.path = cfg.MCPHTTPPath ->
           CASE Preflighted(q) -> 204
             [] ~Preflighted(q) /\ ~requireBearerToken(q) -> 401
             [] OTHER -> IF CrossOriginAllowed(q) THEN 200 ELSE 403
      [] withAllowedHosts(q) /\ q.path = MetricsPath ->
           IF Preflighted(q) THEN 204
           ELSE IF requireBearerToken(q) THEN 200 ELSE 401
      [] withAllowedHosts(q) /\ q.path = CardPath ->
           IF cfg.TokenCard /\ ~TokenSet THEN 200 ELSE 404
      [] withAllowedHosts(q) /\ q.path = "/health" ->
           IF Preflighted(q) THEN 204 ELSE 200
      [] OTHER -> 404

\* The requests told apart.
RestQueries ==
    [path : RoutePaths \cup {CardPath, "/health", "/api", "/api/nosuch", MetricsPath},
     method : {"GET", "POST", "OPTIONS"}, input : {"good", "bad", "large"}]

McpQueries ==
    [path : {cfg.MCPHTTPPath, MetricsPath, CardPath, "/health", "/nosuch"},
     method : {"GET", "POST", "OPTIONS"}, asks : BOOLEAN, token : BOOLEAN,
     host : {"localhost", "app", "elsewhere"}, origin : {"", "https://app", "https://other"},
     local : IF IsLoopbackBind(cfg.MCPHTTPBind) THEN {TRUE} ELSE BOOLEAN]

-----------------------------------------------------------------------------
(* Listening.                                                              *)

CanListen == ~busy /\ (mode = "mcp" /\ cfg.MCPHTTPTLSCert # "" => world.tlsOK)

\* The metrics listener beside stdio: a port that is taken is only logged.
MetricsListener == mode = "stdio" /\ cfg.MetricsHTTP /\ ~busy

\* ListenAndServe; stdio needs no port.
Serve ==
    /\ phase = "ready"
    /\ mode # "stdio" => CanListen
    /\ phase' = "serving"
    /\ metrics' = MetricsListener
    /\ UNCHANGED <<world, args, mode, cfg, code, detached, busy, checked, httpVars>>

ListenFails ==
    /\ phase = "ready" /\ mode # "stdio" /\ ~CanListen
    /\ args' = args
    /\ Exit(1)

\* The client closes stdin, or the transport fails.
StdioEnds ==
    /\ phase = "serving" /\ mode = "stdio"
    /\ args' = args
    /\ \E c \in {0, 1} : Exit(c)

-----------------------------------------------------------------------------
(* Requests.  A request is "body" while its handler waits for the rest of  *)
(* the body, "drain" while net/http discards the body of a request it has  *)
(* already refused, and "run" while the handler works.  It is over as      *)
(* "failed" if the time of its context ran out and the answer says so, and *)
(* as "cut" if there is no answer.  Its age is counted for the             *)
(* connection's read and write deadlines; ran is the age of the REST       *)
(* handler's context.                                                      *)

Active(r) == req[r].st \in {"body", "drain", "run"}

\* Fault: the read deadline stays on while the answer is made.
DeadlineKept(r, st) == mode = "mcp" \/ st # "idle"

\* Is there a read deadline on the connection?  MCP: withBodyReadDeadline sets
\* it for a request with a body and deadlineBody clears it at the end of the
\* body, and only there.  REST: ReadTimeout covers the whole request.
Deadline(r, st) == IF mode = "mcp" THEN st \in {"body", "drain"} ELSE st # "idle"

ReadLimit == IF mode = "mcp" THEN BodyTimeout ELSE ReadTimeout

Becomes(r, st) ==
    [req[r] EXCEPT !.st = st, !.deadline = Deadline(r, st),
        !.age = IF Deadline(r, st) THEN @ ELSE 0]

RequestTimeout == RequestTicks(cfg)

\* Fault: the write deadline is the request timeout itself.
WriteTimeoutTight == RequestTimeout - 1

\* http.Server.WriteTimeout of the REST API; the MCP server has none.
WriteTimeout == RequestTimeout + Slack

\* The handler has returned: a REST answer after the write deadline is lost.
Ends(r, st) ==
    [Quiet EXCEPT !.st = IF mode = "rest" /\ req[r].age > WriteTimeout THEN "cut" ELSE st]

\* The outcome of the checks in front of the handler for some request.
Admitted(b) ==
    IF mode = "mcp"
    THEN \E q \in McpQueries : q.path = cfg.MCPHTTPPath /\ (McpStatus(q) = 200) = b
    ELSE \E q \in RestQueries : (RestStatus(q) = 200) = b

\* A request arrives, with the whole body or a part; a stream (GET on the MCP
\* path) has none and ends only with its context or its client.
Arrive(r) ==
    /\ phase = "serving" /\ mode # "stdio" /\ ~Active(r)
    /\ \E admitted, whole, stream \in BOOLEAN :
          /\ Admitted(admitted)
          /\ stream => mode = "mcp" /\ admitted /\ whole
          /\ ~(whole /\ ~admitted)     \* answered at once
          /\ LET st == CASE admitted /\ whole -> "run"
                         [] admitted /\ ~whole -> "body"
                         [] OTHER -> "drain"
             IN req' = [req EXCEPT ![r] =
                          [Quiet EXCEPT !.st = st, !.stream = stream,
                                        !.deadline = Deadline(r, st)]]
    /\ UNCHANGED <<procVars, sig, base>>

\* The rest of the body arrives: the handler goes on, or the refusal is sent.
BodyArrives(r) ==
    /\ req[r].st \in {"body", "drain"}
    /\ req' = [req EXCEPT ![r] =
                 IF req[r].st = "body" THEN Becomes(r, "run") ELSE Quiet]
    /\ UNCHANGED <<procVars, sig, base>>

DeadlineDue(r) == Active(r) /\ req[r].deadline /\ req[r].age >= ReadLimit

\* The read deadline passes.  Waiting for the body fails, so the request is
\* answered with an error and its connection closed.  While a handler works
\* the connection's background read fails, which cancels its context: a REST
\* handler answers with an error, an MCP answer is lost.
DeadlinePasses(r) ==
    /\ DeadlineDue(r)
    /\ req' = [req EXCEPT ![r] =
                 IF req[r].st # "run" THEN Quiet
                 ELSE IF mode = "mcp" THEN [Quiet EXCEPT !.st = "cut"]
                 ELSE Ends(r, "failed")]
    /\ UNCHANGED <<procVars, sig, base>>

\* The context of a REST handler, made once the body is read, times out.
ContextDue(r) == mode = "rest" /\ req[r].st = "run" /\ req[r].ran >= RequestTimeout

ContextExpires(r) ==
    /\ ContextDue(r)
    /\ req' = [req EXCEPT ![r] = Ends(r, "failed")]
    /\ UNCHANGED <<procVars, sig, base>>

\* The handler returns by itself.
HandlerReturns(r) ==
    /\ req[r].st = "run" /\ (~req[r].stream)
    /\ req' = [req EXCEPT ![r] = Ends(r, "idle")]
    /\ UNCHANGED <<procVars, sig, base>>

ClientLeaves(r) ==
    /\ Active(r)
    /\ req' = [req EXCEPT ![r] = Quiet]
    /\ UNCHANGED <<procVars, sig, base>>

\* The cancelled base context ends streams and tool calls, unanswered.
ContextCancelled(r) ==
    /\ base /\ req[r].st = "run"
    /\ req' = [req EXCEPT ![r] = [Quiet EXCEPT !.st = "cut"]]
    /\ UNCHANGED <<procVars, sig, base>>

-----------------------------------------------------------------------------
(* Shutdown.                                                               *)

\* SIGINT or SIGTERM: Shutdown closes the listener and starts the timers.
Signal ==
    /\ phase = "serving" /\ mode # "stdio"
    /\ phase' = "draining"
    /\ UNCHANGED <<world, args, mode, cfg, code, detached, busy, checked, metrics,
                   httpVars>>

GraceDue == phase = "draining" /\ mode = "mcp" /\ ~base /\ sig >= Grace

\* Fault: the remaining connections are not closed.
NeverForced == FALSE

ForceDue == phase = "draining" /\ mode = "mcp" /\ base /\ sig >= Grace + ForceWait

\* The functions registered for shutdown: cancel the base context, then close
\* what is left.
CancelBase ==
    /\ GraceDue
    /\ base' = TRUE
    /\ UNCHANGED <<procVars, req, sig>>

CloseAll ==
    /\ ForceDue /\ \E r \in Requests : Active(r)
    /\ req' = [r \in Requests |->
                 IF Active(r) THEN [Quiet EXCEPT !.st = "cut"] ELSE req[r]]
    /\ UNCHANGED <<procVars, sig, base>>

ShutdownDue ==
    /\ phase = "draining"
    /\ (\A r \in Requests : ~Active(r)) \/ sig >= ShutdownTimeout

\* Shutdown returns: no connection is busy, or its time is up.  main returns
\* and its deferred calls close the connections and the audit log.
ShutdownReturns ==
    /\ ShutdownDue
    /\ args' = args
    /\ Exit(0)

Tick ==
    /\ phase \in {"serving", "draining"} /\ mode # "stdio"
    /\ ~(GraceDue \/ ShutdownDue)
    /\ ~(ForceDue /\ \E r \in Requests : Active(r))
    /\ \A r \in Requests : ~DeadlineDue(r) /\ ~ContextDue(r)
    /\ req' = [r \in Requests |->
                 [req[r] EXCEPT !.age = IF Active(r) /\ req[r].deadline THEN @ + 1 ELSE @,
                                !.ran = IF mode = "rest" /\ req[r].st = "run"
                                        THEN @ + 1 ELSE @]]
    /\ sig' = IF phase = "draining" THEN sig + 1 ELSE sig
    /\ UNCHANGED <<procVars, base>>

-----------------------------------------------------------------------------
ProcessNext ==
    \/ MainExits \/ MainLoads \/ DaemonRefused \/ maybeDaemonize \/ PortTaken
    \/ MainInitialises \/ MainGivesUp \/ Serve \/ ListenFails \/ StdioEnds
    \/ \E r \in Requests :
          \/ Arrive(r) \/ BodyArrives(r) \/ DeadlinePasses(r) \/ ContextExpires(r)
          \/ HandlerReturns(r) \/ ClientLeaves(r) \/ ContextCancelled(r)
    \/ Signal \/ CancelBase \/ CloseAll \/ ShutdownReturns \/ Tick

ProcessSpec == Init /\ [][ProcessNext]_allVars

-----------------------------------------------------------------------------
(* Properties.                                                             *)

\* The checks made beforehand say what startup will do.  --validate-config
\* accepts a file exactly if the server would start with it in the same
\* environment, an empty DSN aside, which only the check refuses.  And a
\* server that --daemon has put into the background fails to listen only if
\* the port was taken after the parent looked.
CheckPredictsStartup ==
    /\ phase = "exited" /\ ~args.err /\ args.action = "validate-config" =>
          LET starts == LoadOK(args.validate, world.env, world.files, world.tokenFiles)
              conns  == Load(args.validate, world.env, world.files,
                             world.tokenFiles).Connections
          IN (code = 0) = (starts /\ \A i \in DOMAIN conns : conns[i].dsn # "")
    /\ phase = "exited" /\ detached /\ mode \in {"rest", "mcp"} /\ code = 1 => ~checked

\* A browser with the token, at the origin the configuration names.
Invited(q) ==
    /\ cfg.MCPHTTPAllowedOrigins # <<>> /\ q.origin = "https://app"
    /\ q.path = cfg.MCPHTTPPath /\ q.token /\ q.host = "localhost"

\* A route of the REST API is listed in its index exactly if it works, and
\* exactly if the tool behind it would be an MCP tool under this configuration.
RestServed ==
    \A p \in RoutePaths \cup {CardPath} :
       LET post  == p \in RoutePaths /\ RouteAt[p].takes = "json"
           works == RestStatus([path |-> p, input |-> "good",
                                method |-> IF post THEN "POST" ELSE "GET"]) = 200
       IN /\ works = (p \in httpAPIIndex)
          /\ p \in RoutePaths =>
                works = (RouteAt[p].tool \in buildMCPServer)

\* Without the token tools can only be called on this host.
TokenlessIsLocal ==
    \A q \in McpQueries :
       q.path = cfg.MCPHTTPPath /\ McpStatus(q) = 200 /\ ~q.token =>
          IsLoopbackBind(cfg.MCPHTTPBind) /\ q.host \in LoopbackHosts

\* The status page is served only where its own request for the metrics
\* succeeds; and a browser at a configured origin, however that origin was
\* written, gets through.
BrowsersServed ==
    \A q \in McpQueries :
       /\ q.path = CardPath /\ McpStatus(q) = 200 =>
             McpStatus([q EXCEPT !.path = MetricsPath]) \in {200, 204}
       /\ Invited(q) =>
             McpStatus(q) = IF q.method = "OPTIONS" /\ q.asks THEN 204 ELSE 200

\* What a running server offers is what its configuration and its own index
\* say, in each of the three respects above: for every configuration that
\* loads, the routes and tools, the token and the browsers agree with it.
ServedAsConfigured ==
    phase = "serving" =>
    /\ mode = "rest" => RestServed
    /\ mode = "mcp" => TokenlessIsLocal /\ BrowsersServed

\* A client cannot hold the server.  One that stops sending its body is let
\* go by the read deadline; and once the process is told to stop, a stalled
\* body, a stream or a long call delays its exit by no more than the grace
\* period and the second after it (MCP), or the shutdown timeout (REST).
NoClientHoldsServer ==
    /\ \A r \in Requests : req[r].st \in {"body", "drain"} => req[r].age <= ReadLimit
    /\ phase = "draining" =>
          sig <= (IF mode = "mcp" THEN Grace + ForceWait ELSE ShutdownTimeout)

\* No timer ends a request before its time once all of it has arrived.  Over
\* MCP none does until shutdown has run out of patience.  In the REST API the
\* context ends at the earlier of two limits, the request timeout counted from
\* the end of the body and the read timeout of the connection counted from the
\* start of the request: the second, 30 s, comes first by default, although
\* src/README.md:165 gives a request 60 s.  But the client is told: its answer is lost
\* only if sending the body took longer than the slack of the write timeout, or
\* to shutdown.
CompleteRequestsGetTheirTime ==
    [][\A r \in Requests :
          req[r].st = "run" =>
          /\ req'[r].st = "cut" =>
                \/ phase = "draining" /\ sig >= (IF mode = "mcp" THEN Grace ELSE ShutdownTimeout)
                \/ mode = "rest" /\ req[r].age - req[r].ran > Slack
          /\ req'[r].st = "failed" =>
                mode = "rest" /\ (req[r].age >= ReadTimeout \/ req[r].ran >= RequestTimeout)]_allVars

=============================================================================
