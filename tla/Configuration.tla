---------------------------- MODULE Configuration ----------------------------
(***************************************************************************)
(* How the process gets its configuration, internal/config: the file that  *)
(* is found, the file's settings over the defaults, the environment over   *)
(* both, the connections, the normalisation and the checks at the end.     *)
(*                                                                         *)
(* An environment is a function on the variables that are set.  A number   *)
(* that does not parse or is not positive is 0, a Boolean is what          *)
(* getEnvBool makes of its text, and text is trimmed and lower-cased where *)
(* the code does it, so "" is a variable set to blanks.  A file is a       *)
(* record: its extension, its syntax, the settings written in it and its   *)
(* connections.  Timeouts of queries are in milliseconds and the rate      *)
(* limit is in tenths of a request, the rest in the units of the file.     *)
(***************************************************************************)
EXTENDS Integers, Sequences, TLC

Defaults ==
    [MaxRows |-> 200, QueryTimeout |-> 30000, MaxOpenConns |-> 10,
     MaxIdleConns |-> 5, ConnMaxLifetime |-> 30, ConnMaxIdleTime |-> 5,
     PingTimeout |-> 5, HTTPPort |-> 9306, HTTPRequestTimeout |-> 60,
     RateLimitRPS |-> 1000, RateLimitBurst |-> 200, MCPHTTPSessionTimeout |-> 0,
     DBRetryMaxRetries |-> 3, DBRetryMaxInterval |-> 10000,
     ExtendedMode |-> FALSE, VectorMode |-> FALSE, HTTPMode |-> FALSE,
     MetricsHTTP |-> FALSE, JSONLogging |-> FALSE, TokenTracking |-> FALSE,
     TokenCard |-> FALSE, MCPHTTPStateless |-> FALSE,
     MCPHTTPAllowInsecure |-> FALSE, RateLimitEnabled |-> FALSE,
     StatementLabels |-> TRUE, StrictReadOnly |-> FALSE,
     AllowSystemSchemas |-> FALSE, ProcessAdmin |-> FALSE,
     ReadAuditTool |-> FALSE, SlowQueryTool |-> FALSE,
     TokenModel |-> "cl100k_base", Transport |-> "", MCPHTTPBind |-> "",
     MCPHTTPPath |-> "", MCPHTTPToken |-> "", MCPHTTPTokenFile |-> "",
     MCPHTTPTLSCert |-> "", MCPHTTPTLSKey |-> "", AuditLogPath |-> "",
     ToolPack |-> "", MaskColumns |-> <<>>, AllowedDatabases |-> <<>>,
     MCPHTTPAllowedOrigins |-> <<>>, MCPHTTPAllowedHosts |-> <<>>,
     Connections |-> <<>>]

Settings == DOMAIN Defaults

-----------------------------------------------------------------------------
(* The file.                                                               *)

\* Where a file is looked for, first to last, unless the command line or the
\* environment names one.
SearchPath == <<"./server.yaml", "./server.yml", "./server.json",
                "~/config.yaml", "~/config.yml", "~/config.json",
                "/etc/config.yaml", "/etc/config.yml", "/etc/config.json">>

\* A path named by hand is taken even if nothing is there.
FindConfigFile(flag, env, disk) ==
    LET found == SelectSeq(SearchPath, LAMBDA p : p \in DOMAIN disk) IN
    CASE flag # "" -> flag
      [] flag = "" /\ "MYSQL_MCP_CONFIG" \in DOMAIN env -> env["MYSQL_MCP_CONFIG"]
      [] OTHER -> IF found = <<>> THEN "" ELSE found[1]

\* LoadConfigFile succeeds: JSON is read by both parsers, and a file without
\* a known extension is tried as YAML, then as JSON.
Loads(path, disk) ==
    /\ path \in DOMAIN disk
    /\ \/ disk[path].syntax = "json"
       \/ disk[path].syntax = "yaml" /\ disk[path].ext # "json"

\* Settings of the file that count only if they are positive.
PositiveOnly ==
    {"MaxRows", "QueryTimeout", "MaxOpenConns", "MaxIdleConns", "ConnMaxLifetime",
     "ConnMaxIdleTime", "PingTimeout", "HTTPPort", "HTTPRequestTimeout",
     "MCPHTTPSessionTimeout"}

\* The file's connections in the order they are opened: "default" first, the
\* others by name.
NameOrder == <<"alpha", "default", "mcp-session/x", "zeta">>

FileConnections(conns) ==
    LET sorted == SelectSeq(NameOrder, LAMBDA n : n \in DOMAIN conns)
        rest   == SelectSeq(sorted, LAMBDA n : n # "default")
        names  == IF "default" \in DOMAIN conns THEN <<"default">> \o rest ELSE sorted
    IN [i \in DOMAIN names |-> conns[names[i]] @@ [name |-> names[i]]]

\* What ToConfig takes from the file: what it knows of, where it is usable.
EnvironmentOnly == {"MetricsHTTP", "MCPHTTPToken", "DBRetryMaxRetries",
                    "DBRetryMaxInterval", "Connections"}

FromFile(f, s) ==
    /\ s \in DOMAIN f.set \ EnvironmentOnly
    /\ s \in PositiveOnly => f.set[s] > 0
    /\ s = "TokenModel" => f.set[s] # ""

ToConfig(f) ==
    [[s \in Settings |-> IF FromFile(f, s) THEN f.set[s] ELSE Defaults[s]]
        EXCEPT !.Connections = FileConnections(f.conns)]

-----------------------------------------------------------------------------
(* The environment.                                                        *)

\* The variables of a number: the first one that is set is read.
NumberVars ==
    [MaxRows |-> <<"MYSQL_MAX_ROWS">>,
     MaxOpenConns |-> <<"MYSQL_MAX_OPEN_CONNS", "MYSQL_POOL_SIZE">>,
     MaxIdleConns |-> <<"MYSQL_MAX_IDLE_CONNS">>,
     ConnMaxLifetime |-> <<"MYSQL_CONN_MAX_LIFETIME_MINUTES">>,
     ConnMaxIdleTime |-> <<"MYSQL_CONN_MAX_IDLE_TIME_MINUTES">>,
     PingTimeout |-> <<"MYSQL_PING_TIMEOUT_SECONDS">>,
     HTTPPort |-> <<"MYSQL_HTTP_PORT">>,
     HTTPRequestTimeout |-> <<"MYSQL_HTTP_REQUEST_TIMEOUT_SECONDS">>,
     MCPHTTPSessionTimeout |-> <<"MYSQL_MCP_HTTP_SESSION_TIMEOUT_MINUTES">>,
     RateLimitBurst |-> <<"MYSQL_HTTP_RATE_LIMIT_BURST">>,
     DBRetryMaxInterval |-> <<"MYSQL_MCP_DB_RETRY_MAX_INTERVAL_MS">>]

FlagVars ==
    [ExtendedMode |-> "MYSQL_MCP_EXTENDED", VectorMode |-> "MYSQL_MCP_VECTOR",
     HTTPMode |-> "MYSQL_MCP_HTTP", MetricsHTTP |-> "MYSQL_MCP_METRICS_HTTP",
     JSONLogging |-> "MYSQL_MCP_JSON_LOGS",
     TokenTracking |-> "MYSQL_MCP_TOKEN_TRACKING",
     TokenCard |-> "MYSQL_MCP_TOKEN_CARD",
     MCPHTTPStateless |-> "MYSQL_MCP_HTTP_STATELESS",
     MCPHTTPAllowInsecure |-> "MYSQL_MCP_HTTP_ALLOW_INSECURE",
     RateLimitEnabled |-> "MYSQL_HTTP_RATE_LIMIT",
     StatementLabels |-> "MYSQL_MCP_STATEMENT_LABELS",
     StrictReadOnly |-> "MYSQL_MCP_STRICT_READ_ONLY",
     AllowSystemSchemas |-> "MYSQL_MCP_ALLOW_SYSTEM_SCHEMAS",
     ProcessAdmin |-> "MYSQL_MCP_PROCESS_ADMIN",
     ReadAuditTool |-> "MYSQL_MCP_READ_AUDIT_TOOL",
     SlowQueryTool |-> "MYSQL_MCP_SLOW_QUERY_TOOL"]

TextVars ==
    [TokenModel |-> "MYSQL_MCP_TOKEN_MODEL", Transport |-> "MYSQL_MCP_TRANSPORT",
     MCPHTTPBind |-> "MYSQL_MCP_HTTP_BIND", MCPHTTPPath |-> "MYSQL_MCP_HTTP_PATH",
     MCPHTTPToken |-> "MYSQL_MCP_HTTP_TOKEN",
     MCPHTTPTokenFile |-> "MYSQL_MCP_HTTP_TOKEN_FILE",
     MCPHTTPTLSCert |-> "MYSQL_MCP_HTTP_TLS_CERT",
     MCPHTTPTLSKey |-> "MYSQL_MCP_HTTP_TLS_KEY",
     AuditLogPath |-> "MYSQL_MCP_AUDIT_LOG",
     MaskColumns |-> "MYSQL_MCP_MASK_COLUMNS",
     AllowedDatabases |-> "MYSQL_MCP_ALLOWED_DATABASES",
     MCPHTTPAllowedOrigins |-> "MYSQL_MCP_HTTP_ALLOWED_ORIGINS",
     MCPHTTPAllowedHosts |-> "MYSQL_MCP_HTTP_ALLOWED_HOSTS"]

getEnvInt(env, v, def) == IF env[v] > 0 THEN env[v] ELSE def

Number(cfg, env, s) ==
    LET set == SelectSeq(NumberVars[s], LAMBDA v : v \in DOMAIN env) IN
    IF set = <<>> THEN cfg[s] ELSE getEnvInt(env, set[1], cfg[s])

Flag(cfg, env, s) == IF FlagVars[s] \in DOMAIN env THEN env[FlagVars[s]] ELSE cfg[s]

Text(cfg, env, s) == IF TextVars[s] \in DOMAIN env THEN env[TextVars[s]] ELSE cfg[s]

\* A value that is no number leaves the whole seconds of what was there.
QueryTimeout(cfg, env) ==
    CASE "MYSQL_QUERY_TIMEOUT_SECONDS" \in DOMAIN env ->
           getEnvInt(env, "MYSQL_QUERY_TIMEOUT_SECONDS", cfg.QueryTimeout \div 1000) * 1000
      [] /\ "MYSQL_QUERY_TIMEOUT_SECONDS" \notin DOMAIN env
         /\ "MYSQL_QUERY_TIMEOUT" \in DOMAIN env ->
           getEnvInt(env, "MYSQL_QUERY_TIMEOUT", cfg.QueryTimeout)
      [] OTHER -> cfg.QueryTimeout

\* Likewise the whole requests per second: half a request becomes none.
RateLimitRPS(cfg, env) ==
    IF "MYSQL_HTTP_RATE_LIMIT_RPS" \in DOMAIN env
    THEN getEnvInt(env, "MYSQL_HTTP_RATE_LIMIT_RPS", cfg.RateLimitRPS \div 10) * 10
    ELSE cfg.RateLimitRPS

\* -1 is a value that is no number here: 0 retries is a choice.
DBRetryMaxRetries(cfg, env) ==
    IF "MYSQL_MCP_DB_RETRY_MAX" \in DOMAIN env /\ env["MYSQL_MCP_DB_RETRY_MAX"] \in 0..20
    THEN env["MYSQL_MCP_DB_RETRY_MAX"] ELSE cfg.DBRetryMaxRetries

ToolPack(cfg, env) ==
    IF "MYSQL_MCP_TOOL_PACK" \in DOMAIN env /\ env["MYSQL_MCP_TOOL_PACK"] # ""
    THEN env["MYSQL_MCP_TOOL_PACK"] ELSE cfg.ToolPack

\* The settings as the environment has them, each for itself.
Overridden(cfg, env) ==
    [s \in Settings |->
        CASE s \in DOMAIN NumberVars    -> Number(cfg, env, s)
          [] s \in DOMAIN FlagVars      -> Flag(cfg, env, s)
          [] s \in DOMAIN TextVars      -> Text(cfg, env, s)
          [] s = "QueryTimeout"         -> QueryTimeout(cfg, env)
          [] s = "RateLimitRPS"         -> RateLimitRPS(cfg, env)
          [] s = "DBRetryMaxRetries"    -> DBRetryMaxRetries(cfg, env)
          [] s = "ToolPack"             -> ToolPack(cfg, env)
          [] OTHER                      -> cfg[s]]

\* The status page is on by default with HTTP from the environment and with
\* the metrics listener; the REST API replaces the metrics listener.
applyEnvOverrides(cfg, env) ==
    LET c == Overridden(cfg, env)
        card == \/ c.HTTPMode /\ "MYSQL_MCP_HTTP" \in DOMAIN env
                \/ c.MetricsHTTP /\ ~c.HTTPMode
    IN [c EXCEPT !.TokenCard = @ \/ ("MYSQL_MCP_TOKEN_CARD" \notin DOMAIN env /\ card),
                 !.MetricsHTTP = @ /\ ~c.HTTPMode]

-----------------------------------------------------------------------------
(* Connections from the environment.                                       *)

EnvText(env, v) == IF v \in DOMAIN env THEN env[v] ELSE ""

\* loadGlobalSSHFromEnv: a bastion only if host, user and key are all there.
GlobalSSH(env) ==
    IF \A v \in {"MYSQL_SSH_HOST", "MYSQL_SSH_USER", "MYSQL_SSH_KEY_PATH"} :
          EnvText(env, v) # ""
    THEN env["MYSQL_SSH_HOST"] ELSE ""

\* A connection's own SSL and SSH settings win over the global ones.
WithGlobals(env, c) ==
    [c EXCEPT !.ssl = IF @ = "" THEN EnvText(env, "MYSQL_SSL") ELSE @,
              !.ssh = IF @ = "" THEN GlobalSSH(env) ELSE @]

\* MYSQL_DSN and the numbered variables, which are read in order up to
\* MYSQL_DSN_10 and may leave gaps.
NumberedDSNs == <<"MYSQL_DSN_1", "MYSQL_DSN_2", "MYSQL_DSN_3", "MYSQL_DSN_4",
                  "MYSQL_DSN_5", "MYSQL_DSN_6", "MYSQL_DSN_7", "MYSQL_DSN_8",
                  "MYSQL_DSN_9", "MYSQL_DSN_10">>

EnvDSNs(env) ==
    LET default  == IF "MYSQL_DSN" \in DOMAIN env
                    THEN <<[name |-> "default", dsn |-> env["MYSQL_DSN"],
                            ssl |-> "", ssh |-> ""]>>
                    ELSE <<>>
        set      == SelectSeq(NumberedDSNs, LAMBDA v : v \in DOMAIN env)
        numbered == [i \in DOMAIN set |->
                       [env[set[i]] EXCEPT !.name = IF @ = "" THEN set[i] ELSE @]]
    IN default \o numbered

\* loadConnections: the JSON list replaces the single variables.
loadConnections(env) ==
    LET list == IF "MYSQL_CONNECTIONS" \in DOMAIN env
                THEN env["MYSQL_CONNECTIONS"].conns ELSE EnvDSNs(env)
    IN [i \in DOMAIN list |-> WithGlobals(env, list[i])]

ConnectionsParse(env) ==
    "MYSQL_CONNECTIONS" \in DOMAIN env => env["MYSQL_CONNECTIONS"].parses

WithEnvConnections(cfg, env) ==
    IF loadConnections(env) = <<>> THEN cfg
    ELSE [cfg EXCEPT !.Connections = loadConnections(env)]

-----------------------------------------------------------------------------
(* Normalisation and checks.  Host names, origins and paths are told apart *)
(* by what these functions make of them; each class has a representative.  *)

LoopbackHosts == {"127.0.0.1", "::1", "localhost"}
HostsWithPort == {"host:80"}

IsLoopbackBind(host) == host \in LoopbackHosts

\* "[::1]" is "::1".
Unbracketed(host) == IF host = "[::1]" THEN "::1" ELSE host

\* One origin in the form browsers send it, in another valid form, and text
\* that is no origin.
validateOrigin(o) == o \in {"https://app", "HTTPS://App:443/"}
canonicalOrigin(o) == IF validateOrigin(o) THEN "https://app" ELSE o

reservedMCPHTTPPaths == {"/health", "/status", "/api/metrics/tokens"}
UncleanPaths == {"/", "mcp", "/mcp/", "/{x}"}

validateMCPHTTPPath(p) == p \notin UncleanPaths \cup reservedMCPHTTPPaths

applyMCPHTTPDefaults(cfg) ==
    [cfg EXCEPT
        !.Transport = IF @ = "" THEN "stdio" ELSE @,
        !.MCPHTTPBind = IF @ = "" THEN "127.0.0.1" ELSE Unbracketed(@),
        !.MCPHTTPPath = IF @ = "" THEN "/mcp" ELSE @,
        !.MCPHTTPSessionTimeout = IF @ = 0 THEN 30 ELSE @,
        !.MCPHTTPAllowedOrigins = [i \in DOMAIN @ |-> canonicalOrigin(@[i])]]

validateConnectionNames(conns) ==
    \A i \in DOMAIN conns : conns[i].name # "mcp-session/x"

\* The token file is read only if it is needed.  The disk maps the name of a
\* token file to its trimmed text.
TokenFileNeeded(cfg) ==
    cfg.Transport = "http" /\ cfg.MCPHTTPToken = "" /\ cfg.MCPHTTPTokenFile # ""

TokenFileUsable(cfg, tokenFiles) ==
    TokenFileNeeded(cfg) =>
        cfg.MCPHTTPTokenFile \in DOMAIN tokenFiles
            /\ tokenFiles[cfg.MCPHTTPTokenFile] # ""

resolveMCPHTTPToken(cfg, tokenFiles) ==
    IF TokenFileNeeded(cfg)
    THEN [cfg EXCEPT !.MCPHTTPToken = tokenFiles[cfg.MCPHTTPTokenFile]] ELSE cfg

validateToolPack(v) == v \in {"", "auto", "off"}

ValidateTransport(cfg) ==
    \/ cfg.Transport = "stdio"
    \/ /\ cfg.Transport = "http"
       /\ ~cfg.HTTPMode
       /\ validateMCPHTTPPath(cfg.MCPHTTPPath)
       /\ \A i \in DOMAIN cfg.MCPHTTPAllowedOrigins :
             validateOrigin(cfg.MCPHTTPAllowedOrigins[i])
       /\ cfg.MCPHTTPBind \notin HostsWithPort
       /\ (cfg.MCPHTTPTLSCert = "") = (cfg.MCPHTTPTLSKey = "")
       /\ cfg.MCPHTTPAllowedHosts # <<>> => cfg.MCPHTTPToken # ""
       /\ ~IsLoopbackBind(cfg.MCPHTTPBind) =>
             /\ cfg.MCPHTTPToken # ""
             /\ cfg.MCPHTTPTLSCert # "" \/ cfg.MCPHTTPAllowInsecure

-----------------------------------------------------------------------------
(* Load, at startup, and ValidateConfigFile, behind --validate-config.     *)

\* The settings both work with, before the checks.
Merged(base, env) ==
    WithEnvConnections(applyMCPHTTPDefaults(applyEnvOverrides(base, env)), env)

\* The checks of Load, in its order; the first that fails is the error.
Checks(cfg, env, tokenFiles) ==
    /\ ConnectionsParse(env)
    /\ cfg.Connections # <<>>
    /\ validateConnectionNames(cfg.Connections)
    /\ TokenFileUsable(cfg, tokenFiles)
    /\ validateToolPack(cfg.ToolPack)
    /\ ValidateTransport(resolveMCPHTTPToken(cfg, tokenFiles))

LoadBase(path, disk) == IF path = "" THEN Defaults ELSE ToConfig(disk[path])

\* Load returns no error, and the configuration it returns.
LoadOK(flag, env, disk, tokenFiles) ==
    LET path == FindConfigFile(flag, env, disk) IN
    /\ path # "" => Loads(path, disk)
    /\ Checks(Merged(LoadBase(path, disk), env), env, tokenFiles)

Load(flag, env, disk, tokenFiles) ==
    LET path == FindConfigFile(flag, env, disk) IN
    resolveMCPHTTPToken(Merged(LoadBase(path, disk), env), tokenFiles)

\* Fault: --validate-config looks at the file alone.
ValidateFileAlone(path, env, disk, tokenFiles) ==
    /\ Loads(path, disk)
    /\ Checks(Merged(ToConfig(disk[path]), <<>>), <<>>, tokenFiles)

\* ValidateConfigFile returns no error: the same checks, and one of its own.
ValidateConfigFile(path, env, disk, tokenFiles) ==
    /\ Loads(path, disk)
    /\ LET cfg == Merged(ToConfig(disk[path]), env) IN
       /\ Checks(cfg, env, tokenFiles)
       /\ \A i \in DOMAIN cfg.Connections : cfg.Connections[i].dsn # ""

=============================================================================
