--------------------------- MODULE MCServerProcess ---------------------------
(* Small sets of command lines, environments and files for ServerProcess.  *)
EXTENDS ServerProcess

None == <<>>

SomeConfigEquals == "--config=~/config.json" :> "~/config.json"
Opt(v, values) == {None} \cup {v :> x : x \in values}
Both(A, B) == {a @@ b : a \in A, b \in B}

DSN == "MYSQL_DSN" :> "d"

\* REST: every combination of the feature switches.
RestEnvs ==
    Both({DSN @@ "MYSQL_MCP_HTTP" :> TRUE},
    Both(Opt("MYSQL_MCP_EXTENDED", {TRUE}),
    Both(Opt("MYSQL_MCP_VECTOR", {TRUE}),
    Both(Opt("MYSQL_MCP_PROCESS_ADMIN", {TRUE}),
    Both(Opt("MYSQL_MCP_READ_AUDIT_TOOL", {TRUE}),
    Both(Opt("MYSQL_MCP_AUDIT_LOG", {"log"}),
    Both(Opt("MYSQL_MCP_SLOW_QUERY_TOOL", {TRUE}),
         Opt("MYSQL_MCP_TOKEN_CARD", {FALSE}))))))))

\* REST with a request timeout below the read timeout: 10 s, not 60 s.
ShortRest == {DSN @@ "MYSQL_MCP_HTTP" :> TRUE @@ "MYSQL_HTTP_REQUEST_TIMEOUT_SECONDS" :> 10}

\* MCP over HTTP: every combination of what makes a deployment.
McpEnvs ==
    Both({DSN @@ "MYSQL_MCP_TRANSPORT" :> "http"},
    Both(Opt("MYSQL_MCP_HTTP_BIND", {"[::1]", "0.0.0.0", "host:80"}),
    Both(Opt("MYSQL_MCP_HTTP_TOKEN", {"", "t"})
            \cup Opt("MYSQL_MCP_HTTP_TOKEN_FILE", {"token", "empty", "missing"}),
    Both({None, "MYSQL_MCP_HTTP_TLS_CERT" :> "c",
          "MYSQL_MCP_HTTP_TLS_CERT" :> "c" @@ "MYSQL_MCP_HTTP_TLS_KEY" :> "k"},
    Both(Opt("MYSQL_MCP_HTTP_ALLOW_INSECURE", {TRUE}),
    Both(Opt("MYSQL_MCP_HTTP_ALLOWED_HOSTS", {<<"app">>}),
    Both(Opt("MYSQL_MCP_HTTP_ALLOWED_ORIGINS", {<<"HTTPS://App:443/">>, <<"app/path">>}),
         Opt("MYSQL_MCP_TOKEN_CARD", {TRUE}))))))))

\* One or two variables of any kind, good and bad, over a file.
Conn(name, dsn) == [name |-> name, dsn |-> dsn, ssl |-> "", ssh |-> ""]

Single ==
    {"MYSQL_MCP_HTTP" :> TRUE, "MYSQL_MCP_METRICS_HTTP" :> TRUE, DSN,
     "MYSQL_MCP_TRANSPORT" :> "http", "MYSQL_MCP_TRANSPORT" :> "bogus",
     "MYSQL_MCP_HTTP_PATH" :> "/health", "MYSQL_MCP_TOOL_PACK" :> "bogus",
     "MYSQL_MCP_HTTP_TOKEN_FILE" :> "missing", "MYSQL_MCP_HTTP_BIND" :> "0.0.0.0",
     "MYSQL_CONNECTIONS" :> [parses |-> FALSE, conns |-> <<>>],
     "MYSQL_CONNECTIONS" :> [parses |-> TRUE, conns |-> <<>>],
     "MYSQL_CONNECTIONS" :> [parses |-> TRUE, conns |-> <<Conn("a", "")>>],
     "MYSQL_CONNECTIONS" :> [parses |-> TRUE, conns |-> <<Conn("mcp-session/x", "d")>>],
     "MYSQL_DSN_2" :> Conn("", "d"), "MYSQL_SSL" :> "true",
     "MYSQL_MAX_ROWS" :> 7, "MYSQL_MAX_OPEN_CONNS" :> 0, "MYSQL_POOL_SIZE" :> 3,
     "MYSQL_QUERY_TIMEOUT_SECONDS" :> 0, "MYSQL_QUERY_TIMEOUT" :> 500,
     "MYSQL_HTTP_RATE_LIMIT_RPS" :> 0, "MYSQL_MCP_DB_RETRY_MAX" :> 0,
     "MYSQL_MCP_ENABLE_ADD_CONNECTION" :> "1", "MYSQL_MCP_EXTENDED" :> TRUE,
     "MYSQL_MCP_CONFIG" :> "~/config.json"}

MixedEnvs == Both({None} \cup Single, {None} \cup Single)

File(ext, syntax, set, conns) ==
    [ext |-> ext, syntax |-> syntax, set |-> set, conns |-> conns]

Disks ==
    {None,
     "./server.yaml" :> File("yaml", "yaml", "Transport" :> "http" @@ "MCPHTTPPath" :> "/m",
                             "default" :> Conn("", "d") @@ "alpha" :> Conn("", "d")),
     "./server.yaml" :> File("yaml", "yaml", "MCPHTTPBind" :> "0.0.0.0" @@
                                "MCPHTTPTokenFile" :> "token" @@ "MCPHTTPAllowInsecure" :> TRUE,
                             "zeta" :> Conn("", "d")),
     "./server.yaml" :> File("yaml", "yaml", "HTTPMode" :> TRUE @@ "RateLimitRPS" :> 5 @@
                                "MaxRows" :> 0 @@ "MaxOpenConns" :> 9,
                             "zeta" :> Conn("", "")),
     "./server.yaml" :> File("yaml", "broken", None, None),
     "./server.yaml" :> File("yaml", "json", "ToolPack" :> "off", None)
        @@ "~/config.json" :> File("json", "yaml", None, "alpha" :> Conn("", "d"))}

World(argv, env, files, tls, audit, db) ==
    [argv |-> argv, env |-> env, files |-> files,
     tokenFiles |-> ("token" :> "t" @@ "empty" :> ""),
     tlsOK |-> tls, auditOK |-> audit, dbOK |-> db]

SmallWorlds ==
    {World(<<>>, e, None, TRUE, TRUE, TRUE) : e \in RestEnvs \cup ShortRest}
    \cup {World(<<>>, e, None, FALSE, TRUE, TRUE) : e \in McpEnvs}
    \cup {World(a, e, None, t, TRUE, TRUE) :
            a \in {<<"--daemon">>, <<"--token-card">>}, e \in McpEnvs, t \in BOOLEAN}
    \cup {World(<<"--validate-config", "./server.yaml">>, e, d, TRUE, TRUE, TRUE) :
            e \in MixedEnvs, d \in Disks}
    \cup {World(a, e, d, TRUE, b, b) :
            a \in {<<>>, <<"--config", "~/config.json">>, <<"--config=~/config.json">>,
                   <<"--print-config", "-c", "~/config.json">>, <<"-d", "--silent">>,
                   <<"--version", "--nosuch">>, <<"help">>, <<"-s", "--config=">>,
                   <<"--connection", "x">>, <<"-c">>,
                   <<"install-schema", "--print", "--connection", "x">>},
            e \in {None} \cup Single, d \in Disks, b \in BOOLEAN}
=============================================================================
