----------------------------- MODULE MCMcpServer -----------------------------
(***************************************************************************)
(* TLC instances of McpServer: two configured names, "a" and "b", one of   *)
(* which may be given twice, and names that clients can register.          *)
(***************************************************************************)
EXTENDS McpServer, TLC

CONSTANTS a, b, d

OneConnection  == {<<a>>}
SomeConnections == {<<a, b>>, <<a, b, b>>}

\* Tool calls, clients, session states and the unconfigured names are
\* interchangeable.
Symm == UNION {Permutations(S) : S \in {ToolCalls, Clients, Sessions, {b, d}}}

=============================================================================
