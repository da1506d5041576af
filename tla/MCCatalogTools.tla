--------------------------- MODULE MCCatalogTools ---------------------------
(***************************************************************************)
(* TLC instances of CatalogTools: two servers.  The first has the pack, a  *)
(* guard, and a listing longer than the caps with rows that do not scan or *)
(* may not be shown; the second is empty or has other rows.                *)
(***************************************************************************)
EXTENDS CatalogTools, TLC

CONSTANTS a, b, c1, c2, tab1, tab2, col1, col2, def1, def2

First ==
    [rows |-> <<"other", "ok", "bad", "ok">>, exists |-> TRUE,
     type |-> "mysql", major |-> 9, slow |-> "table", guard |-> TRUE, pack |-> TRUE,
     source |-> (tab1 :> (col1 :> def1) @@ tab2 :> (col1 :> def1)),
     target |-> (tab1 :> (col1 :> def1 @@ col2 :> def2))]

Second ==
    [rows |-> <<>>, exists |-> FALSE,
     type |-> "mysql", major |-> 8, slow |-> "off", guard |-> FALSE, pack |-> FALSE,
     source |-> (tab1 :> (col1 :> def1)),
     target |-> (tab1 :> (col1 :> def1) @@ tab2 :> (col2 :> def1))]

Third ==
    [rows |-> <<"ok">>, exists |-> TRUE,
     type |-> "mariadb", major |-> 11, slow |-> "file", guard |-> FALSE, pack |-> TRUE,
     source |-> (tab1 :> (col1 :> def1)), target |-> (tab1 :> (col1 :> def2))]

MCCatalogs == {(a :> First @@ b :> Second), (a :> First @@ b :> Third)}

\* One call of any tool beside one that holds a connection while it asks for
\* another.
MCToolsOf == (c1 :> AllTools @@ c2 :> {toolVectorInfo})

\* One server, with a short listing or an empty one, and one tool of each
\* shape, for the liveness property.  With a tool pack, vector_info,
\* search_schema and describe_table hold one connection and wait for another.
OneServer == {(a :> [First EXCEPT !.rows = r]) : r \in {<<"ok">>, <<"other">>}}
SomeToolsOf == (c1 :> {toolSearchSchema, toolDescribeTable, toolListTables,
                       toolSchemaDiff, toolListStatus}
                @@ c2 :> {toolVectorInfo, toolSearchSchema})

=============================================================================
