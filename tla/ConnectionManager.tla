-------------------------- MODULE ConnectionManager --------------------------
(***************************************************************************)
(* The registry of MySQL connection pools, cmd/mysql-mcp-server/           *)
(* connection.go.  One process-wide mutex (cm.mu) guards the maps, but     *)
(* opening a pool (SSH tunnel, sql.Open, Ping, server detection) runs      *)
(* without it, so an add is a sequence of steps with other goroutines'     *)
(* steps between them.  Every action below is one critical section of      *)
(* cm.mu, or one unlocked stretch between two of them.                     *)
(*                                                                         *)
(* A pool is identified with the add call that opened it, so the maps from *)
(* names to pools are functions from keys to calls.                        *)
(*                                                                         *)
(* A definition marked "Fault" is a plausible bug in the definition below  *)
(* it.  No specification uses it; it serves to show that a property can    *)
(* fail.                                                                   *)
(***************************************************************************)
EXTENDS Naturals, FiniteSets

CONSTANTS
    Calls,        \* the add calls (each opens at most one pool)
    Names,        \* names users can give: the configured and stdio names
    Sessions,     \* ids of MCP HTTP session states (sessionConn.id)
    MaxTotal,     \* maxTotalSessionConnections
    SSHNames,     \* the configured names that carry an SSH section
    ToolPackMode, \* MYSQL_MCP_TOOL_PACK: "auto" or "off"
    None          \* absence: no pool, no tunnel, no active connection

SessionKeys == Sessions \X Names      \* "mcp-session/<id>/<name>"
Keys == Names \cup SessionKeys        \* manager keys

\* The reserved prefix: no user name is a session key (validateConnectionNames
\* for configured names, toolAddConnection for runtime ones).
ASSUME KeysAssumption ==
    /\ Names \cap SessionKeys = {}
    /\ None \notin Keys
    /\ None \notin Calls

ASSUME LimitAssumption == MaxTotal \in Nat \ {0}

ASSUME ConfigAssumption ==
    /\ SSHNames \subseteq Names
    /\ ToolPackMode \in {"auto", "off"}

VARIABLES
    connections,    \* key -> call whose pool is registered under it
    configs,        \* key -> call whose config, client and server type are kept
    toolPacks,      \* key -> call that detected the tool pack, if it did
    tunnelClosers,  \* key -> call whose SSH tunnel serves the pool
    activeConn,     \* the process-wide active connection
    pendingAdds,    \* names reserved by add-if-absent calls in flight
    pool,           \* the *sql.DB of each call
    tunnel,         \* the SSH tunnel of each call
    pc,             \* where each add call is
    key,            \* connCfg.Name of each call
    replace,        \* the replace argument of each call
    result,         \* the error each call returns
    shutdown        \* Close has run (history)

maps    == <<connections, configs, toolPacks, tunnelClosers>>
handles == <<pool, tunnel>>
args    == <<key, replace>>
cmVars  == <<connections, configs, toolPacks, tunnelClosers, activeConn,
             pendingAdds, pool, tunnel, pc, key, replace, result, shutdown>>

Handle  == {"none", "open", "closed"}
Stage   == {"idle", "open", "dial", "ping", "register", "release", "done"}
Outcome == {"none", "ok", "exists", "tooMany", "failed"}

IsSessionConnKey(k) == k \in SessionKeys

TypeOK ==
    /\ connections   \in [Keys -> Calls \cup {None}]
    /\ configs       \in [Keys -> Calls \cup {None}]
    /\ toolPacks     \in [Keys -> Calls \cup {None}]
    /\ tunnelClosers \in [Keys -> Calls \cup {None}]
    /\ activeConn  \in Keys \cup {None}
    /\ pendingAdds \in SUBSET Keys
    /\ pool    \in [Calls -> Handle]
    /\ tunnel  \in [Calls -> Handle]
    /\ pc      \in [Calls -> Stage]
    /\ key     \in [Calls -> Keys \cup {None}]
    /\ replace \in [Calls -> BOOLEAN]
    /\ result  \in [Calls -> Outcome]
    /\ shutdown \in BOOLEAN

NewConnectionManager ==
    /\ connections   = [k \in Keys |-> None]
    /\ configs       = [k \in Keys |-> None]
    /\ toolPacks     = [k \in Keys |-> None]
    /\ tunnelClosers = [k \in Keys |-> None]
    /\ activeConn = None
    /\ pendingAdds = {}
    /\ pool    = [c \in Calls |-> "none"]
    /\ tunnel  = [c \in Calls |-> "none"]
    /\ pc      = [c \in Calls |-> "idle"]
    /\ key     = [c \in Calls |-> None]
    /\ replace = [c \in Calls |-> FALSE]
    /\ result  = [c \in Calls |-> "none"]
    /\ shutdown = FALSE

-----------------------------------------------------------------------------
(* The state under cm.mu.                                                  *)

Has(k) == connections[k] # None

\* Fault: count only what is registered, not what is being added.
SessionConnsRegistered == {k \in SessionKeys : Has(k)}

\* Registered or being added; a key in both maps is counted once.
SessionConnsInUse == {k \in SessionKeys : Has(k) \/ k \in pendingAdds}
SessionConnCount  == Cardinality(SessionConnsInUse)

\* Fault: close the pool but leave its map entries.
ForgetNothing(map, k) == map

\* Fault: do not reset the active connection.
ActiveKept(k) == activeConn

\* What tearDownNamedConnection leaves of each map and handle.
Forget(map, k) == [map EXCEPT ![k] = IF Has(k) THEN None ELSE @]
PoolsWithout(k) ==
    IF Has(k) THEN [pool EXCEPT ![connections[k]] = "closed"] ELSE pool
TunnelsWithout(k) ==
    IF Has(k) /\ tunnelClosers[k] # None
    THEN [tunnel EXCEPT ![tunnelClosers[k]] = "closed"]
    ELSE tunnel
ActiveWithout(k) == IF Has(k) /\ activeConn = k THEN None ELSE activeConn

\* Fault: leave the config and the retry client of a closed pool behind.
TearDownKeepsClient(k) ==
    /\ connections'   = Forget(connections, k)
    /\ toolPacks'     = Forget(toolPacks, k)
    /\ tunnelClosers' = Forget(tunnelClosers, k)
    /\ activeConn'    = ActiveWithout(k)
    /\ pool'   = PoolsWithout(k)
    /\ tunnel' = TunnelsWithout(k)
    /\ UNCHANGED configs

TearDownNamedConnection(k) ==
    /\ connections'   = Forget(connections, k)
    /\ configs'       = Forget(configs, k)
    /\ toolPacks'     = Forget(toolPacks, k)
    /\ tunnelClosers' = Forget(tunnelClosers, k)
    /\ activeConn'    = ActiveWithout(k)
    /\ pool'   = PoolsWithout(k)
    /\ tunnel' = TunnelsWithout(k)

-----------------------------------------------------------------------------
(* addConnectionWithPoolConfig, step by step.                              *)

\* Fault: look only at the registered names.
NameUnregistered(k) == ~Has(k)

\* Neither registered nor reserved.
NameFree(k) == ~Has(k) /\ k \notin pendingAdds

OverCap(k) == IsSessionConnKey(k) /\ SessionConnCount >= MaxTotal

\* AddConnectionIfAbsent: the first lock section refuses the name ...
RefuseAdd(c, k) ==
    /\ pc[c] = "idle"
    /\ \/ /\ ~NameFree(k)
          /\ result' = [result EXCEPT ![c] = "exists"]
       \/ /\ NameFree(k) /\ OverCap(k)
          /\ result' = [result EXCEPT ![c] = "tooMany"]
    /\ pc'  = [pc EXCEPT ![c] = "done"]
    /\ key' = [key EXCEPT ![c] = k]
    /\ UNCHANGED <<maps, handles, activeConn, pendingAdds, replace, shutdown>>

\* Fault: the reservation is made under the caller, not under the name.
ReserveUnderCaller(c, k) == pendingAdds \cup {c}

ReservationsWith(c, k) == pendingAdds \cup {k}

\* ... or reserves it.
ReserveAdd(c, k) ==
    /\ pc[c] = "idle"
    /\ NameFree(k) /\ ~OverCap(k)
    /\ pendingAdds' = ReservationsWith(c, k)
    /\ pc'  = [pc EXCEPT ![c] = "open"]
    /\ key' = [key EXCEPT ![c] = k]
    /\ UNCHANGED <<maps, handles, activeConn, replace, result, shutdown>>

\* AddConnection with replace: the old entry goes first, before the new pool
\* is opened.
BeginReplace(c, k) ==
    /\ pc[c] = "idle"
    /\ TearDownNamedConnection(k)
    /\ pc'      = [pc EXCEPT ![c] = "open"]
    /\ key'     = [key EXCEPT ![c] = k]
    /\ replace' = [replace EXCEPT ![c] = TRUE]
    /\ UNCHANGED <<pendingAdds, result, shutdown>>

\* Fault: the reservation is not released on return.
ReturnWithoutRelease(c, outcome) ==
    /\ pc' = [pc EXCEPT ![c] = "done"]
    /\ result' = [result EXCEPT ![c] = outcome]

\* Where a call goes when it returns: only add-if-absent has a deferred
\* release of its reservation.
Return(c, outcome) ==
    /\ pc' = [pc EXCEPT ![c] = IF replace[c] THEN "done" ELSE "release"]
    /\ result' = [result EXCEPT ![c] = outcome]

\* Only configured connections carry an SSH section: toolAddConnection builds
\* its ConnectionConfig without one.
NeedsTunnel(c) == replace[c] /\ key[c] \in SSHNames

\* The SSH tunnel comes up.
StartTunnel(c) ==
    /\ pc[c] = "open" /\ NeedsTunnel(c)
    /\ tunnel' = [tunnel EXCEPT ![c] = "open"]
    /\ pc' = [pc EXCEPT ![c] = "dial"]
    /\ UNCHANGED <<maps, pool, activeConn, pendingAdds, args, result, shutdown>>

\* No SSH configured.
SkipTunnel(c) ==
    /\ pc[c] = "open" /\ ~NeedsTunnel(c)
    /\ pc' = [pc EXCEPT ![c] = "dial"]
    /\ UNCHANGED <<maps, handles, activeConn, pendingAdds, args, result, shutdown>>

\* The DSN does not parse, or the tunnel does not start.
OpenFails(c) ==
    /\ pc[c] = "open"
    /\ Return(c, "failed")
    /\ UNCHANGED <<maps, handles, activeConn, pendingAdds, args, shutdown>>

\* Fault: an error path closes the tunnel and forgets the pool.
CleanupTunnelOnly(c) ==
    /\ tunnel' = [tunnel EXCEPT ![c] = IF @ = "open" THEN "closed" ELSE @]
    /\ UNCHANGED pool

\* cleanupLocal: close what this call opened and has not registered.
CleanupLocal(c) ==
    /\ pool'   = [pool EXCEPT ![c] = IF @ = "open" THEN "closed" ELSE @]
    /\ tunnel' = [tunnel EXCEPT ![c] = IF @ = "open" THEN "closed" ELSE @]

\* openLabeledDB gives a pool (no I/O yet) ...
OpenDB(c) ==
    /\ pc[c] = "dial"
    /\ pool' = [pool EXCEPT ![c] = "open"]
    /\ pc' = [pc EXCEPT ![c] = "ping"]
    /\ UNCHANGED <<maps, tunnel, activeConn, pendingAdds, args, result, shutdown>>

\* ... or fails.
OpenDBFails(c) ==
    /\ pc[c] = "dial"
    /\ CleanupLocal(c)
    /\ Return(c, "failed")
    /\ UNCHANGED <<maps, activeConn, pendingAdds, args, shutdown>>

PingOK(c) ==
    /\ pc[c] = "ping"
    /\ pc' = [pc EXCEPT ![c] = "register"]
    /\ UNCHANGED <<maps, handles, activeConn, pendingAdds, args, result, shutdown>>

\* The ping fails, times out, or the caller's context is cancelled.
PingFails(c) ==
    /\ pc[c] = "ping"
    /\ CleanupLocal(c)
    /\ Return(c, "failed")
    /\ UNCHANGED <<maps, activeConn, pendingAdds, args, shutdown>>

\* The final lock section: the name was taken meanwhile.
LoseRace(c) ==
    /\ pc[c] = "register"
    /\ ~replace[c] /\ Has(key[c])
    /\ CleanupLocal(c)
    /\ Return(c, "exists")
    /\ UNCHANGED <<maps, activeConn, pendingAdds, args, shutdown>>

\* Fault: every new connection becomes the default.
ActiveIsLatest(k) == k

\* The first connection becomes active; a session-owned one never does.
ActiveAfterRegister(k) ==
    IF ActiveWithout(k) = None /\ ~IsSessionConnKey(k) THEN k ELSE ActiveWithout(k)

\* The final lock section: publish the pool.  A replace that finds another
\* registration removes it first; "pack" is what detectToolPack found.
Register(c, pack) ==
    LET k == key[c] IN
    /\ pc[c] = "register"
    /\ replace[c] \/ ~Has(k)
    /\ pack => ToolPackMode # "off"
    /\ connections'   = [connections EXCEPT ![k] = c]
    /\ configs'       = [configs EXCEPT ![k] = c]
    /\ toolPacks'     = [toolPacks EXCEPT ![k] = IF pack THEN c ELSE None]
    /\ tunnelClosers' = IF tunnel[c] = "open"
                        THEN [tunnelClosers EXCEPT ![k] = c]
                        ELSE Forget(tunnelClosers, k)
    /\ pool'   = PoolsWithout(k)
    /\ tunnel' = TunnelsWithout(k)
    /\ activeConn' = ActiveAfterRegister(k)
    /\ Return(c, "ok")
    /\ UNCHANGED <<pendingAdds, args, shutdown>>

\* The deferred release of the reservation, a lock section of its own.
ReleaseReservation(c) ==
    /\ pc[c] = "release"
    /\ pendingAdds' = pendingAdds \ {key[c]}
    /\ pc' = [pc EXCEPT ![c] = "done"]
    /\ UNCHANGED <<maps, handles, activeConn, args, result, shutdown>>

-----------------------------------------------------------------------------
(* The other operations that change the registry.                          *)

SetActive(k) ==
    /\ Has(k)
    /\ activeConn' = k
    /\ UNCHANGED <<maps, handles, pendingAdds, pc, args, result, shutdown>>

RemoveConnection(k) ==
    /\ Has(k)
    /\ TearDownNamedConnection(k)
    /\ UNCHANGED <<pendingAdds, pc, args, result, shutdown>>

\* A catalog tool found the pack's procedures gone on connection k.
DropToolPack(k) ==
    /\ toolPacks[k] # None
    /\ toolPacks' = [toolPacks EXCEPT ![k] = None]
    /\ UNCHANGED <<connections, configs, tunnelClosers, handles, activeConn,
                   pendingAdds, pc, args, result, shutdown>>

\* Close at process exit; the maps keep their (now closed) pools.
Close ==
    /\ ~shutdown
    /\ shutdown' = TRUE
    /\ pool' = [c \in Calls |->
                  IF \E k \in Keys : connections[k] = c THEN "closed" ELSE pool[c]]
    /\ tunnel' = [c \in Calls |->
                  IF \E k \in Keys : tunnelClosers[k] = c THEN "closed" ELSE tunnel[c]]
    /\ tunnelClosers' = [k \in Keys |-> None]
    /\ pendingAdds' = {}
    /\ UNCHANGED <<connections, configs, toolPacks, activeConn, pc, args, result>>

-----------------------------------------------------------------------------
\* The steps of an add after its first lock section.
AddStep(c) ==
    \/ StartTunnel(c) \/ SkipTunnel(c) \/ OpenFails(c)
    \/ OpenDB(c) \/ OpenDBFails(c)
    \/ PingOK(c) \/ PingFails(c)
    \/ LoseRace(c) \/ \E pack \in BOOLEAN : Register(c, pack)
    \/ ReleaseReservation(c)

\* Replace is for configured names only; session keys are added if absent.
Next ==
    \/ \E c \in Calls : AddStep(c)
    \/ \E c \in Calls, k \in Keys : RefuseAdd(c, k) \/ ReserveAdd(c, k)
    \/ \E c \in Calls, k \in Names : BeginReplace(c, k)
    \/ \E k \in Names : SetActive(k)
    \/ \E k \in Keys : RemoveConnection(k) \/ DropToolPack(k)
    \/ Close

Spec == NewConnectionManager /\ [][Next]_cmVars

-----------------------------------------------------------------------------
(* Properties.                                                             *)

\* An add-if-absent call between its reservation and its deferred release.
HoldsReservation(c) ==
    /\ pc[c] \in {"open", "dial", "ping", "register", "release"}
    /\ ~replace[c]

\* No pool and no SSH tunnel is ever leaked by addConnectionWithPoolConfig,
\* whatever fails or races: an open pool is either still local to the call
\* that opened it or registered, and the same for a tunnel.
NoOrphanHandles ==
    \A c \in Calls :
        /\ pool[c] = "open" =>
              pc[c] \in {"ping", "register"} \/ \E k \in Keys : connections[k] = c
        /\ tunnel[c] = "open" =>
              \/ pc[c] \in {"dial", "ping", "register"}
              \/ \E k \in Keys : tunnelClosers[k] = c

\* Until Close, getDB never hands out a closed pool, nor one whose tunnel is
\* gone: tearing down one registration never closes another's handles.
RegisteredPoolsUsable ==
    ~shutdown =>
        \A k \in Keys : Has(k) =>
            /\ pool[connections[k]] = "open"
            /\ tunnel[connections[k]] # "closed"
            /\ tunnel[connections[k]] = "open" => tunnelClosers[k] = connections[k]

\* List, ServerTypeFor and ToolPackFor never describe a pool other than the
\* one the name resolves to: config, client, server type, tool pack and tunnel
\* of a name belong to the pool registered under it, across replacements.
MetadataMatchesPool ==
    \A k \in Keys :
        /\ configs[k] = connections[k]
        /\ toolPacks[k] \in {None, connections[k]}
        /\ tunnelClosers[k] \in {None, connections[k]}

\* Two add-if-absent calls for one name never both open pools: the second
\* fails before any ping (the pendingAdds reservation), until Close drops the
\* reservations.
NoDuplicateOpen ==
    ~shutdown =>
        \A c, d \in Calls :
            HoldsReservation(c) /\ HoldsReservation(d) /\ c # d => key[c] # key[d]

\* The connections MCP sessions register, finished or in flight, never exceed
\* maxTotalSessionConnections while the manager is open, although the count is
\* taken in one lock section and the registration happens in another.
SessionCap == ~shutdown => SessionConnCount <= MaxTotal

\* The process-wide default is a registered connection, and never one that an
\* MCP session owns.
ActiveConnRegistered ==
    activeConn # None => Has(activeConn) /\ ~IsSessionConnKey(activeConn)

\* No reservation is held forever: a name refused as "being added" becomes
\* available (or registered) again, whatever happened to the add that held it.
ReservationsReleased ==
    \A k \in Keys : k \in pendingAdds ~> k \notin pendingAdds

=============================================================================
