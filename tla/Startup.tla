------------------------------- MODULE Startup -------------------------------
(***************************************************************************)
(* The start of main(), cmd/mysql-mcp-server/main.go: the configured       *)
(* connections are added one after the other with the replacing add, a     *)
(* failed one is only logged, and the process then either serves or exits  *)
(* with "no valid MySQL connections available".                            *)
(*                                                                         *)
(* Nothing rejects a name that is configured twice (validateConnection-    *)
(* Names looks at the reserved prefix only), so a configuration is any     *)
(* sequence of names.  The add of entry i is the call i.                   *)
(***************************************************************************)
EXTENDS ConnectionManager, Sequences

CONSTANT Configurations   \* the values cfg.Connections may have (names only)

VARIABLES
    conf,     \* cfg.Connections
    phase     \* where main is

bootVars == <<conf, phase>>
startVars == <<cmVars, bootVars>>

ASSUME StartupAssumption ==
    \A q \in Configurations : q \in Seq(Names) /\ DOMAIN q \subseteq Calls

StartupTypeOK ==
    /\ TypeOK
    /\ conf \in Configurations
    /\ phase \in {"starting", "serving", "fatal", "exited"}

StartupInit ==
    /\ NewConnectionManager
    /\ conf \in Configurations
    /\ phase = "starting"

\* Entries before i have been added, with success or not.
Reached(i) == \A j \in 1..i-1 : pc[j] = "done"

\* Fault: the entries are added concurrently.
AddConfiguredConcurrently(i) ==
    /\ phase = "starting"
    /\ BeginReplace(i, conf[i])
    /\ UNCHANGED bootVars

\* AddConnectionWithPoolConfig for entry i of the loop ...
AddConfigured(i) ==
    /\ phase = "starting" /\ Reached(i)
    /\ BeginReplace(i, conf[i])
    /\ UNCHANGED bootVars

\* ... runs to its end before the next one starts.
AddConfiguredStep(i) ==
    /\ phase = "starting"
    /\ AddStep(i)
    /\ UNCHANGED bootVars

GetActiveDB == IF activeConn = None THEN None ELSE connections[activeConn]

\* GetActiveDB() is not nil: start a transport.
StartServing ==
    /\ phase = "starting" /\ Reached(Len(conf) + 1)
    /\ GetActiveDB # None
    /\ phase' = "serving"
    /\ UNCHANGED <<cmVars, conf>>

\* GetActiveDB() is nil: close everything and exit with the config error.
FailStartup ==
    /\ phase = "starting" /\ Reached(Len(conf) + 1)
    /\ GetActiveDB = None
    /\ Close
    /\ phase' = "fatal"
    /\ UNCHANGED conf

\* The transport has returned; the deferred Close runs and the process ends.
Exit ==
    /\ phase = "serving"
    /\ Close
    /\ phase' = "exited"
    /\ UNCHANGED conf

StartupStep ==
    \/ \E i \in DOMAIN conf : AddConfigured(i) \/ AddConfiguredStep(i)
    \/ StartServing \/ FailStartup

StartupNext == StartupStep \/ Exit

StartupSpec == StartupInit /\ [][StartupNext]_startVars

-----------------------------------------------------------------------------
Succeeded(i) == pc[i] = "done" /\ result[i] = "ok"
DistinctNames == \A i, j \in DOMAIN conf : conf[i] = conf[j] => i = j

\* The last entry of its name that could be opened.
LastSuccess(i) ==
    Succeeded(i) /\ \A j \in DOMAIN conf : j > i /\ conf[j] = conf[i] => ~Succeeded(j)

LastEntry(i) == \A j \in DOMAIN conf : j > i => conf[j] # conf[i]

\* A name that is configured twice never serves the pool of an entry a later one
\* has replaced: when a server starts, a name whose last entry could be opened has
\* that entry's pool, and the pool of any configured name is the one of the last
\* entry with that name that could be opened.  Whether a name keeps the pool of an
\* earlier entry when its last one fails is not said here: the comment of
\* addConnectionWithPoolConfig (connection.go:149-152) says it does, and the code,
\* which tears the old pool down first, loses it (FatalOnlyWithoutConnections).
LastEntryWins ==
    [][phase' = "serving" /\ phase # "serving" =>
         \A i \in DOMAIN conf :
            /\ LastEntry(i) /\ Succeeded(i) => connections[conf[i]] = i
            /\ Has(conf[i]) =>
                 \E j \in DOMAIN conf :
                    conf[j] = conf[i] /\ LastSuccess(j) /\ connections[conf[i]] = j]_startVars

FirstSuccess(i) == Succeeded(i) /\ \A j \in 1..i-1 : ~Succeeded(j)

\* With distinct names, the default connection of a server that starts is the
\* first configured one that could be opened, and startup fails only if none
\* could.
FirstSuccessIsDefault ==
    [][DistinctNames /\ phase = "starting" =>
         /\ phase' = "serving" =>
              \E i \in DOMAIN conf : FirstSuccess(i) /\ activeConn = conf[i]
         /\ phase' = "fatal" => \A i \in DOMAIN conf : ~Succeeded(i)]_startVars

\* What the fatal message says: the process gives up only when no configured
\* connection is usable.
FatalOnlyWithoutConnections ==
    phase = "fatal" => \A k \in Names : ~Has(k)

=============================================================================
