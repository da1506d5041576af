------------------------------ MODULE McpServer ------------------------------
(***************************************************************************)
(* The MCP server serving tool calls: MCP HTTP sessions with their own     *)
(* connections (sessionConn, sessionConnMiddleware), the per-call pin      *)
(* (callConn, toolCallMiddleware), and the tools that switch or register   *)
(* connections (use_connection, add_connection), over the connection       *)
(* manager and after the startup of main.                                  *)
(*                                                                         *)
(* Every tool call is a goroutine; so is the cleanup of every session.     *)
(* Each action is one critical section of cm.mu or of the session's mu.    *)
(***************************************************************************)
EXTENDS Startup

CONSTANTS
    ToolCalls,    \* tools/call requests
    Clients,      \* MCP sessions of the SDK (*mcp.ServerSession)
    Transport,    \* "http" or "stdio"
    MaxSession,   \* maxSessionConnections
    MaxStmts      \* bound: statements one query tool runs

ASSUME McpAssumption ==
    /\ ToolCalls \subseteq Calls
    /\ \A q \in Configurations : DOMAIN q \cap ToolCalls = {}
    /\ Transport \in {"http", "stdio"}
    /\ MaxSession \in Nat \ {0} /\ MaxStmts \in Nat \ {0}
    /\ None \notin Sessions /\ None \notin Clients

VARIABLES
    sessions,   \* sync.Map: client -> its sessionConn
    ended,      \* clients whose SDK session has ended
    watcher,    \* session -> the client its cleanup goroutine waits for
    cleanup,    \* session -> where that goroutine is
    doomed,     \* session -> keys the goroutine still has to remove
    scName,     \* sessionConn.name
    owned,      \* sessionConn.owned (the key of name n is <<s, n>>)
    closed,     \* sessionConn.closed
    step,       \* where each tool call is
    tool,       \* which tool it calls
    arg,        \* the connection name it is given
    sc,         \* the sessionConn in its context
    pin,        \* the callConn in its context
    target,     \* the key SetActiveFor resolved
    left,       \* statements it has still to run
    used        \* pools its statements ran on (history)

sessionVars == <<sessions, ended, watcher, cleanup, doomed, scName, owned, closed>>
callVars    == <<step, tool, arg, sc, pin, target, left, used>>
vars == <<cmVars, bootVars, sessionVars, callVars>>

Tools == {"query", "use", "add"}
Steps == {"idle", "pin", "stmt", "resolve", "check", "set", "has", "reserve",
          "begin", "adding", "isClosed", "remove", "release", "end"}

McpTypeOK ==
    /\ StartupTypeOK
    /\ sessions \in [Clients -> Sessions \cup {None}]
    /\ ended \in SUBSET Clients
    /\ watcher \in [Sessions -> Clients \cup {None}]
    /\ cleanup \in [Sessions -> {"none", "waiting", "deleted", "removing"}]
    /\ doomed \in [Sessions -> SUBSET SessionKeys]
    /\ scName \in [Sessions -> Keys \cup {None}]
    /\ owned  \in [Sessions -> SUBSET Names]
    /\ closed \in [Sessions -> BOOLEAN]
    /\ step \in [ToolCalls -> Steps]
    /\ tool \in [ToolCalls -> Tools \cup {None}]
    /\ arg  \in [ToolCalls -> Keys \cup {None}]
    /\ sc   \in [ToolCalls -> Sessions \cup {None}]
    /\ pin  \in [ToolCalls -> Keys \cup {None}]
    /\ target \in [ToolCalls -> Keys \cup {None}]
    /\ left \in [ToolCalls -> 0..MaxStmts]
    /\ used \in [ToolCalls -> SUBSET (Calls \cup {None})]

Init ==
    /\ StartupInit
    /\ sessions = [cl \in Clients |-> None]
    /\ ended = {}
    /\ watcher = [s \in Sessions |-> None]
    /\ cleanup = [s \in Sessions |-> "none"]
    /\ doomed  = [s \in Sessions |-> {}]
    /\ scName  = [s \in Sessions |-> None]
    /\ owned   = [s \in Sessions |-> {}]
    /\ closed  = [s \in Sessions |-> FALSE]
    /\ step = [c \in ToolCalls |-> "idle"]
    /\ tool = [c \in ToolCalls |-> None]
    /\ arg  = [c \in ToolCalls |-> None]
    /\ sc   = [c \in ToolCalls |-> None]
    /\ pin  = [c \in ToolCalls |-> None]
    /\ target = [c \in ToolCalls |-> None]
    /\ left = [c \in ToolCalls |-> 0]
    /\ used = [c \in ToolCalls |-> {}]

-----------------------------------------------------------------------------
(* Requests, sessions and the pin.                                         *)

\* The call moves on and changes nothing else of its own.
Goto(c, s) == step' = [step EXCEPT ![c] = s]

\* A request enters the server; what it asks for is the caller's choice.
\* use_connection may name anything, another session's internal key included;
\* add_connection trims and validates its name first (see AddRejected).
Request(c, t, n) ==
    /\ phase = "serving" /\ step[c] = "idle"
    /\ t = "query" => n = None
    /\ t # "query" => n # None
    /\ Goto(c, "pin")
    /\ tool' = [tool EXCEPT ![c] = t]
    /\ arg'  = [arg EXCEPT ![c] = n]
    /\ UNCHANGED <<pin, target, left, used>>

\* Over stdio no session state is attached.
ArriveStdio(c, t, n) ==
    /\ Transport = "stdio"
    /\ Request(c, t, n)
    /\ UNCHANGED <<cmVars, bootVars, sessionVars, sc>>

\* sessionConnMiddleware: a known session keeps its state ...
ArriveKnown(c, cl, t, n) ==
    /\ Transport = "http" /\ sessions[cl] # None
    /\ Request(c, t, n)
    /\ sc' = [sc EXCEPT ![c] = sessions[cl]]
    /\ UNCHANGED <<cmVars, bootVars, sessionVars>>

\* ... and an unknown one gets a new sessionConn and its cleanup goroutine.
\* A request of a session that has just ended and been forgotten also gets one.
ArriveNew(c, cl, s, t, n) ==
    /\ Transport = "http" /\ sessions[cl] = None
    /\ cleanup[s] = "none"
    /\ Request(c, t, n)
    /\ sessions' = [sessions EXCEPT ![cl] = s]
    /\ watcher'  = [watcher EXCEPT ![s] = cl]
    /\ cleanup'  = [cleanup EXCEPT ![s] = "waiting"]
    /\ sc' = [sc EXCEPT ![c] = s]
    /\ UNCHANGED <<cmVars, bootVars, ended, doomed, scName, owned, closed>>

\* activeNameLocked before the pin: the session's choice, even if it has been
\* removed since, else the process-wide active connection.
SessionActive(c) ==
    IF sc[c] # None /\ scName[sc[c]] # None THEN scName[sc[c]] ELSE activeConn

FirstStep(t) == CASE t = "query" -> "stmt" [] t = "use" -> "resolve" [] t = "add" -> "has"

\* toolCallMiddleware: PinFor.
Pin(c) ==
    /\ phase = "serving" /\ step[c] = "pin"
    /\ pin'  = [pin EXCEPT ![c] = SessionActive(c)]
    /\ left' = [left EXCEPT ![c] = IF tool[c] = "query" THEN MaxStmts ELSE 1]
    /\ Goto(c, FirstStep(tool[c]))
    /\ UNCHANGED <<cmVars, bootVars, sessionVars, tool, arg, sc, target, used>>

\* Fault: look the connection up anew for every statement.
GetDBUnpinned(c) ==
    IF SessionActive(c) = None THEN None ELSE connections[SessionActive(c)]

\* The pool getDB(ctx) returns inside a call; None is the failing handle of
\* missingConnectionDB.
GetDB(c) == IF pin[c] = None THEN None ELSE connections[pin[c]]

\* A tool runs one statement and either goes on or returns.
Statement(c) ==
    /\ phase = "serving" /\ step[c] = "stmt"
    /\ used' = [used EXCEPT ![c] = @ \cup {GetDB(c)}]
    /\ left' = [left EXCEPT ![c] = @ - 1]
    /\ \/ left[c] > 1 /\ Goto(c, "stmt")
       \/ Goto(c, "end")
    /\ UNCHANGED <<cmVars, bootVars, sessionVars, tool, arg, sc, pin, target>>

-----------------------------------------------------------------------------
(* SetActiveFor: use_connection, and the last part of add_connection.      *)

\* Fault: retry a switch that failed.
RetrySwitch(c) == "resolve"

AfterSwitch(c) == IF tool[c] = "use" THEN "stmt" ELSE "end"
AfterFailedSwitch(c) == IF tool[c] = "use" THEN "end" ELSE "release"

\* Fault: a session's switch is process-wide too.
SwitchForEveryone(c) ==
    /\ phase = "serving" /\ step[c] = "resolve"
    /\ SetActive(arg[c])
    /\ pin' = [pin EXCEPT ![c] = arg[c]]
    /\ Goto(c, AfterSwitch(c))
    /\ UNCHANGED <<bootVars, sessionVars, tool, arg, sc, target, left, used>>

\* Over stdio it is SetActive, and the pin follows.
SwitchProcessWide(c) ==
    /\ phase = "serving" /\ step[c] = "resolve" /\ sc[c] = None
    /\ SetActive(arg[c])
    /\ pin' = [pin EXCEPT ![c] = arg[c]]
    /\ Goto(c, AfterSwitch(c))
    /\ UNCHANGED <<bootVars, sessionVars, tool, arg, sc, target, left, used>>

SwitchProcessWideFails(c) ==
    /\ phase = "serving" /\ step[c] = "resolve" /\ sc[c] = None
    /\ ~Has(arg[c])
    /\ Goto(c, AfterFailedSwitch(c))
    /\ UNCHANGED <<cmVars, bootVars, sessionVars, tool, arg, sc, pin, target, left, used>>

\* In a session: resolve the name (under sc.mu) ...
Resolve(c) ==
    /\ phase = "serving" /\ step[c] = "resolve" /\ sc[c] # None
    /\ target' = [target EXCEPT ![c] =
                    IF arg[c] \in owned[sc[c]] THEN <<sc[c], arg[c]>> ELSE arg[c]]
    /\ Goto(c, "check")
    /\ UNCHANGED <<cmVars, bootVars, sessionVars, tool, arg, sc, pin, left, used>>

\* Fault: any registered key can be selected.
AnyRegistered(c) == Has(target[c])

\* ... refuse internal keys and unregistered ones (under cm.mu) ...
Addressable(c) ==
    /\ ~(IsSessionConnKey(arg[c]) /\ target[c] = arg[c])
    /\ Has(target[c])

Check(c) ==
    /\ phase = "serving" /\ step[c] = "check"
    /\ Goto(c, IF Addressable(c) THEN "set" ELSE AfterFailedSwitch(c))
    /\ UNCHANGED <<cmVars, bootVars, sessionVars, tool, arg, sc, pin, target, left, used>>

\* ... and record the choice (under sc.mu); the pin follows.
SetSessionActive(c) ==
    /\ phase = "serving" /\ step[c] = "set"
    /\ scName' = [scName EXCEPT ![sc[c]] = target[c]]
    /\ pin'    = [pin EXCEPT ![c] = target[c]]
    /\ Goto(c, AfterSwitch(c))
    /\ UNCHANGED <<cmVars, bootVars, sessions, ended, watcher, cleanup, doomed,
                   owned, closed, tool, arg, sc, target, left, used>>

-----------------------------------------------------------------------------
(* add_connection.                                                         *)

\* Validation fails: empty name, bad DSN, root, unsafe driver options, the
\* reserved prefix, stateless mode.
AddRejected(c) ==
    /\ phase = "serving" /\ step[c] = "has"
    /\ Goto(c, "end")
    /\ UNCHANGED <<cmVars, bootVars, sessionVars, tool, arg, sc, pin, target, left, used>>

\* The input is valid; in a session, the name must not be a process-wide one.
AddValid(c) ==
    /\ phase = "serving" /\ step[c] = "has"
    /\ ~IsSessionConnKey(arg[c])
    /\ Goto(c, IF sc[c] = None THEN "begin"
               ELSE IF Has(arg[c]) THEN "end" ELSE "reserve")
    /\ UNCHANGED <<cmVars, bootVars, sessionVars, tool, arg, sc, pin, target, left, used>>

\* sessionConn.reserve.
CanReserve(s, n) ==
    /\ ~closed[s]
    /\ n \notin owned[s]
    /\ Cardinality(owned[s]) < MaxSession

ReserveInSession(c) ==
    LET s == sc[c] IN
    /\ phase = "serving" /\ step[c] = "reserve"
    /\ \/ /\ CanReserve(s, arg[c])
          /\ owned' = [owned EXCEPT ![s] = @ \cup {arg[c]}]
          /\ Goto(c, "begin")
       \/ /\ ~CanReserve(s, arg[c])
          /\ Goto(c, "end")
          /\ UNCHANGED owned
    /\ UNCHANGED <<cmVars, bootVars, sessions, ended, watcher, cleanup, doomed,
                   scName, closed, tool, arg, sc, pin, target, left, used>>

AddKey(c) == IF sc[c] = None THEN arg[c] ELSE <<sc[c], arg[c]>>

\* AddConnectionIfAbsentWithPoolConfig: its first lock section ...
BeginAdd(c) ==
    /\ phase = "serving" /\ step[c] = "begin"
    /\ RefuseAdd(c, AddKey(c)) \/ ReserveAdd(c, AddKey(c))
    /\ Goto(c, "adding")
    /\ UNCHANGED <<bootVars, sessionVars, tool, arg, sc, pin, target, left, used>>

\* ... its further steps ...
ContinueAdd(c) ==
    /\ phase = "serving" /\ step[c] = "adding"
    /\ AddStep(c)
    /\ UNCHANGED <<bootVars, sessionVars, callVars>>

\* ... and its return.
AddReturns(c) ==
    /\ phase = "serving" /\ step[c] = "adding" /\ pc[c] = "done"
    /\ Goto(c, CASE result[c] # "ok" /\ sc[c] # None -> "release"
                 [] result[c] # "ok" /\ sc[c] = None -> "end"
                 [] result[c] = "ok" /\ sc[c] # None -> "isClosed"
                 [] result[c] = "ok" /\ sc[c] = None -> "resolve")
    /\ UNCHANGED <<cmVars, bootVars, sessionVars, tool, arg, sc, pin, target, left, used>>

\* Did the session end while the pool was being opened?
CheckClosed(c) ==
    /\ phase = "serving" /\ step[c] = "isClosed"
    /\ Goto(c, IF closed[sc[c]] THEN "remove" ELSE "resolve")
    /\ UNCHANGED <<cmVars, bootVars, sessionVars, tool, arg, sc, pin, target, left, used>>

\* Fault: a failed add keeps its slot.
SlotKept(c) == owned

SlotReleased(c) ==
    IF sc[c] = None THEN owned ELSE [owned EXCEPT ![sc[c]] = @ \ {arg[c]}]

\* sessionConn.release: the name is free again.  After a failed activation the
\* pool is removed too.
ReleaseInSession(c) ==
    /\ phase = "serving" /\ step[c] = "release"
    /\ owned' = SlotReleased(c)
    /\ Goto(c, IF result[c] = "ok" THEN "remove" ELSE "end")
    /\ UNCHANGED <<cmVars, bootVars, sessions, ended, watcher, cleanup, doomed,
                   scName, closed, tool, arg, sc, pin, target, left, used>>

\* RemoveConnection of the call's own key; its error is only reported.
RemoveIfPresent(k) ==
    \/ RemoveConnection(k)
    \/ ~Has(k) /\ UNCHANGED cmVars

RemoveAdded(c) ==
    /\ phase = "serving" /\ step[c] = "remove"
    /\ RemoveIfPresent(AddKey(c))
    /\ Goto(c, "end")
    /\ UNCHANGED <<bootVars, sessionVars, tool, arg, sc, pin, target, left, used>>

-----------------------------------------------------------------------------
(* The end of a session.                                                   *)

\* DELETE or the idle timeout: ss.Wait will return.
SessionEnds(cl) ==
    /\ phase = "serving" /\ Transport = "http"
    /\ ended' = ended \cup {cl}
    /\ UNCHANGED <<cmVars, bootVars, sessions, watcher, cleanup, doomed,
                   scName, owned, closed, callVars>>

\* The cleanup goroutine: ss.Wait has returned; forget the session ...
ForgetSession(s) ==
    /\ phase = "serving" /\ cleanup[s] = "waiting" /\ watcher[s] \in ended
    /\ sessions' = [sessions EXCEPT ![watcher[s]] = None]
    /\ cleanup'  = [cleanup EXCEPT ![s] = "deleted"]
    /\ UNCHANGED <<cmVars, bootVars, ended, watcher, doomed, scName, owned,
                   closed, callVars>>

\* Fault: the cleanup gets no keys.
NoKeys(s) == {}

OwnedKeys(s) == {<<s, n>> : n \in owned[s]}

\* ... sessionConn.close: refuse further adds and take the keys ...
CloseSession(s) ==
    /\ phase = "serving" /\ cleanup[s] = "deleted"
    /\ closed'  = [closed EXCEPT ![s] = TRUE]
    /\ doomed'  = [doomed EXCEPT ![s] = OwnedKeys(s)]
    /\ owned'   = [owned EXCEPT ![s] = {}]
    /\ cleanup' = [cleanup EXCEPT ![s] = "removing"]
    /\ UNCHANGED <<cmVars, bootVars, sessions, ended, watcher, scName, callVars>>

\* ... and remove them one after the other, each in a lock section of its own.
RemoveDoomed(s) ==
    /\ phase = "serving" /\ cleanup[s] = "removing"
    /\ \E k \in doomed[s] :
         /\ RemoveIfPresent(k)
         /\ doomed' = [doomed EXCEPT ![s] = @ \ {k}]
    /\ UNCHANGED <<bootVars, sessions, ended, watcher, cleanup, scName, owned,
                   closed, callVars>>

-----------------------------------------------------------------------------
Main == (StartupStep \/ Exit) /\ UNCHANGED <<sessionVars, callVars>>

Arrive(c) ==
    \E t \in Tools, n \in Keys \cup {None} :
        \/ ArriveStdio(c, t, n)
        \/ \E cl \in Clients : ArriveKnown(c, cl, t, n)
        \/ \E cl \in Clients, s \in Sessions : ArriveNew(c, cl, s, t, n)

CallStep(c) ==
    \/ Pin(c) \/ Statement(c)
    \/ SwitchProcessWide(c) \/ SwitchProcessWideFails(c)
    \/ Resolve(c) \/ Check(c) \/ SetSessionActive(c)
    \/ AddRejected(c) \/ AddValid(c) \/ ReserveInSession(c)
    \/ BeginAdd(c) \/ ContinueAdd(c) \/ AddReturns(c)
    \/ CheckClosed(c) \/ ReleaseInSession(c) \/ RemoveAdded(c)

CleanupStep(s) == ForgetSession(s) \/ CloseSession(s) \/ RemoveDoomed(s)

\* Tool pack loss on a connection some call is using.
PackGone(k) ==
    /\ phase = "serving"
    /\ DropToolPack(k)
    /\ UNCHANGED <<bootVars, sessionVars, callVars>>

McpNext ==
    \/ Main
    \/ \E c \in ToolCalls : Arrive(c) \/ CallStep(c)
    \/ \E cl \in Clients : SessionEnds(cl)
    \/ \E s \in Sessions : CleanupStep(s)
    \/ \E k \in Keys : PackGone(k)

McpSpec == Init /\ [][McpNext]_vars

\* Goroutines make progress until the process exits: every wait in a tool call
\* is bounded (ssh.Dial by 15 s, ping and detection by pingTimeout, statements
\* by queryTimeout), Go's mutexes do not starve, and the cleanup goroutine only
\* takes mutexes.
McpFairSpec ==
    /\ McpSpec
    /\ \A c \in ToolCalls : WF_vars(CallStep(c))
    /\ \A s \in Sessions : WF_vars(CleanupStep(s))

-----------------------------------------------------------------------------
(* Properties.                                                             *)

\* An add_connection call between its reservation in the session and the
\* point where the session owns the pool or the pool is gone.
AddInFlight(c) ==
    /\ tool[c] = "add"
    /\ step[c] \in {"begin", "adding", "isClosed", "resolve", "check", "set",
                    "release", "remove"}

InFlightFor(s, n) ==
    \E c \in ToolCalls : AddInFlight(c) /\ sc[c] = s /\ arg[c] = n

\* Every pool a session registered is owned by the session, or its cleanup is
\* about to remove it, or the add_connection call that opened it still runs
\* and will: a session that ends while a pool is being opened leaks nothing.
SessionPoolsReclaimed ==
    \A s \in Sessions, n \in Names :
        Has(<<s, n>>) => n \in owned[s] \/ <<s, n>> \in doomed[s] \/ InFlightFor(s, n)

\* A failed add_connection gives its slot of the per-session limit back: every
\* owned name has a registered pool or an add still in flight.
SlotsAccountedFor ==
    \A s \in Sessions : \A n \in owned[s] : Has(<<s, n>>) \/ InFlightFor(s, n)

\* The connections a session may use: the process-wide ones and its own.
VisibleTo(s) == Names \cup {<<s, n>> : n \in Names} \cup {None}

\* A session never selects, and its calls never run a statement on, a
\* connection that another session registered.
SessionIsolation ==
    /\ \A s \in Sessions : scName[s] \in VisibleTo(s)
    /\ \A c \in ToolCalls : sc[c] # None =>
          /\ pin[c] \in VisibleTo(sc[c])
          /\ \A p \in used[c] \ {None} : key[p] \in VisibleTo(sc[c])

\* All statements of one tool call run on one pool, whatever use_connection,
\* add_connection and session ends do meanwhile (a later statement may fail
\* because that pool has gone, but never runs on another server), and the
\* connection named in the result (the pin when the call ends) is that one.
OneServerPerCall ==
    \A c \in ToolCalls :
        /\ Cardinality(used[c] \ {None}) <= 1
        /\ step[c] = "end" => \A p \in used[c] \ {None} : key[p] = pin[c]

\* MCP HTTP sessions never move the process-wide active connection.
SessionsNeverMoveDefault ==
    [][Transport = "http" /\ phase = "serving" => activeConn' = activeConn]_vars

\* The end of a session eventually closes every pool it registered, for good,
\* unless the process exits first.
Drained(s) ==
    \A n \in Names : ~Has(<<s, n>>) /\ <<s, n>> \notin pendingAdds

EndedSessionsDrain ==
    \A s \in Sessions :
        watcher[s] \in ended ~> [](phase = "exited" \/ Drained(s))

\* Every tool call returns (or the process exits).
CallsReturn ==
    \A c \in ToolCalls : step[c] # "idle" ~> (step[c] = "end" \/ phase = "exited")

\* A session is gone: cleaned up, and no add of it is in flight.
Gone(s) ==
    /\ cleanup[s] = "removing" /\ doomed[s] = {}
    /\ \A n \in Names : ~InFlightFor(s, n)

\* The server implements the lease discipline of SessionLeases.
Leases == INSTANCE SessionLeases
    WITH Holders <- Sessions, Limit <- MaxTotal,
         leases <- IF shutdown THEN {} ELSE SessionConnsInUse,
         gone <- {s \in Sessions : Gone(s)}

ImplementsLeases == Leases!LeaseSpec

=============================================================================
