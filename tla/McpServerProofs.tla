--------------------------- MODULE McpServerProofs ---------------------------
(***************************************************************************)
(* Theorems about McpServer, for any sets of tool calls, clients, sessions *)
(* and names, both transports, any limits and any configuration.           *)
(***************************************************************************)
EXTENDS McpServer, StartupProofs

AddSteps == {"has", "reserve", "begin", "adding", "isClosed", "release", "remove"}

\* How the steps of a call go with its tool, its session and its name.
CallOK(c) ==
    /\ phase = "starting" => step[c] = "idle"
    /\ step[c] = "idle" => sc[c] = None
    /\ step[c] # "idle" =>
          /\ tool[c] \in Tools
          /\ (arg[c] = None) <=> (tool[c] = "query")
          /\ (sc[c] = None) <=> (Transport = "stdio")
    /\ step[c] \notin {"idle", "pin", "end"} => left[c] > 0
    /\ step[c] \in AddSteps => tool[c] = "add"
    /\ tool[c] = "query" => step[c] \in {"idle", "pin", "stmt", "end"}
    /\ step[c] \in {"reserve", "isClosed", "check", "set", "release", "remove"} => sc[c] # None
    /\ step[c] = "reserve" \/ AddInFlight(c) => arg[c] \in Names
    /\ step[c] \in {"check", "set"} =>
          \/ target[c] = arg[c]
          \/ target[c] = <<sc[c], arg[c]>> /\ arg[c] \in Names
    /\ step[c] = "set" => target[c] \in VisibleTo(sc[c]) \ {None}

CallInv == \A c \in ToolCalls : CallOK(c)

\* How the manager's view of an add goes with the call that makes it.
AddOK(c) ==
    /\ ~replace[c]
    /\ pc[c] # "idle" => tool[c] = "add" /\ arg[c] \in Names /\ key[c] = AddKey(c)
    /\ step[c] \in {"idle", "pin", "has", "reserve", "begin"} => pc[c] = "idle"
    /\ tool[c] = "add" /\ step[c] \in {"isClosed", "resolve", "check", "set", "release", "remove"}
          => pc[c] = "done"
    /\ tool[c] = "add" /\ step[c] \in {"isClosed", "resolve", "check", "set", "remove"}
          => result[c] = "ok"
    /\ pc[c] \notin {"idle", "done"} => step[c] = "adding"
    /\ AddInFlight(c) /\ result[c] = "ok" /\ sc[c] = None => Has(arg[c])

AddInv ==
    /\ \A c \in ToolCalls : AddOK(c)
    /\ \A c \in Calls \ ToolCalls : pc[c] # "idle" => key[c] \in Names
    /\ \A c \in Calls : ~Finished(c) => result[c] = "none"
    /\ Transport = "stdio" => \A k \in SessionKeys : ~Has(k)

BaseInv == McpTypeOK /\ KeyInv /\ CallInv /\ AddInv

\* A session's cleanup.
SessionInv ==
    \A s \in Sessions :
        /\ closed[s] <=> cleanup[s] = "removing"
        /\ closed[s] => owned[s] = {}
        /\ ~closed[s] => doomed[s] = {}
        /\ doomed[s] \subseteq {<<s, n>> : n \in Names}

SessionAdd(c) == AddInFlight(c) /\ sc[c] # None

\* An add of a session in flight: the session owns its name until it is closed,
\* the key is registered once the add has succeeded and not before, a switch to
\* it fails and its removal follows only if the session was closed meanwhile,
\* and then the cleanup has the key.
FlightOK(c) ==
    SessionAdd(c) =>
        /\ closed[sc[c]] \/ arg[c] \in owned[sc[c]]
        /\ result[c] # "ok" => ~Has(AddKey(c))
        /\ result[c] = "ok" => Has(AddKey(c)) \/ closed[sc[c]]
        /\ step[c] \in {"check", "set"} => target[c] = AddKey(c) \/ closed[sc[c]]
        /\ step[c] \in {"resolve", "check", "set"} /\ closed[sc[c]] =>
              ~Has(AddKey(c)) \/ AddKey(c) \in doomed[sc[c]]
        /\ step[c] = "remove" \/ (step[c] = "release" /\ result[c] = "ok") => closed[sc[c]]

\* A session never has two adds of one name in flight.
Alone ==
    \A c, e \in ToolCalls :
        SessionAdd(c) /\ SessionAdd(e) /\ sc[c] = sc[e] /\ arg[c] = arg[e] => c = e

FlightInv == Alone /\ \A c \in ToolCalls : FlightOK(c)

ReclaimInv == SessionInv /\ FlightInv /\ SessionPoolsReclaimed /\ SlotsAccountedFor

\* A session key that no add will register again.
Retired(k) ==
    /\ k \in SessionKeys /\ ~Has(k) /\ closed[k[1]]
    /\ \A c \in ToolCalls : SessionAdd(c) /\ AddKey(c) = k => result[c] = "ok"

\* The pools a call has used: one, registered under the name it is pinned to, or
\* gone for good.
UsedOK(c) ==
    /\ step[c] \notin {"stmt", "end"} => used[c] = {}
    /\ \A p \in used[c] \ {None} :
          /\ Finished(p) /\ key[p] = pin[c]
          /\ connections[key[p]] = p \/ Retired(key[p])
    /\ \A p, q \in used[c] \ {None} : p = q

UsedInv == \A c \in ToolCalls : UsedOK(c)

\* What the sessions and the calls have selected.
SelectedInv ==
    /\ \A s \in Sessions : scName[s] \in VisibleTo(s)
    /\ \A c \in ToolCalls :
          /\ step[c] \in {"idle", "pin"} => pin[c] = None
          /\ sc[c] # None => pin[c] \in VisibleTo(sc[c])

\* Close runs at the end of the process and only then.
ExitInv == shutdown <=> phase \in {"fatal", "exited"}

-----------------------------------------------------------------------------
(* The manager inside the server.                                          *)

\* The constants: tool calls and entries of a configuration are different add
\* calls, and entries have names.
LEMMA EntryFacts ==
    ASSUME conf \in Configurations, NEW i \in DOMAIN conf
    PROVE  i \in Calls \ ToolCalls /\ conf[i] \in Names /\ conf[i] \in Keys
<1>1. conf \in Seq(Names) /\ DOMAIN conf \subseteq Calls /\ DOMAIN conf \cap ToolCalls = {}
  BY StartupAssumption, McpAssumption
<1>2. QED
  BY <1>1 DEF Keys

\* The key a call works on.
LEMMA AddKeyFacts ==
    ASSUME NEW c \in ToolCalls, arg[c] \in Names, sc[c] \in Sessions \cup {None}
    PROVE  /\ AddKey(c) \in Keys
           /\ sc[c] = None => AddKey(c) \in Names /\ AddKey(c) \notin SessionKeys
           /\ sc[c] # None => AddKey(c) \in SessionKeys /\ AddKey(c) = <<sc[c], arg[c]>>
  BY KeysAssumption DEF AddKey, Keys, SessionKeys

\* use_connection over stdio only ever finds user names.
LEMMA SwitchName ==
    ASSUME BaseInv, NEW c \in ToolCalls, SwitchProcessWide(c)
    PROVE  arg[c] \in Names
<1>1. Transport = "stdio" /\ arg[c] # None
  BY DEF BaseInv, CallInv, CallOK, SwitchProcessWide
<1>2. arg[c] \in Keys
  BY <1>1 DEF BaseInv, McpTypeOK
<1>3. Has(arg[c])
  BY DEF SwitchProcessWide, SetActive
<1>4. QED
  BY <1>1, <1>2, <1>3 DEF BaseInv, AddInv, Keys

\* Every step of the server is, for the manager, a step of its own
\* specification or none.
LEMMA ManagerStep == BaseInv /\ [McpNext]_vars => [Next]_cmVars
<1> SUFFICES ASSUME BaseInv, [McpNext]_vars
             PROVE  [Next]_cmVars
  OBVIOUS
<1>1. conf \in Configurations /\ ToolCalls \subseteq Calls
  BY McpAssumption DEF BaseInv, McpTypeOK, StartupTypeOK
<1>2. CASE Main
  <2>1. ASSUME NEW i \in DOMAIN conf, AddConfigured(i) \/ AddConfiguredStep(i)
        PROVE  Next
    BY <1>1, <2>1, EntryFacts DEF AddConfigured, AddConfiguredStep, Next
  <2>2. StartServing => UNCHANGED cmVars
    BY DEF StartServing
  <2>3. FailStartup \/ Exit => Next
    BY DEF FailStartup, Exit, Next
  <2>4. QED
    BY <1>2, <2>1, <2>2, <2>3 DEF Main, StartupStep
<1>3. ASSUME NEW c \in ToolCalls, Arrive(c) \/ CallStep(c)
      PROVE  [Next]_cmVars
  <2>1. Arrive(c) => UNCHANGED cmVars
    BY DEF Arrive, ArriveStdio, ArriveKnown, ArriveNew
  <2>2. CASE SwitchProcessWide(c)
    BY <2>2, SwitchName DEF SwitchProcessWide, Next
  <2>3. CASE BeginAdd(c)
    <3>1. AddKey(c) \in Keys
      BY <2>3, AddKeyFacts DEF BeginAdd, BaseInv, CallInv, CallOK, AddSteps, AddInFlight, McpTypeOK
    <3>2. QED
      BY <1>1, <2>3, <3>1 DEF BeginAdd, Next
  <2>4. CASE ContinueAdd(c)
    BY <1>1, <2>4 DEF ContinueAdd, Next
  <2>5. CASE RemoveAdded(c)
    <3>1. AddKey(c) \in Keys
      BY <2>5, AddKeyFacts DEF RemoveAdded, BaseInv, CallInv, CallOK, AddSteps, AddInFlight, McpTypeOK
    <3>2. QED
      BY <2>5, <3>1 DEF RemoveAdded, RemoveIfPresent, Next
  <2>6. CASE \/ Pin(c) \/ Statement(c) \/ SwitchProcessWideFails(c)
             \/ Resolve(c) \/ Check(c) \/ SetSessionActive(c)
             \/ AddRejected(c) \/ AddValid(c) \/ ReserveInSession(c)
             \/ AddReturns(c) \/ CheckClosed(c) \/ ReleaseInSession(c)
    BY <2>6 DEF Pin, Statement, SwitchProcessWideFails, Resolve, Check, SetSessionActive,
       AddRejected, AddValid, ReserveInSession, AddReturns, CheckClosed, ReleaseInSession
  <2>7. QED
    BY <1>3, <2>1, <2>2, <2>3, <2>4, <2>5, <2>6 DEF CallStep
<1>4. ASSUME NEW s \in Sessions, CleanupStep(s)
      PROVE  [Next]_cmVars
  <2>1. CASE RemoveDoomed(s)
    <3>1. doomed[s] \subseteq Keys
      BY DEF BaseInv, McpTypeOK, Keys
    <3>2. QED
      BY <2>1, <3>1 DEF RemoveDoomed, RemoveIfPresent, Next
  <2>2. QED
    BY <1>4, <2>1 DEF CleanupStep, ForgetSession, CloseSession
<1>5. ASSUME NEW cl \in Clients, SessionEnds(cl)
      PROVE  [Next]_cmVars
  BY <1>5 DEF SessionEnds
<1>6. ASSUME NEW k \in Keys, PackGone(k)
      PROVE  [Next]_cmVars
  BY <1>6 DEF PackGone, Next
<1>7. CASE UNCHANGED vars
  BY <1>7 DEF vars
<1>8. QED
  BY <1>2, <1>3, <1>4, <1>5, <1>6, <1>7 DEF McpNext

-----------------------------------------------------------------------------
(* Types and the shape of calls.                                           *)

\* Nothing of call e changes.
SameCall(e) ==
    /\ step'[e] = step[e] /\ tool'[e] = tool[e] /\ arg'[e] = arg[e] /\ sc'[e] = sc[e]
    /\ pin'[e] = pin[e] /\ target'[e] = target[e] /\ left'[e] = left[e] /\ used'[e] = used[e]

SameAdd(e) ==
    pc'[e] = pc[e] /\ key'[e] = key[e] /\ replace'[e] = replace[e] /\ result'[e] = result[e]

\* A step of call c is not a step of another call.
LEMMA OthersSame ==
    ASSUME McpTypeOK, NEW c \in ToolCalls, Arrive(c) \/ CallStep(c), NEW e \in ToolCalls \ {c}
    PROVE  SameCall(e)
<1> USE DEF SameCall, McpTypeOK, Goto
<1>1. CASE Arrive(c)
  BY <1>1 DEF Arrive, ArriveStdio, ArriveKnown, ArriveNew, Request
<1>2. CASE Pin(c) \/ Statement(c)
  BY <1>2 DEF Pin, Statement
<1>3. CASE SwitchProcessWide(c) \/ SwitchProcessWideFails(c)
  BY <1>3 DEF SwitchProcessWide, SwitchProcessWideFails
<1>4. CASE Resolve(c) \/ Check(c) \/ SetSessionActive(c)
  BY <1>4 DEF Resolve, Check, SetSessionActive
<1>5. CASE AddRejected(c) \/ AddValid(c) \/ ReserveInSession(c)
  BY <1>5 DEF AddRejected, AddValid, ReserveInSession
<1>6. CASE BeginAdd(c) \/ ContinueAdd(c) \/ AddReturns(c)
  BY <1>6 DEF BeginAdd, ContinueAdd, AddReturns, callVars
<1>7. CASE CheckClosed(c) \/ ReleaseInSession(c) \/ RemoveAdded(c)
  BY <1>7 DEF CheckClosed, ReleaseInSession, RemoveAdded
<1>8. QED
  BY <1>1, <1>2, <1>3, <1>4, <1>5, <1>6, <1>7 DEF CallStep

\* What is known of a call that a step leaves alone stays true ...
LEMMA CallKept ==
    ASSUME NEW e \in ToolCalls, CallOK(e), SameCall(e), phase' = "starting" => phase = "starting"
    PROVE  CallOK(e)'
  BY DEF CallOK, SameCall, AddInFlight, VisibleTo

\* ... and so does what is known of its add in the manager.
LEMMA AddKept ==
    ASSUME NEW e \in ToolCalls, AddOK(e), SameCall(e), SameAdd(e),
           \A k \in Names : Has(k) => Has(k)', arg[e] \in Names \/ ~AddInFlight(e)
    PROVE  AddOK(e)'
  BY DEF AddOK, SameCall, SameAdd, AddKey, AddInFlight

\* The types of the server's own variables.
SessionTypes ==
    /\ sessions \in [Clients -> Sessions \cup {None}]
    /\ ended \in SUBSET Clients
    /\ watcher \in [Sessions -> Clients \cup {None}]
    /\ cleanup \in [Sessions -> {"none", "waiting", "deleted", "removing"}]
    /\ doomed \in [Sessions -> SUBSET SessionKeys]
    /\ scName \in [Sessions -> Keys \cup {None}]
    /\ owned  \in [Sessions -> SUBSET Names]
    /\ closed \in [Sessions -> BOOLEAN]

CallTypes ==
    /\ step \in [ToolCalls -> Steps]
    /\ tool \in [ToolCalls -> Tools \cup {None}]
    /\ arg  \in [ToolCalls -> Keys \cup {None}]
    /\ sc   \in [ToolCalls -> Sessions \cup {None}]
    /\ pin  \in [ToolCalls -> Keys \cup {None}]
    /\ target \in [ToolCalls -> Keys \cup {None}]
    /\ left \in [ToolCalls -> 0..MaxStmts]
    /\ used \in [ToolCalls -> SUBSET (Calls \cup {None})]

\* The variables of the calls keep their types.
LEMMA CallTypesStep ==
    ASSUME BaseInv, NEW c \in ToolCalls, Arrive(c) \/ CallStep(c)
    PROVE  CallTypes'
<1> USE McpAssumption DEF CallTypes, Goto, Steps
<1>0. CallTypes /\ SessionTypes /\ StartupTypeOK /\ CallOK(c)
  BY DEF BaseInv, McpTypeOK, SessionTypes, CallInv
<1>1. CASE Arrive(c)
  BY <1>0, <1>1 DEF Arrive, ArriveStdio, ArriveKnown, ArriveNew, Request, SessionTypes, Tools
<1>2. CASE Pin(c)
  <2>1. SessionActive(c) \in Keys \cup {None}
    BY <1>0 DEF SessionActive, SessionTypes, StartupTypeOK, TypeOK
  <2>2. FirstStep(tool[c]) \in {"stmt", "resolve", "has"}
    BY <1>0, <1>2 DEF FirstStep, Pin, CallOK, Tools
  <2>3. QED
    BY <1>0, <1>2, <2>1, <2>2 DEF Pin
<1>3. CASE Statement(c)
  <2>1. GetDB(c) \in Calls \cup {None}
    BY <1>0 DEF GetDB, StartupTypeOK, TypeOK
  <2>2. left[c] - 1 \in 0..MaxStmts
    BY <1>0, <1>3 DEF Statement, CallOK
  <2>3. QED
    BY <1>0, <1>3, <2>1, <2>2 DEF Statement
<1>4. CASE SwitchProcessWide(c) \/ SwitchProcessWideFails(c)
  BY <1>0, <1>4 DEF SwitchProcessWide, SwitchProcessWideFails, AfterSwitch, AfterFailedSwitch
<1>5. CASE Resolve(c)
  <2>1. arg[c] \in owned[sc[c]] => <<sc[c], arg[c]>> \in Keys
    BY <1>0, <1>5 DEF Resolve, SessionTypes, Keys, SessionKeys
  <2>2. QED
    BY <1>0, <1>5, <2>1 DEF Resolve
<1>6. CASE Check(c) \/ SetSessionActive(c)
  BY <1>0, <1>6 DEF Check, SetSessionActive, AfterSwitch, AfterFailedSwitch
<1>7. CASE AddRejected(c) \/ AddValid(c) \/ ReserveInSession(c)
  BY <1>0, <1>7 DEF AddRejected, AddValid, ReserveInSession
<1>8. CASE BeginAdd(c) \/ ContinueAdd(c)
  BY <1>0, <1>8 DEF BeginAdd, ContinueAdd, callVars
<1>9. CASE AddReturns(c)
  BY <1>0, <1>9 DEF AddReturns
<1>10. CASE CheckClosed(c) \/ ReleaseInSession(c) \/ RemoveAdded(c)
  BY <1>0, <1>10 DEF CheckClosed, ReleaseInSession, RemoveAdded
<1>11. QED
  BY <1>1, <1>2, <1>3, <1>4, <1>5, <1>6, <1>7, <1>8, <1>9, <1>10 DEF CallStep

\* A call changes its session only by reserving, releasing and selecting.
LEMMA SessionTypesStep ==
    ASSUME BaseInv, McpNext
    PROVE  SessionTypes'
<1> USE DEF SessionTypes
<1>0. SessionTypes /\ CallTypes
  BY DEF BaseInv, McpTypeOK, CallTypes
<1>1. ASSUME UNCHANGED sessionVars
      PROVE  SessionTypes'
  BY <1>0, <1>1 DEF sessionVars
<1>2. ASSUME NEW c \in ToolCalls, Arrive(c)
      PROVE  SessionTypes'
  <2>1. CASE \E t \in Tools, n \in Keys \cup {None}, cl \in Clients, s \in Sessions :
               ArriveNew(c, cl, s, t, n)
    BY <1>0, <2>1 DEF ArriveNew
  <2>2. QED
    BY <1>1, <1>2, <2>1 DEF Arrive, ArriveStdio, ArriveKnown
<1>3. ASSUME NEW c \in ToolCalls, CallStep(c)
      PROVE  SessionTypes'
  <2>1. CASE SetSessionActive(c)
    BY <1>0, <2>1 DEF SetSessionActive, CallTypes
  <2>2. CASE ReserveInSession(c)
    <3>1. arg[c] \in Names
      BY <2>2 DEF ReserveInSession, BaseInv, CallInv, CallOK
    <3>2. QED
      BY <1>0, <2>2, <3>1 DEF ReserveInSession
  <2>3. CASE ReleaseInSession(c)
    BY <1>0, <2>3 DEF ReleaseInSession, SlotReleased
  <2>4. QED
    BY <1>1, <1>3, <2>1, <2>2, <2>3
    DEF CallStep, Pin, Statement, SwitchProcessWide, SwitchProcessWideFails, Resolve, Check,
        AddRejected, AddValid, BeginAdd, ContinueAdd, AddReturns, CheckClosed, RemoveAdded
<1>4. ASSUME NEW s \in Sessions, CleanupStep(s)
      PROVE  SessionTypes'
  <2>1. CASE ForgetSession(s)
    BY <1>0, <2>1 DEF ForgetSession
  <2>2. CASE CloseSession(s)
    <3>1. OwnedKeys(s) \subseteq SessionKeys
      BY <1>0 DEF OwnedKeys, SessionKeys
    <3>2. closed' \in [Sessions -> BOOLEAN]
      BY <1>0, <2>2 DEF CloseSession
    <3>3. QED
      BY <1>0, <2>2, <3>1, <3>2 DEF CloseSession
  <2>3. CASE RemoveDoomed(s)
    BY <1>0, <2>3 DEF RemoveDoomed
  <2>4. QED
    BY <1>4, <2>1, <2>2, <2>3 DEF CleanupStep
<1>5. ASSUME NEW cl \in Clients, SessionEnds(cl)
      PROVE  SessionTypes'
  BY <1>0, <1>5 DEF SessionEnds
<1>6. QED
  BY <1>1, <1>2, <1>3, <1>4, <1>5 DEF McpNext, Main, PackGone

\* Where main and a step of another part leave the phase.
LEMMA PhaseStep ==
    ASSUME StartupTypeOK, McpNext
    PROVE  /\ conf' = conf
           /\ phase' \in {"starting", "serving", "fatal", "exited"}
           /\ phase' = "starting" => phase = "starting"
           /\ phase' = phase \/ Main
           /\ phase = "serving" \/ Main
  BY DEF StartupTypeOK, McpNext, Main, StartupStep, AddConfigured, AddConfiguredStep, StartServing,
         FailStartup, Exit, Arrive, ArriveStdio, ArriveKnown, ArriveNew, Request, CallStep, Pin,
         Statement, SwitchProcessWide, SwitchProcessWideFails, Resolve, Check, SetSessionActive,
         AddRejected, AddValid, ReserveInSession, BeginAdd, ContinueAdd, AddReturns, CheckClosed,
         ReleaseInSession, RemoveAdded, SessionEnds, CleanupStep, ForgetSession, CloseSession,
         RemoveDoomed, PackGone, bootVars

\* Every step of a call leaves it in an allowed shape.
LEMMA CallOwn ==
    ASSUME BaseInv, NEW c \in ToolCalls, Arrive(c) \/ CallStep(c)
    PROVE  CallOK(c)'
<1> USE McpAssumption DEF CallOK, AddSteps, AddInFlight, Goto, bootVars
<1>0. CallTypes /\ SessionTypes /\ CallOK(c) /\ AddOK(c) /\ phase' = phase
  BY DEF BaseInv, McpTypeOK, CallTypes, SessionTypes, CallInv, AddInv, Arrive, ArriveStdio,
     ArriveKnown, ArriveNew, CallStep, Pin,
     Statement, SwitchProcessWide, SwitchProcessWideFails, Resolve, Check, SetSessionActive,
     AddRejected, AddValid, ReserveInSession, BeginAdd, ContinueAdd, AddReturns, CheckClosed,
     ReleaseInSession, RemoveAdded
<1>1. CASE Arrive(c)
  BY <1>0, <1>1 DEF Arrive, ArriveStdio, ArriveKnown, ArriveNew, Request, SessionTypes, Tools, CallTypes
<1>2. CASE Pin(c)
  BY <1>0, <1>2 DEF Pin, CallTypes, FirstStep, Tools
<1>3. CASE Statement(c)
  BY <1>0, <1>3 DEF Statement, CallTypes
<1>4. CASE SwitchProcessWide(c) \/ SwitchProcessWideFails(c)
  BY <1>0, <1>4 DEF SwitchProcessWide, SwitchProcessWideFails, AfterSwitch, AfterFailedSwitch, CallTypes, AddOK, Tools
<1>5. CASE Resolve(c)
  BY <1>0, <1>5 DEF Resolve, SessionTypes, CallTypes
<1>6. CASE Check(c)
  <2>1. sc[c] \in Sessions /\ arg[c] \in Keys
    BY <1>0, <1>6 DEF Check, CallTypes
  <2>2. Addressable(c) => target[c] \in VisibleTo(sc[c]) \ {None}
    <3>1. target[c] = arg[c] \/ (target[c] = <<sc[c], arg[c]>> /\ arg[c] \in Names)
      BY <1>0, <1>6 DEF Check
    <3>2. CASE target[c] = arg[c]
      BY <2>1, <3>2, KeysAssumption DEF Addressable, IsSessionConnKey, VisibleTo, Keys
    <3>3. CASE target[c] = <<sc[c], arg[c]>> /\ arg[c] \in Names
      <4>1. target[c] \in SessionKeys
        BY <2>1, <3>3 DEF SessionKeys
      <4>2. QED
        BY <3>3, <4>1, KeysAssumption DEF VisibleTo, Keys
    <3>4. QED
      BY <3>1, <3>2, <3>3
  <2>3. VisibleTo(sc[c])' = VisibleTo(sc'[c])
    BY DEF VisibleTo
  <2> HIDE DEF AddInFlight
  <2>4. /\ sc' = sc /\ tool' = tool /\ arg' = arg /\ target' = target /\ left' = left
        /\ step'[c] = IF Addressable(c) THEN "set" ELSE AfterFailedSwitch(c)
        /\ step[c] = "check"
    BY <1>0, <1>6 DEF Check, CallTypes
  <2>5. AddInFlight(c)' => AddInFlight(c)
    BY <2>4 DEF AddInFlight
  <2>6. QED
    BY <1>0, <2>1, <2>2, <2>3, <2>4, <2>5 DEF AfterFailedSwitch, Tools
<1>7. CASE SetSessionActive(c)
  BY <1>0, <1>7 DEF SetSessionActive, AfterSwitch, CallTypes
<1>8. CASE AddRejected(c) \/ AddValid(c) \/ ReserveInSession(c)
  BY <1>0, <1>8 DEF AddRejected, AddValid, ReserveInSession, IsSessionConnKey, Keys, CallTypes
<1>9. CASE BeginAdd(c) \/ ContinueAdd(c) \/ AddReturns(c)
  BY <1>0, <1>9 DEF BeginAdd, ContinueAdd, AddReturns, callVars, CallTypes
<1>10. CASE CheckClosed(c) \/ ReleaseInSession(c) \/ RemoveAdded(c)
  BY <1>0, <1>10 DEF CheckClosed, ReleaseInSession, RemoveAdded, CallTypes
<1>11. QED
  BY <1>1, <1>2, <1>3, <1>4, <1>5, <1>6, <1>7, <1>8, <1>9, <1>10 DEF CallStep

\* RemoveConnection, or nothing if the name is not registered.
LEMMA RemoveEffect ==
    ASSUME TypeOK, NEW k \in Keys, RemoveIfPresent(k)
    PROVE  /\ connections' = [connections EXCEPT ![k] = None]
           /\ UNCHANGED <<pendingAdds, pc, key, replace, result, shutdown>>
<1>1. CASE RemoveConnection(k)
  BY <1>1 DEF RemoveConnection, TearDownNamedConnection, Forget, args, Has, TypeOK
<1>2. CASE ~Has(k) /\ UNCHANGED cmVars
  BY <1>2 DEF cmVars, Has, TypeOK
<1>3. QED
  BY <1>1, <1>2 DEF RemoveIfPresent

\* The key a call removes is a session's.
LEMMA RemovedKey ==
    ASSUME BaseInv, NEW c \in ToolCalls, step[c] \in {"release", "remove"}
    PROVE  /\ AddKey(c) \in SessionKeys /\ AddKey(c) = <<sc[c], arg[c]>> /\ sc[c] \in Sessions
           /\ arg[c] \in Names /\ AddInFlight(c) /\ AddKey(c) \in Keys
<1>1. CallOK(c) /\ sc[c] \in Sessions \cup {None}
  BY DEF BaseInv, CallInv, McpTypeOK
<1>2. AddInFlight(c) /\ arg[c] \in Names /\ sc[c] # None
  BY <1>1 DEF CallOK, AddSteps, AddInFlight
<1>3. QED
  BY <1>1, <1>2, AddKeyFacts

\* While the server serves, tool calls register connections and only session
\* keys are ever removed.
RegisteredBy(c) == ContinueAdd(c) /\ Registers(c)

RemovedBy(k) ==
    /\ connections' = [connections EXCEPT ![k] = None]
    /\ \/ \E c \in ToolCalls : RemoveAdded(c) /\ AddKey(c) = k
       \/ \E s \in Sessions : RemoveDoomed(s) /\ k \in doomed[s] /\ doomed' = [doomed EXCEPT ![s] = @ \ {k}]

\* Once startup is over the registry changes in two ways only: an add of a
\* call registers its pool, and the pool of a session is removed.
LEMMA ConnectionsStep ==
    ASSUME BaseInv, McpNext, phase = "serving"
    PROVE  \/ connections' = connections
           \/ \E c \in ToolCalls : RegisteredBy(c)
           \/ \E k \in SessionKeys : RemovedBy(k)
<1> USE DEF maps, handles, args
<1>0. TypeOK /\ ToolCalls \subseteq Calls
  BY McpAssumption DEF BaseInv, McpTypeOK, StartupTypeOK
<1>1. CASE Main
  BY <1>1 DEF Main, StartupStep, AddConfigured, AddConfiguredStep, StartServing, FailStartup, Exit, Close
<1>2. ASSUME NEW c \in ToolCalls, Arrive(c)
      PROVE  connections' = connections
  BY <1>2 DEF Arrive, ArriveStdio, ArriveKnown, ArriveNew, cmVars
<1>3. ASSUME NEW c \in ToolCalls, CallStep(c)
      PROVE  connections' = connections \/ RegisteredBy(c) \/ (\E k \in SessionKeys : RemovedBy(k))
  <2>1. CASE ContinueAdd(c)
    BY <1>0, <2>1, AddStepEffect DEF ContinueAdd, RegisteredBy, MovesOn
  <2>2. CASE RemoveAdded(c)
    <3>1. AddKey(c) \in SessionKeys /\ AddKey(c) \in Keys
      BY <2>2, RemovedKey DEF RemoveAdded
    <3>2. connections' = [connections EXCEPT ![AddKey(c)] = None]
      BY <1>0, <2>2, <3>1, RemoveEffect DEF RemoveAdded
    <3>3. RemovedBy(AddKey(c))
      BY <2>2, <3>2 DEF RemovedBy
    <3>4. QED
      BY <3>1, <3>3
  <2>3. CASE BeginAdd(c) \/ SwitchProcessWide(c)
    BY <2>3 DEF BeginAdd, RefuseAdd, ReserveAdd, SwitchProcessWide, SetActive
  <2>4. QED
    BY <1>3, <2>1, <2>2, <2>3
    DEF CallStep, Pin, Statement, SwitchProcessWideFails, Resolve, Check, SetSessionActive,
        AddRejected, AddValid, ReserveInSession, AddReturns, CheckClosed, ReleaseInSession, cmVars
<1>4. ASSUME NEW s \in Sessions, CleanupStep(s)
      PROVE  connections' = connections \/ (\E k \in SessionKeys : RemovedBy(k))
  <2>1. CASE RemoveDoomed(s)
    <3>1. PICK k \in doomed[s] : RemoveIfPresent(k) /\ doomed' = [doomed EXCEPT ![s] = @ \ {k}]
      BY <2>1 DEF RemoveDoomed
    <3>2. k \in SessionKeys /\ k \in Keys
      BY DEF BaseInv, McpTypeOK, Keys
    <3>3. RemovedBy(k)
      BY <1>0, <2>1, <3>1, <3>2, RemoveEffect DEF RemovedBy
    <3>4. QED
      BY <3>2, <3>3
  <2>2. QED
    BY <1>4, <2>1 DEF CleanupStep, ForgetSession, CloseSession, cmVars
<1>5. ASSUME NEW cl \in Clients, SessionEnds(cl)
      PROVE  connections' = connections
  BY <1>5 DEF SessionEnds, cmVars
<1>6. ASSUME NEW k \in Keys, PackGone(k)
      PROVE  connections' = connections
  BY <1>6 DEF PackGone, DropToolPack
<1>7. QED
  BY <1>1, <1>2, <1>3, <1>4, <1>5, <1>6 DEF McpNext

\* A user name that is registered stays registered while the server serves.
LEMMA NamesKept ==
    ASSUME BaseInv, McpNext, phase = "serving", NEW k \in Names, Has(k)
    PROVE  /\ Has(k)'
           /\ connections'[k] = connections[k]
<1>0. TypeOK /\ ToolCalls \subseteq Calls /\ k \in Keys /\ k \notin SessionKeys /\ None \notin Calls
  BY McpAssumption, KeysAssumption DEF BaseInv, McpTypeOK, StartupTypeOK, Keys
<1>1. ASSUME NEW c \in ToolCalls, RegisteredBy(c)
      PROVE  connections'[k] = connections[k]
  <2>1. ~replace[c] /\ key[c] # k
    BY <1>1 DEF RegisteredBy, Registers, BaseInv, AddInv, AddOK
  <2>2. QED
    BY <1>0, <1>1, <2>1 DEF RegisteredBy, Registers, TypeOK
<1>2. ASSUME NEW l \in SessionKeys, RemovedBy(l)
      PROVE  connections'[k] = connections[k]
  BY <1>0, <1>2 DEF RemovedBy, TypeOK
<1>3. connections'[k] = connections[k]
  BY <1>1, <1>2, ConnectionsStep
<1>4. QED
  BY <1>3 DEF Has

\* Steps of a call and the add it makes.
LEMMA AddOwn ==
    ASSUME BaseInv, NEW c \in ToolCalls, Arrive(c) \/ CallStep(c)
    PROVE  AddOK(c)' /\ (\A e \in Calls \ {c} : SameAdd(e))
<1> USE DEF AddOK, AddSteps, AddInFlight, Goto, args
<1>0. /\ CallTypes /\ CallOK(c) /\ AddOK(c) /\ c \in Calls /\ TypeOK
      /\ ~Finished(c) => result[c] = "none"
  BY McpAssumption DEF BaseInv, McpTypeOK, StartupTypeOK, CallTypes, CallInv, AddInv
<1>1. ASSUME UNCHANGED cmVars
      PROVE  (\A e \in Calls : SameAdd(e)) /\ (\A k \in Names : Has(k)' = Has(k))
  BY <1>1 DEF cmVars, SameAdd, Has
<1>2. CASE Arrive(c)
  <2>1. UNCHANGED cmVars
    BY <1>2 DEF Arrive, ArriveStdio, ArriveKnown, ArriveNew
  <2>2. step[c] = "idle" /\ step'[c] = "pin"
    BY <1>0, <1>2 DEF Arrive, ArriveStdio, ArriveKnown, ArriveNew, Request, CallTypes
  <2>3. QED
    BY <1>0, <1>1, <2>1, <2>2 DEF cmVars
<1>3. CASE Pin(c) \/ Statement(c)
  BY <1>0, <1>1, <1>3 DEF Pin, Statement, FirstStep, CallTypes, CallOK, Tools, AddKey, cmVars
<1>4. CASE SwitchProcessWide(c)
  BY <1>0, <1>4 DEF SwitchProcessWide, SetActive, AfterSwitch, CallTypes, CallOK, AddKey, SameAdd, Has, maps
<1>5. CASE SwitchProcessWideFails(c) \/ Resolve(c) \/ Check(c) \/ SetSessionActive(c)
  BY <1>0, <1>1, <1>5
  DEF SwitchProcessWideFails, Resolve, Check, SetSessionActive, AfterSwitch, AfterFailedSwitch,
      CallTypes, CallOK, AddKey, cmVars
<1>6. CASE AddRejected(c) \/ AddValid(c) \/ ReserveInSession(c)
  BY <1>0, <1>1, <1>6 DEF AddRejected, AddValid, ReserveInSession, CallTypes, CallOK, AddKey, cmVars, Finished
<1>7. CASE BeginAdd(c)
  BY <1>0, <1>7 DEF BeginAdd, RefuseAdd, ReserveAdd, CallTypes, CallOK, AddKey, TypeOK, SameAdd, Finished
<1>8. CASE ContinueAdd(c)
  <2>1. /\ step[c] = "adding" /\ UNCHANGED callVars /\ UNCHANGED <<key, replace>>
        /\ pc[c] \notin {"idle", "done"} /\ pc'[c] # "idle"
        /\ \A e \in Calls \ {c} : pc'[e] = pc[e] /\ result'[e] = result[e]
    BY <1>0, <1>8, AddStepEffect DEF ContinueAdd, Registers, MovesOn
  <2>2. \A e \in Calls \ {c} : SameAdd(e)
    BY <2>1 DEF SameAdd
  <2>3. result'[c] = "ok" /\ sc[c] = None => Has(arg[c])'
    <3>1. CASE Registers(c)
      <4>1. key[c] \in Keys /\ (sc[c] = None => key[c] = arg[c])
        BY <1>0, <2>1 DEF BaseInv, KeyInv, AddKey
      <4>2. QED
        BY <1>0, <2>1, <3>1, <4>1, KeysAssumption DEF Registers, Has, TypeOK, callVars
    <3>2. CASE MovesOn(c)
      BY <1>0, <2>1, <3>2 DEF MovesOn, Has, Finished, CallOK, callVars
    <3>3. QED
      BY <1>0, <1>8, <3>1, <3>2, AddStepEffect DEF ContinueAdd
  <2>4. QED
    BY <1>0, <2>1, <2>2, <2>3 DEF callVars, AddKey
<1>9. CASE AddReturns(c)
  BY <1>0, <1>1, <1>9 DEF AddReturns, CallTypes, CallOK, AddKey, cmVars
<1>10. CASE CheckClosed(c) \/ ReleaseInSession(c)
  BY <1>0, <1>1, <1>10 DEF CheckClosed, ReleaseInSession, CallTypes, CallOK, AddKey, cmVars
<1>11. CASE RemoveAdded(c)
  <2>1. UNCHANGED <<pc, key, replace, result>> /\ sc[c] # None
    BY <1>0, <1>11, RemoveEffect, RemovedKey DEF RemoveAdded, CallOK
  <2>2. QED
    BY <1>0, <1>11, <2>1 DEF RemoveAdded, SameAdd, CallTypes, AddKey
<1>12. QED
  BY <1>2, <1>3, <1>4, <1>5, <1>6, <1>7, <1>8, <1>9, <1>10, <1>11 DEF CallStep

\* The startup loop works on configured names and leaves the tool calls alone.
LEMMA MainAdds ==
    ASSUME BaseInv, Main
    PROVE  /\ \A e \in ToolCalls : SameAdd(e)
           /\ \A e \in Calls \ ToolCalls : pc'[e] # "idle" => key'[e] \in Names
           /\ \A e \in Calls : ~Finished(e)' => result'[e] = "none"
           /\ \A k \in SessionKeys : connections'[k] = connections[k]
<1> USE DEF args, maps, handles
<1>0. TypeOK /\ AddInv /\ conf \in Configurations /\ ToolCalls \subseteq Calls
  BY McpAssumption DEF BaseInv, McpTypeOK, StartupTypeOK
<1>1. ASSUME NEW i \in DOMAIN conf, AddConfigured(i)
      PROVE  /\ \A e \in ToolCalls : SameAdd(e)
             /\ \A e \in Calls \ ToolCalls : pc'[e] # "idle" => key'[e] \in Names
             /\ \A e \in Calls : ~Finished(e)' => result'[e] = "none"
             /\ \A k \in SessionKeys : connections'[k] = connections[k]
  <2>1. i \in Calls \ ToolCalls /\ conf[i] \in Names /\ conf[i] \in Keys /\ conf[i] \notin SessionKeys
    BY <1>0, EntryFacts, KeysAssumption
  <2>2. \A e \in Calls \ {i} : SameAdd(e)
    BY <1>0, <1>1, <2>1 DEF AddConfigured, BeginReplace, TypeOK, SameAdd
  <2>3. pc[i] = "idle" /\ pc'[i] = "open" /\ key'[i] = conf[i] /\ result' = result
    BY <1>0, <1>1, <2>1 DEF AddConfigured, BeginReplace, TypeOK
  <2>4. \A k \in SessionKeys : connections'[k] = connections[k]
    BY <1>0, <1>1, <2>1 DEF AddConfigured, BeginReplace, TearDownNamedConnection, Forget, TypeOK, Keys
  <2>5. QED
    BY <1>0, <2>1, <2>2, <2>3, <2>4 DEF AddInv, SameAdd, Finished
<1>2. ASSUME NEW i \in DOMAIN conf, AddConfiguredStep(i)
      PROVE  /\ \A e \in ToolCalls : SameAdd(e)
             /\ \A e \in Calls \ ToolCalls : pc'[e] # "idle" => key'[e] \in Names
             /\ \A e \in Calls : ~Finished(e)' => result'[e] = "none"
             /\ \A k \in SessionKeys : connections'[k] = connections[k]
  <2>1. i \in Calls \ ToolCalls
    BY <1>0, EntryFacts
  <2>2. /\ UNCHANGED <<key, replace>> /\ pc[i] \notin {"idle", "done"}
        /\ \A e \in Calls \ {i} : pc'[e] = pc[e] /\ result'[e] = result[e]
        /\ Registers(i) \/ MovesOn(i)
    BY <1>0, <1>2, <2>1, AddStepEffect DEF AddConfiguredStep
  <2>3. key[i] \in Names /\ key[i] \in Keys /\ key[i] \notin SessionKeys
    BY <1>0, <2>1, <2>2, KeysAssumption DEF AddInv, Keys
  <2>4. \A k \in SessionKeys : connections'[k] = connections[k]
    BY <1>0, <2>2, <2>3 DEF Registers, MovesOn, TypeOK, Keys
  <2>5. ~Finished(i)' => result'[i] = "none"
    BY <1>0, <2>1, <2>2 DEF Registers, MovesOn, AddInv, Finished
  <2>6. QED
    BY <1>0, <2>1, <2>2, <2>3, <2>4, <2>5 DEF AddInv, SameAdd, Finished
<1>3. CASE StartServing \/ FailStartup \/ Exit
  BY <1>0, <1>3 DEF StartServing, FailStartup, Exit, Close, cmVars, AddInv, SameAdd, Finished
<1>4. QED
  BY <1>1, <1>2, <1>3 DEF Main, StartupStep

\* Nothing has started.
LEMMA InitBase == Init => BaseInv
<1> SUFFICES ASSUME Init
             PROVE  BaseInv
  OBVIOUS
<1>1. TypeOK /\ KeyInv
  <2>1. replace \in [Calls -> BOOLEAN] /\ shutdown \in BOOLEAN
    BY Zenon DEF Init, StartupInit, NewConnectionManager
  <2>2. KeyInv
    BY DEF Init, StartupInit, NewConnectionManager, KeyInv
  <2>3. QED
    BY <2>1, <2>2 DEF Init, StartupInit, NewConnectionManager, TypeOK, Handle, Stage, Outcome
<1>2. closed \in [Sessions -> BOOLEAN]
  BY Zenon DEF Init
<1>3. McpTypeOK
  BY <1>1, <1>2, McpAssumption DEF Init, StartupInit, McpTypeOK, StartupTypeOK, Tools, Steps
<1>4. CallInv
  BY McpAssumption DEF Init, CallInv, CallOK, AddSteps, AddInFlight
<1>5. AddInv
  BY McpAssumption DEF Init, StartupInit, NewConnectionManager, AddInv, AddOK, AddInFlight, Finished, Has, Keys
<1>6. QED
  BY <1>1, <1>3, <1>4, <1>5 DEF BaseInv

\* Every step of the server keeps the base invariant.
LEMMA BaseStep == BaseInv /\ [McpNext]_vars => BaseInv'
<1> SUFFICES ASSUME BaseInv, [McpNext]_vars
             PROVE  BaseInv'
  OBVIOUS
<1>1. CASE UNCHANGED vars
  BY <1>1 DEF vars, cmVars, bootVars, sessionVars, callVars, BaseInv, McpTypeOK, StartupTypeOK,
     TypeOK, KeyInv, CallInv, CallOK, AddInv, AddOK, AddInFlight, AddKey, Finished, Has, VisibleTo
<1>2. CASE McpNext
  <2>0. /\ StartupTypeOK /\ TypeOK /\ KeyInv /\ CallTypes /\ SessionTypes /\ CallInv /\ AddInv
        /\ ToolCalls \subseteq Calls
    BY McpAssumption DEF BaseInv, McpTypeOK, StartupTypeOK, CallTypes, SessionTypes
  <2>1. TypeOK' /\ KeyInv'
    BY <2>0, ManagerStep, TypeStep
  <2>2. /\ conf' = conf /\ phase' \in {"starting", "serving", "fatal", "exited"}
        /\ phase' = "starting" => phase = "starting"
        /\ phase = "serving" \/ Main
    BY <1>2, <2>0, PhaseStep
  <2>3. ASSUME UNCHANGED callVars
        PROVE  CallTypes' /\ \A e \in ToolCalls : SameCall(e)
    BY <2>0, <2>3 DEF callVars, CallTypes, SameCall
  <2>4. CallTypes'
    BY <1>2, <2>3, CallTypesStep DEF McpNext, Main, SessionEnds, CleanupStep, ForgetSession,
       CloseSession, RemoveDoomed, PackGone
  <2>5. McpTypeOK'
    BY <1>2, <2>0, <2>1, <2>2, <2>4, SessionTypesStep
    DEF McpTypeOK, StartupTypeOK, CallTypes, SessionTypes
  <2>6. CallInv'
    <3>1. ASSUME NEW e \in ToolCalls
          PROVE  CallOK(e)'
      <4>1. CASE Arrive(e) \/ CallStep(e)
        BY <4>1, CallOwn
      <4>2. ASSUME SameCall(e)
            PROVE  CallOK(e)'
        BY <2>0, <2>2, <4>2, CallKept DEF CallInv
      <4>3. ASSUME NEW c \in ToolCalls, Arrive(c) \/ CallStep(c), c # e
            PROVE  SameCall(e)
        BY <4>3, OthersSame DEF BaseInv
      <4>4. QED
        BY <1>2, <2>3, <4>1, <4>2, <4>3 DEF McpNext, Main, SessionEnds, CleanupStep, ForgetSession,
           CloseSession, RemoveDoomed, PackGone
    <3>2. QED
      BY <3>1 DEF CallInv
  <2>7. AddInv'
    <3>1. CASE Main
      <4>1. \A e \in ToolCalls : SameCall(e)
        BY <2>3, <3>1 DEF Main
      <4>2. ASSUME NEW e \in ToolCalls
            PROVE  AddOK(e)'
        <5>1. phase = "starting" => step[e] = "idle"
          BY <2>0 DEF CallInv, CallOK
        <5>2. phase # "starting" => connections' = connections
          BY <3>1 DEF Main, StartupStep, AddConfigured, AddConfiguredStep, StartServing, FailStartup, Exit, Close
        <5>3. AddOK(e) /\ SameCall(e) /\ SameAdd(e)
          BY <2>0, <3>1, <4>1, MainAdds DEF AddInv
        <5>4. QED
          BY <5>1, <5>2, <5>3 DEF AddOK, SameCall, SameAdd, AddKey, AddInFlight, Has
      <4>3. QED
        BY <2>0, <3>1, <4>2, MainAdds DEF AddInv, Has
    <3>2. CASE phase = "serving"
      <4>0. \A k \in Names : Has(k) => Has(k)'
        BY <1>2, <3>2, NamesKept
      <4>1. \A k \in SessionKeys : Transport = "stdio" => ~Has(k)'
        <5>1. ASSUME NEW c \in ToolCalls, RegisteredBy(c), Transport = "stdio"
              PROVE  key[c] \in Names /\ key[c] \notin SessionKeys
          BY <2>0, <5>1, KeysAssumption, McpAssumption
          DEF RegisteredBy, Registers, ContinueAdd, AddInv, AddOK, AddKey, CallInv, CallOK
        <5>2. ASSUME NEW c \in ToolCalls, RegisteredBy(c), Transport = "stdio", NEW k \in SessionKeys
              PROVE  connections'[k] = connections[k]
          BY <2>0, <5>1, <5>2 DEF RegisteredBy, Registers, TypeOK, Keys
        <5>3. ASSUME NEW l \in SessionKeys, RemovedBy(l), NEW k \in SessionKeys
              PROVE  connections'[k] \in {connections[k], None}
          BY <2>0, <5>3 DEF RemovedBy, TypeOK, Keys
        <5>4. QED
          BY <1>2, <2>0, <3>2, <5>2, <5>3, ConnectionsStep DEF AddInv, Has
      <4>2. ASSUME NEW e \in ToolCalls, SameCall(e), SameAdd(e)
            PROVE  AddOK(e)'
        BY <2>0, <4>0, <4>2, AddKept DEF AddInv, CallInv, CallOK
      <4>3. ASSUME \A e \in ToolCalls : SameCall(e), \A e \in Calls : SameAdd(e)
            PROVE  AddInv'
        BY <2>0, <4>1, <4>2, <4>3 DEF AddInv, SameAdd, Finished
      <4>4. ASSUME NEW c \in ToolCalls, Arrive(c) \/ CallStep(c)
            PROVE  AddInv'
        <5>1. AddOK(c)' /\ \A e \in Calls \ {c} : SameAdd(e)
          BY <4>4, AddOwn
        <5>2. \A e \in ToolCalls : AddOK(e)'
          BY <2>0, <4>2, <4>4, <5>1, OthersSame DEF BaseInv
        <5>3. ~Finished(c)' => result'[c] = "none"
          <6>1. CASE BeginAdd(c)
            BY <2>0, <6>1 DEF BeginAdd, RefuseAdd, ReserveAdd, AddInv, Finished, TypeOK
          <6>2. CASE ContinueAdd(c)
            BY <2>0, <6>2, AddStepEffect DEF ContinueAdd, Registers, MovesOn, AddInv, Finished
          <6>3. CASE RemoveAdded(c)
            BY <2>0, <6>3, RemoveEffect, RemovedKey DEF RemoveAdded, AddInv, Finished
          <6>4. CASE SwitchProcessWide(c)
            BY <2>0, <6>4 DEF SwitchProcessWide, SetActive, AddInv, Finished
          <6>5. CASE UNCHANGED cmVars
            BY <2>0, <6>5 DEF cmVars, AddInv, Finished
          <6>6. QED
            BY <4>4, <6>1, <6>2, <6>3, <6>4, <6>5
            DEF Arrive, ArriveStdio, ArriveKnown, ArriveNew, CallStep, Pin, Statement,
                SwitchProcessWideFails, Resolve, Check, SetSessionActive, AddRejected, AddValid,
                ReserveInSession, AddReturns, CheckClosed, ReleaseInSession
        <5>4. QED
          BY <2>0, <4>1, <5>1, <5>2, <5>3 DEF AddInv, SameAdd, Finished
      <4>5. ASSUME NEW s \in Sessions, CleanupStep(s)
            PROVE  AddInv'
        <5>1. UNCHANGED callVars
          BY <4>5 DEF CleanupStep, ForgetSession, CloseSession, RemoveDoomed
        <5>2. UNCHANGED <<pc, key, replace, result>>
          <6>1. CASE RemoveDoomed(s)
            <7>1. doomed[s] \subseteq Keys
              BY <2>0 DEF SessionTypes, Keys
            <7>2. QED
              BY <2>0, <6>1, <7>1, RemoveEffect DEF RemoveDoomed
          <6>2. QED
            BY <4>5, <6>1 DEF CleanupStep, ForgetSession, CloseSession, cmVars
        <5>3. QED
          BY <2>3, <4>3, <5>1, <5>2 DEF SameAdd
      <4>6. ASSUME (\E cl \in Clients : SessionEnds(cl)) \/ (\E k \in Keys : PackGone(k))
            PROVE  AddInv'
        <5>1. UNCHANGED callVars /\ UNCHANGED <<pc, key, replace, result>>
          BY <4>6 DEF SessionEnds, PackGone, DropToolPack, cmVars, args
        <5>2. QED
          BY <2>3, <4>3, <5>1 DEF SameAdd
      <4>7. QED
        BY <1>2, <3>1, <4>4, <4>5, <4>6 DEF McpNext
    <3>3. QED
      BY <2>2, <3>1, <3>2
  <2>8. QED
    BY <2>1, <2>5, <2>6, <2>7 DEF BaseInv
<1>3. QED
  BY <1>1, <1>2

\* The base invariant holds throughout.
LEMMA BaseHeld == McpSpec => []BaseInv
  BY InitBase, BaseStep, PTL DEF McpSpec

\* The server uses the connection manager as its specification allows: every
\* theorem about the manager alone holds of the manager inside the server.
THEOREM ManagerRefinement == McpSpec => Spec
<1>1. Init => NewConnectionManager
  BY DEF Init, StartupInit
<1>2. QED
  BY <1>1, BaseHeld, ManagerStep, PTL DEF McpSpec, Spec

\* Every state of the server is well typed.
THEOREM McpTypeCorrect == McpSpec => []McpTypeOK
<1>1. BaseInv => McpTypeOK
  BY DEF BaseInv
<1>2. QED
  BY <1>1, BaseHeld, PTL

-----------------------------------------------------------------------------
(* Session pools are reclaimed and slots are accounted for.                *)

\* The key of a session's add in flight.
LEMMA FlightKey ==
    ASSUME BaseInv, NEW c \in ToolCalls, SessionAdd(c)
    PROVE  /\ AddKey(c) = <<sc[c], arg[c]>> /\ AddKey(c) \in SessionKeys /\ AddKey(c) \in Keys
           /\ sc[c] \in Sessions /\ arg[c] \in Names
<1>1. arg[c] \in Names /\ sc[c] \in Sessions \cup {None} /\ sc[c] # None
  BY DEF BaseInv, CallInv, CallOK, McpTypeOK, SessionAdd
<1>2. QED
  BY <1>1, AddKeyFacts

\* Different adds in flight have different keys.
LEMMA KeysApart ==
    ASSUME BaseInv, Alone, NEW c \in ToolCalls, NEW e \in ToolCalls, c # e,
           SessionAdd(c), SessionAdd(e)
    PROVE  AddKey(c) # AddKey(e)
  BY FlightKey DEF Alone

\* An add in flight whose session and key a step leaves alone stays in order.
LEMMA FlightKept ==
    ASSUME NEW e \in ToolCalls, FlightOK(e), SameCall(e),
           SessionAdd(e) =>
              /\ result'[e] = result[e] /\ closed'[sc[e]] = closed[sc[e]]
              /\ owned'[sc[e]] = owned[sc[e]] /\ doomed'[sc[e]] = doomed[sc[e]]
              /\ connections'[AddKey(e)] = connections[AddKey(e)]
    PROVE  FlightOK(e)' /\ SessionAdd(e)' = SessionAdd(e)
<1>1. SessionAdd(e)' = SessionAdd(e) /\ AddKey(e)' = AddKey(e)
  BY DEF SameCall, SessionAdd, AddInFlight, AddKey
<1>2. QED
  BY <1>1 DEF FlightOK, SameCall, Has

\* A call in flight is in flight for its session and name.
LEMMA InFlight ==
    ASSUME BaseInv, NEW s \in Sessions, NEW n \in Names
    PROVE  InFlightFor(s, n) <=> \E c \in ToolCalls : SessionAdd(c) /\ AddKey(c) = <<s, n>>
<1>1. ASSUME NEW c \in ToolCalls, AddInFlight(c), sc[c] = s, arg[c] = n
      PROVE  SessionAdd(c) /\ AddKey(c) = <<s, n>>
  BY <1>1, McpAssumption DEF SessionAdd, AddKey
<1>2. ASSUME NEW c \in ToolCalls, SessionAdd(c), AddKey(c) = <<s, n>>
      PROVE  AddInFlight(c) /\ sc[c] = s /\ arg[c] = n
  BY <1>2, FlightKey DEF SessionAdd
<1>3. QED
  BY <1>1, <1>2 DEF InFlightFor

\* The reclamation invariants in terms of keys.
Accounted(s, n) ==
    /\ Has(<<s, n>>) =>
          \/ n \in owned[s] \/ <<s, n>> \in doomed[s]
          \/ \E c \in ToolCalls : SessionAdd(c) /\ AddKey(c) = <<s, n>>
    /\ n \in owned[s] => Has(<<s, n>>) \/ \E c \in ToolCalls : SessionAdd(c) /\ AddKey(c) = <<s, n>>

AllAccounted == \A s \in Sessions, n \in Names : Accounted(s, n)

\* The two accounting properties, pool by pool: the form the steps are proved in.
LEMMA AccountedFor ==
    BaseInv => ((SessionPoolsReclaimed /\ SlotsAccountedFor) <=> AllAccounted)
<1> SUFFICES ASSUME BaseInv
             PROVE  (SessionPoolsReclaimed /\ SlotsAccountedFor) <=> AllAccounted
  OBVIOUS
<1>1. owned \in [Sessions -> SUBSET Names]
  BY DEF BaseInv, McpTypeOK
<1>2. QED
  BY <1>1, InFlight DEF SessionPoolsReclaimed, SlotsAccountedFor, Accounted, AllAccounted

\* The same in the next state.
LEMMA AccountedNext ==
    BaseInv' => ((SessionPoolsReclaimed /\ SlotsAccountedFor)' <=> AllAccounted')
  BY AccountedFor, PTL

\* A step of call c that leaves the sessions and the registry alone.
LEMMA QuietStep ==
    ASSUME BaseInv, BaseInv', ReclaimInv, NEW c \in ToolCalls,
           UNCHANGED <<connections, owned, closed, doomed>>,
           \A s \in Sessions : (cleanup'[s] = "removing") <=> (cleanup[s] = "removing"),
           \A e \in ToolCalls \ {c} : SameCall(e) /\ result'[e] = result[e],
           FlightOK(c)',
           SessionAdd(c)' => SessionAdd(c) /\ sc'[c] = sc[c] /\ arg'[c] = arg[c],
           SessionAdd(c) /\ ~SessionAdd(c)' =>
              /\ Has(AddKey(c)) => arg[c] \in owned[sc[c]] \/ AddKey(c) \in doomed[sc[c]]
              /\ arg[c] \in owned[sc[c]] => Has(AddKey(c))
    PROVE  ReclaimInv'
<1>1. SessionInv'
  BY DEF ReclaimInv, SessionInv
<1>2. ASSUME NEW e \in ToolCalls \ {c}
      PROVE  FlightOK(e)' /\ SessionAdd(e)' = SessionAdd(e) /\ AddKey(e)' = AddKey(e)
  BY FlightKept DEF ReclaimInv, FlightInv, SameCall, AddKey
<1>3. FlightInv'
  BY <1>2 DEF ReclaimInv, FlightInv, Alone, SameCall
<1>4. SessionAdd(c)' => AddKey(c)' = AddKey(c)
  BY DEF AddKey
<1>5. ASSUME NEW s \in Sessions, NEW n \in Names
      PROVE  Accounted(s, n)'
  <2>1. Accounted(s, n)
    BY AccountedFor DEF ReclaimInv, AllAccounted
  <2>2. CASE \E e \in ToolCalls : SessionAdd(e)' /\ AddKey(e)' = <<s, n>>
    BY <2>2 DEF Accounted, Has
  <2>3. CASE \A e \in ToolCalls : SessionAdd(e) => AddKey(e) # <<s, n>>
    BY <2>1, <2>3 DEF Accounted, Has
  <2>4. CASE SessionAdd(c) /\ ~SessionAdd(c)' /\ AddKey(c) = <<s, n>>
    <3>1. sc[c] = s /\ arg[c] = n
      BY <2>4, FlightKey
    <3>2. QED
      BY <2>4, <3>1 DEF Accounted, Has
  <2>5. QED
    BY <1>2, <1>4, <2>2, <2>3, <2>4
<1>6. QED
  BY <1>1, <1>3, <1>5, AccountedNext DEF ReclaimInv, AllAccounted

\* Steps of calls that leave the registry and the sessions' bookkeeping alone.
LEMMA QuietCallStep ==
    ASSUME BaseInv, BaseInv', ReclaimInv, NEW c \in ToolCalls,
           \/ Arrive(c) \/ Pin(c) \/ Statement(c) \/ SwitchProcessWide(c) \/ SwitchProcessWideFails(c)
           \/ Resolve(c) \/ Check(c) \/ SetSessionActive(c) \/ AddRejected(c) \/ AddValid(c)
           \/ BeginAdd(c) \/ AddReturns(c) \/ CheckClosed(c)
    PROVE  ReclaimInv'
<1> USE DEF Goto
<1>0. /\ CallTypes /\ SessionTypes /\ CallOK(c) /\ AddOK(c) /\ c \in Calls /\ TypeOK
      /\ FlightOK(c) /\ (~Finished(c) => result[c] = "none")
  BY McpAssumption DEF BaseInv, McpTypeOK, StartupTypeOK, CallTypes, SessionTypes, CallInv, AddInv,
     ReclaimInv, FlightInv
<1>1. UNCHANGED <<connections, owned, closed, doomed>>
  BY DEF Arrive, ArriveStdio, ArriveKnown, ArriveNew, Pin, Statement, SwitchProcessWide,
     SwitchProcessWideFails, Resolve, Check, SetSessionActive, AddRejected, AddValid, BeginAdd,
     AddReturns, CheckClosed, RefuseAdd, ReserveAdd, SetActive, maps, cmVars, sessionVars
<1>2. \A s \in Sessions : (cleanup'[s] = "removing") <=> (cleanup[s] = "removing")
  BY <1>0 DEF SessionTypes, Arrive, ArriveStdio, ArriveKnown, ArriveNew, Pin, Statement,
     SwitchProcessWide, SwitchProcessWideFails, Resolve, Check, SetSessionActive, AddRejected,
     AddValid, BeginAdd, AddReturns, CheckClosed, sessionVars
<1>3. \A e \in ToolCalls \ {c} : SameCall(e) /\ result'[e] = result[e]
  BY OthersSame, AddOwn, McpAssumption DEF BaseInv, SameAdd, CallStep
<1>4. Has(AddKey(c))' = (connections[AddKey(c)'] # None)
  BY <1>1 DEF Has
<1> DEFINE Out == /\ FlightOK(c)'
                  /\ SessionAdd(c)' => SessionAdd(c) /\ sc'[c] = sc[c] /\ arg'[c] = arg[c]
                  /\ SessionAdd(c) /\ ~SessionAdd(c)' =>
                       /\ Has(AddKey(c)) => arg[c] \in owned[sc[c]] \/ AddKey(c) \in doomed[sc[c]]
                       /\ arg[c] \in owned[sc[c]] => Has(AddKey(c))
<1> USE DEF SessionAdd, AddInFlight, FlightOK, AddKey, Has
<1>5. CASE Arrive(c)
  <2>1. step[c] = "idle" /\ step'[c] = "pin"
    BY <1>0, <1>5 DEF Arrive, ArriveStdio, ArriveKnown, ArriveNew, Request, CallTypes
  <2>2. QED
    BY <1>1, <1>2, <1>3, <2>1, QuietStep
<1>6. CASE Pin(c) \/ Statement(c)
  <2>1. Out
    BY <1>0, <1>1, <1>6 DEF Pin, Statement, FirstStep, CallTypes, CallOK, Tools, AddOK, Finished
  <2>2. QED
    BY <1>1, <1>2, <1>3, <2>1, QuietStep
<1>7. CASE SwitchProcessWide(c) \/ SwitchProcessWideFails(c)
  <2>1. Out
    BY <1>0, <1>7 DEF SwitchProcessWide, SwitchProcessWideFails, CallTypes
  <2>2. QED
    BY <1>1, <1>2, <1>3, <2>1, QuietStep
<1>8. CASE Resolve(c)
  <2>1. UNCHANGED <<sc, arg, tool, cmVars>> /\ step[c] = "resolve" /\ step'[c] = "check"
    BY <1>0, <1>8 DEF Resolve, CallTypes
  <2>2. SessionAdd(c) => target'[c] = AddKey(c) \/ closed[sc[c]]
    BY <1>0, <1>8 DEF Resolve, CallTypes
  <2>3. Out
    BY <1>0, <1>1, <2>1, <2>2 DEF cmVars
  <2>4. QED
    BY <1>1, <1>2, <1>3, <2>3, QuietStep
<1>9. CASE Check(c)
  <2>1. UNCHANGED <<sc, arg, tool, target, cmVars>> /\ step[c] = "check"
        /\ step'[c] = IF Addressable(c) THEN "set" ELSE AfterFailedSwitch(c)
    BY <1>0, <1>9 DEF Check, CallTypes
  <2>2. SessionAdd(c) /\ ~Addressable(c) => closed[sc[c]]
    <3>1. ASSUME SessionAdd(c), ~closed[sc[c]]
          PROVE  Addressable(c)
      <4>1. target[c] = AddKey(c) /\ result[c] = "ok" /\ Has(AddKey(c))
        BY <1>0, <2>1, <3>1 DEF AddOK
      <4>2. AddKey(c) \in SessionKeys /\ arg[c] \in Names
        BY <3>1, FlightKey
      <4>3. QED
        BY <4>1, <4>2, KeysAssumption DEF Addressable
    <3>2. QED
      BY <3>1
  <2>3. Out
    BY <1>0, <1>1, <2>1, <2>2 DEF cmVars, AfterFailedSwitch
  <2>4. QED
    BY <1>1, <1>2, <1>3, <2>3, QuietStep
<1>10. CASE SetSessionActive(c)
  <2>1. UNCHANGED <<sc, arg, tool, target, cmVars>> /\ step[c] = "set" /\ step'[c] \in {"stmt", "end"}
    BY <1>0, <1>10 DEF SetSessionActive, AfterSwitch, CallTypes
  <2>2. SessionAdd(c) => result[c] = "ok"
    BY <1>0, <2>1 DEF AddOK
  <2>3. SessionAdd(c) => (closed[sc[c]] => owned[sc[c]] = {})
    BY FlightKey DEF ReclaimInv, SessionInv
  <2>4. Out
    BY <1>0, <1>1, <2>1, <2>2, <2>3
  <2>5. QED
    BY <1>1, <1>2, <1>3, <2>4, QuietStep
<1>11. CASE AddRejected(c) \/ AddValid(c)
  <2>1. Out
    BY <1>0, <1>1, <1>11 DEF AddRejected, AddValid, CallTypes
  <2>2. QED
    BY <1>1, <1>2, <1>3, <2>1, QuietStep
<1>12. CASE BeginAdd(c)
  <2>1. UNCHANGED <<sc, arg, tool, target>> /\ step[c] = "begin" /\ step'[c] = "adding"
        /\ result[c] # "ok" /\ result'[c] # "ok"
    BY <1>0, <1>12 DEF BeginAdd, RefuseAdd, ReserveAdd, AddOK, Finished, CallTypes, TypeOK
  <2>2. Out
    BY <1>0, <1>1, <2>1
  <2>3. QED
    BY <1>1, <1>2, <1>3, <2>2, QuietStep
<1>13. CASE AddReturns(c)
  <2>1. /\ UNCHANGED <<sc, arg, tool, target, cmVars>> /\ step[c] = "adding"
        /\ sc[c] # None => step'[c] = IF result[c] = "ok" THEN "isClosed" ELSE "release"
        /\ sc[c] = None => step'[c] \in {"end", "resolve"}
    BY <1>0, <1>13 DEF AddReturns, CallTypes
  <2>2. Out
    BY <1>0, <1>1, <2>1 DEF cmVars
  <2>3. QED
    BY <1>1, <1>2, <1>3, <2>2, QuietStep
<1>14. CASE CheckClosed(c)
  <2>1. UNCHANGED <<sc, arg, tool, target, cmVars>> /\ step[c] = "isClosed"
        /\ step'[c] = IF closed[sc[c]] THEN "remove" ELSE "resolve"
    BY <1>0, <1>14 DEF CheckClosed, CallTypes
  <2>2. Out
    BY <1>0, <1>1, <2>1 DEF cmVars
  <2>3. QED
    BY <1>1, <1>2, <1>3, <2>2, QuietStep
<1>15. QED
  BY <1>5, <1>6, <1>7, <1>8, <1>9, <1>10, <1>11, <1>12, <1>13, <1>14

\* sessionConn.reserve: the session owns a name that was free.
LEMMA ReserveStep ==
    ASSUME BaseInv, BaseInv', ReclaimInv, NEW c \in ToolCalls, ReserveInSession(c)
    PROVE  ReclaimInv'
<1>0. /\ CallTypes /\ SessionTypes /\ c \in Calls /\ sc[c] \in Sessions /\ arg[c] \in Names
      /\ result[c] # "ok" /\ tool[c] = "add" /\ ~SessionAdd(c)
  BY McpAssumption DEF BaseInv, McpTypeOK, StartupTypeOK, CallTypes, SessionTypes, CallInv, CallOK, AddSteps,
     AddInv, AddOK, Finished, ReserveInSession, SessionAdd, AddInFlight
<1>1. /\ \A e \in ToolCalls \ {c} : SameCall(e)
      /\ UNCHANGED <<cmVars, closed, doomed, cleanup, sc, arg, tool>>
  BY OthersSame DEF ReserveInSession, CallStep, BaseInv
<1>2. CASE /\ ~CanReserve(sc[c], arg[c]) /\ step'[c] = "end" /\ UNCHANGED owned
  <2>1. ~SessionAdd(c)'
    BY <1>2 DEF SessionAdd, AddInFlight
  <2>2. QED
    BY <1>0, <1>1, <1>2, <2>1, QuietStep DEF cmVars, FlightOK
<1>3. CASE /\ CanReserve(sc[c], arg[c]) /\ step'[c] = "begin"
           /\ owned' = [owned EXCEPT ![sc[c]] = @ \cup {arg[c]}]
  <2>1. ~closed[sc[c]] /\ arg[c] \notin owned[sc[c]] /\ doomed[sc[c]] = {}
    BY <1>0, <1>3 DEF CanReserve, ReclaimInv, SessionInv
  <2>2. ASSUME NEW e \in ToolCalls, SessionAdd(e)
        PROVE  AddKey(e) # <<sc[c], arg[c]>>
    BY <2>1, <2>2, FlightKey DEF ReclaimInv, FlightInv, FlightOK
  <2>3. ~Has(<<sc[c], arg[c]>>)
    BY <1>0, <2>1, <2>2, AccountedFor DEF ReclaimInv, AllAccounted, Accounted
  <2>4. SessionAdd(c)' /\ AddKey(c)' = <<sc[c], arg[c]>>
    BY <1>0, <1>1, <1>3, McpAssumption DEF SessionAdd, AddInFlight, AddKey
  <2>5. ASSUME NEW e \in ToolCalls \ {c}
        PROVE  /\ SessionAdd(e)' = SessionAdd(e) /\ AddKey(e)' = AddKey(e)
               /\ FlightOK(e)'
    <3>1. SessionAdd(e)' = SessionAdd(e) /\ AddKey(e)' = AddKey(e) /\ SameCall(e)
      BY <1>1 DEF SameCall, SessionAdd, AddInFlight, AddKey
    <3>2. SessionAdd(e) => sc[e] \in Sessions
      BY FlightKey
    <3>3. SessionAdd(e) => owned[sc[e]] \subseteq owned'[sc[e]]
      BY <1>0, <1>3, <3>2 DEF SessionTypes
    <3>4. QED
      BY <1>1, <3>1, <3>3 DEF FlightOK, SameCall, ReclaimInv, FlightInv, cmVars, Has
  <2>6. FlightOK(c)'
    BY <1>0, <1>1, <1>3, <2>1, <2>3, <2>4 DEF FlightOK, SessionTypes, cmVars, Has
  <2>7. Alone'
    <3>1. ASSUME NEW e \in ToolCalls \ {c}, SessionAdd(e)', sc'[e] = sc'[c], arg'[e] = arg'[c]
          PROVE  FALSE
      BY <1>1, <2>2, <2>5, <3>1, FlightKey
    <3>2. QED
      BY <1>1, <2>5, <3>1 DEF Alone, ReclaimInv, FlightInv
  <2>8. SessionInv'
    BY <1>0, <1>1, <1>3, <2>1 DEF ReclaimInv, SessionInv, SessionTypes
  <2>9. ASSUME NEW s \in Sessions, NEW n \in Names
        PROVE  Accounted(s, n)'
    <3>1. Accounted(s, n)
      BY AccountedFor DEF ReclaimInv, AllAccounted
    <3>2. CASE s = sc[c] /\ n = arg[c]
      BY <2>4, <3>2 DEF Accounted
    <3>3. CASE ~(s = sc[c] /\ n = arg[c])
      <4>1. (n \in owned'[s]) <=> (n \in owned[s])
        BY <1>0, <1>3, <3>3 DEF SessionTypes
      <4>2. (\E e \in ToolCalls : SessionAdd(e) /\ AddKey(e) = <<s, n>>)
               => \E e \in ToolCalls : SessionAdd(e)' /\ AddKey(e)' = <<s, n>>
        BY <1>0, <2>5
      <4>3. QED
        BY <1>1, <3>1, <4>1, <4>2 DEF Accounted, cmVars, Has
    <3>4. QED
      BY <3>2, <3>3
  <2>10. QED
    BY <2>5, <2>6, <2>7, <2>8, <2>9, AccountedNext DEF ReclaimInv, FlightInv, AllAccounted
<1>4. QED
  BY <1>0, <1>2, <1>3 DEF ReserveInSession, Goto, CallTypes

\* A step that touches one session key only: the adds of other keys and the
\* other names stay as they are.
LEMMA OneKeyStep ==
    ASSUME BaseInv, BaseInv', ReclaimInv, SessionInv', NEW k, NEW c,
           \A l \in SessionKeys \ {k} : connections'[l] = connections[l],
           \A s \in Sessions : closed'[s] = closed[s],
           \A s \in Sessions, n \in Names : <<s, n>> # k =>
              ((n \in owned'[s]) <=> (n \in owned[s])) /\ ((<<s, n>> \in doomed'[s]) <=> (<<s, n>> \in doomed[s])),
           \A e \in ToolCalls \ {c} : SameCall(e) /\ result'[e] = result[e],
           c \in ToolCalls /\ SessionAdd(c)' => SessionAdd(c) /\ sc'[c] = sc[c] /\ arg'[c] = arg[c],
           c \in ToolCalls /\ SessionAdd(c) /\ ~SessionAdd(c)' => AddKey(c) = k,
           \A e \in ToolCalls : (SessionAdd(e) /\ AddKey(e) = k) \/ e = c => FlightOK(e)',
           \A s \in Sessions, n \in Names : <<s, n>> = k => Accounted(s, n)'
    PROVE  ReclaimInv'
<1>1. ASSUME NEW e \in ToolCalls \ {c}
      PROVE  SessionAdd(e)' = SessionAdd(e) /\ AddKey(e)' = AddKey(e)
  BY DEF SameCall, SessionAdd, AddInFlight, AddKey
<1>2. c \in ToolCalls /\ SessionAdd(c)' => AddKey(c)' = AddKey(c)
  BY DEF AddKey
<1>3. ASSUME NEW e \in ToolCalls \ {c}
      PROVE  FlightOK(e)'
  <2>1. CASE SessionAdd(e) /\ AddKey(e) # k
    <3>1. /\ AddKey(e) = <<sc[e], arg[e]>> /\ AddKey(e) \in SessionKeys
          /\ sc[e] \in Sessions /\ arg[e] \in Names
      BY <2>1, FlightKey
    <3>2. /\ connections'[AddKey(e)] = connections[AddKey(e)] /\ closed'[sc[e]] = closed[sc[e]]
          /\ (arg[e] \in owned'[sc[e]]) <=> (arg[e] \in owned[sc[e]])
          /\ (AddKey(e) \in doomed'[sc[e]]) <=> (AddKey(e) \in doomed[sc[e]])
      BY <2>1, <3>1
    <3>3. FlightOK(e) /\ SameCall(e) /\ result'[e] = result[e]
      BY DEF ReclaimInv, FlightInv
    <3>4. QED
      BY <1>1, <3>2, <3>3 DEF FlightOK, SameCall, Has
  <2>2. QED
    BY <1>1, <2>1 DEF FlightOK
<1>4. FlightInv'
  BY <1>1, <1>3 DEF ReclaimInv, FlightInv, Alone, SameCall
<1>5. ASSUME NEW s \in Sessions, NEW n \in Names, <<s, n>> # k
      PROVE  Accounted(s, n)'
  <2>1. Accounted(s, n) /\ <<s, n>> \in SessionKeys
    BY AccountedFor DEF ReclaimInv, AllAccounted, SessionKeys
  <2>2. connections'[<<s, n>>] = connections[<<s, n>>]
    BY <1>5, <2>1
  <2>3. (\E e \in ToolCalls : SessionAdd(e) /\ AddKey(e) = <<s, n>>)
           => \E e \in ToolCalls : SessionAdd(e)' /\ AddKey(e)' = <<s, n>>
    BY <1>1, <1>2, <1>5
  <2>4. QED
    BY <1>5, <2>1, <2>2, <2>3 DEF Accounted, Has
<1>6. QED
  BY <1>4, <1>5, AccountedNext DEF ReclaimInv, AllAccounted

\* The steps of an add: registering makes the key present, nothing else changes
\* the registry.
LEMMA ContinueStep ==
    ASSUME BaseInv, BaseInv', ReclaimInv, NEW c \in ToolCalls, ContinueAdd(c)
    PROVE  ReclaimInv'
<1>0. /\ TypeOK /\ c \in Calls /\ CallOK(c) /\ AddOK(c) /\ FlightOK(c) /\ KeyInv
      /\ ~Finished(c) => result[c] = "none"
      /\ UNCHANGED <<sessionVars, callVars>> /\ step[c] = "adding"
  BY McpAssumption DEF BaseInv, McpTypeOK, StartupTypeOK, CallInv, AddInv, ReclaimInv, FlightInv, ContinueAdd
<1>1. /\ pc[c] \notin {"idle", "done"} /\ (Registers(c) \/ MovesOn(c))
      /\ \A e \in Calls \ {c} : result'[e] = result[e]
  BY <1>0, AddStepEffect DEF ContinueAdd
<1>2. /\ SessionAdd(c)' = SessionAdd(c) /\ AddKey(c)' = AddKey(c) /\ key[c] = AddKey(c)
      /\ \A e \in ToolCalls : SameCall(e)
  BY <1>0, <1>1 DEF callVars, SessionAdd, AddInFlight, AddKey, SameCall, AddOK
<1>3. /\ \A e \in ToolCalls \ {c} : SameCall(e) /\ result'[e] = result[e]
      /\ UNCHANGED <<owned, closed, doomed, cleanup>> /\ sc'[c] = sc[c] /\ arg'[c] = arg[c]
  BY <1>0, <1>1, <1>2, McpAssumption DEF sessionVars, callVars
<1>4. CASE MovesOn(c)
  <2>1. connections' = connections /\ (result'[c] = result[c] \/ (result[c] = "none" /\ result'[c] # "ok"))
    BY <1>0, <1>1, <1>4 DEF MovesOn, Finished
  <2>2. FlightOK(c)'
    BY <1>0, <1>2, <1>3, <2>1 DEF FlightOK, Has, callVars
  <2>3. QED
    BY <1>2, <1>3, <2>1, <2>2, QuietStep
<1>5. CASE Registers(c)
  <2>1. /\ key[c] \in Keys /\ result'[c] = "ok" /\ connections'[key[c]] = c
        /\ \A l \in Keys \ {key[c]} : connections'[l] = connections[l]
    BY <1>0, <1>5 DEF Registers, KeyInv, TypeOK
  <2>2. Has(AddKey(c))'
    BY <1>0, <1>2, <2>1, KeysAssumption DEF Has
  <2>3. FlightOK(c)'
    BY <1>0, <1>2, <1>3, <2>1, <2>2 DEF FlightOK, callVars
  <2>4. ASSUME NEW e \in ToolCalls, SessionAdd(e), AddKey(e) = key[c]
        PROVE  e = c
    <3>1. AddKey(c) \in SessionKeys
      BY <1>2, <2>4, FlightKey
    <3>2. SessionAdd(c)
      BY <1>0, <3>1, KeysAssumption DEF SessionAdd, AddInFlight, AddKey, CallOK, AddOK, AddSteps
    <3>3. QED
      BY <1>2, <2>4, <3>2, KeysApart DEF ReclaimInv, FlightInv
  <2>5. ASSUME NEW s \in Sessions, NEW n \in Names, <<s, n>> = key[c]
        PROVE  Accounted(s, n)'
    <3>1. key[c] \in SessionKeys
      BY <2>5 DEF SessionKeys
    <3>2. SessionAdd(c)
      BY <1>0, <1>2, <3>1, KeysAssumption DEF SessionAdd, AddInFlight, AddKey, CallOK, AddOK, AddSteps
    <3>3. QED
      BY <1>2, <2>2, <2>5, <3>2 DEF Accounted
  <2>6. SessionInv'
    BY <1>3 DEF ReclaimInv, SessionInv
  <2>7. \A l \in SessionKeys \ {key[c]} : connections'[l] = connections[l]
    BY <2>1 DEF Keys
  <2>8. QED
    BY <1>2, <1>3, <2>3, <2>4, <2>5, <2>6, <2>7, OneKeyStep
<1>6. QED
  BY <1>1, <1>4, <1>5

\* sessionConn.release.
LEMMA ReleaseStep ==
    ASSUME BaseInv, BaseInv', ReclaimInv, NEW c \in ToolCalls, ReleaseInSession(c)
    PROVE  ReclaimInv'
<1>0. /\ CallTypes /\ SessionTypes /\ c \in Calls /\ FlightOK(c) /\ step[c] = "release"
      /\ UNCHANGED <<cmVars, closed, doomed, cleanup, sc, arg, tool, target>>
  BY McpAssumption DEF BaseInv, McpTypeOK, CallTypes, SessionTypes, ReclaimInv, FlightInv, ReleaseInSession
<1>1. /\ AddKey(c) = <<sc[c], arg[c]>> /\ sc[c] \in Sessions /\ arg[c] \in Names
      /\ SessionAdd(c) /\ AddKey(c)' = AddKey(c)
  BY <1>0, RemovedKey, McpAssumption DEF SessionAdd, AddKey
<1>2. owned' = [owned EXCEPT ![sc[c]] = @ \ {arg[c]}]
  BY <1>1, McpAssumption DEF ReleaseInSession, SlotReleased
<1>3. step'[c] = IF result[c] = "ok" THEN "remove" ELSE "end"
  BY <1>0 DEF ReleaseInSession, Goto, CallTypes
<1>4. \A e \in ToolCalls \ {c} : SameCall(e) /\ result'[e] = result[e]
  BY <1>0, OthersSame DEF BaseInv, CallStep, cmVars
<1>5. FlightOK(c)'
  BY <1>0, <1>1, <1>3 DEF FlightOK, cmVars, Has, SessionAdd, AddInFlight
<1>6. \A s \in Sessions, n \in Names : <<s, n>> # AddKey(c) => ((n \in owned'[s]) <=> (n \in owned[s]))
  BY <1>0, <1>1, <1>2 DEF SessionTypes
<1>7. SessionInv'
  BY <1>0, <1>2 DEF ReclaimInv, SessionInv, SessionTypes
<1>8. ASSUME NEW s \in Sessions, NEW n \in Names, <<s, n>> = AddKey(c)
      PROVE  Accounted(s, n)'
  <2>1. n \notin owned'[s]
    BY <1>0, <1>1, <1>2, <1>8 DEF SessionTypes
  <2>2. CASE result[c] = "ok"
    <3>1. SessionAdd(c)'
      BY <1>0, <1>1, <1>3, <2>2 DEF SessionAdd, AddInFlight
    <3>2. QED
      BY <1>1, <1>8, <2>1, <3>1 DEF Accounted
  <2>3. CASE result[c] # "ok"
    BY <1>0, <1>1, <1>8, <2>1, <2>3 DEF Accounted, FlightOK, Has, cmVars
  <2>4. QED
    BY <2>2, <2>3
<1>9. ASSUME NEW e \in ToolCalls, SessionAdd(e), AddKey(e) = AddKey(c)
      PROVE  e = c
  BY <1>1, <1>9, KeysApart DEF ReclaimInv, FlightInv
<1>10. QED
  BY <1>0, <1>1, <1>4, <1>5, <1>6, <1>7, <1>8, <1>9, OneKeyStep DEF cmVars

\* RemoveConnection of a key the session no longer owns.
LEMMA RemoveAddedStep ==
    ASSUME BaseInv, BaseInv', ReclaimInv, NEW c \in ToolCalls, RemoveAdded(c)
    PROVE  ReclaimInv'
<1>0. /\ TypeOK /\ CallTypes /\ SessionTypes /\ c \in Calls /\ FlightOK(c) /\ step[c] = "remove"
      /\ UNCHANGED <<sessionVars, sc, arg, tool>> /\ step'[c] = "end"
  BY McpAssumption DEF BaseInv, McpTypeOK, StartupTypeOK, CallTypes, SessionTypes, ReclaimInv, FlightInv,
     RemoveAdded, Goto
<1>1. /\ AddKey(c) = <<sc[c], arg[c]>> /\ sc[c] \in Sessions /\ arg[c] \in Names /\ AddKey(c) \in Keys
      /\ SessionAdd(c) /\ AddKey(c)' = AddKey(c) /\ ~SessionAdd(c)'
  BY <1>0, RemovedKey, McpAssumption DEF SessionAdd, AddKey, AddInFlight
<1>2. connections' = [connections EXCEPT ![AddKey(c)] = None] /\ result' = result
  BY <1>0, <1>1, RemoveEffect DEF RemoveAdded
<1>3. closed[sc[c]] /\ owned[sc[c]] = {}
  BY <1>0, <1>1 DEF FlightOK, ReclaimInv, SessionInv
<1>4. \A e \in ToolCalls \ {c} : SameCall(e) /\ result'[e] = result[e]
  BY <1>2, OthersSame DEF BaseInv, CallStep
<1>5. \A l \in SessionKeys \ {AddKey(c)} : connections'[l] = connections[l]
  BY <1>0, <1>1, <1>2 DEF TypeOK, Keys
<1>6. FlightOK(c)' /\ SessionInv'
  BY <1>0, <1>1 DEF FlightOK, ReclaimInv, SessionInv, sessionVars
<1>7. ASSUME NEW s \in Sessions, NEW n \in Names, <<s, n>> = AddKey(c)
      PROVE  Accounted(s, n)'
  <2>1. s = sc[c] /\ n = arg[c] /\ connections'[<<s, n>>] = None
    BY <1>0, <1>1, <1>2, <1>7 DEF TypeOK
  <2>2. QED
    BY <1>0, <1>3, <2>1 DEF Accounted, Has, sessionVars
<1>8. ASSUME NEW e \in ToolCalls, SessionAdd(e), AddKey(e) = AddKey(c)
      PROVE  e = c
  BY <1>1, <1>8, KeysApart DEF ReclaimInv, FlightInv
<1>9. UNCHANGED <<owned, closed, doomed>>
  BY <1>0 DEF sessionVars
<1>10. QED
  BY <1>1, <1>4, <1>5, <1>6, <1>7, <1>8, <1>9, OneKeyStep

\* The cleanup removes one of its keys.
LEMMA RemoveDoomedStep ==
    ASSUME BaseInv, BaseInv', ReclaimInv, NEW s \in Sessions, RemoveDoomed(s)
    PROVE  ReclaimInv'
<1>0. /\ TypeOK /\ SessionTypes /\ cleanup[s] = "removing" /\ closed[s] /\ owned[s] = {}
      /\ UNCHANGED <<closed, owned, cleanup, callVars>>
  BY DEF BaseInv, McpTypeOK, StartupTypeOK, SessionTypes, RemoveDoomed, ReclaimInv, SessionInv
<1>1. PICK k \in doomed[s] : RemoveIfPresent(k) /\ doomed' = [doomed EXCEPT ![s] = @ \ {k}]
  BY DEF RemoveDoomed
<1>2. PICK n \in Names : k = <<s, n>>
  BY <1>1 DEF ReclaimInv, SessionInv
<1>3. k \in SessionKeys /\ k \in Keys
  BY <1>0, <1>1 DEF SessionTypes, Keys
<1>4. connections' = [connections EXCEPT ![k] = None] /\ result' = result
  BY <1>0, <1>1, <1>3, RemoveEffect
<1>5. \A l \in SessionKeys \ {k} : connections'[l] = connections[l]
  BY <1>0, <1>3, <1>4 DEF TypeOK, Keys
<1>6. \A e \in ToolCalls : SameCall(e) /\ result'[e] = result[e]
  BY <1>0, <1>4 DEF callVars, SameCall
<1>7. SessionInv'
  BY <1>0, <1>1 DEF ReclaimInv, SessionInv, SessionTypes
<1>8. connections'[k] = None
  BY <1>0, <1>3, <1>4 DEF TypeOK
<1>9. ASSUME NEW e \in ToolCalls, SessionAdd(e), AddKey(e) = k
      PROVE  FlightOK(e)'
  <2>1. sc[e] = s /\ AddKey(e)' = k /\ sc'[e] = s
    BY <1>0, <1>2, <1>9, FlightKey DEF AddKey, callVars
  <2>2. step'[e] = step[e] /\ result'[e] = result[e]
    BY <1>6 DEF SameCall
  <2>3. QED
    BY <1>0, <1>8, <2>1, <2>2 DEF FlightOK, Has
<1>10. ASSUME NEW r \in Sessions, NEW m \in Names, <<r, m>> = k
       PROVE  Accounted(r, m)'
  BY <1>0, <1>2, <1>8, <1>10 DEF Accounted, Has
<1>11. \A r \in Sessions, m \in Names : <<r, m>> # k =>
          ((<<r, m>> \in doomed'[r]) <=> (<<r, m>> \in doomed[r]))
  BY <1>0, <1>1 DEF SessionTypes
<1>12. None \notin ToolCalls
  BY McpAssumption, KeysAssumption
<1>13. QED
  BY <1>0, <1>5, <1>6, <1>7, <1>9, <1>10, <1>11, <1>12, OneKeyStep

\* sessionConn.close: the names the session owned are the cleanup's.
LEMMA CloseStep ==
    ASSUME BaseInv, BaseInv', ReclaimInv, NEW s \in Sessions, CloseSession(s)
    PROVE  ReclaimInv'
<1>0. /\ SessionTypes /\ ~closed[s] /\ doomed[s] = {} /\ UNCHANGED <<cmVars, callVars>>
      /\ closed'[s] /\ doomed'[s] = OwnedKeys(s) /\ owned'[s] = {} /\ cleanup'[s] = "removing"
      /\ \A r \in Sessions \ {s} : /\ closed'[r] = closed[r] /\ doomed'[r] = doomed[r]
                                   /\ owned'[r] = owned[r] /\ cleanup'[r] = cleanup[r]
  BY DEF BaseInv, McpTypeOK, SessionTypes, CloseSession, ReclaimInv, SessionInv
<1>1. SessionInv'
  BY <1>0 DEF ReclaimInv, SessionInv, OwnedKeys, SessionTypes
<1>2. ASSUME NEW e \in ToolCalls
      PROVE  SameCall(e) /\ SessionAdd(e)' = SessionAdd(e) /\ AddKey(e)' = AddKey(e)
  BY <1>0 DEF callVars, SameCall, SessionAdd, AddInFlight, AddKey
<1>3. ASSUME NEW e \in ToolCalls
      PROVE  FlightOK(e)'
  <2>1. CASE SessionAdd(e) /\ sc[e] = s
    <3>1. AddKey(e) = <<s, arg[e]>> /\ arg[e] \in owned[s]
      BY <1>0, <2>1, FlightKey DEF ReclaimInv, FlightInv, FlightOK
    <3>2. AddKey(e) \in doomed'[s]
      BY <1>0, <3>1 DEF OwnedKeys
    <3>3. QED
      BY <1>0, <1>2, <2>1, <3>2 DEF FlightOK, SameCall, ReclaimInv, FlightInv, cmVars, Has
  <2>2. CASE SessionAdd(e) /\ sc[e] # s
    <3>1. sc[e] \in Sessions \ {s}
      BY <2>2, FlightKey
    <3>2. QED
      BY <1>0, <1>2, <3>1, FlightKept DEF ReclaimInv, FlightInv, cmVars
  <2>3. QED
    BY <1>2, <2>1, <2>2 DEF FlightOK
<1>4. FlightInv'
  BY <1>2, <1>3 DEF FlightInv, Alone, ReclaimInv, SameCall
<1>5. ASSUME NEW r \in Sessions, NEW n \in Names
      PROVE  Accounted(r, n)'
  <2>1. Accounted(r, n)
    BY AccountedFor DEF ReclaimInv, AllAccounted
  <2>2. CASE r = s
    BY <1>0, <1>2, <2>1, <2>2 DEF Accounted, OwnedKeys, cmVars, Has
  <2>3. CASE r # s
    BY <1>0, <1>2, <2>1, <2>3 DEF Accounted, cmVars, Has
  <2>4. QED
    BY <2>2, <2>3
<1>6. QED
  BY <1>1, <1>4, <1>5, AccountedNext DEF ReclaimInv, AllAccounted

\* Steps that concern no call and no session key.
LEMMA ElsewhereStep ==
    ASSUME BaseInv, BaseInv', ReclaimInv, UNCHANGED <<callVars, owned, closed, doomed>>,
           \A s \in Sessions : (cleanup'[s] = "removing") <=> (cleanup[s] = "removing"),
           \A e \in ToolCalls : result'[e] = result[e],
           \A k \in SessionKeys : connections'[k] = connections[k]
    PROVE  ReclaimInv'
<1>1. \A e \in ToolCalls : SameCall(e)
  BY DEF callVars, SameCall
<1>2. SessionInv'
  BY DEF ReclaimInv, SessionInv
<1>3. None \notin ToolCalls /\ None \notin SessionKeys
  BY McpAssumption, KeysAssumption DEF Keys
<1>4. \A s \in Sessions, n \in Names : <<s, n>> # None
  BY <1>3 DEF SessionKeys
<1>5. \A e \in ToolCalls : SessionAdd(e) => AddKey(e) # None
  BY <1>3, FlightKey
<1>6. QED
  BY <1>1, <1>2, <1>3, <1>4, <1>5, OneKeyStep

\* Every step keeps the pools and slots of the sessions accounted for.
LEMMA ReclaimStep == BaseInv /\ BaseInv' /\ ReclaimInv /\ [McpNext]_vars => ReclaimInv'
<1> SUFFICES ASSUME BaseInv, BaseInv', ReclaimInv, [McpNext]_vars
             PROVE  ReclaimInv'
  OBVIOUS
<1>1. CASE UNCHANGED vars
  BY <1>1, ElsewhereStep DEF vars, cmVars, sessionVars
<1>2. CASE Main
  <2>1. (\A e \in ToolCalls : SameAdd(e)) /\ \A k \in SessionKeys : connections'[k] = connections[k]
    BY <1>2, MainAdds
  <2>2. QED
    BY <1>2, <2>1, ElsewhereStep DEF Main, sessionVars, SameAdd
<1>3. ASSUME NEW c \in ToolCalls, Arrive(c) \/ CallStep(c)
      PROVE  ReclaimInv'
  BY <1>3, QuietCallStep, ReserveStep, ContinueStep, ReleaseStep, RemoveAddedStep DEF CallStep
<1>4. ASSUME NEW s \in Sessions, CleanupStep(s)
      PROVE  ReclaimInv'
  <2>1. CASE ForgetSession(s)
    <3>1. \A r \in Sessions : (cleanup'[r] = "removing") <=> (cleanup[r] = "removing")
      BY <2>1 DEF ForgetSession, BaseInv, McpTypeOK
    <3>2. QED
      BY <2>1, <3>1, ElsewhereStep DEF ForgetSession, cmVars
  <2>2. QED
    BY <1>4, <2>1, CloseStep, RemoveDoomedStep DEF CleanupStep
<1>5. ASSUME NEW cl \in Clients, SessionEnds(cl)
      PROVE  ReclaimInv'
  BY <1>5, ElsewhereStep DEF SessionEnds, cmVars
<1>6. ASSUME NEW k \in Keys, PackGone(k)
      PROVE  ReclaimInv'
  BY <1>6, ElsewhereStep DEF PackGone, DropToolPack, sessionVars
<1>7. QED
  BY <1>1, <1>2, <1>3, <1>4, <1>5, <1>6 DEF McpNext

\* There are no sessions and no adds at first.
LEMMA InitReclaim == Init => ReclaimInv
  BY DEF Init, StartupInit, NewConnectionManager, ReclaimInv, SessionInv, FlightInv, Alone, FlightOK,
     SessionAdd, AddInFlight, SessionPoolsReclaimed, SlotsAccountedFor, Has, Keys, SessionKeys

\* The pools and slots of the sessions are accounted for throughout.
LEMMA ReclaimHeld == McpSpec => []ReclaimInv
  BY InitReclaim, ReclaimStep, BaseHeld, PTL DEF McpSpec

\* A session that ends while a pool is being opened leaks nothing: every pool
\* a session registered has someone left to remove it.
THEOREM ReclaimCorrect == McpSpec => []SessionPoolsReclaimed
<1>1. ReclaimInv => SessionPoolsReclaimed
  BY DEF ReclaimInv
<1>2. QED
  BY <1>1, ReclaimHeld, PTL

\* A failed add_connection gives its slot of the per-session limit back.
THEOREM SlotsCorrect == McpSpec => []SlotsAccountedFor
<1>1. ReclaimInv => SlotsAccountedFor
  BY DEF ReclaimInv
<1>2. QED
  BY <1>1, ReclaimHeld, PTL

-----------------------------------------------------------------------------
(* Sessions are isolated from each other.                                  *)

\* What is known of the manager, from its own theorems.
RegistryInv == HandlesInv /\ ReservationInv /\ PendingInv /\ CapInv /\ ActiveConnRegistered

\* The manager's theorems hold of the manager in the server, by the refinement.
LEMMA RegistryHeld == McpSpec => []RegistryInv
<1>1. Spec => []RegistryInv
  BY HandlesCorrect, ReservationsHeld, PendingHeld, CapHeld, ActiveCorrect, PTL DEF RegistryInv
<1>2. QED
  BY <1>1, ManagerRefinement, PTL

\* What a step of call c does to the connections selected: only the calls that
\* pin or switch change them.
LEMMA SelectStep ==
    ASSUME BaseInv, SelectedInv, ActiveConnRegistered, NEW c \in ToolCalls, Arrive(c) \/ CallStep(c)
    PROVE  /\ \A s \in Sessions : scName'[s] \in VisibleTo(s)
           /\ step'[c] \in {"idle", "pin"} => pin'[c] = None
           /\ sc'[c] # None => pin'[c] \in VisibleTo(sc'[c])
<1> USE DEF Goto
<1>0. CallTypes /\ SessionTypes /\ CallOK(c) /\ TypeOK /\ None \notin Sessions
  BY McpAssumption DEF BaseInv, McpTypeOK, StartupTypeOK, CallTypes, SessionTypes, CallInv
<1>1. CASE Arrive(c)
  <2>1. pin' = pin /\ scName' = scName /\ step[c] = "idle" /\ step'[c] = "pin"
    BY <1>0, <1>1 DEF Arrive, ArriveStdio, ArriveKnown, ArriveNew, Request, CallTypes, sessionVars
  <2>2. \A s : None \in VisibleTo(s)
    BY DEF VisibleTo
  <2>3. QED
    BY <2>1, <2>2 DEF SelectedInv
<1>2. CASE Pin(c)
  <2>1. /\ UNCHANGED <<scName, sc>> /\ pin'[c] = SessionActive(c)
        /\ step'[c] \in {"stmt", "resolve", "has"}
    BY <1>0, <1>2 DEF Pin, FirstStep, CallTypes, CallOK, Tools, sessionVars
  <2>2. activeConn \in Names \cup {None}
    BY <1>0 DEF ActiveConnRegistered, IsSessionConnKey, TypeOK, Keys
  <2>3. sc[c] # None => SessionActive(c) \in VisibleTo(sc[c])
    <3>1. sc[c] # None => scName[sc[c]] \in VisibleTo(sc[c])
      BY <1>0 DEF SelectedInv, CallTypes
    <3>2. activeConn \in VisibleTo(sc[c])
      BY <2>2 DEF VisibleTo
    <3>3. QED
      BY <3>1, <3>2 DEF SessionActive
  <2>4. QED
    BY <2>1, <2>3 DEF SelectedInv
<1>3. CASE SwitchProcessWide(c)
  BY <1>0, <1>3 DEF SwitchProcessWide, AfterSwitch, CallTypes, SelectedInv, sessionVars
<1>4. CASE SetSessionActive(c)
  <2>1. sc[c] \in Sessions /\ target[c] \in VisibleTo(sc[c])
    BY <1>0, <1>4 DEF SetSessionActive, CallOK, CallTypes
  <2>2. /\ scName' = [scName EXCEPT ![sc[c]] = target[c]] /\ pin'[c] = target[c] /\ sc' = sc
        /\ step'[c] \in {"stmt", "end"}
    BY <1>0, <1>4 DEF SetSessionActive, AfterSwitch, CallTypes
  <2>3. QED
    BY <1>0, <2>1, <2>2 DEF SelectedInv, SessionTypes
<1>5. CASE \/ Statement(c) \/ SwitchProcessWideFails(c) \/ Resolve(c) \/ Check(c)
           \/ AddRejected(c) \/ AddValid(c) \/ ReserveInSession(c) \/ BeginAdd(c) \/ ContinueAdd(c)
           \/ AddReturns(c) \/ CheckClosed(c) \/ ReleaseInSession(c) \/ RemoveAdded(c)
  <2>1. UNCHANGED <<scName, sc, pin>> /\ step'[c] \notin {"idle", "pin"}
    BY <1>0, <1>5
    DEF Statement, SwitchProcessWideFails, Resolve, Check, AddRejected, AddValid, ReserveInSession,
        BeginAdd, ContinueAdd, AddReturns, CheckClosed, ReleaseInSession, RemoveAdded,
        AfterFailedSwitch, sessionVars, callVars, CallTypes
  <2>2. QED
    BY <2>1 DEF SelectedInv
<1>6. QED
  BY <1>1, <1>2, <1>3, <1>4, <1>5 DEF CallStep

\* Every step keeps what is selected visible to the one who selected it.
LEMMA SelectedStep ==
    BaseInv /\ RegistryInv /\ SelectedInv /\ [McpNext]_vars => SelectedInv'
<1> SUFFICES ASSUME BaseInv, RegistryInv, SelectedInv, [McpNext]_vars
             PROVE  SelectedInv'
  OBVIOUS
<1>0. \A s : VisibleTo(s)' = VisibleTo(s)
  BY DEF VisibleTo
<1>1. ASSUME NEW c \in ToolCalls, Arrive(c) \/ CallStep(c)
      PROVE  SelectedInv'
  <2>1. ASSUME NEW e \in ToolCalls \ {c}
        PROVE  SameCall(e)
    BY <1>1, OthersSame DEF BaseInv
  <2>2. /\ \A s \in Sessions : scName'[s] \in VisibleTo(s)
        /\ step'[c] \in {"idle", "pin"} => pin'[c] = None
        /\ sc'[c] # None => pin'[c] \in VisibleTo(sc'[c])
    BY <1>1, SelectStep DEF RegistryInv
  <2>3. QED
    BY <2>1, <2>2 DEF SelectedInv, SameCall, VisibleTo
<1>2. ASSUME UNCHANGED <<scName, callVars>>
      PROVE  SelectedInv'
  BY <1>2 DEF SelectedInv, VisibleTo, callVars
<1>3. QED
  BY <1>1, <1>2
  DEF McpNext, Main, SessionEnds, CleanupStep, ForgetSession, CloseSession, RemoveDoomed, PackGone,
      vars, sessionVars

\* A call and a session select only what they may see.
LEMMA SelectedHeld == McpSpec => []SelectedInv
<1>1. Init => SelectedInv
  BY McpAssumption DEF Init, SelectedInv, VisibleTo
<1>2. QED
  BY <1>1, SelectedStep, BaseHeld, RegistryHeld, PTL DEF McpSpec

-----------------------------------------------------------------------------
(* One server per call.                                                    *)

\* An add enters its flight through the reservation in the session, and a
\* closed session gives none.
LEMMA FlightBegins ==
    ASSUME BaseInv, McpNext, NEW e \in ToolCalls, SessionAdd(e)'
    PROVE  /\ sc'[e] = sc[e] /\ arg'[e] = arg[e] /\ AddKey(e)' = AddKey(e)
           /\ SessionAdd(e) \/ (ReserveInSession(e) /\ CanReserve(sc[e], arg[e]))
<1> USE DEF Goto
<1>0. CallTypes /\ CallOK(e)
  BY DEF BaseInv, McpTypeOK, CallTypes, CallInv
<1>1. ASSUME SameCall(e)
      PROVE  sc'[e] = sc[e] /\ arg'[e] = arg[e] /\ SessionAdd(e)
  BY <1>1 DEF SameCall, SessionAdd, AddInFlight
<1>2. ~Arrive(e)
  <2>1. Arrive(e) => step'[e] = "pin"
    BY <1>0 DEF Arrive, ArriveStdio, ArriveKnown, ArriveNew, Request, CallTypes
  <2>2. QED
    BY <2>1 DEF SessionAdd, AddInFlight
<1>3. ASSUME CallStep(e)
      PROVE  sc'[e] = sc[e] /\ arg'[e] = arg[e] /\ (SessionAdd(e) \/ ReserveInSession(e))
  <2>1. sc' = sc /\ arg' = arg /\ tool' = tool
    BY <1>3 DEF CallStep, Pin, Statement, SwitchProcessWide, SwitchProcessWideFails, Resolve, Check,
       SetSessionActive, AddRejected, AddValid, ReserveInSession, BeginAdd, ContinueAdd, AddReturns,
       CheckClosed, ReleaseInSession, RemoveAdded, callVars
  <2>2. CASE Pin(e) \/ Statement(e) \/ SwitchProcessWide(e) \/ SwitchProcessWideFails(e)
    BY <1>0, <2>1, <2>2 DEF SessionAdd, AddInFlight, Pin, Statement, SwitchProcessWide,
       SwitchProcessWideFails, FirstStep, CallTypes, CallOK, Tools
  <2>3. CASE AddRejected(e) \/ AddValid(e) \/ ReserveInSession(e)
    BY <1>0, <2>1, <2>3 DEF SessionAdd, AddInFlight, AddRejected, AddValid, ReserveInSession, CallTypes
  <2>4. CASE \/ Resolve(e) \/ Check(e) \/ SetSessionActive(e) \/ BeginAdd(e) \/ ContinueAdd(e)
             \/ AddReturns(e) \/ CheckClosed(e) \/ ReleaseInSession(e) \/ RemoveAdded(e)
    BY <1>0, <2>1, <2>4 DEF SessionAdd, AddInFlight, Resolve, Check, SetSessionActive, BeginAdd,
       ContinueAdd, AddReturns, CheckClosed, ReleaseInSession, RemoveAdded
  <2>5. QED
    BY <1>3, <2>1, <2>2, <2>3, <2>4 DEF CallStep
<1>4. ASSUME NEW c \in ToolCalls, Arrive(c) \/ CallStep(c), c # e
      PROVE  SameCall(e)
  BY <1>4, OthersSame DEF BaseInv
<1>5. ASSUME UNCHANGED callVars
      PROVE  SameCall(e)
  BY <1>5 DEF callVars, SameCall
<1>6. sc'[e] = sc[e] /\ arg'[e] = arg[e]
         /\ (SessionAdd(e) \/ (ReserveInSession(e) /\ CanReserve(sc[e], arg[e])))
  <2>1. CASE Arrive(e) \/ CallStep(e)
    <3>1. sc'[e] = sc[e] /\ arg'[e] = arg[e] /\ (SessionAdd(e) \/ ReserveInSession(e))
      BY <1>2, <1>3, <2>1
    <3>2. ReserveInSession(e) => CanReserve(sc[e], arg[e])
      BY <1>0 DEF ReserveInSession, SessionAdd, AddInFlight, CallTypes
    <3>3. QED
      BY <3>1, <3>2
  <2>2. QED
    BY <1>1, <1>4, <1>5, <2>1
    DEF McpNext, Main, SessionEnds, CleanupStep, ForgetSession, CloseSession, RemoveDoomed, PackGone
<1>7. QED
  BY <1>6 DEF AddKey

\* No add starts in a closed session.
LEMMA NoNewFlight ==
    ASSUME BaseInv, McpNext, NEW e \in ToolCalls, NEW s \in Sessions, NEW n,
           SessionAdd(e)', AddKey(e)' = <<s, n>>, closed[s]
    PROVE  SessionAdd(e) /\ AddKey(e) = <<s, n>>
<1>1. sc'[e] = sc[e] /\ AddKey(e) = <<s, n>> /\ sc[e] # None
  BY FlightBegins DEF SessionAdd
<1>2. sc[e] = s
  BY <1>1 DEF AddKey
<1>3. QED
  BY <1>1, <1>2, FlightBegins DEF CanReserve

\* A session stays closed; a finished add keeps its key and its outcome.
LEMMA ClosedKept ==
    ASSUME BaseInv, McpNext, NEW s \in Sessions, closed[s]
    PROVE  closed'[s]
<1>1. CASE \E r \in Sessions : CloseSession(r)
  BY <1>1 DEF CloseSession, BaseInv, McpTypeOK
<1>2. CASE UNCHANGED closed
  BY <1>2
<1>3. QED
  BY <1>1, <1>2
  DEF McpNext, Main, Arrive, ArriveStdio, ArriveKnown, ArriveNew, CallStep, Pin, Statement,
      SwitchProcessWide, SwitchProcessWideFails, Resolve, Check, SetSessionActive, AddRejected,
      AddValid, ReserveInSession, BeginAdd, ContinueAdd, AddReturns, CheckClosed, ReleaseInSession,
      RemoveAdded, SessionEnds, CleanupStep, ForgetSession, RemoveDoomed, PackGone, sessionVars

\* An add that has returned is not touched again.
LEMMA FinishedKept ==
    ASSUME TypeOK, [Next]_cmVars, NEW p \in Calls, Finished(p)
    PROVE  Finished(p)' /\ key'[p] = key[p] /\ result'[p] = result[p]
<1> USE DEF Finished, TypeOK, maps, handles, args
<1>1. ASSUME NEW c \in Calls, AddStep(c)
      PROVE  Finished(p)' /\ key'[p] = key[p] /\ result'[p] = result[p]
  BY <1>1, AddStepEffect DEF Registers, MovesOn
<1>2. ASSUME NEW c \in Calls, NEW k \in Keys, RefuseAdd(c, k) \/ ReserveAdd(c, k)
      PROVE  Finished(p)' /\ key'[p] = key[p] /\ result'[p] = result[p]
  BY <1>2 DEF RefuseAdd, ReserveAdd
<1>3. ASSUME NEW c \in Calls, NEW k \in Names, BeginReplace(c, k)
      PROVE  Finished(p)' /\ key'[p] = key[p] /\ result'[p] = result[p]
  BY <1>3 DEF BeginReplace
<1>4. QED
  BY <1>1, <1>2, <1>3 DEF Next, SetActive, RemoveConnection, DropToolPack, Close, cmVars

\* A key that has gone while the server serves never comes back.
LEMMA RetiredStep ==
    ASSUME BaseInv, BaseInv', ReclaimInv, McpNext, phase = "serving", NEW k \in SessionKeys,
           Has(k) => ~Has(k)', ~Has(k) => Retired(k)
    PROVE  Retired(k)'
<1>0. /\ TypeOK /\ SessionTypes /\ ToolCalls \subseteq Calls
      /\ \A c \in ToolCalls : FlightOK(c) /\ AddOK(c) /\ CallOK(c)
      /\ \A c \in Calls : ~Finished(c) => result[c] = "none"
  BY McpAssumption DEF BaseInv, McpTypeOK, StartupTypeOK, SessionTypes, CallInv, AddInv, ReclaimInv, FlightInv
<1>1. PICK s \in Sessions, n \in Names : k = <<s, n>>
  BY DEF SessionKeys
<1>2. k \in Keys /\ k[1] = s
  BY <1>1 DEF Keys
<1>3. CASE Has(k)
  <2>1. PICK l \in SessionKeys : RemovedBy(l)
    <3>1. ASSUME NEW c \in ToolCalls, RegisteredBy(c)
          PROVE  connections'[k] # None
      BY <1>0, <1>2, <1>3, <3>1, KeysAssumption DEF RegisteredBy, Registers, TypeOK, Has
    <3>2. QED
      BY <1>3, <3>1, ConnectionsStep DEF Has
  <2>2. k = l
    BY <1>0, <1>2, <1>3, <2>1 DEF RemovedBy, TypeOK, Has
  <2>3. closed[s]
    <3>1. ASSUME NEW c \in ToolCalls, RemoveAdded(c), AddKey(c) = k
          PROVE  closed[s]
      <4>1. sc[c] = s /\ SessionAdd(c) /\ step[c] = "remove"
        BY <1>1, <3>1, RemovedKey, McpAssumption DEF RemoveAdded, SessionAdd
      <4>2. QED
        BY <1>0, <4>1 DEF FlightOK
    <3>2. ASSUME NEW r \in Sessions, RemoveDoomed(r), k \in doomed[r]
          PROVE  closed[s]
      BY <1>1, <3>2 DEF ReclaimInv, SessionInv
    <3>3. QED
      BY <2>1, <2>2, <3>1, <3>2 DEF RemovedBy
  <2>4. ASSUME NEW e \in ToolCalls, SessionAdd(e)', AddKey(e)' = k
        PROVE  result'[e] = "ok"
    <3>1. SessionAdd(e) /\ AddKey(e) = k
      BY <1>1, <2>3, <2>4, NoNewFlight
    <3>2. result[e] = "ok" /\ Finished(e)
      BY <1>0, <1>3, <3>1 DEF FlightOK
    <3>3. QED
      BY <1>0, <3>2, FinishedKept, ManagerStep
  <2>5. QED
    BY <1>2, <1>3, <2>3, <2>4, ClosedKept DEF Retired
<1>4. CASE Retired(k)
  <2>1. closed[s] /\ ~Has(k)
    BY <1>2, <1>4 DEF Retired
  <2>2. ASSUME NEW c \in ToolCalls, RegisteredBy(c)
        PROVE  key[c] # k
    <3>1. SUFFICES ASSUME key[c] = k PROVE FALSE
      OBVIOUS
    <3>2. AddKey(c) = k /\ step[c] = "adding" /\ result[c] = "none"
      BY <1>0, <2>2, <3>1 DEF RegisteredBy, Registers, ContinueAdd, AddOK, Finished
    <3>3. SessionAdd(c)
      BY <1>0, <3>1, <3>2, KeysAssumption, <2>2
      DEF SessionAdd, AddInFlight, AddKey, CallOK, AddOK, AddSteps, RegisteredBy, Registers
    <3>4. QED
      BY <1>4, <3>2, <3>3 DEF Retired
  <2>3. ~Has(k)'
    <3>1. ASSUME NEW c \in ToolCalls, RegisteredBy(c)
          PROVE  connections'[k] = connections[k]
      BY <1>0, <1>2, <2>2, <3>1 DEF RegisteredBy, Registers, TypeOK
    <3>2. ASSUME NEW l \in SessionKeys, RemovedBy(l)
          PROVE  connections'[k] \in {connections[k], None}
      BY <1>0, <1>2, <3>2 DEF RemovedBy, TypeOK
    <3>3. QED
      BY <2>1, <3>1, <3>2, ConnectionsStep DEF Has
  <2>4. ASSUME NEW e \in ToolCalls, SessionAdd(e)', AddKey(e)' = k
        PROVE  result'[e] = "ok"
    <3>1. SessionAdd(e) /\ AddKey(e) = k
      BY <1>1, <2>1, <2>4, NoNewFlight
    <3>2. result[e] = "ok" /\ Finished(e)
      BY <1>0, <1>4, <3>1 DEF Retired
    <3>3. QED
      BY <1>0, <3>2, FinishedKept, ManagerStep
  <2>5. QED
    BY <1>2, <2>1, <2>3, <2>4, ClosedKept DEF Retired
<1>5. QED
  BY <1>3, <1>4

\* A pool in use stays the one of its name, or the name is gone for good.
LEMMA PoolStays ==
    ASSUME BaseInv, BaseInv', ReclaimInv, McpNext, phase = "serving", NEW p \in Calls,
           Finished(p), connections[key[p]] = p \/ Retired(key[p])
    PROVE  Finished(p)' /\ key'[p] = key[p] /\ (connections'[key[p]] = p \/ Retired(key[p])')
<1>0. /\ TypeOK /\ KeyInv /\ None \notin Calls /\ ToolCalls \subseteq Calls
      /\ \A c \in ToolCalls : AddOK(c)
  BY McpAssumption, KeysAssumption DEF BaseInv, McpTypeOK, StartupTypeOK, AddInv
<1>1. Finished(p)' /\ key'[p] = key[p]
  BY <1>0, FinishedKept, ManagerStep
<1>2. PICK k \in Keys : k = key[p]
  BY <1>0 DEF KeyInv, Finished
<1>3. CASE k \in Names
  <2>1. ~Retired(k)
    BY <1>3, KeysAssumption DEF Retired
  <2>2. QED
    BY <1>0, <1>1, <1>2, <1>3, <2>1, NamesKept DEF Has
<1>4. CASE k \in SessionKeys
  <2>1. CASE Has(k) /\ Has(k)'
    <3>1. connections[k] = p
      BY <1>2, <2>1 DEF Retired
    <3>2. ASSUME NEW c \in ToolCalls, RegisteredBy(c)
          PROVE  connections'[k] = connections[k]
      BY <1>0, <2>1, <3>2 DEF RegisteredBy, Registers, TypeOK, AddOK
    <3>3. ASSUME NEW l \in SessionKeys, RemovedBy(l)
          PROVE  connections'[k] = connections[k]
      BY <1>0, <2>1, <3>3 DEF RemovedBy, TypeOK, Has
    <3>4. QED
      BY <1>1, <1>2, <3>1, <3>2, <3>3, ConnectionsStep
  <2>2. CASE ~(Has(k) /\ Has(k)')
    <3>1. ~Has(k) => Retired(k)
      BY <1>0, <1>2 DEF Has
    <3>2. Retired(k)'
      BY <1>4, <2>2, <3>1, RetiredStep
    <3>3. Retired(key[p])'
      BY <1>1, <1>2, <3>2
    <3>4. QED
      BY <1>1, <3>3
  <2>3. QED
    BY <2>1, <2>2
<1>5. QED
  BY <1>3, <1>4 DEF Keys

\* A call keeps using one pool while other things happen.
LEMMA UsedKept ==
    ASSUME BaseInv, BaseInv', ReclaimInv, McpNext, phase = "serving", NEW e \in ToolCalls, UsedOK(e),
           used'[e] = used[e], used[e] = {} \/ pin'[e] = pin[e],
           step'[e] \notin {"stmt", "end"} => used[e] = {}
    PROVE  UsedOK(e)'
<1>1. used[e] \subseteq Calls \cup {None}
  BY DEF BaseInv, McpTypeOK
<1>2. ASSUME NEW p \in used[e] \ {None}
      PROVE  Finished(p)' /\ key'[p] = pin'[e] /\ (connections'[key'[p]] = p \/ Retired(key[p])')
  BY <1>1, PoolStays DEF UsedOK
<1>3. QED
  BY <1>2 DEF UsedOK

\* A statement runs on the pool of the pin.
LEMMA StatementUses ==
    ASSUME BaseInv, BaseInv', RegistryInv, ReclaimInv, McpNext, NEW c \in ToolCalls, UsedOK(c),
           Statement(c)
    PROVE  UsedOK(c)'
<1>0. /\ CallTypes /\ TypeOK /\ used'[c] = used[c] \cup {GetDB(c)} /\ pin' = pin
      /\ UNCHANGED <<cmVars, sessionVars>> /\ step'[c] \in {"stmt", "end"} /\ phase = "serving"
  BY DEF BaseInv, McpTypeOK, StartupTypeOK, CallTypes, Statement, Goto
<1>1. used[c] \subseteq Calls \cup {None}
  BY <1>0 DEF CallTypes
<1>2. ASSUME NEW p \in used[c] \ {None}
      PROVE  /\ Finished(p)' /\ key'[p] = pin'[c] /\ (connections'[key'[p]] = p \/ Retired(key[p])')
             /\ GetDB(c) \in {None, p}
  <2>1. Finished(p)' /\ key'[p] = pin'[c] /\ (connections'[key'[p]] = p \/ Retired(key[p])')
    BY <1>0, <1>1, PoolStays DEF UsedOK
  <2>2. key[p] = pin[c] /\ (connections[pin[c]] = p \/ ~Has(pin[c]))
    BY DEF UsedOK, Retired
  <2>3. QED
    BY <2>1, <2>2 DEF GetDB, Has
<1>3. PICK d : d = GetDB(c)
  OBVIOUS
<1>4. ASSUME d # None
      PROVE  Finished(d)' /\ key'[d] = pin'[c] /\ connections'[key'[d]] = d
  <2>1. pin[c] \in Keys /\ d = connections[pin[c]]
    BY <1>0, <1>3, <1>4 DEF GetDB, CallTypes
  <2>2. Finished(d) /\ key[d] = pin[c]
    BY <1>4, <2>1 DEF RegistryInv, HandlesInv, RegisteredInv, Has
  <2>3. QED
    BY <1>0, <2>1, <2>2 DEF cmVars, Finished
<1>5. used'[c] = used[c] \cup {d}
  BY <1>0, <1>3
<1>6. \A p \in used[c] \ {None} : \A q \in used[c] \ {None} : p = q
  BY DEF UsedOK
<1>7. \A p \in used'[c] \ {None} : p \in used[c] \ {None} \/ p = d
  BY <1>5
<1>8. \A p \in used'[c] \ {None} :
          Finished(p)' /\ key'[p] = pin'[c] /\ (connections'[key'[p]] = p \/ Retired(key[p])')
  BY <1>2, <1>4, <1>7
<1>9. \A p \in used'[c] \ {None} : \A q \in used'[c] \ {None} : p = q
  BY <1>2, <1>3, <1>6, <1>7
<1>10. QED
  BY <1>0, <1>8, <1>9 DEF UsedOK

\* Every step keeps the pools that the calls have used known.
LEMMA UsedStep ==
    /\ BaseInv /\ BaseInv' /\ RegistryInv /\ ReclaimInv /\ UsedInv /\ [McpNext]_vars
    => UsedInv'
<1> SUFFICES ASSUME BaseInv, BaseInv', RegistryInv, ReclaimInv, UsedInv, [McpNext]_vars,
                    NEW e \in ToolCalls
             PROVE  UsedOK(e)'
  BY DEF UsedInv
<1>0. CallTypes /\ CallOK(e) /\ UsedOK(e) /\ StartupTypeOK
  BY DEF BaseInv, McpTypeOK, CallTypes, CallInv, UsedInv
<1>1. CASE UNCHANGED vars
  BY <1>0, <1>1 DEF vars, cmVars, sessionVars, callVars, UsedOK, Finished, Retired, Has, SessionAdd,
     AddInFlight, AddKey
<1>2. CASE McpNext /\ phase # "serving"
  <2>1. Main
    BY <1>0, <1>2, PhaseStep
  <2>2. phase = "starting" /\ UNCHANGED callVars
    BY <1>2, <2>1 DEF Main, StartupStep, AddConfigured, AddConfiguredStep, StartServing, FailStartup, Exit
  <2>3. used'[e] = {}
    BY <1>0, <2>2 DEF UsedOK, CallOK, callVars
  <2>4. QED
    BY <2>3 DEF UsedOK
<1>3. CASE McpNext /\ phase = "serving"
  <2>1. ASSUME SameCall(e)
        PROVE  UsedOK(e)'
    BY <1>0, <1>3, <2>1, UsedKept DEF SameCall, UsedOK
  <2>2. CASE Arrive(e) \/ CallStep(e)
    <3>1. CASE Statement(e)
      BY <1>0, <1>3, <3>1, StatementUses
    <3>2. CASE ~Statement(e)
      <4>1. used' = used
        BY <2>2, <3>2 DEF Arrive, ArriveStdio, ArriveKnown, ArriveNew, Request, CallStep, Pin,
           SwitchProcessWide, SwitchProcessWideFails, Resolve, Check, SetSessionActive, AddRejected,
           AddValid, ReserveInSession, BeginAdd, ContinueAdd, AddReturns, CheckClosed,
           ReleaseInSession, RemoveAdded, callVars
      <4>2. step[e] \notin {"stmt", "end"}
        BY <2>2, <3>2 DEF Arrive, ArriveStdio, ArriveKnown, ArriveNew, Request, CallStep, Pin,
           SwitchProcessWide, SwitchProcessWideFails, Resolve, Check, SetSessionActive, AddRejected,
           AddValid, ReserveInSession, BeginAdd, ContinueAdd, AddReturns, CheckClosed,
           ReleaseInSession, RemoveAdded
      <4>3. QED
        BY <1>0, <1>3, <4>1, <4>2, UsedKept DEF UsedOK
    <3>3. QED
      BY <3>1, <3>2
  <2>3. ASSUME NEW c \in ToolCalls, Arrive(c) \/ CallStep(c), c # e
        PROVE  SameCall(e)
    BY <2>3, OthersSame DEF BaseInv
  <2>4. ASSUME UNCHANGED callVars
        PROVE  SameCall(e)
    BY <2>4 DEF callVars, SameCall
  <2>5. QED
    BY <1>3, <2>1, <2>2, <2>3, <2>4
    DEF McpNext, Main, SessionEnds, CleanupStep, ForgetSession, CloseSession, RemoveDoomed, PackGone
<1>4. QED
  BY <1>1, <1>2, <1>3

\* The pools that the calls have used are known throughout.
LEMMA UsedHeld == McpSpec => []UsedInv
<1>1. Init => UsedInv
  BY DEF Init, UsedInv, UsedOK
<1>2. QED
  BY <1>1, UsedStep, BaseHeld, RegistryHeld, ReclaimHeld, PTL DEF McpSpec

\* All statements of one tool call run on one pool, and the result names it.
THEOREM OneServerCorrect == McpSpec => []OneServerPerCall
<1>1. UsedInv => OneServerPerCall
  <2> SUFFICES ASSUME UsedInv, NEW c \in ToolCalls
               PROVE  /\ Cardinality(used[c] \ {None}) <= 1
                      /\ step[c] = "end" => \A p \in used[c] \ {None} : key[p] = pin[c]
    BY DEF OneServerPerCall
  <2>1. UsedOK(c)
    BY DEF UsedInv
  <2>2. CASE used[c] \ {None} = {}
    BY <2>1, <2>2, FS_EmptySet DEF UsedOK
  <2>3. ASSUME NEW p \in used[c] \ {None}
        PROVE  Cardinality(used[c] \ {None}) = 1
    <3>1. used[c] \ {None} = {p}
      BY <2>1, <2>3 DEF UsedOK
    <3>2. QED
      BY <3>1, FS_Singleton
  <2>4. QED
    BY <2>1, <2>2, <2>3 DEF UsedOK
<1>2. QED
  BY <1>1, UsedHeld, PTL

\* No session selects, or runs a statement on, another session's connection.
THEOREM IsolationCorrect == McpSpec => []SessionIsolation
<1>1. SelectedInv /\ UsedInv => SessionIsolation
  BY DEF SelectedInv, UsedInv, UsedOK, SessionIsolation
<1>2. QED
  BY <1>1, SelectedHeld, UsedHeld, PTL

-----------------------------------------------------------------------------
(* The process-wide default.                                               *)

\* A session's step leaves the default alone: it registers and removes session
\* keys only, and the default is none of them.
LEMMA DefaultStep ==
    ASSUME BaseInv, ActiveConnRegistered, McpNext, Transport = "http", phase = "serving"
    PROVE  activeConn' = activeConn
<1> USE DEF maps, handles, args
<1>0. /\ TypeOK /\ ToolCalls \subseteq Calls /\ activeConn \notin SessionKeys
      /\ \A c \in ToolCalls : CallOK(c) /\ AddOK(c)
  BY McpAssumption, KeysAssumption
  DEF BaseInv, McpTypeOK, StartupTypeOK, ActiveConnRegistered, IsSessionConnKey, CallInv, AddInv, Keys
<1>1. ASSUME NEW k \in SessionKeys, RemoveIfPresent(k)
      PROVE  activeConn' = activeConn
  BY <1>0, <1>1 DEF RemoveIfPresent, RemoveConnection, TearDownNamedConnection, ActiveWithout, cmVars
<1>2. CASE Main
  BY <1>2 DEF Main, StartupStep, AddConfigured, AddConfiguredStep, StartServing, FailStartup, Exit, Close
<1>3. ASSUME NEW c \in ToolCalls, Arrive(c) \/ CallStep(c)
      PROVE  activeConn' = activeConn
  <2>1. CASE ContinueAdd(c)
    <3>1. sc[c] # None /\ pc[c] # "idle"
      BY <1>0, <2>1, AddStepEffect DEF ContinueAdd, CallOK
    <3>2. key[c] = AddKey(c) /\ AddInFlight(c)
      BY <1>0, <2>1, <3>1 DEF ContinueAdd, AddOK, AddInFlight
    <3>3. key[c] \in SessionKeys
      BY <3>1, <3>2, FlightKey DEF SessionAdd
    <3>4. ASSUME NEW pack \in BOOLEAN, Register(c, pack)
          PROVE  activeConn' = activeConn
      BY <1>0, <3>3, <3>4 DEF Register, ActiveAfterRegister, ActiveWithout, IsSessionConnKey
    <3>5. QED
      BY <2>1, <3>4
      DEF ContinueAdd, AddStep, StartTunnel, SkipTunnel, OpenFails, OpenDB, OpenDBFails,
          PingOK, PingFails, LoseRace, ReleaseReservation
  <2>2. CASE RemoveAdded(c)
    BY <1>1, <2>2, RemovedKey DEF RemoveAdded
  <2>3. CASE BeginAdd(c)
    BY <2>3 DEF BeginAdd, RefuseAdd, ReserveAdd
  <2>4. ~SwitchProcessWide(c)
    BY <1>0 DEF SwitchProcessWide, CallOK
  <2>5. QED
    BY <1>3, <2>1, <2>2, <2>3, <2>4
    DEF Arrive, ArriveStdio, ArriveKnown, ArriveNew, CallStep, Pin, Statement,
        SwitchProcessWideFails, Resolve, Check, SetSessionActive, AddRejected, AddValid,
        ReserveInSession, AddReturns, CheckClosed, ReleaseInSession, cmVars
<1>4. ASSUME NEW s \in Sessions, CleanupStep(s)
      PROVE  activeConn' = activeConn
  <2>1. doomed[s] \subseteq SessionKeys
    BY DEF BaseInv, McpTypeOK
  <2>2. QED
    BY <1>1, <1>4, <2>1 DEF CleanupStep, ForgetSession, CloseSession, RemoveDoomed, cmVars
<1>5. QED
  BY <1>2, <1>3, <1>4 DEF McpNext, SessionEnds, PackGone, DropToolPack, cmVars

\* MCP HTTP sessions never move the process-wide active connection, whatever
\* they register, select and remove.
THEOREM DefaultCorrect == McpSpec => SessionsNeverMoveDefault
<1>1. BaseInv /\ RegistryInv /\ [McpNext]_vars
      => [Transport = "http" /\ phase = "serving" => activeConn' = activeConn]_vars
  BY DefaultStep DEF RegistryInv
<1>2. QED
  BY <1>1, BaseHeld, RegistryHeld, PTL DEF McpSpec, SessionsNeverMoveDefault

-----------------------------------------------------------------------------
(* The leases.                                                             *)

\* Close runs once, when main fails or exits.
LEMMA ExitHeld == McpSpec => []ExitInv
<1>1. Init => ExitInv
  BY DEF Init, StartupInit, NewConnectionManager, ExitInv
<1>2. BaseInv /\ ExitInv /\ [McpNext]_vars => ExitInv'
  <2> SUFFICES ASSUME BaseInv, ExitInv, McpNext
               PROVE  ExitInv'
    BY DEF ExitInv, vars, cmVars, bootVars
  <2> USE DEF maps, handles, args, ExitInv
  <2>0. TypeOK /\ StartupTypeOK /\ ToolCalls \subseteq Calls /\ conf \in Configurations
    BY McpAssumption DEF BaseInv, McpTypeOK, StartupTypeOK
  <2>1. CASE Main
    <3>1. ASSUME NEW i \in DOMAIN conf, AddConfigured(i) \/ AddConfiguredStep(i)
          PROVE  shutdown' = shutdown /\ phase' = phase
      BY <2>0, <3>1, EntryFacts, AddStepEffect DEF AddConfigured, AddConfiguredStep, BeginReplace, bootVars
    <3>2. QED
      BY <2>1, <3>1 DEF Main, StartupStep, StartServing, FailStartup, Exit, Close, cmVars
  <2>2. CASE ~Main
    <3>1. phase = "serving" /\ phase' = phase
      BY <2>0, <2>2, PhaseStep
    <3>2. ASSUME NEW c \in ToolCalls, Arrive(c) \/ CallStep(c)
          PROVE  shutdown' = shutdown
      <4>1. CASE ContinueAdd(c)
        BY <2>0, <4>1, AddStepEffect DEF ContinueAdd
      <4>2. CASE BeginAdd(c) \/ SwitchProcessWide(c)
        BY <4>2 DEF BeginAdd, RefuseAdd, ReserveAdd, SwitchProcessWide, SetActive
      <4>3. CASE RemoveAdded(c)
        BY <4>3 DEF RemoveAdded, RemoveIfPresent, RemoveConnection, cmVars
      <4>4. QED
        BY <3>2, <4>1, <4>2, <4>3
        DEF Arrive, ArriveStdio, ArriveKnown, ArriveNew, CallStep, Pin, Statement,
            SwitchProcessWideFails, Resolve, Check, SetSessionActive, AddRejected, AddValid,
            ReserveInSession, AddReturns, CheckClosed, ReleaseInSession, cmVars
    <3>3. shutdown' = shutdown
      BY <2>2, <3>2
      DEF McpNext, SessionEnds, CleanupStep, ForgetSession, CloseSession, RemoveDoomed,
          RemoveIfPresent, RemoveConnection, PackGone, DropToolPack, cmVars
    <3>4. QED
      BY <3>1, <3>3
  <2>3. QED
    BY <2>1, <2>2
<1>3. QED
  BY <1>1, <1>2, BaseHeld, PTL DEF McpSpec

\* A session that is gone has no connection, registered or in the making.
LEMMA GoneDrained ==
    ASSUME BaseInv, ReclaimInv, PendingInv, NEW s \in Sessions, Gone(s), NEW n \in Names
    PROVE  <<s, n>> \notin SessionConnsInUse
<1>0. <<s, n>> \in SessionKeys /\ <<s, n>> \notin Names /\ ~InFlightFor(s, n)
  BY KeysAssumption DEF SessionKeys, Gone
<1>1. ~Has(<<s, n>>)
  <2>1. owned[s] = {} /\ doomed[s] = {}
    BY DEF Gone, ReclaimInv, SessionInv
  <2>2. QED
    BY <1>0, <2>1 DEF ReclaimInv, SessionPoolsReclaimed
<1>2. <<s, n>> \notin pendingAdds
  <2>1. SUFFICES ASSUME NEW c \in Calls, HoldsReservation(c), key[c] = <<s, n>>
                 PROVE  FALSE
    BY DEF PendingInv
  <2>2. c \in ToolCalls
    BY <1>0, <2>1 DEF BaseInv, AddInv, HoldsReservation
  <2>3. AddOK(c) /\ CallOK(c)
    BY <2>2 DEF BaseInv, AddInv, CallInv
  <2>4. step[c] = "adding" /\ tool[c] = "add" /\ arg[c] \in Names /\ AddKey(c) = <<s, n>>
    BY <2>1, <2>3 DEF AddOK, HoldsReservation
  <2>5. AddInFlight(c)
    BY <2>4 DEF AddInFlight
  <2>6. sc[c] # None
    BY <1>0, <2>4 DEF AddKey
  <2>7. QED
    BY <1>0, <2>2, <2>4, <2>5, <2>6, InFlight DEF SessionAdd
<1>3. QED
  BY <1>1, <1>2 DEF SessionConnsInUse

\* A session that is gone has no connection left.
LEMMA AllGoneDrained ==
    BaseInv /\ ReclaimInv /\ PendingInv =>
        \A s \in Sessions : Gone(s) => \A n \in Names : <<s, n>> \notin SessionConnsInUse
  BY GoneDrained

\* The same in the next state.
LEMMA GoneDrainedNext ==
    (BaseInv /\ ReclaimInv /\ PendingInv)' =>
        \A s \in Sessions : Gone(s)' => \A n \in Names : <<s, n>> \notin SessionConnsInUse'
<1>1. (BaseInv /\ ReclaimInv /\ PendingInv)' =>
        (\A s \in Sessions : Gone(s) => \A n \in Names : <<s, n>> \notin SessionConnsInUse)'
  BY AllGoneDrained, PTL
<1>2. QED
  BY <1>1

\* A session that is gone stays gone: it is closed, and a closed session begins
\* no add.
LEMMA GoneKept ==
    ASSUME BaseInv, BaseInv', ReclaimInv, McpNext, NEW s \in Sessions, Gone(s)
    PROVE  Gone(s)'
<1>1. closed[s] /\ cleanup[s] = "removing" /\ doomed[s] = {} /\ SessionTypes
  BY DEF Gone, ReclaimInv, SessionInv, BaseInv, McpTypeOK, SessionTypes
<1>2. cleanup'[s] = "removing" /\ doomed'[s] = {}
  BY <1>1
  DEF McpNext, Main, SessionTypes, sessionVars, Arrive, ArriveStdio, ArriveKnown, ArriveNew, CallStep,
      Pin, Statement, SwitchProcessWide, SwitchProcessWideFails, Resolve, Check, SetSessionActive,
      AddRejected, AddValid, ReserveInSession, BeginAdd, ContinueAdd, AddReturns, CheckClosed,
      ReleaseInSession, RemoveAdded, SessionEnds, CleanupStep, ForgetSession, CloseSession,
      RemoveDoomed, PackGone
<1>3. ASSUME NEW n \in Names, InFlightFor(s, n)'
      PROVE  FALSE
  <2>1. PICK e \in ToolCalls : SessionAdd(e)' /\ AddKey(e)' = <<s, n>>
    <3>1. PICK e \in ToolCalls : AddInFlight(e)' /\ sc'[e] = s /\ arg'[e] = n
      BY <1>3 DEF InFlightFor
    <3>2. QED
      BY <3>1, McpAssumption DEF SessionAdd, AddKey
  <2>2. SessionAdd(e) /\ AddKey(e) = <<s, n>>
    BY <1>1, <2>1, NoNewFlight
  <2>3. QED
    BY <2>2, InFlight DEF Gone
<1>4. QED
  BY <1>2, <1>3 DEF Gone

\* A step that touches no session, or the session s only, and registers nothing
\* new, is a step of the leases: s gives leases back, or leaves, or both.
LEMMA LeaseOfOne ==
    ASSUME BaseInv, BaseInv', ReclaimInv, ReclaimInv', PendingInv', McpNext, NEW s,
           ~shutdown, ~shutdown',
           \A t \in Sessions \ {s} : Gone(t)' => Gone(t),
           SessionConnsInUse' \subseteq SessionConnsInUse,
           \A l \in SessionConnsInUse \ SessionConnsInUse' : l[1] = s
    PROVE  Leases!LeaseNext
<1> DEFINE G == {t \in Sessions : Gone(t)}
<1>1. \A t \in Sessions : Gone(t) => Gone(t)'
  BY GoneKept
<1>4. CASE s \in Sessions /\ Gone(s)' /\ ~Gone(s)
  <2>1. G' = G \cup {s}
    BY <1>1, <1>4
  <2>2. \A l \in SessionConnsInUse : l \in SessionKeys
    BY DEF SessionConnsInUse
  <2>3. \A l \in SessionConnsInUse' : l \in SessionKeys /\ l[1] # s
    <3>1. \A n \in Names : <<s, n>> \notin SessionConnsInUse'
      BY <1>4, GoneDrainedNext
    <3>2. \A l \in SessionConnsInUse' : l \in SessionKeys
      BY DEF SessionConnsInUse
    <3>3. QED
      BY <3>1, <3>2 DEF SessionKeys
  <2>4. SessionConnsInUse' = {l \in SessionConnsInUse : l[1] # s}
    BY <2>3
  <2>5. Leases!GiveBackAndLeave(s)
    BY <2>1, <2>4 DEF Leases!GiveBackAndLeave
  <2>6. QED
    BY <1>4, <2>5 DEF Leases!LeaseNext
<1>5. CASE ~(s \in Sessions /\ Gone(s)' /\ ~Gone(s))
  <2>1. G' = G
    BY <1>1, <1>5
  <2>2. Leases!GiveBack
    BY <2>1 DEF Leases!GiveBack
  <2>3. QED
    BY <2>2 DEF Leases!LeaseNext
<1>6. QED
  BY <1>4, <1>5

\* A call's step concerns no session but its own.
LEMMA OthersGone ==
    ASSUME BaseInv, NEW c \in ToolCalls, Arrive(c) \/ CallStep(c), NEW t \in Sessions \ {sc[c]}, Gone(t)'
    PROVE  Gone(t)
<1>1. cleanup[t] = "removing" /\ doomed[t] = {}
  <2>1. cleanup'[t] = "removing" /\ doomed'[t] = {} /\ SessionTypes
    BY DEF Gone, BaseInv, McpTypeOK, SessionTypes
  <2>2. CASE Arrive(c)
    BY <2>1, <2>2 DEF Arrive, ArriveStdio, ArriveKnown, ArriveNew, SessionTypes, sessionVars
  <2>3. CASE CallStep(c)
    BY <2>1, <2>3
    DEF CallStep, Pin, Statement, SwitchProcessWide, SwitchProcessWideFails, Resolve, Check,
        SetSessionActive, AddRejected, AddValid, ReserveInSession, BeginAdd, ContinueAdd, AddReturns,
        CheckClosed, ReleaseInSession, RemoveAdded, sessionVars
  <2>4. QED
    BY <2>2, <2>3
<1>2. ASSUME NEW n \in Names, InFlightFor(t, n)
      PROVE  InFlightFor(t, n)'
  <2>1. PICK e \in ToolCalls : AddInFlight(e) /\ sc[e] = t /\ arg[e] = n
    BY <1>2 DEF InFlightFor
  <2>2. SameCall(e)
    BY <2>1, OthersSame DEF BaseInv
  <2>3. AddInFlight(e)' /\ sc'[e] = t /\ arg'[e] = n
    BY <2>1, <2>2 DEF AddInFlight, SameCall
  <2>4. QED
    BY <2>3 DEF InFlightFor
<1>3. QED
  BY <1>1, <1>2 DEF Gone

\* The two modules count alike.
LEMMA SameCardinality == ASSUME NEW S PROVE Leases!Cardinality(S) = Cardinality(S)
  BY DEF Leases!Cardinality, Cardinality

\* Reserving a session's key is the acquisition of a lease.
LEMMA ReserveAcquires ==
    ASSUME BaseInv, BaseInv', ReclaimInv, CapInv, McpNext, ~shutdown, ~shutdown',
           NEW c \in ToolCalls, BeginAdd(c), ReserveAdd(c, AddKey(c)), sc[c] # None
    PROVE  Leases!LeaseNext
<1>a. PICK s, n : s = sc[c] /\ n = arg[c]
  OBVIOUS
<1>0. SessionAdd(c) /\ step[c] = "begin" /\ CallTypes
  BY DEF BeginAdd, SessionAdd, AddInFlight, BaseInv, CallInv, CallOK, AddSteps, McpTypeOK, CallTypes
<1>1. AddKey(c) = <<s, n>> /\ <<s, n>> \in SessionKeys /\ s \in Sessions /\ n \in Names
  BY <1>0, <1>a, FlightKey
<1>2. SessionConnsInUse' = SessionConnsInUse \cup {<<s, n>>}
  BY <1>1 DEF ReserveAdd, ReservationsWith, SessionConnsInUse, Has, maps
<1>3. <<s, n>> \notin SessionConnsInUse
  BY <1>1 DEF ReserveAdd, NameFree, SessionConnsInUse
<1>4. Cardinality(SessionConnsInUse) < MaxTotal
  <2>1. Cardinality(SessionConnsInUse) \in Nat
    BY FS_CardinalityType DEF CapInv
  <2>2. QED
    BY <1>1, <2>1, LimitAssumption DEF ReserveAdd, OverCap, IsSessionConnKey, SessionConnCount
<1>5. ~Gone(s) /\ ~Gone(s)'
  <2>1. step'[c] = "adding" /\ tool'[c] = tool[c] /\ sc'[c] = sc[c] /\ arg'[c] = arg[c]
    BY <1>0 DEF BeginAdd, Goto, CallTypes
  <2>2. AddInFlight(c)'
    BY <1>0, <2>1 DEF SessionAdd, AddInFlight
  <2>3. InFlightFor(s, n)
    BY <1>0, <1>a DEF SessionAdd, InFlightFor
  <2>4. \E e \in ToolCalls : AddInFlight(e)' /\ sc'[e] = s /\ arg'[e] = n
    BY <1>a, <2>1, <2>2
  <2>5. \E m \in Names : InFlightFor(s, m)
    BY <1>1, <2>3
  <2>6. QED
    BY <1>1, <2>1, <2>4, <2>5 DEF Gone, InFlightFor
<1>6. \A t \in Sessions : Gone(t)' <=> Gone(t)
  <2>1. CallStep(c)
    BY DEF CallStep
  <2>2. QED
    BY <1>5, <1>a, <2>1, OthersGone, GoneKept
<1>7. {t \in Sessions : Gone(t)}' = {t \in Sessions : Gone(t)}
  BY <1>6
<1>8. Leases!Acquire(s, n)
  <2>1. (IF shutdown THEN {} ELSE SessionConnsInUse) = SessionConnsInUse
    OBVIOUS
  <2>2. (IF shutdown THEN {} ELSE SessionConnsInUse)' = SessionConnsInUse'
    OBVIOUS
  <2>3. s \notin {t \in Sessions : Gone(t)}
    BY <1>5
  <2>4. QED
    BY <1>2, <1>3, <1>4, <1>7, <2>1, <2>2, <2>3, SameCardinality DEF Leases!Acquire
<1>9. QED
  BY <1>1, <1>8 DEF Leases!LeaseNext

\* The add that a call makes for its session, and what it does to the leases.
LEMMA ContinueLeases ==
    ASSUME BaseInv, RegistryInv, ~shutdown, NEW c \in ToolCalls, ContinueAdd(c)
    PROVE  /\ SessionConnsInUse' \subseteq SessionConnsInUse
           /\ \A l \in SessionConnsInUse \ SessionConnsInUse' : l[1] = sc[c]
<1>1. TypeOK /\ CallTypes /\ c \in Calls /\ AddStep(c) /\ AddOK(c)
  BY McpAssumption DEF BaseInv, McpTypeOK, CallTypes, StartupTypeOK, ContinueAdd, AddInv
<1>2. ~replace[c] /\ key[c] = AddKey(c) /\ arg[c] \in Names /\ sc[c] \in Sessions \cup {None}
  BY <1>1, AddStepEffect DEF AddOK, CallTypes
<1>3. /\ key[c] \in Keys
      /\ sc[c] = None => key[c] \notin SessionKeys
      /\ sc[c] # None => key[c] = <<sc[c], arg[c]>>
  BY <1>2, AddKeyFacts
<1>4. CASE Registers(c)
  <2>1. key[c] \in pendingAdds
    BY <1>1, <1>2, <1>4 DEF Registers, RegistryInv, ReservationInv, HoldsReservation
  <2>2. SessionConnsInUse' = SessionConnsInUse
    BY <1>1, <1>3, <1>4, <2>1, KeysAssumption DEF Registers, SessionConnsInUse, Has, TypeOK, Keys
  <2>3. QED
    BY <2>2
<1>5. CASE MovesOn(c)
  <2>1. connections' = connections /\ (pendingAdds' = pendingAdds \/ pendingAdds' = pendingAdds \ {key[c]})
    BY <1>5 DEF MovesOn
  <2>2. SessionConnsInUse' \subseteq SessionConnsInUse /\ SessionConnsInUse \ SessionConnsInUse' \subseteq {key[c]}
    BY <2>1 DEF SessionConnsInUse, Has
  <2>3. SessionConnsInUse \subseteq SessionKeys
    BY DEF SessionConnsInUse
  <2>4. QED
    BY <1>3, <2>2, <2>3
<1>6. QED
  BY <1>1, <1>4, <1>5, AddStepEffect

\* Removing a key takes nothing but that key.
LEMMA RemoveLeases ==
    ASSUME TypeOK, NEW k \in SessionKeys, RemoveIfPresent(k)
    PROVE  /\ SessionConnsInUse' \subseteq SessionConnsInUse
           /\ SessionConnsInUse \ SessionConnsInUse' \subseteq {k}
<1>1. connections' = [connections EXCEPT ![k] = None] /\ pendingAdds' = pendingAdds
  BY RemoveEffect DEF Keys
<1>2. QED
  BY <1>1 DEF SessionConnsInUse, Has, TypeOK, Keys

\* Main's steps are not steps of the leases, except that the exit of the process
\* gives all of them back.
LEMMA MainLeases ==
    ASSUME BaseInv, BaseInv', RegistryInv, ExitInv, ExitInv', Main
    PROVE  Leases!LeaseNext
<1> USE DEF maps, handles, args
<1>0. /\ TypeOK /\ ToolCalls \subseteq Calls /\ conf \in Configurations
      /\ \A e \in Calls \ ToolCalls : pc[e] # "idle" => key[e] \in Names
  BY McpAssumption DEF BaseInv, McpTypeOK, StartupTypeOK, AddInv
<1>1. {t \in Sessions : Gone(t)}' = {t \in Sessions : Gone(t)}
  BY DEF Main, sessionVars, callVars, Gone, InFlightFor, AddInFlight
<1>2. CASE phase' \in {"fatal", "exited"}
  BY <1>1, <1>2 DEF ExitInv, Leases!LeaseNext, Leases!GiveBack
<1>3. CASE phase' \notin {"fatal", "exited"}
  <2>1. phase \notin {"fatal", "exited"}
    BY DEF Main, StartupStep, AddConfigured, AddConfiguredStep, StartServing, FailStartup, Exit
  <2>2. ~shutdown /\ ~shutdown'
    BY <1>3, <2>1 DEF ExitInv
  <2>3. \A k \in SessionKeys : k \in pendingAdds' => k \in pendingAdds
    <3>1. ASSUME NEW i \in DOMAIN conf, AddConfigured(i) \/ AddConfiguredStep(i)
          PROVE  pendingAdds' \subseteq pendingAdds
      BY <1>0, <3>1, EntryFacts, AddStepEffect
      DEF AddConfigured, AddConfiguredStep, BeginReplace, Registers, MovesOn
    <3>2. QED
      BY <1>3, <3>1 DEF Main, StartupStep, StartServing, FailStartup, Exit, cmVars
  <2>4. SessionConnsInUse' \subseteq SessionConnsInUse
    BY <2>3, MainAdds DEF SessionConnsInUse, Has
  <2>5. QED
    BY <1>1, <2>2, <2>4 DEF Leases!LeaseNext, Leases!GiveBack
<1>4. QED
  BY <1>2, <1>3

\* Every step of the server is a step of the leases, or none.
LEMMA LeaseStep ==
    /\ BaseInv /\ ReclaimInv /\ RegistryInv /\ ExitInv
    /\ (BaseInv /\ ReclaimInv /\ RegistryInv /\ ExitInv)'
    /\ [McpNext]_vars
    => [Leases!LeaseNext]_(Leases!leaseVars)
<1> SUFFICES ASSUME BaseInv, ReclaimInv, RegistryInv, ExitInv, BaseInv', ReclaimInv', RegistryInv',
                    ExitInv', [McpNext]_vars
             PROVE  [Leases!LeaseNext]_(Leases!leaseVars)
  OBVIOUS
<1> USE DEF maps, handles, args
<1>0. TypeOK /\ StartupTypeOK /\ CapInv /\ PendingInv /\ PendingInv'
  BY DEF BaseInv, McpTypeOK, StartupTypeOK, RegistryInv
<1>1. CASE UNCHANGED vars
  BY <1>1
  DEF vars, cmVars, sessionVars, callVars, Leases!leaseVars, SessionConnsInUse, Has, Gone,
      InFlightFor, AddInFlight
<1>2. CASE Main
  BY <1>2, MainLeases
<1>3. CASE McpNext /\ ~Main
  <2>1. phase = "serving" /\ phase' = "serving"
    BY <1>0, <1>3, PhaseStep
  <2>2. ~shutdown /\ ~shutdown'
    BY <2>1 DEF ExitInv
  <2>3. ASSUME NEW c \in ToolCalls, Arrive(c) \/ CallStep(c)
        PROVE  Leases!LeaseNext
    <3>1. \A t \in Sessions \ {sc[c]} : Gone(t)' => Gone(t)
      BY <2>3, OthersGone
    <3>2. CASE BeginAdd(c) /\ ReserveAdd(c, AddKey(c)) /\ sc[c] # None
      BY <1>0, <1>3, <2>2, <3>2, ReserveAcquires
    <3>3. CASE BeginAdd(c) /\ ReserveAdd(c, AddKey(c)) /\ sc[c] = None
      <4>1. AddKey(c) \notin SessionKeys
        BY <3>3, KeysAssumption DEF BeginAdd, BaseInv, CallInv, CallOK, AddSteps, AddInFlight, AddKey
      <4>2. SessionConnsInUse' = SessionConnsInUse
        BY <3>3, <4>1 DEF ReserveAdd, ReservationsWith, SessionConnsInUse, Has
      <4>3. QED
        BY <1>0, <1>3, <2>2, <3>1, <4>2, LeaseOfOne
    <3>4. CASE ContinueAdd(c)
      BY <1>0, <1>3, <2>2, <3>1, <3>4, ContinueLeases, LeaseOfOne
    <3>5. CASE RemoveAdded(c)
      <4>1. AddKey(c) \in SessionKeys /\ AddKey(c)[1] = sc[c] /\ RemoveIfPresent(AddKey(c))
        BY <3>5, RemovedKey DEF RemoveAdded
      <4>2. PICK k \in SessionKeys : k = AddKey(c)
        BY <4>1
      <4>3. /\ SessionConnsInUse' \subseteq SessionConnsInUse
            /\ SessionConnsInUse \ SessionConnsInUse' \subseteq {k}
        BY <1>0, <4>1, <4>2, RemoveLeases
      <4>4. QED
        BY <1>0, <1>3, <2>2, <3>1, <4>1, <4>2, <4>3, LeaseOfOne
    <3>6. CASE ~(BeginAdd(c) /\ ReserveAdd(c, AddKey(c))) /\ ~ContinueAdd(c) /\ ~RemoveAdded(c)
      <4>1. connections' = connections /\ pendingAdds' = pendingAdds
        BY <2>3, <3>6
        DEF Arrive, ArriveStdio, ArriveKnown, ArriveNew, CallStep, Pin, Statement,
            SwitchProcessWide, SetActive, SwitchProcessWideFails, Resolve, Check, SetSessionActive,
            AddRejected, AddValid, ReserveInSession, BeginAdd, RefuseAdd, AddReturns, CheckClosed,
            ReleaseInSession, cmVars
      <4>2. SessionConnsInUse' = SessionConnsInUse
        BY <4>1 DEF SessionConnsInUse, Has
      <4>3. QED
        BY <1>0, <1>3, <2>2, <3>1, <4>2, LeaseOfOne
    <3>7. QED
      BY <3>2, <3>3, <3>4, <3>5, <3>6
  <2>4. ASSUME NEW s \in Sessions, CleanupStep(s)
        PROVE  Leases!LeaseNext
    <3>1. \A t \in Sessions \ {s} : Gone(t)' => Gone(t)
      <4>1. SessionTypes /\ step' = step /\ tool' = tool /\ arg' = arg /\ sc' = sc
        BY <2>4
        DEF CleanupStep, ForgetSession, CloseSession, RemoveDoomed, callVars, BaseInv, McpTypeOK,
            SessionTypes
      <4>2. \A t \in Sessions \ {s} : cleanup'[t] = cleanup[t] /\ doomed'[t] = doomed[t]
        BY <2>4, <4>1 DEF CleanupStep, ForgetSession, CloseSession, RemoveDoomed, SessionTypes
      <4>3. QED
        BY <4>1, <4>2 DEF Gone, InFlightFor, AddInFlight
    <3>2. CASE RemoveDoomed(s)
      <4>1. PICK k \in doomed[s] : RemoveIfPresent(k)
        BY <3>2 DEF RemoveDoomed
      <4>2. k \in SessionKeys /\ k[1] = s
        BY DEF BaseInv, McpTypeOK, ReclaimInv, SessionInv
      <4>3. /\ SessionConnsInUse' \subseteq SessionConnsInUse
            /\ SessionConnsInUse \ SessionConnsInUse' \subseteq {k}
        BY <1>0, <4>1, <4>2, RemoveLeases
      <4>4. QED
        BY <1>0, <1>3, <2>2, <3>1, <4>2, <4>3, LeaseOfOne
    <3>3. CASE ForgetSession(s) \/ CloseSession(s)
      <4>1. SessionConnsInUse' = SessionConnsInUse
        BY <3>3 DEF ForgetSession, CloseSession, cmVars, SessionConnsInUse, Has
      <4>2. QED
        BY <1>0, <1>3, <2>2, <3>1, <4>1, LeaseOfOne
    <3>4. QED
      BY <2>4, <3>2, <3>3 DEF CleanupStep
  <2>5. ASSUME (\E cl \in Clients : SessionEnds(cl)) \/ (\E k \in Keys : PackGone(k))
        PROVE  Leases!LeaseNext
    <3>1. SessionConnsInUse' = SessionConnsInUse
      BY <2>5 DEF SessionEnds, PackGone, DropToolPack, cmVars, SessionConnsInUse, Has
    <3>2. \A t \in Sessions : Gone(t)' = Gone(t)
      BY <2>5 DEF SessionEnds, PackGone, sessionVars, callVars, Gone, InFlightFor, AddInFlight
    <3>3. QED
      BY <1>0, <1>3, <2>2, <3>1, <3>2, LeaseOfOne
  <2>6. QED
    BY <1>3, <2>3, <2>4, <2>5 DEF McpNext
<1>4. QED
  BY <1>1, <1>2, <1>3

\* The server implements the lease discipline: the connections of MCP sessions
\* are leases out of one budget, and a session that is gone has none and never
\* gets another one.
THEOREM LeasesCorrect == McpSpec => ImplementsLeases
<1>1. Init => Leases!LeaseInit
  BY KeysAssumption
  DEF Init, StartupInit, NewConnectionManager, Leases!LeaseInit, SessionConnsInUse, Has, Gone, Keys
<1>2. QED
  BY <1>1, LeaseStep, BaseHeld, ReclaimHeld, RegistryHeld, ExitHeld, PTL
  DEF McpSpec, ImplementsLeases, Leases!LeaseSpec

-----------------------------------------------------------------------------
(* The startup of the server.                                              *)

\* Until the server serves, every step is one of the startup.
LEMMA McpBootHeld == McpSpec => []BootInv
<1>1. Init => BootInv
  <2> SUFFICES ASSUME Init PROVE BootInv
    OBVIOUS
  <2>1. \A i \in DOMAIN conf : i \in Calls
    BY EntryTypes DEF Init, StartupInit
  <2>2. QED
    BY <2>1 DEF Init, StartupInit, NewConnectionManager, BootInv, EntryOK, Busy, DefaultOK, Succeeded
<1>2. BaseInv /\ BootInv /\ [McpNext]_vars => BootInv'
  <2> SUFFICES ASSUME BaseInv, BootInv, [McpNext]_vars PROVE BootInv'
    OBVIOUS
  <2>0. StartupTypeOK
    BY DEF BaseInv, McpTypeOK
  <2>1. CASE McpNext /\ phase = "starting"
    BY <2>0, <2>1, PhaseStep, StartupPhase, BootStep DEF Main
  <2>2. CASE McpNext /\ phase # "starting"
    BY <2>0, <2>2, PhaseStep DEF BootInv
  <2>3. CASE UNCHANGED vars
    BY <2>3
    DEF vars, cmVars, bootVars, BootInv, EntryOK, Busy, LastSoFar, Reached, DefaultOK, DistinctNames,
        Succeeded, FirstSuccess
  <2>4. QED
    BY <2>1, <2>2, <2>3
<1>3. QED
  BY <1>1, <1>2, BaseHeld, PTL DEF McpSpec

\* The step that ends the startup of the server.
LEMMA McpStartupEnds ==
    ASSUME BaseInv, BootInv, [McpNext]_vars, phase = "starting", phase' # "starting"
    PROVE  StartServing \/ FailStartup
<1>1. StartupTypeOK
  BY DEF BaseInv, McpTypeOK
<1>2. McpNext
  BY DEF vars, bootVars
<1>3. Main
  BY <1>1, <1>2, PhaseStep
<1>4. QED
  BY <1>1, <1>3, StartupPhase DEF Main

\* In the composed server too, a name that is configured twice never serves the
\* pool of an entry a later one has replaced.
THEOREM LastEntryCorrect == McpSpec => LastEntryWins
<1>1. BaseInv /\ BootInv /\ [McpNext]_vars =>
        [phase' = "serving" /\ phase # "serving" =>
           \A i \in DOMAIN conf : NewestRegistered(i)]_startVars
  <2> SUFFICES ASSUME BaseInv, BootInv, [McpNext]_vars, phase' = "serving", phase # "serving"
               PROVE  \A i \in DOMAIN conf : NewestRegistered(i)
    OBVIOUS
  <2>1. StartupTypeOK /\ phase = "starting"
    BY PhaseStep
    DEF BaseInv, McpTypeOK, vars, bootVars, Main, StartupStep, AddConfigured, AddConfiguredStep,
        StartServing, FailStartup, Exit
  <2>2. QED
    BY <2>1, McpStartupEnds, StartupEnds
<1>2. QED
  BY <1>1, BaseHeld, McpBootHeld, PTL DEF McpSpec, LastEntryWins, NewestRegistered

\* With distinct names, the default connection of a server that starts is the
\* first configured one that could be opened, and startup fails only if none
\* could.
THEOREM FirstSuccessCorrect == McpSpec => FirstSuccessIsDefault
<1>1. BaseInv /\ BootInv /\ [McpNext]_vars =>
        [DistinctNames /\ phase = "starting" =>
           /\ phase' = "serving" =>
                \E i \in DOMAIN conf : FirstSuccess(i) /\ activeConn = conf[i]
           /\ phase' = "fatal" => \A i \in DOMAIN conf : ~Succeeded(i)]_startVars
  BY McpStartupEnds, StartupEnds DEF BaseInv, McpTypeOK
<1>2. QED
  BY <1>1, BaseHeld, McpBootHeld, PTL DEF McpSpec, FirstSuccessIsDefault

=============================================================================
