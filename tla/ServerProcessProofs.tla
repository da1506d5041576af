------------------------- MODULE ServerProcessProofs -------------------------
(***************************************************************************)
(* Theorems about ServerProcess, for every set of worlds and requests and  *)
(* all timeouts that satisfy TimerAssumption.                              *)
(***************************************************************************)
EXTENDS ServerProcess, TLAPS

States == {"idle", "body", "drain", "run", "failed", "cut"}

\* A request is a record of this form.
RequestInv ==
    req \in [Requests -> [st : States, stream : BOOLEAN, age : Nat,
                          ran : Nat, deadline : BOOLEAN]]

\* Requests are in progress only while the process serves HTTP.
ServingInv ==
    \A r \in Requests : Active(r) => phase \in {"serving", "draining"} /\ mode # "stdio"

\* Whoever waits for a body has a read deadline, which has not passed
\* unnoticed; an MCP handler at work has none.
DeadlineInv ==
    \A r \in Requests :
       /\ req[r].st \in {"body", "drain"} => req[r].deadline /\ req[r].age <= ReadLimit
       /\ mode = "mcp" /\ req[r].st = "run" => ~req[r].deadline

\* The shutdown timers.
SignalInv ==
    /\ sig \in Nat
    /\ phase \notin {"draining", "exited"} => sig = 0 /\ ~base
    /\ base => mode = "mcp" /\ sig >= Grace
    /\ phase = "draining" =>
          sig <= (IF mode = "mcp" THEN Grace + ForceWait ELSE ShutdownTimeout)

ProcessInv == RequestInv /\ ServingInv /\ DeadlineInv /\ SignalInv

\* The timeouts are positive numbers.
LEMMA Timers ==
    /\ Grace \in Nat /\ ForceWait \in Nat /\ BodyTimeout \in Nat /\ ShutdownTimeout \in Nat
    /\ ReadTimeout \in Nat /\ Slack \in Nat
    /\ ReadLimit \in Nat
    /\ Grace + ForceWait < ShutdownTimeout
  BY TimerAssumption DEF ReadLimit

\* An idle request is a request.
LEMMA QuietType ==
    /\ Quiet \in [st : States, stream : BOOLEAN, age : Nat, ran : Nat,
                  deadline : BOOLEAN]
    /\ [Quiet EXCEPT !.st = "cut"] \in
          [st : States, stream : BOOLEAN, age : Nat, ran : Nat,
           deadline : BOOLEAN]
    /\ [Quiet EXCEPT !.st = "failed"] \in
          [st : States, stream : BOOLEAN, age : Nat, ran : Nat, deadline : BOOLEAN]
    /\ Quiet.st = "idle" /\ [Quiet EXCEPT !.st = "cut"].st = "cut"
    /\ [Quiet EXCEPT !.st = "failed"].st = "failed"
    /\ [Quiet EXCEPT !.st = "idle"] = Quiet
<1>1. Quiet = [st |-> "idle", stream |-> FALSE, age |-> 0, ran |-> 0, deadline |-> FALSE]
  BY DEF Quiet
<1>2. [Quiet EXCEPT !.st = "idle"] = Quiet
  BY <1>1
<1> QED
  BY <1>1, <1>2 DEF States

\* The forms of a request that is over.
Over == {Quiet, [Quiet EXCEPT !.st = "cut"], [Quiet EXCEPT !.st = "failed"]}

\* When there is a read deadline.
LEMMA DeadlineValue ==
    ASSUME NEW r, NEW st \in {"body", "drain", "run"}
    PROVE  /\ Deadline(r, st) \in BOOLEAN
           /\ st \in {"body", "drain"} => Deadline(r, st)
           /\ mode = "mcp" /\ st = "run" => ~Deadline(r, st)
<1>1. CASE mode = "mcp"
  <2>1. Deadline(r, st) = (st \in {"body", "drain"})
    BY <1>1, Zenon DEF Deadline
  <2>2. (st \in {"body", "drain"}) \in BOOLEAN
    OBVIOUS
  <2>3. Deadline(r, st) \in BOOLEAN
    BY <2>1, <2>2, Zenon
  <2>4. st = "run" => st \notin {"body", "drain"}
    OBVIOUS
  <2> QED
    BY <2>1, <2>3, <2>4, Zenon
<1>2. CASE mode # "mcp"
  <2>1. Deadline(r, st) = (st # "idle")
    BY <1>2, Zenon DEF Deadline
  <2> QED
    BY <1>2, <2>1
<1> QED
  BY <1>1, <1>2

\* The process starts without requests.
LEMMA InitProcess == Init => ProcessInv
<1> SUFFICES ASSUME Init PROVE ProcessInv
  OBVIOUS
<1>1. RequestInv
  BY QuietType DEF Init, RequestInv
<1>2. \A r \in Requests : req[r].st = "idle"
  BY QuietType DEF Init
<1>3. SignalInv
  BY Timers DEF Init, SignalInv
<1> QED
  BY <1>1, <1>2, <1>3 DEF ProcessInv, ServingInv, DeadlineInv, Active

-----------------------------------------------------------------------------
(* One request changes.                                                    *)

\* If one request of a serving process ends, or goes on in good order, the
\* invariant stays.
LEMMA OneRequest ==
    ASSUME ProcessInv, NEW r \in Requests, NEW q,
           req' = [req EXCEPT ![r] = q], UNCHANGED <<procVars, sig, base>>,
           q \in [st : States, stream : BOOLEAN, age : Nat, ran : Nat,
                  deadline : BOOLEAN],
           q.st \in {"body", "drain", "run"} =>
              phase \in {"serving", "draining"} /\ mode # "stdio",
           q.st \in {"body", "drain"} => q.deadline /\ q.age <= ReadLimit,
           mode = "mcp" /\ q.st = "run" => ~q.deadline
    PROVE  ProcessInv'
<1>1. RequestInv'
  BY DEF ProcessInv, RequestInv
<1>2. /\ req'[r] = q
      /\ \A s \in Requests \ {r} : req'[s] = req[s]
  BY DEF ProcessInv, RequestInv
<1>3. phase' = phase /\ mode' = mode /\ ReadLimit' = ReadLimit
  BY DEF procVars, ReadLimit
<1>4. ServingInv'
  BY <1>2, <1>3 DEF ProcessInv, ServingInv, Active
<1>5. DeadlineInv'
  BY <1>2, <1>3 DEF ProcessInv, DeadlineInv
<1>6. SignalInv'
  BY <1>3 DEF ProcessInv, SignalInv
<1> QED
  BY <1>1, <1>4, <1>5, <1>6 DEF ProcessInv

\* In particular if it ends.
LEMMA OneEnds ==
    ASSUME ProcessInv, NEW r \in Requests,
           NEW q \in Over,
           req' = [req EXCEPT ![r] = q], UNCHANGED <<procVars, sig, base>>
    PROVE  ProcessInv'
<1>1. q.st \in {"idle", "failed", "cut"}
  BY QuietType DEF Over
<1>2. q \in [st : States, stream : BOOLEAN, age : Nat, ran : Nat,
             deadline : BOOLEAN]
  BY QuietType DEF Over
<1> HIDE DEF Quiet
<1> QED
  BY <1>1, <1>2, OneRequest

\* A handler that returns leaves its request answered or cut.
LEMMA EndsType ==
    ASSUME NEW r \in Requests, NEW st \in {"idle", "failed"}
    PROVE  Ends(r, st) \in Over /\ Ends(r, st).st \in {st, "cut"}
<1>1. CASE mode = "rest" /\ req[r].age > WriteTimeout
  BY <1>1, QuietType, Zenon DEF Ends, Over
<1>2. CASE ~(mode = "rest" /\ req[r].age > WriteTimeout)
  BY <1>2, QuietType, Zenon DEF Ends, Over
<1> QED
  BY <1>1, <1>2

-----------------------------------------------------------------------------
(* The process goes on, or exits.                                          *)

\* Exit leaves no request in progress.
LEMMA ExitStep ==
    ASSUME ProcessInv, NEW c, Exit(c)
    PROVE  ProcessInv'
<1>1. RequestInv'
  BY DEF ProcessInv, RequestInv, Exit, States
<1>2. \A r \in Requests : req'[r].st \in {"idle", "failed", "cut"}
  BY DEF ProcessInv, RequestInv, Exit
<1>3. ServingInv' /\ DeadlineInv'
  BY <1>2 DEF ServingInv, DeadlineInv, Active
<1>4. SignalInv'
  BY DEF ProcessInv, SignalInv, Exit
<1> QED
  BY <1>1, <1>3, <1>4 DEF ProcessInv

\* The steps before serving change no request, and there is none.
LEMMA BeforeServing ==
    ASSUME ProcessInv, UNCHANGED httpVars,
           phase \in {"start", "loaded", "ready"},
           phase' \in {"start", "loaded", "ready", "serving"}
    PROVE  ProcessInv'
<1>1. req' = req /\ sig' = sig /\ base' = base
  BY DEF httpVars
<1>2. \A r \in Requests : ~Active(r)
  BY DEF ProcessInv, ServingInv
<1>3. RequestInv'
  BY <1>1 DEF ProcessInv, RequestInv
<1>4. ServingInv' /\ DeadlineInv'
  BY <1>1, <1>2 DEF ServingInv, DeadlineInv, Active
<1>5. SignalInv'
  BY <1>1 DEF ProcessInv, SignalInv
<1> QED
  BY <1>3, <1>4, <1>5 DEF ProcessInv

\* Time passes, since no timer is due.
LEMMA TickStep ==
    ASSUME ProcessInv, Tick
    PROVE  ProcessInv'
<1>1. /\ phase' = phase /\ mode' = mode /\ base' = base /\ ReadLimit' = ReadLimit
  BY DEF Tick, procVars, ReadLimit
<1>2. ASSUME NEW r \in Requests
      PROVE  /\ req'[r] \in [st : States, stream : BOOLEAN, age : Nat,
                             ran : Nat, deadline : BOOLEAN]
             /\ req'[r].st = req[r].st /\ req'[r].deadline = req[r].deadline
             /\ req'[r].age = IF Active(r) /\ req[r].deadline
                              THEN req[r].age + 1 ELSE req[r].age
  <2>1. req[r] \in [st : States, stream : BOOLEAN, age : Nat,
                    ran : Nat, deadline : BOOLEAN]
    BY DEF ProcessInv, RequestInv
  <2> DEFINE age == IF Active(r) /\ req[r].deadline THEN req[r].age + 1 ELSE req[r].age
             ran == IF mode = "rest" /\ req[r].st = "run"
                    THEN req[r].ran + 1 ELSE req[r].ran
  <2>4. req'[r] = [req[r] EXCEPT !.age = age, !.ran = ran]
    BY DEF Tick
  <2>5. age \in Nat /\ ran \in Nat
    BY <2>1
  <2>6. req'[r].age = age
    <3> HIDE DEF age, ran
    <3> QED
      BY <2>1, <2>4
  <2>7. /\ req'[r] \in [st : States, stream : BOOLEAN, age : Nat,
                        ran : Nat, deadline : BOOLEAN]
        /\ req'[r].st = req[r].st /\ req'[r].deadline = req[r].deadline
    <3> HIDE DEF age, ran
    <3> QED
      BY <2>1, <2>4, <2>5
  <2> QED
    BY <2>6, <2>7
<1>3. RequestInv'
  <2>1. req' = [r \in Requests |-> req'[r]]
    BY DEF Tick
  <2> QED
    BY <1>2, <2>1 DEF RequestInv
<1>4. ServingInv'
  BY <1>1, <1>2 DEF ProcessInv, ServingInv, Active
<1>5. DeadlineInv'
  <2> SUFFICES ASSUME NEW r \in Requests
               PROVE  /\ req'[r].st \in {"body", "drain"} =>
                           req'[r].deadline /\ req'[r].age <= ReadLimit
                      /\ mode = "mcp" /\ req'[r].st = "run" => ~req'[r].deadline
    BY <1>1 DEF DeadlineInv
  <2>1. ~DeadlineDue(r)
    BY DEF Tick
  <2>2. req[r].age \in Nat
    BY DEF ProcessInv, RequestInv
  <2> QED
    BY <1>2, <2>1, <2>2, Timers DEF ProcessInv, DeadlineInv, DeadlineDue, Active
<1>6. SignalInv'
  <2>1. CASE phase = "draining"
    <3>1. ~ShutdownDue /\ ~GraceDue /\ ~(ForceDue /\ \E r \in Requests : Active(r))
      BY DEF Tick
    <3>2. (\E r \in Requests : Active(r)) /\ ~(sig >= ShutdownTimeout)
      BY <2>1, <3>1 DEF ShutdownDue
    <3>3. mode = "mcp" => ~(sig >= Grace + ForceWait)
      BY <2>1, <3>1, <3>2, Timers DEF GraceDue, ForceDue, ProcessInv, SignalInv
    <3>4. sig' = sig + 1
      BY <2>1 DEF Tick
    <3> QED
      BY <1>1, <2>1, <3>2, <3>3, <3>4, Timers DEF ProcessInv, SignalInv
  <2>2. CASE phase # "draining"
    <3>1. sig' = sig /\ phase = "serving"
      BY <2>2 DEF Tick
    <3> QED
      BY <1>1, <3>1 DEF ProcessInv, SignalInv
  <2> QED
    BY <2>1, <2>2
<1> QED
  BY <1>3, <1>4, <1>5, <1>6 DEF ProcessInv

-----------------------------------------------------------------------------
(* Every step.                                                             *)

\* What happens to one request keeps the invariant.
LEMMA RequestStep ==
    ASSUME ProcessInv, NEW r \in Requests,
           \/ Arrive(r) \/ BodyArrives(r) \/ DeadlinePasses(r) \/ ContextExpires(r)
           \/ HandlerReturns(r) \/ ClientLeaves(r) \/ ContextCancelled(r)
    PROVE  ProcessInv'
<1>1. CASE Arrive(r)
  <2>1. PICK admitted, whole, stream \in BOOLEAN :
           LET st == CASE admitted /\ whole -> "run"
                       [] admitted /\ ~whole -> "body"
                       [] OTHER -> "drain"
           IN req' = [req EXCEPT ![r] =
                        [Quiet EXCEPT !.st = st, !.stream = stream,
                                      !.deadline = Deadline(r, st)]]
    BY <1>1 DEF Arrive
  <2> DEFINE st == CASE admitted /\ whole -> "run"
                     [] admitted /\ ~whole -> "body"
                     [] OTHER -> "drain"
             q == [Quiet EXCEPT !.st = st, !.stream = stream,
                                !.deadline = Deadline(r, st)]
  <2>2. st \in {"run", "body", "drain"}
    OBVIOUS
  <2> HIDE DEF st
  <2>3. req' = [req EXCEPT ![r] = q]
    BY <2>1 DEF st
  <2>4. phase = "serving" /\ mode # "stdio" /\ UNCHANGED <<procVars, sig, base>>
    BY <1>1 DEF Arrive
  <2>5. PICK d \in BOOLEAN :
           /\ d = Deadline(r, st)
           /\ st \in {"body", "drain"} => d
           /\ mode = "mcp" /\ st = "run" => ~d
    BY <2>2, DeadlineValue, Zenon
  <2>6. q = [st |-> st, stream |-> stream, age |-> 0, ran |-> 0, deadline |-> d]
    <3>1. q = [Quiet EXCEPT !.st = st, !.stream = stream, !.deadline = d]
      BY <2>5, Zenon
    <3> HIDE DEF q
    <3> QED
      BY <3>1 DEF Quiet
  <2>7. /\ q \in [st : States, stream : BOOLEAN, age : Nat, ran : Nat,
                  deadline : BOOLEAN]
        /\ q.st = st /\ q.age = 0 /\ q.deadline = d
    <3> HIDE DEF q
    <3> QED
      BY <2>2, <2>6, Timers DEF States
  <2> HIDE DEF q
  <2>8. q \in [st : States, stream : BOOLEAN, age : Nat, ran : Nat,
               deadline : BOOLEAN]
    BY <2>7
  <2>9. /\ q.st \in {"body", "drain"} => q.deadline /\ q.age <= ReadLimit
        /\ mode = "mcp" /\ q.st = "run" => ~q.deadline
    BY <2>5, <2>7, Timers
  <2> QED
    BY <2>3, <2>4, <2>8, <2>9, OneRequest
<1>2. CASE BodyArrives(r)
  <2>1. UNCHANGED <<procVars, sig, base>>
    BY <1>2 DEF BodyArrives
  <2>2. CASE req[r].st = "body"
    <3> DEFINE q == Becomes(r, "run")
    <3>1. req' = [req EXCEPT ![r] = q]
      BY <1>2, <2>2 DEF BodyArrives
    <3>2. phase \in {"serving", "draining"} /\ mode # "stdio"
      BY <2>2 DEF ProcessInv, ServingInv, Active
    <3>3. req[r] \in [st : States, stream : BOOLEAN, age : Nat,
                      ran : Nat, deadline : BOOLEAN]
      BY DEF ProcessInv, RequestInv
    <3>4. Deadline(r, "run") \in BOOLEAN /\ (mode = "mcp" => ~Deadline(r, "run"))
      BY DeadlineValue
    <3>5. /\ q \in [st : States, stream : BOOLEAN, age : Nat,
                    ran : Nat, deadline : BOOLEAN]
          /\ q.st = "run" /\ q.deadline = Deadline(r, "run")
      BY <3>3, <3>4 DEF Becomes, States
    <3> HIDE DEF q
    <3> QED
      BY <2>1, <3>1, <3>2, <3>4, <3>5, OneRequest
  <2>3. CASE req[r].st # "body"
    BY <1>2, <2>1, <2>3, OneEnds DEF BodyArrives, Over
  <2> QED
    BY <2>2, <2>3
<1>3. CASE DeadlinePasses(r)
  <2>1. \E q \in Over : req' = [req EXCEPT ![r] = q]
    BY <1>3, EndsType DEF DeadlinePasses, Over
  <2> QED
    BY <1>3, <2>1, OneEnds DEF DeadlinePasses
<1>4. CASE HandlerReturns(r)
  BY <1>4, EndsType, OneEnds DEF HandlerReturns
<1>5. CASE ClientLeaves(r)
  BY <1>5, OneEnds DEF ClientLeaves, Over
<1>6. CASE ContextCancelled(r)
  BY <1>6, OneEnds DEF ContextCancelled, Over
<1>7. CASE ContextExpires(r)
  BY <1>7, EndsType, OneEnds DEF ContextExpires
<1> QED
  BY <1>1, <1>2, <1>3, <1>4, <1>5, <1>6, <1>7

\* So do the steps of Shutdown and of the functions registered for it.
LEMMA ShutdownStep ==
    ASSUME ProcessInv, Signal \/ CancelBase \/ CloseAll
    PROVE  ProcessInv'
<1>1. CASE Signal
  <2>1. phase = "serving" /\ phase' = "draining" /\ mode' = mode
        /\ req' = req /\ sig' = sig /\ base' = base
    BY <1>1 DEF Signal, httpVars
  <2>2. RequestInv' /\ ServingInv' /\ DeadlineInv'
    BY <2>1 DEF ProcessInv, RequestInv, ServingInv, DeadlineInv, Active, ReadLimit
  <2>3. SignalInv'
    BY <2>1, Timers DEF ProcessInv, SignalInv
  <2> QED
    BY <2>2, <2>3 DEF ProcessInv
<1>2. CASE CancelBase
  <2>1. phase' = phase /\ mode' = mode /\ req' = req /\ sig' = sig /\ base'
        /\ phase = "draining" /\ mode = "mcp" /\ sig >= Grace
    BY <1>2 DEF CancelBase, GraceDue, procVars
  <2>2. RequestInv' /\ ServingInv' /\ DeadlineInv'
    BY <2>1 DEF ProcessInv, RequestInv, ServingInv, DeadlineInv, Active, ReadLimit
  <2>3. SignalInv'
    BY <2>1 DEF ProcessInv, SignalInv
  <2> QED
    BY <2>2, <2>3 DEF ProcessInv
<1>3. CASE CloseAll
  <2>1. phase' = phase /\ mode' = mode /\ sig' = sig /\ base' = base
    BY <1>3 DEF CloseAll, procVars
  <2>2. RequestInv'
    <3> HIDE DEF Quiet
    <3> QED
      BY <1>3, QuietType DEF CloseAll, ProcessInv, RequestInv
  <2>3. \A r \in Requests : req'[r].st \notin {"body", "drain", "run"}
    BY <1>3, QuietType DEF CloseAll, Active
  <2>4. ServingInv' /\ DeadlineInv'
    BY <2>3 DEF ServingInv, DeadlineInv, Active
  <2>5. SignalInv'
    BY <2>1 DEF ProcessInv, SignalInv
  <2> QED
    BY <2>2, <2>4, <2>5 DEF ProcessInv
<1> QED
  BY <1>1, <1>2, <1>3

\* Every step of the process keeps the invariant.
LEMMA ProcessStep == ProcessInv /\ [ProcessNext]_allVars => ProcessInv'
<1> SUFFICES ASSUME ProcessInv, [ProcessNext]_allVars PROVE ProcessInv'
  OBVIOUS
<1>1. CASE MainExits \/ DaemonRefused \/ MainGivesUp \/ ListenFails \/ StdioEnds
           \/ ShutdownReturns
  <2>1. \E c : Exit(c)
    BY <1>1 DEF MainExits, DaemonRefused, MainGivesUp, ListenFails, StdioEnds,
                ShutdownReturns
  <2> QED
    BY <2>1, ExitStep
<1>2. CASE MainLoads \/ maybeDaemonize \/ PortTaken \/ MainInitialises \/ Serve
  <2>1. /\ UNCHANGED httpVars
        /\ phase \in {"start", "loaded", "ready"}
        /\ phase' \in {"start", "loaded", "ready", "serving"}
    BY <1>2 DEF MainLoads, maybeDaemonize, PortTaken, MainInitialises, Serve
  <2> QED
    BY <2>1, BeforeServing
<1>3. CASE \E r \in Requests :
              \/ Arrive(r) \/ BodyArrives(r) \/ DeadlinePasses(r) \/ ContextExpires(r)
              \/ HandlerReturns(r) \/ ClientLeaves(r) \/ ContextCancelled(r)
  BY <1>3, RequestStep
<1>4. CASE Signal \/ CancelBase \/ CloseAll
  BY <1>4, ShutdownStep
<1>5. CASE Tick
  BY <1>5, TickStep
<1>6. CASE UNCHANGED allVars
  <2>1. phase' = phase /\ mode' = mode /\ req' = req /\ sig' = sig /\ base' = base
    BY <1>6 DEF allVars, procVars, httpVars
  <2> QED
    BY <2>1 DEF ProcessInv, RequestInv, ServingInv, DeadlineInv, SignalInv, Active,
                ReadLimit
<1> QED
  BY <1>1, <1>2, <1>3, <1>4, <1>5, <1>6 DEF ProcessNext

-----------------------------------------------------------------------------
(* Theorems.                                                               *)

\* A stalled client is let go by the read deadline (withBodyReadDeadline,
\* ReadTimeout), and shutdown is over in time whatever the clients do.
THEOREM ClientsReleased == ProcessSpec => []NoClientHoldsServer
<1>1. ProcessInv => NoClientHoldsServer
  BY DEF ProcessInv, DeadlineInv, SignalInv, NoClientHoldsServer
<1> QED
  BY <1>1, InitProcess, ProcessStep, PTL DEF ProcessSpec

-----------------------------------------------------------------------------
(* The configuration.                                                      *)

\* A configuration has every setting.
LEMMA SettingsOf ==
    {"Transport", "HTTPMode", "MCPHTTPPath", "MCPHTTPAllowedOrigins", "MCPHTTPBind",
     "MCPHTTPTLSCert", "MCPHTTPTLSKey", "MCPHTTPAllowedHosts", "MCPHTTPToken",
     "MCPHTTPAllowInsecure", "TokenCard", "Connections", "HTTPRequestTimeout"} \subseteq Settings
  BY DEF Settings, Defaults

\* So has what the environment makes of it.
LEMMA OverriddenConfig ==
    ASSUME NEW start, NEW env
    PROVE  applyEnvOverrides(start, env)
              = [s \in Settings |-> applyEnvOverrides(start, env)[s]]
<1>1. Overridden(start, env) = [s \in Settings |-> Overridden(start, env)[s]]
  BY DEF Overridden
<1> QED
  BY <1>1 DEF applyEnvOverrides

\* Normalisation and connections leave that so.
LEMMA MergedConfig ==
    ASSUME NEW start, NEW env
    PROVE  Merged(start, env) = [s \in Settings |-> Merged(start, env)[s]]
<1> DEFINE over == applyEnvOverrides(start, env)
<1>1. over = [s \in Settings |-> over[s]]
  BY OverriddenConfig
<1>2. Merged(start, env) = WithEnvConnections(applyMCPHTTPDefaults(over), env)
  BY DEF Merged
<1> HIDE DEF over
<1>3. applyMCPHTTPDefaults(over) = [s \in Settings |-> applyMCPHTTPDefaults(over)[s]]
  BY <1>1 DEF applyMCPHTTPDefaults
<1> QED
  BY <1>2, <1>3 DEF WithEnvConnections

\* Load returns all settings, and a transport that ValidateTransport accepts.
LEMMA LoadedConfig ==
    ASSUME NEW flag, NEW env, NEW disk, NEW tokenFiles,
           LoadOK(flag, env, disk, tokenFiles)
    PROVE  /\ DOMAIN Load(flag, env, disk, tokenFiles) = Settings
           /\ Load(flag, env, disk, tokenFiles) =
                [s \in Settings |-> Load(flag, env, disk, tokenFiles)[s]]
           /\ ValidateTransport(Load(flag, env, disk, tokenFiles))
<1> DEFINE start == LoadBase(FindConfigFile(flag, env, disk), disk)
           merged == Merged(start, env)
           done == resolveMCPHTTPToken(merged, tokenFiles)
<1>1. Load(flag, env, disk, tokenFiles) = done
  BY Zenon DEF Load
<1>2. ValidateTransport(done)
  BY DEF LoadOK, Checks
<1>3. merged = [s \in Settings |-> merged[s]]
  BY MergedConfig
<1> HIDE DEF merged
<1>4. done = [s \in Settings |-> done[s]]
  BY <1>3 DEF resolveMCPHTTPToken
<1> HIDE DEF done
<1> QED
  BY <1>1, <1>2, <1>4

\* What is known of the configuration once it is loaded.
ConfigInv ==
    /\ phase \in {"start", "loaded"} => mode # "mcp"
    /\ phase \in {"loaded", "ready", "serving", "draining"} =>
          /\ cfg = [s \in Settings |-> cfg[s]]
          /\ ValidateTransport(cfg)
          /\ mode = "mcp" => cfg.Transport = "http"

\* Nothing that starts later changes what was validated.
LEMMA ConfigStep == ConfigInv /\ [ProcessNext]_allVars => ConfigInv'
<1> SUFFICES ASSUME ConfigInv, [ProcessNext]_allVars PROVE ConfigInv'
  OBVIOUS
<1>1. CASE \E c : Exit(c)
  BY <1>1 DEF Exit, ConfigInv
<1>2. CASE MainLoads
  <2>1. /\ phase = "start" /\ phase' = "loaded" /\ mode' = mode
        /\ \E f : LoadOK(f, world.env, world.files, world.tokenFiles)
                 /\ cfg' = Load(f, world.env, world.files, world.tokenFiles)
    BY <1>2 DEF MainLoads, Loaded
  <2>2. cfg' = [s \in Settings |-> cfg'[s]] /\ ValidateTransport(cfg')
    BY <2>1, LoadedConfig
  <2> QED
    BY <2>1, <2>2 DEF ConfigInv, ValidateTransport
<1>3. CASE maybeDaemonize
  BY <1>3 DEF maybeDaemonize, ConfigInv
<1>4. CASE MainInitialises
  <2>1. /\ phase = "loaded" /\ phase' = "ready"
        /\ \E b : cfg' = [cfg EXCEPT !.TokenCard = b]
        /\ mode' = "mcp" => cfg.Transport = "http"
    BY <1>4 DEF MainInitialises
  <2>2. cfg = [s \in Settings |-> cfg[s]] /\ ValidateTransport(cfg)
    BY <2>1 DEF ConfigInv
  <2>3. /\ cfg' = [s \in Settings |-> cfg'[s]]
        /\ \A s \in Settings \ {"TokenCard"} : cfg'[s] = cfg[s]
    BY <2>1, <2>2
  <2>4. ValidateTransport(cfg')
    BY <2>2, <2>3, SettingsOf DEF ValidateTransport
  <2>5. cfg'.Transport = cfg.Transport
    BY <2>3, SettingsOf
  <2> QED
    BY <2>1, <2>3, <2>4, <2>5 DEF ConfigInv, ValidateTransport
<1>5. CASE /\ cfg' = cfg /\ mode' = mode
           /\ \/ phase' = phase
              \/ phase' \in {"serving", "draining"} /\ phase \in {"ready", "serving"}
  BY <1>5 DEF ConfigInv, ValidateTransport
<1> QED
  BY <1>1, <1>2, <1>3, <1>4, <1>5 DEF ProcessNext, MainExits, DaemonRefused, MainGivesUp,
     ListenFails, StdioEnds, ShutdownReturns, PortTaken, Serve, Signal, CancelBase,
     CloseAll, Tick, Arrive, BodyArrives, DeadlinePasses, ContextExpires, HandlerReturns,
     ClientLeaves, ContextCancelled, allVars, procVars

\* Whatever the file, the environment and the command line say: a server of
\* MCP over HTTP that has no token listens on a loopback address only and
\* answers only requests that name this host; with a token, it wants it
\* (ValidateTransport, withAllowedHosts and requireBearerToken together).
THEOREM TokenProtects ==
    ProcessSpec => [](phase = "serving" /\ mode = "mcp" => TokenlessIsLocal)
<1>1. Init => ConfigInv
  BY DEF Init, ConfigInv
<1>2. ConfigInv => (phase = "serving" /\ mode = "mcp" => TokenlessIsLocal)
  <2> SUFFICES ASSUME ConfigInv, phase = "serving", mode = "mcp",
                      NEW q \in McpQueries,
                      q.path = cfg.MCPHTTPPath, McpStatus(q) = 200, ~q.token
               PROVE  IsLoopbackBind(cfg.MCPHTTPBind) /\ q.host \in LoopbackHosts
    BY DEF TokenlessIsLocal
  <2>1. withAllowedHosts(q) /\ requireBearerToken(q)
    <3>1. q.path \notin {MetricsPath, CardPath, "/health"}
      BY DEF ConfigInv, ValidateTransport, validateMCPHTTPPath, reservedMCPHTTPPaths,
             MetricsPath, CardPath
    <3>2. CASE ~withAllowedHosts(q)
      <4>1. McpStatus(q) = 403
        BY <3>2 DEF McpStatus
      <4> QED
        BY <4>1
    <3>3. CASE withAllowedHosts(q) /\ ~requireBearerToken(q)
      <4>1. McpStatus(q) = CASE Preflighted(q) -> 204
                             [] ~Preflighted(q) /\ ~requireBearerToken(q) -> 401
                             [] OTHER -> IF CrossOriginAllowed(q) THEN 200 ELSE 403
        BY <3>1, <3>3 DEF McpStatus
      <4>2. McpStatus(q) \in {204, 401}
        BY <3>3, <4>1
      <4> QED
        BY <4>2
    <3> QED
      BY <3>2, <3>3
  <2>2. cfg.MCPHTTPToken = ""
    BY <2>1 DEF requireBearerToken, TokenSet
  <2>3. IsLoopbackBind(cfg.MCPHTTPBind) /\ cfg.MCPHTTPAllowedHosts = <<>>
    BY <2>2 DEF ConfigInv, ValidateTransport
  <2>4. q.local
    BY <2>3 DEF McpQueries
  <2>5. q.host \in LoopbackHosts
    BY <2>1, <2>3, <2>4 DEF withAllowedHosts, Range
  <2> QED
    BY <2>3, <2>5
<1> QED
  BY <1>1, <1>2, ConfigStep, PTL DEF ProcessSpec

-----------------------------------------------------------------------------
(* The checks made beforehand.                                             *)

WorldFields == {"argv", "env", "files", "tokenFiles", "tlsOK", "auditOK", "dbOK"}

\* What Load makes of a command line in this world.
LoadedBy(a) == Load(a.config, world.env, world.files, world.tokenFiles)

\* The part of the preflight that looks at the key pair.
KeyPairSeen(c) == c.HTTPMode \/ c.MCPHTTPTLSCert = "" \/ world.tlsOK

\* The request timeout is a number.
TimeoutKnown(c) == RequestTicks(c) \in Nat

\* Before the mode is chosen: the configuration is the one that the command
\* line names, and the child of --daemon will load what its parent has checked.
BeforeMode ==
    /\ phase \in {"start", "loaded"} =>
          /\ mode = "none"
          /\ ~detached => world \in Worlds
    /\ phase = "start" /\ detached =>
          LET a == parseArgs(world.argv) IN
          /\ a.action = "" /\ ~a.daemon
          /\ KeyPairSeen(LoadedBy(a)) /\ TimeoutKnown(LoadedBy(a))
    /\ phase = "loaded" =>
          /\ args = parseArgs(world.argv) /\ ~args.err
          /\ cfg = LoadedBy(args) /\ TimeoutKnown(cfg)
          /\ detached => ~args.daemon /\ KeyPairSeen(cfg)

\* CheckPredictsStartup, made inductive: what the preflight of --daemon saw is
\* still so when the child listens, unless the port was taken in between.
PredictInv ==
    /\ WorldFields \subseteq DOMAIN world
    /\ checked => ~busy
    /\ BeforeMode
    /\ phase \in {"loaded", "ready", "serving", "draining"} => args.action = ""
    /\ phase = "ready" /\ detached /\ mode = "mcp" =>
          cfg.MCPHTTPTLSCert = "" \/ world.tlsOK
    /\ phase \in {"ready", "serving", "draining"} =>
          TimeoutKnown(cfg) /\ mode \in {"rest", "mcp", "stdio"}
    /\ CheckPredictsStartup

\* --validate-config and Load make the same checks of a file that is named,
\* but for the empty DSN.
LEMMA ValidateAgrees ==
    ASSUME NEW path, NEW env, NEW disk, NEW tokenFiles, path # ""
    PROVE  ValidateConfigFile(path, env, disk, tokenFiles) <=>
              /\ LoadOK(path, env, disk, tokenFiles)
              /\ LET conns == Load(path, env, disk, tokenFiles).Connections
                 IN \A i \in DOMAIN conns : conns[i].dsn # ""
<1> DEFINE start == ToConfig(disk[path])
           merged == Merged(start, env)
           done == resolveMCPHTTPToken(merged, tokenFiles)
<1>1. FindConfigFile(path, env, disk) = path
  BY DEF FindConfigFile
<1>2. LoadBase(path, disk) = start
  BY DEF LoadBase
<1>3. Load(path, env, disk, tokenFiles) = done
  BY <1>1, <1>2, Zenon DEF Load
<1>4. LoadOK(path, env, disk, tokenFiles)
        <=> Loads(path, disk) /\ Checks(merged, env, tokenFiles)
  BY <1>1, <1>2, Zenon DEF LoadOK
<1>5. ValidateConfigFile(path, env, disk, tokenFiles) <=>
         /\ Loads(path, disk) /\ Checks(merged, env, tokenFiles)
         /\ \A i \in DOMAIN merged.Connections : merged.Connections[i].dsn # ""
  BY Zenon DEF ValidateConfigFile
<1>6. done.Connections = merged.Connections
  <2>1. merged = [s \in Settings |-> merged[s]]
    BY MergedConfig
  <2> HIDE DEF merged
  <2> QED
    BY <2>1, SettingsOf DEF resolveMCPHTTPToken
<1> QED
  BY <1>3, <1>4, <1>5, <1>6, Zenon

\* main ends the process at once.
LEMMA PredictMainExits ==
    PredictInv /\ MainExits => PredictInv'
<1> SUFFICES ASSUME PredictInv, MainExits PROVE PredictInv'
  OBVIOUS
<1> DEFINE a == parseArgs(world.argv)
<1>1. /\ phase = "start" /\ args' = a /\ phase' = "exited"
      /\ world' = world /\ mode' = mode /\ busy' = busy /\ checked' = checked
  BY DEF MainExits, Exit
<1>2. ~a.err /\ a.action = "validate-config" => code' = IF Valid(a) THEN 0 ELSE 1
  BY DEF MainExits, Exit, Immediate
<1>3. mode = "none"
  BY <1>1 DEF PredictInv, BeforeMode
<1>4. ASSUME ~a.err, a.action = "validate-config"
      PROVE  a.validate # ""
  <2>1. world \in Worlds
    BY <1>1, <1>4 DEF PredictInv, BeforeMode
  <2> QED
    BY <2>1, <1>4, CommandLineAssumption
<1> HIDE DEF a
<1>5. ASSUME ~a.err, a.action = "validate-config"
      PROVE  LET conns == Load(a.validate, world.env, world.files,
                               world.tokenFiles).Connections
             IN (code' = 0) = (/\ LoadOK(a.validate, world.env, world.files,
                                         world.tokenFiles)
                               /\ \A i \in DOMAIN conns : conns[i].dsn # "")
  <2>1. Valid(a) <=>
           /\ LoadOK(a.validate, world.env, world.files, world.tokenFiles)
           /\ LET conns == Load(a.validate, world.env, world.files,
                                world.tokenFiles).Connections
              IN \A i \in DOMAIN conns : conns[i].dsn # ""
    BY <1>4, <1>5, ValidateAgrees, Zenon DEF Valid
  <2>2. (code' = 0) <=> Valid(a)
    BY <1>2, <1>5
  <2> QED
    BY <2>1, <2>2
<1>6. CheckPredictsStartup'
  BY <1>1, <1>3, <1>5 DEF CheckPredictsStartup
<1> QED
  BY <1>1, <1>6 DEF PredictInv, BeforeMode

\* The configuration is loaded: the child of --daemon loads what its parent
\* has checked.
LEMMA PredictMainLoads ==
    PredictInv /\ MainLoads => PredictInv'
<1> SUFFICES ASSUME PredictInv, MainLoads PROVE PredictInv'
  OBVIOUS
<1> DEFINE a == parseArgs(world.argv)
<1>1. /\ phase = "start" /\ ~a.err /\ a.action = "" /\ args' = a /\ phase' = "loaded"
      /\ cfg' = LoadedBy(a)
      /\ UNCHANGED <<world, mode, code, detached, busy, checked>>
  BY DEF MainLoads, LoadedBy
<1>2. /\ detached => ~a.daemon /\ KeyPairSeen(LoadedBy(a)) /\ TimeoutKnown(LoadedBy(a))
      /\ ~detached => world \in Worlds
  BY <1>1 DEF PredictInv, BeforeMode
<1>4. ~detached => TimeoutKnown(LoadedBy(a))
  <2>1. LoadOK(a.config, world.env, world.files, world.tokenFiles)
    BY DEF MainLoads, Loaded
  <2> QED
    BY <1>2, <2>1, RequestTimeoutAssumption DEF TimeoutKnown, LoadedBy
<1> HIDE DEF a
<1>3. BeforeMode'
  <2>1. LoadedBy(args)' = LoadedBy(a)
    BY <1>1 DEF LoadedBy
  <2>2. detached' => ~args'.daemon /\ KeyPairSeen(cfg)'
    BY <1>1, <1>2 DEF KeyPairSeen
  <2>3. args' = parseArgs(world.argv)' /\ ~args'.err
    BY <1>1 DEF a
  <2>4. mode' = "none" /\ (~detached' => world' \in Worlds)
    BY <1>1 DEF PredictInv, BeforeMode
  <2>5. TimeoutKnown(cfg)'
    BY <1>1, <1>2, <1>4 DEF TimeoutKnown, RequestTicks
  <2> QED
    BY <1>1, <2>1, <2>2, <2>3, <2>4, <2>5 DEF BeforeMode
<1> QED
  BY <1>1, <1>3 DEF PredictInv, CheckPredictsStartup

\* --daemon starts the child: it reads the same command line, so it will load
\* the configuration that the preflight has looked at.
LEMMA PredictDaemonize ==
    PredictInv /\ maybeDaemonize => PredictInv'
<1> SUFFICES ASSUME PredictInv, maybeDaemonize PROVE PredictInv'
  OBVIOUS
<1> DEFINE a == parseArgs(world.argv)
           b == parseArgs(ChildArgs(world.argv))
<1>1. /\ phase = "loaded" /\ args.daemon /\ Preflight /\ phase' = "start" /\ detached'
      /\ world' = [world EXCEPT !.argv = ChildArgs(@)]
      /\ UNCHANGED <<mode, code, busy>>
  BY DEF maybeDaemonize
<1>2. /\ args = a /\ ~a.err /\ cfg = LoadedBy(a) /\ world \in Worlds
      /\ TimeoutKnown(cfg)
  BY <1>1 DEF PredictInv, BeforeMode
<1>3. a.action = ""
  BY <1>1, <1>2 DEF PredictInv
<1>4. b.action = "" /\ b.config = a.config /\ ~b.daemon
  BY <1>1, <1>2, <1>3, CommandLineAssumption
<1>5. /\ world'.argv = ChildArgs(world.argv)
      /\ world'.env = world.env /\ world'.files = world.files
      /\ world'.tokenFiles = world.tokenFiles /\ world'.tlsOK = world.tlsOK
      /\ DOMAIN world' = DOMAIN world
  BY <1>1 DEF PredictInv, WorldFields
<1>6. KeyPairSeen(cfg) /\ ~busy
  BY <1>1 DEF Preflight, KeyPairSeen
<1> HIDE DEF a
<1>7. PICK child : child = b
  OBVIOUS
<1>8. parseArgs(world.argv)' = child
  BY <1>5, <1>7
<1> HIDE DEF b
<1>9. KeyPairSeen(LoadedBy(child))' /\ TimeoutKnown(LoadedBy(child))'
  <2>1. LoadedBy(child)' = cfg
    BY <1>2, <1>4, <1>5, <1>7 DEF LoadedBy
  <2> QED
    BY <1>2, <1>5, <1>6, <2>1 DEF KeyPairSeen, TimeoutKnown, RequestTicks
<1>10. BeforeMode'
  BY <1>1, <1>4, <1>7, <1>8, <1>9 DEF PredictInv, BeforeMode
<1> QED
  BY <1>1, <1>5, <1>6, <1>10 DEF PredictInv, CheckPredictsStartup

\* The mode is chosen; what the preflight saw of the key pair goes with it.
LEMMA PredictMainInitialises ==
    ConfigInv /\ PredictInv /\ MainInitialises => PredictInv'
<1> SUFFICES ASSUME ConfigInv, PredictInv, MainInitialises PROVE PredictInv'
  OBVIOUS
<1>1. /\ phase = "loaded" /\ phase' = "ready"
      /\ cfg' = [cfg EXCEPT !.TokenCard = @ \/ args.tokenCard]
      /\ mode' = "mcp" => ~cfg.HTTPMode
      /\ mode' \in {"rest", "mcp", "stdio"}
      /\ UNCHANGED <<args, code, detached, busy, checked>>
  BY DEF MainInitialises
<1>2. DOMAIN world' = DOMAIN world /\ world'.tlsOK = world.tlsOK
  BY DEF MainInitialises, PredictInv, WorldFields
<1>3. /\ cfg'.MCPHTTPTLSCert = cfg.MCPHTTPTLSCert
      /\ cfg'.HTTPRequestTimeout = cfg.HTTPRequestTimeout
  <2>1. cfg = [s \in Settings |-> cfg[s]]
    BY <1>1 DEF ConfigInv
  <2> QED
    BY <1>1, <2>1, SettingsOf
<1>4. detached => KeyPairSeen(cfg)
  BY <1>1 DEF PredictInv, BeforeMode
<1>5. detached' /\ mode' = "mcp" => cfg'.MCPHTTPTLSCert = "" \/ world'.tlsOK
  BY <1>1, <1>2, <1>3, <1>4 DEF KeyPairSeen
<1>6. TimeoutKnown(cfg)'
  BY <1>1, <1>3 DEF PredictInv, BeforeMode, TimeoutKnown, RequestTicks
<1> QED
  BY <1>1, <1>2, <1>5, <1>6 DEF PredictInv, BeforeMode, CheckPredictsStartup

\* The process ends later: in the background, only a taken port can have
\* kept it from listening.
LEMMA PredictExits ==
    /\ PredictInv
    /\ DaemonRefused \/ MainGivesUp \/ ListenFails \/ StdioEnds \/ ShutdownReturns
    => PredictInv'
<1> SUFFICES ASSUME PredictInv,
                    DaemonRefused \/ MainGivesUp \/ ListenFails \/ StdioEnds
                       \/ ShutdownReturns
             PROVE  PredictInv'
  OBVIOUS
<1>1. /\ phase \in {"loaded", "ready", "serving", "draining"} /\ phase' = "exited"
      /\ UNCHANGED <<args, world, mode, detached, busy, checked>>
  BY DEF DaemonRefused, MainGivesUp, ListenFails, StdioEnds, ShutdownReturns,
         ShutdownDue, Exit
<1>2. args'.action = ""
  BY <1>1 DEF PredictInv
<1>3. ASSUME detached, mode \in {"rest", "mcp"}, code' = 1
      PROVE  ~checked
  <2>1. ~(DaemonRefused \/ MainGivesUp)
    BY <1>3 DEF DaemonRefused, MainGivesUp, PredictInv, BeforeMode
  <2>2. ~StdioEnds
    BY <1>3 DEF StdioEnds
  <2>3. ASSUME ShutdownReturns PROVE FALSE
    <3>1. code' = 0
      BY <2>3 DEF ShutdownReturns, Exit
    <3> QED
      BY <1>3, <3>1
  <2>4. phase = "ready" /\ ~CanListen
    BY <2>1, <2>2, <2>3 DEF ListenFails
  <2>5. busy
    BY <1>3, <2>4 DEF CanListen, PredictInv
  <2> QED
    BY <2>5 DEF PredictInv
<1>4. CheckPredictsStartup'
  BY <1>1, <1>2, <1>3 DEF CheckPredictsStartup
<1> QED
  BY <1>1, <1>4 DEF PredictInv, BeforeMode

\* Every step keeps PredictInv.
LEMMA PredictStep ==
    ConfigInv /\ PredictInv /\ [ProcessNext]_allVars => PredictInv'
<1> SUFFICES ASSUME ConfigInv, PredictInv, [ProcessNext]_allVars PROVE PredictInv'
  OBVIOUS
<1>1. CASE MainExits
  BY <1>1, PredictMainExits
<1>2. CASE MainLoads
  BY <1>2, PredictMainLoads
<1>3. CASE maybeDaemonize
  BY <1>3, PredictDaemonize
<1>4. CASE MainInitialises
  BY <1>4, PredictMainInitialises
<1>5. CASE DaemonRefused \/ MainGivesUp \/ ListenFails \/ StdioEnds \/ ShutdownReturns
  BY <1>5, PredictExits
<1>6. CASE PortTaken
  <2>1. /\ phase # "exited" /\ ~checked'
        /\ UNCHANGED <<world, args, phase, mode, cfg, code, detached>>
    BY <1>6 DEF PortTaken
  <2> QED
    BY <2>1 DEF PredictInv, BeforeMode, KeyPairSeen, LoadedBy, TimeoutKnown, RequestTicks,
                CheckPredictsStartup
<1>7. CASE /\ UNCHANGED <<world, args, mode, cfg, code, detached, busy, checked>>
           /\ \/ phase' = phase
              \/ phase \in {"ready", "serving"} /\ phase' \in {"serving", "draining"}
  BY <1>7 DEF PredictInv, BeforeMode, KeyPairSeen, LoadedBy, TimeoutKnown, RequestTicks,
                CheckPredictsStartup
<1> QED
  BY <1>1, <1>2, <1>3, <1>4, <1>5, <1>6, <1>7 DEF ProcessNext, Serve, Signal, CancelBase,
     CloseAll, Tick, Arrive, BodyArrives, DeadlinePasses, ContextExpires, HandlerReturns,
     ClientLeaves, ContextCancelled, allVars, procVars

\* The checks made beforehand tell what startup does, for every file,
\* environment and command line: --validate-config (ValidateConfigFile) accepts
\* what Load accepts, but for an empty DSN; and a server that --daemon has put
\* into the background fails to listen only if its port was taken after
\* preflightHTTPListener looked.
THEOREM CheckCorrect == ProcessSpec => []CheckPredictsStartup
<1>1. Init => ConfigInv /\ PredictInv
  BY WorldAssumption DEF Init, ConfigInv, PredictInv, BeforeMode, WorldFields,
                         CheckPredictsStartup
<1>2. PredictInv => CheckPredictsStartup
  BY DEF PredictInv
<1> QED
  BY <1>1, <1>2, ConfigStep, PredictStep, PTL DEF ProcessSpec

-----------------------------------------------------------------------------
(* The time a complete request gets.                                       *)

\* The age of a REST handler's context: it starts with the handler and does
\* not pass the request timeout.
ContextInv ==
    \A r \in Requests :
       /\ req[r].st \in {"body", "drain"} => req[r].ran = 0
       /\ mode = "rest" /\ req[r].st = "run" => req[r].ran <= RequestTimeout

\* While there are requests, the request timeout is a number that stays.
LEMMA TimeoutFixed ==
    ASSUME ProcessInv, PredictInv, NEW r \in Requests, Active(r)
    PROVE  RequestTimeout \in Nat
  BY DEF ProcessInv, ServingInv, PredictInv, TimeoutKnown, RequestTimeout

\* A step of one request keeps it.
LEMMA ContextRequestStep ==
    ASSUME ProcessInv, PredictInv, ContextInv, NEW s \in Requests,
           \/ Arrive(s) \/ BodyArrives(s) \/ DeadlinePasses(s) \/ ContextExpires(s)
           \/ HandlerReturns(s) \/ ClientLeaves(s) \/ ContextCancelled(s)
    PROVE  ContextInv'
<1> SUFFICES ASSUME NEW r \in Requests
             PROVE  /\ req'[r].st \in {"body", "drain"} => req'[r].ran = 0
                    /\ mode' = "rest" /\ req'[r].st = "run" =>
                          req'[r].ran <= RequestTimeout'
  BY DEF ContextInv
<1>0. UNCHANGED procVars /\ mode' = mode /\ RequestTimeout' = RequestTimeout
  BY DEF Arrive, BodyArrives, DeadlinePasses, ContextExpires, HandlerReturns, ClientLeaves,
         ContextCancelled, procVars, RequestTimeout, RequestTicks
<1>1. CASE r # s
  <2>1. req'[r] = req[r]
    BY <1>1 DEF Arrive, BodyArrives, DeadlinePasses, ContextExpires, HandlerReturns,
                ClientLeaves, ContextCancelled, ProcessInv, RequestInv
  <2> QED
    BY <1>0, <2>1 DEF ContextInv
<1>2. /\ req[s] \in [st : States, stream : BOOLEAN, age : Nat, ran : Nat,
                     deadline : BOOLEAN]
      /\ s \in DOMAIN req
  BY DEF ProcessInv, RequestInv
<1>3. ASSUME req'[s] \in Over
      PROVE  req'[s].st \notin {"body", "drain", "run"}
  BY <1>3, QuietType DEF Over
<1>4. CASE DeadlinePasses(s) \/ ContextExpires(s) \/ HandlerReturns(s) \/ ClientLeaves(s)
           \/ ContextCancelled(s)
  <2>1. req'[s] \in Over
    BY <1>2, <1>4, EndsType DEF DeadlinePasses, ContextExpires, HandlerReturns,
                                ClientLeaves, ContextCancelled, Over
  <2> QED
    BY <1>1, <1>3, <2>1
<1>5. CASE Arrive(s)
  <2>1. phase = "serving" /\ RequestTimeout \in Nat
    BY <1>5 DEF Arrive, PredictInv, TimeoutKnown, RequestTimeout
  <2>2. PICK admitted, whole, stream \in BOOLEAN :
           LET st == CASE admitted /\ whole -> "run"
                       [] admitted /\ ~whole -> "body"
                       [] OTHER -> "drain"
           IN req' = [req EXCEPT ![s] =
                        [Quiet EXCEPT !.st = st, !.stream = stream,
                                      !.deadline = Deadline(s, st)]]
    BY <1>5 DEF Arrive
  <2> DEFINE st == CASE admitted /\ whole -> "run"
                     [] admitted /\ ~whole -> "body"
                     [] OTHER -> "drain"
  <2> HIDE DEF st
  <2>3. req'[s] = [Quiet EXCEPT !.st = st, !.stream = stream, !.deadline = Deadline(s, st)]
    BY <1>2, <2>2 DEF st
  <2>4. req'[s].ran = 0
    BY <2>3 DEF Quiet
  <2> QED
    BY <1>0, <1>1, <2>1, <2>4
<1>6. CASE BodyArrives(s)
  <2>1. CASE req[s].st = "body"
    <3>1. RequestTimeout \in Nat
      BY <2>1, TimeoutFixed DEF Active
    <3>2. req'[s] = Becomes(s, "run")
      BY <1>2, <1>6, <2>1 DEF BodyArrives
    <3>3. req'[s].ran = 0 /\ req'[s].st = "run"
      BY <1>2, <2>1, <3>2 DEF Becomes, ContextInv
    <3> QED
      BY <1>0, <1>1, <3>1, <3>3
  <2>2. CASE req[s].st # "body"
    BY <1>1, <1>2, <1>3, <1>6, <2>2 DEF BodyArrives, Over
  <2> QED
    BY <2>1, <2>2
<1> QED
  BY <1>4, <1>5, <1>6

\* So does every other step.
LEMMA ContextStep ==
    ProcessInv /\ PredictInv /\ ContextInv /\ [ProcessNext]_allVars => ContextInv'
<1> SUFFICES ASSUME ProcessInv, PredictInv, ContextInv, [ProcessNext]_allVars
             PROVE  ContextInv'
  OBVIOUS
<1>0. \A r \in Requests : req[r] \in [st : States, stream : BOOLEAN, age : Nat, ran : Nat,
                                      deadline : BOOLEAN]
  BY DEF ProcessInv, RequestInv
<1>1. CASE \E c : Exit(c)
  <2>1. \A r \in Requests : req'[r].st \notin {"body", "drain", "run"}
    BY <1>0, <1>1 DEF Exit
  <2> QED
    BY <2>1 DEF ContextInv
<1>2. CASE MainLoads \/ maybeDaemonize \/ PortTaken \/ MainInitialises \/ Serve
  <2>1. req' = req /\ phase \in {"start", "loaded", "ready"}
    BY <1>2 DEF MainLoads, maybeDaemonize, PortTaken, MainInitialises, Serve, httpVars
  <2>2. \A r \in Requests : req'[r].st \notin {"body", "drain", "run"}
    BY <2>1 DEF ProcessInv, ServingInv, Active
  <2> QED
    BY <2>2 DEF ContextInv
<1>3. CASE \E s \in Requests :
              \/ Arrive(s) \/ BodyArrives(s) \/ DeadlinePasses(s) \/ ContextExpires(s)
              \/ HandlerReturns(s) \/ ClientLeaves(s) \/ ContextCancelled(s)
  BY <1>3, ContextRequestStep
<1>4. CASE CloseAll
  <2>1. \A r \in Requests : req'[r].st \notin {"body", "drain", "run"}
    BY <1>4, QuietType DEF CloseAll, Active
  <2> QED
    BY <2>1 DEF ContextInv
<1>5. CASE Tick
  <2> SUFFICES ASSUME NEW r \in Requests
               PROVE  /\ req'[r].st \in {"body", "drain"} => req'[r].ran = 0
                      /\ mode' = "rest" /\ req'[r].st = "run" =>
                            req'[r].ran <= RequestTimeout'
    BY DEF ContextInv
  <2>1. mode' = mode /\ RequestTimeout' = RequestTimeout /\ ~ContextDue(r)
    BY <1>5 DEF Tick, procVars, RequestTimeout, RequestTicks
  <2> DEFINE age == IF Active(r) /\ req[r].deadline THEN req[r].age + 1 ELSE req[r].age
             ran == IF mode = "rest" /\ req[r].st = "run"
                    THEN req[r].ran + 1 ELSE req[r].ran
  <2>2. req'[r] = [req[r] EXCEPT !.age = age, !.ran = ran]
    BY <1>5 DEF Tick
  <2>3. req'[r].st = req[r].st /\ req'[r].ran = ran
    <3> HIDE DEF age, ran
    <3> QED
      BY <1>0, <2>2
  <2>4. req[r].st = "run" => RequestTimeout \in Nat
    BY TimeoutFixed DEF Active
  <2>5. req[r].ran \in Nat
    BY <1>0
  <2> QED
    BY <2>1, <2>3, <2>4, <2>5 DEF ContextDue, ContextInv
<1>6. CASE req' = req /\ mode' = mode /\ cfg' = cfg
  BY <1>6 DEF ContextInv, RequestTimeout, RequestTicks
<1> QED
  BY <1>1, <1>2, <1>3, <1>4, <1>5, <1>6
  DEF ProcessNext, MainExits, DaemonRefused, MainGivesUp, ListenFails, StdioEnds,
      ShutdownReturns, Signal, CancelBase, allVars, procVars, httpVars

\* The step of one complete request that ends it without its result.
LEMMA LostByRequestStep ==
    ASSUME ProcessInv, PredictInv, ContextInv, NEW r \in Requests, NEW s \in Requests,
           \/ Arrive(s) \/ BodyArrives(s) \/ DeadlinePasses(s) \/ ContextExpires(s)
           \/ HandlerReturns(s) \/ ClientLeaves(s) \/ ContextCancelled(s),
           req[r].st = "run"
    PROVE  /\ req'[r].st = "cut" =>
                 \/ phase = "draining" /\ mode = "mcp" /\ sig >= Grace
                 \/ mode = "rest" /\ req[r].age - req[r].ran > Slack
           /\ req'[r].st = "failed" =>
                 mode = "rest" /\ (req[r].age >= ReadTimeout \/ req[r].ran >= RequestTimeout)
<1>1. CASE r # s
  <2>1. req'[r] = req[r]
    BY <1>1 DEF Arrive, BodyArrives, DeadlinePasses, ContextExpires, HandlerReturns,
                ClientLeaves, ContextCancelled, ProcessInv, RequestInv
  <2> QED
    BY <2>1
<1>2. /\ req[r] \in [st : States, stream : BOOLEAN, age : Nat, ran : Nat,
                     deadline : BOOLEAN]
      /\ r \in DOMAIN req /\ Active(r)
  BY DEF ProcessInv, RequestInv, Active
<1>3. ASSUME NEW st \in {"idle", "failed"}, Ends(r, st).st = "cut"
      PROVE  mode = "rest" /\ req[r].age - req[r].ran > Slack
  <2>1. mode = "rest" /\ req[r].age > RequestTimeout + Slack
    BY <1>3, QuietType DEF Ends, WriteTimeout
  <2>2. RequestTimeout \in Nat /\ req[r].ran <= RequestTimeout
    BY <1>2, <2>1, TimeoutFixed DEF ContextInv
  <2> QED
    BY <1>2, <2>1, <2>2, Timers
<1>4. phase \in {"serving", "draining"} /\ mode # "stdio"
  BY <1>2 DEF ProcessInv, ServingInv
<1>5. CASE ~Arrive(s) /\ ~BodyArrives(s) /\ r = s
  <2>1. CASE DeadlinePasses(r)
    <3>1. req[r].deadline /\ req[r].age >= ReadLimit
      BY <2>1 DEF DeadlinePasses, DeadlineDue
    <3>2. mode # "mcp"
      BY <3>1 DEF ProcessInv, DeadlineInv
    <3>3. req'[r] = Ends(r, "failed") /\ ReadLimit = ReadTimeout
      BY <1>2, <2>1, <3>2 DEF DeadlinePasses, ReadLimit
    <3>4. mode = "rest"
      BY <1>4, <3>2 DEF PredictInv
    <3> QED
      BY <1>3, <3>1, <3>3, <3>4
  <2>2. CASE ContextExpires(r)
    <3>1. req'[r] = Ends(r, "failed") /\ mode = "rest" /\ req[r].ran >= RequestTimeout
      BY <1>2, <2>2 DEF ContextExpires, ContextDue
    <3> QED
      BY <1>3, <3>1
  <2>3. CASE HandlerReturns(r)
    <3>1. req'[r] = Ends(r, "idle")
      BY <1>2, <2>3 DEF HandlerReturns
    <3>2. Ends(r, "idle").st # "failed"
      BY EndsType
    <3> QED
      BY <1>3, <3>1, <3>2
  <2>4. CASE ClientLeaves(r)
    BY <1>2, <2>4, QuietType DEF ClientLeaves
  <2>5. CASE ContextCancelled(r)
    <3>1. base /\ req'[r].st = "cut"
      BY <1>2, <2>5, QuietType DEF ContextCancelled
    <3> QED
      BY <1>4, <3>1 DEF ProcessInv, SignalInv
  <2> QED
    BY <1>5, <2>1, <2>2, <2>3, <2>4, <2>5
<1>6. CASE r = s /\ (Arrive(s) \/ BodyArrives(s))
  BY <1>2, <1>6 DEF Arrive, BodyArrives
<1> QED
  BY <1>1, <1>5, <1>6

\* No timer ends a request before its time once all of it has arrived, whatever
\* the timeouts are: the deadline of the body is off once the body is there
\* (deadlineBody), a REST context ends with the read timeout or the request
\* timeout, and the write timeout of the REST API is longer than the second, so
\* that only a slowly sent body can cost an answer.
THEOREM AnswersSafe == ProcessSpec => CompleteRequestsGetTheirTime
<1> DEFINE Safe(r) ==
              /\ req'[r].st = "cut" =>
                    \/ phase = "draining" /\ sig >= (IF mode = "mcp" THEN Grace ELSE ShutdownTimeout)
                    \/ mode = "rest" /\ req[r].age - req[r].ran > Slack
              /\ req'[r].st = "failed" =>
                    mode = "rest" /\ (req[r].age >= ReadTimeout \/ req[r].ran >= RequestTimeout)
<1>1. ASSUME ProcessInv, PredictInv, ContextInv, [ProcessNext]_allVars
      PROVE  [\A r \in Requests : req[r].st = "run" => Safe(r)]_allVars
  <2> SUFFICES ASSUME NEW r \in Requests, req[r].st = "run" PROVE Safe(r)
    OBVIOUS
  <2>1. /\ phase \in {"serving", "draining"} /\ mode # "stdio"
        /\ Active(r)
    BY <1>1 DEF ProcessInv, ServingInv, Active
  <2>2. CASE \E c : Exit(c)
    <3>1. ~(MainExits \/ DaemonRefused \/ MainGivesUp \/ ListenFails \/ StdioEnds)
      BY <2>1 DEF MainExits, DaemonRefused, MainGivesUp, ListenFails, StdioEnds
    <3>2. phase' = "exited" /\ phase' # phase
      BY <2>1, <2>2 DEF Exit
    <3>3. ShutdownReturns
      BY <1>1, <2>1, <3>1, <3>2 DEF ProcessNext, allVars, procVars, MainLoads,
         maybeDaemonize, PortTaken, MainInitialises, Serve, Arrive, BodyArrives,
         DeadlinePasses, ContextExpires, HandlerReturns, ClientLeaves, ContextCancelled,
         Signal, CancelBase, CloseAll, Tick
    <3>4. phase = "draining" /\ sig >= ShutdownTimeout
      BY <2>1, <3>3 DEF ShutdownReturns, ShutdownDue
    <3>5. req'[r].st = "cut"
      BY <1>1, <2>2 DEF Exit, ProcessInv, RequestInv
    <3> QED
      BY <1>1, <3>4, <3>5, Timers DEF ProcessInv, SignalInv
  <2>3. CASE req' = req
    BY <2>3
  <2>4. CASE \E s \in Requests :
                \/ Arrive(s) \/ BodyArrives(s) \/ DeadlinePasses(s) \/ ContextExpires(s)
                \/ HandlerReturns(s) \/ ClientLeaves(s) \/ ContextCancelled(s)
    BY <1>1, <2>4, LostByRequestStep
  <2>5. CASE CloseAll
    <3>1. req'[r].st = "cut"
      BY <2>1, <2>5, QuietType DEF CloseAll
    <3> QED
      BY <1>1, <2>5, <3>1, Timers DEF CloseAll, ForceDue, ProcessInv, SignalInv
  <2>6. CASE Tick
    <3>1. req'[r].st = req[r].st
      BY <1>1, <2>6 DEF Tick, ProcessInv, RequestInv
    <3> QED
      BY <3>1
  <2>7. \/ \E c : Exit(c)
        \/ req' = req \/ CloseAll \/ Tick
        \/ \E s \in Requests :
              \/ Arrive(s) \/ BodyArrives(s) \/ DeadlinePasses(s) \/ ContextExpires(s)
              \/ HandlerReturns(s) \/ ClientLeaves(s) \/ ContextCancelled(s)
    BY <1>1 DEF ProcessNext, MainExits, DaemonRefused, MainGivesUp, ListenFails,
       StdioEnds, ShutdownReturns, MainLoads, maybeDaemonize, PortTaken,
       MainInitialises, Serve, Signal, CancelBase, allVars, httpVars
  <2> QED
    BY <2>2, <2>3, <2>4, <2>5, <2>6, <2>7
<1>2. Init => ConfigInv /\ PredictInv /\ ContextInv
  <2>1. Init => \A r \in Requests : req[r].st = "idle"
    BY QuietType DEF Init
  <2> QED
    BY <2>1, WorldAssumption DEF Init, ConfigInv, PredictInv, BeforeMode, WorldFields,
                                 CheckPredictsStartup, ContextInv
<1>3. ProcessSpec => [](ProcessInv /\ PredictInv /\ ContextInv)
  BY <1>2, InitProcess, ProcessStep, ConfigStep, PredictStep, ContextStep, PTL DEF ProcessSpec
<1> QED
  BY <1>1, <1>3, PTL DEF ProcessSpec, CompleteRequestsGetTheirTime

-----------------------------------------------------------------------------
(* What is served.                                                         *)

\* The features of a route, where it is listed and which tools it belongs to.
RouteKind(r) ==
    \/ /\ r \in CoreRoutes /\ r.needs = {}
       /\ r.path \in CoreIndex /\ r.tool \in CoreTools \cup ConnectionTools
    \/ /\ r \in TableRoutes \cup ObjectRoutes \cup SizeRoutes /\ r.needs = {"extended"}
       /\ r.path \in ExtendedIndex /\ r.tool \in ExtendedTools
    \/ /\ r.needs = {"extended", "admin"}
       /\ r.path \in {"/api/processlist", "/api/kill"}
       /\ r.tool \in {"process_list", "kill_query"}
    \/ /\ r.needs = {"extended", "audit"}
       /\ r.path = "/api/audit-log" /\ r.tool = "read_audit_log"
    \/ /\ r.needs = {"extended", "slow"}
       /\ r.path = "/api/slow-log" /\ r.tool = "slow_query_log"
    \/ /\ r.needs = {"vector"}
       /\ r.path \in {"/api/vector/search", "/api/vector/info"} /\ r.tool \in VectorTools

\* Every route is of one of these kinds.
LEMMA RouteKinds == \A r \in RestRoutes : RouteKind(r)
<1>1. \A r \in CoreRoutes : RouteKind(r)
  BY DEF CoreRoutes, Route, RouteKind, CoreIndex, CoreTools, ConnectionTools
<1>2. \A r \in TableRoutes \cup ObjectRoutes \cup SizeRoutes : RouteKind(r)
  BY DEF TableRoutes, ObjectRoutes, SizeRoutes, Route, RouteKind, ExtendedIndex,
         ExtendedTools
<1>3. \A r \in DiagnosticRoutes \cup VectorRoutes : RouteKind(r)
  BY DEF DiagnosticRoutes, VectorRoutes, Route, RouteKind, VectorTools
<1> QED
  BY <1>1, <1>2, <1>3 DEF RestRoutes

\* A path selects its route: no two routes share one.
LEMMA RouteFound == \A r \in RestRoutes : RouteAt[r.path] = r
<1>1. \A r, s \in RestRoutes : r.path = s.path => r = s
  BY DEF RestRoutes, CoreRoutes, TableRoutes, ObjectRoutes, SizeRoutes,
         DiagnosticRoutes, VectorRoutes, Route
<1> QED
  BY <1>1 DEF RouteAt, RoutePaths

\* A good request to a route succeeds exactly if its features are on.
LEMMA RouteWorks ==
    ASSUME NEW r \in RestRoutes
    PROVE  LET good == [path |-> r.path, input |-> "good",
                        method |-> IF r.takes = "json" THEN "POST" ELSE "GET"]
           IN RestStatus(good) = 200 <=> \A f \in r.needs : RequireFeature(f)
<1> DEFINE good == [path |-> r.path, input |-> "good",
                    method |-> IF r.takes = "json" THEN "POST" ELSE "GET"]
<1>1. r.path \in RoutePaths /\ RouteAt[r.path] = r
  BY RouteFound DEF RoutePaths
<1>2. r.path # CardPath
  BY RouteKinds DEF RouteKind, CoreIndex, ExtendedIndex, CardPath, MetricsPath
<1>3. /\ good.path = r.path /\ good.input = "good" /\ good.method # "OPTIONS"
      /\ r.takes = "json" => good.method = "POST"
  OBVIOUS
<1> HIDE DEF good
<1>4. CASE \E f \in r.needs : ~RequireFeature(f)
  <2>1. RestStatus(good) = 404
    BY <1>1, <1>2, <1>3, <1>4 DEF RestStatus
  <2> QED
    BY <1>4, <2>1 DEF good
<1>5. CASE \A f \in r.needs : RequireFeature(f)
  <2>1. RestStatus(good) = 200
    BY <1>1, <1>2, <1>3, <1>5 DEF RestStatus
  <2> QED
    BY <1>5, <2>1 DEF good
<1> QED
  BY <1>4, <1>5

\* The index and the tools of a route are there exactly if its features are on.
LEMMA RouteOffered ==
    ASSUME NEW r \in RestRoutes
    PROVE  /\ r.path \in httpAPIIndex <=> \A f \in r.needs : RequireFeature(f)
           /\ r.tool \in buildMCPServer <=> \A f \in r.needs : RequireFeature(f)
<1> DEFINE on == \A f \in r.needs : RequireFeature(f)
<1>1. RouteKind(r)
  BY RouteKinds
<1>2. /\ RequireFeature("extended") <=> cfg.ExtendedMode
      /\ RequireFeature("admin") <=> cfg.ProcessAdmin
      /\ RequireFeature("audit") <=> cfg.ReadAuditTool /\ cfg.AuditLogPath # ""
      /\ RequireFeature("slow") <=> cfg.SlowQueryTool
      /\ RequireFeature("vector") <=> cfg.VectorMode
  BY DEF RequireFeature
<1>3. r.path \in httpAPIIndex <=> on
  BY <1>1, <1>2 DEF RouteKind, httpAPIIndex, CoreIndex, ExtendedIndex, CardPath, MetricsPath
<1>4. r.tool \in buildMCPServer <=> on
  BY <1>1, <1>2 DEF RouteKind, buildMCPServer, registerExtendedTools, CoreTools,
     ConnectionTools, VectorTools, ExtendedTools
<1> QED
  BY <1>3, <1>4

\* Routes, index and tools agree under every combination of switches.
LEMMA RestAgrees == RestServed
<1>1. ASSUME NEW p \in RoutePaths
      PROVE  LET post  == p \in RoutePaths /\ RouteAt[p].takes = "json"
                 works == RestStatus([path |-> p, input |-> "good",
                                      method |-> IF post THEN "POST" ELSE "GET"]) = 200
             IN /\ works = (p \in httpAPIIndex)
                /\ works = (RouteAt[p].tool \in buildMCPServer)
  <2>1. PICK r \in RestRoutes : r.path = p
    BY DEF RoutePaths
  <2>2. RouteAt[p] = r
    BY <2>1, RouteFound
  <2>3. RestStatus([path |-> p, input |-> "good",
                    method |-> IF r.takes = "json" THEN "POST" ELSE "GET"]) = 200
          <=> \A f \in r.needs : RequireFeature(f)
    BY <2>1, RouteWorks
  <2>4. p \in httpAPIIndex <=> \A f \in r.needs : RequireFeature(f)
    BY <2>1, RouteOffered
  <2>5. r.tool \in buildMCPServer <=> \A f \in r.needs : RequireFeature(f)
    BY RouteOffered
  <2> QED
    BY <2>2, <2>3, <2>4, <2>5
<1>2. LET page == [path |-> CardPath, input |-> "good", method |-> "GET"]
      IN (RestStatus(page) = 200) = (CardPath \in httpAPIIndex)
  <2>1. CardPath \notin RoutePaths
    BY RouteKinds DEF RoutePaths, RouteKind, CoreIndex, ExtendedIndex, CardPath, MetricsPath
  <2>2. RestStatus([path |-> CardPath, input |-> "good", method |-> "GET"])
          = IF cfg.TokenCard THEN 200 ELSE 404
    BY <2>1 DEF RestStatus
  <2>3. CardPath \in httpAPIIndex <=> cfg.TokenCard
    BY DEF httpAPIIndex, CoreIndex, ExtendedIndex, CardPath, MetricsPath
  <2> QED
    BY <2>2, <2>3
<1>3. CardPath \notin RoutePaths
  BY RouteKinds DEF RoutePaths, RouteKind, CoreIndex, ExtendedIndex, CardPath, MetricsPath
<1> QED
  BY <1>1, <1>2, <1>3 DEF RestServed

\* An origin that is accepted is kept in the form in which browsers send it.
OriginsCanonical(origins) ==
    /\ origins = [i \in DOMAIN origins |-> origins[i]]
    /\ \A i \in DOMAIN origins : validateOrigin(origins[i]) => origins[i] = "https://app"

\* applyMCPHTTPDefaults writes every origin in that form.
LEMMA LoadedOrigins ==
    ASSUME NEW flag, NEW env, NEW disk, NEW tokenFiles
    PROVE  OriginsCanonical(Load(flag, env, disk, tokenFiles).MCPHTTPAllowedOrigins)
<1> DEFINE start == LoadBase(FindConfigFile(flag, env, disk), disk)
           over == applyEnvOverrides(start, env)
           normal == applyMCPHTTPDefaults(over)
           merged == Merged(start, env)
<1>1. merged = WithEnvConnections(normal, env)
  BY DEF Merged
<1>2. Load(flag, env, disk, tokenFiles) = resolveMCPHTTPToken(merged, tokenFiles)
  BY Zenon DEF Load
<1>3. over = [s \in Settings |-> over[s]]
  BY OverriddenConfig
<1>4. merged = [s \in Settings |-> merged[s]]
  BY MergedConfig
<1> HIDE DEF over, merged
<1>5. normal.MCPHTTPAllowedOrigins
        = [i \in DOMAIN over.MCPHTTPAllowedOrigins |->
              canonicalOrigin(over.MCPHTTPAllowedOrigins[i])]
  BY <1>3, SettingsOf DEF applyMCPHTTPDefaults
<1>6. normal = [s \in Settings |-> normal[s]]
  BY <1>3 DEF applyMCPHTTPDefaults
<1> HIDE DEF normal
<1>7. merged.MCPHTTPAllowedOrigins = normal.MCPHTTPAllowedOrigins
  BY <1>1, <1>6, SettingsOf DEF WithEnvConnections
<1>8. resolveMCPHTTPToken(merged, tokenFiles).MCPHTTPAllowedOrigins
        = merged.MCPHTTPAllowedOrigins
  BY <1>4, SettingsOf DEF resolveMCPHTTPToken
<1>9. OriginsCanonical(normal.MCPHTTPAllowedOrigins)
  BY <1>5 DEF OriginsCanonical, canonicalOrigin, validateOrigin
<1> QED
  BY <1>2, <1>7, <1>8, <1>9

\* The configured origins, once they are loaded.
OriginsInv ==
    phase \in {"loaded", "ready", "serving", "draining"} =>
       OriginsCanonical(cfg.MCPHTTPAllowedOrigins)

\* Nothing that starts later changes them.
LEMMA OriginsStep == ConfigInv /\ OriginsInv /\ [ProcessNext]_allVars => OriginsInv'
<1> SUFFICES ASSUME ConfigInv, OriginsInv, [ProcessNext]_allVars PROVE OriginsInv'
  OBVIOUS
<1>1. CASE \E c : Exit(c)
  BY <1>1 DEF Exit, OriginsInv
<1>2. CASE MainLoads
  <2>1. PICK f : cfg' = Load(f, world.env, world.files, world.tokenFiles)
    BY <1>2 DEF MainLoads
  <2>2. OriginsCanonical(cfg'.MCPHTTPAllowedOrigins)
    BY <2>1, LoadedOrigins
  <2> QED
    BY <2>2 DEF OriginsInv, OriginsCanonical, validateOrigin
<1>3. CASE maybeDaemonize
  BY <1>3 DEF maybeDaemonize, OriginsInv
<1>4. CASE MainInitialises
  <2>1. phase = "loaded" /\ \E b : cfg' = [cfg EXCEPT !.TokenCard = b]
    BY <1>4 DEF MainInitialises
  <2>2. cfg = [s \in Settings |-> cfg[s]]
    BY <2>1 DEF ConfigInv
  <2>3. cfg'.MCPHTTPAllowedOrigins = cfg.MCPHTTPAllowedOrigins
    BY <2>1, <2>2, SettingsOf
  <2>4. OriginsCanonical(cfg.MCPHTTPAllowedOrigins)
    BY <2>1 DEF OriginsInv
  <2> QED
    BY <2>3, <2>4 DEF OriginsInv, OriginsCanonical, validateOrigin
<1>5. CASE /\ cfg' = cfg
           /\ \/ phase' = phase
              \/ phase' \in {"serving", "draining"} /\ phase \in {"ready", "serving"}
  BY <1>5 DEF OriginsInv, OriginsCanonical, validateOrigin
<1> QED
  BY <1>1, <1>2, <1>3, <1>4, <1>5 DEF ProcessNext, MainExits, DaemonRefused, MainGivesUp,
     ListenFails, StdioEnds, ShutdownReturns, PortTaken, Serve, Signal, CancelBase,
     CloseAll, Tick, Arrive, BodyArrives, DeadlinePasses, ContextExpires, HandlerReturns,
     ClientLeaves, ContextCancelled, allVars, procVars

\* The path of the MCP handler is none of the others.
LEMMA PathsApart ==
    ConfigInv /\ phase = "serving" /\ mode = "mcp" =>
       cfg.MCPHTTPPath \notin {MetricsPath, CardPath, "/health"}
  BY DEF ConfigInv, ValidateTransport, validateMCPHTTPPath, reservedMCPHTTPPaths,
         MetricsPath, CardPath

\* A browser at a configured origin gets through the checks in front of the
\* MCP handler, and the status page can fetch its metrics.
LEMMA BrowsersGetThrough ==
    ConfigInv /\ OriginsInv /\ phase = "serving" /\ mode = "mcp" => BrowsersServed
<1> SUFFICES ASSUME ConfigInv, OriginsInv, phase = "serving", mode = "mcp",
                    NEW q \in McpQueries
             PROVE  /\ q.path = CardPath /\ McpStatus(q) = 200 =>
                          McpStatus([q EXCEPT !.path = MetricsPath]) \in {200, 204}
                    /\ Invited(q) =>
                          McpStatus(q) = IF q.method = "OPTIONS" /\ q.asks THEN 204 ELSE 200
  BY DEF BrowsersServed
<1>1. cfg.MCPHTTPPath \notin {MetricsPath, CardPath, "/health"}
  BY PathsApart
<1>2. ASSUME q.path = CardPath, McpStatus(q) = 200
      PROVE  McpStatus([q EXCEPT !.path = MetricsPath]) \in {200, 204}
  <2>1. withAllowedHosts(q)
    <3>1. ~withAllowedHosts(q) => McpStatus(q) = 403
      BY DEF McpStatus
    <3> QED
      BY <1>2, <3>1
  <2>2. ~TokenSet
    <3>1. TokenSet => McpStatus(q) = 404
      BY <1>1, <1>2, <2>1 DEF McpStatus, CardPath, MetricsPath
    <3> QED
      BY <1>2, <3>1
  <2> DEFINE fetch == [q EXCEPT !.path = MetricsPath]
  <2>3. fetch.path = MetricsPath /\ fetch.local = q.local /\ fetch.host = q.host
    BY DEF McpQueries
  <2> HIDE DEF fetch
  <2>4. withAllowedHosts(fetch) /\ requireBearerToken(fetch)
    BY <2>1, <2>2, <2>3 DEF withAllowedHosts, requireBearerToken
  <2>5. McpStatus(fetch) = IF Preflighted(fetch) THEN 204 ELSE 200
    BY <1>1, <2>3, <2>4 DEF McpStatus, CardPath, MetricsPath
  <2>6. McpStatus(fetch) \in {200, 204}
    BY <2>5
  <2> QED
    BY <2>6 DEF fetch
<1>3. ASSUME Invited(q)
      PROVE  McpStatus(q) = IF q.method = "OPTIONS" /\ q.asks THEN 204 ELSE 200
  <2> DEFINE origins == cfg.MCPHTTPAllowedOrigins
  <2>1. /\ origins # <<>> /\ q.origin = "https://app"
        /\ q.path = cfg.MCPHTTPPath /\ q.token /\ q.host = "localhost"
    BY <1>3 DEF Invited
  <2>2. origins = [i \in DOMAIN origins |-> origins[i]]
    BY DEF OriginsInv, OriginsCanonical
  <2>3. \A i \in DOMAIN origins : origins[i] = "https://app"
    BY DEF OriginsInv, OriginsCanonical, ConfigInv, ValidateTransport
  <2>4. DOMAIN origins # {}
    <3> SUFFICES ASSUME DOMAIN origins = {} PROVE FALSE
      OBVIOUS
    <3> HIDE DEF origins
    <3>1. origins \in Seq({}) /\ Len(origins) = 0
      <4>1. origins \in [1..0 -> {}] /\ 1..0 = {}
        BY <2>2
      <4> QED
        BY <4>1
    <3> QED
      BY <2>1, <3>1
  <2>5. AllowedOrigin(q)
    BY <2>1, <2>3, <2>4 DEF AllowedOrigin, Range
  <2>6. /\ withAllowedHosts(q) /\ requireBearerToken(q) /\ CrossOriginAllowed(q)
        /\ Preflighted(q) <=> q.method = "OPTIONS" /\ q.asks
    BY <2>1, <2>5 DEF withAllowedHosts, LoopbackHosts, requireBearerToken,
                      CrossOriginAllowed, Preflighted
  <2>7. CASE q.method = "OPTIONS" /\ q.asks
    BY <1>1, <2>1, <2>6, <2>7 DEF McpStatus
  <2>8. CASE ~(q.method = "OPTIONS" /\ q.asks)
    <3>1. ~Preflighted(q)
      BY <2>6, <2>8
    <3>2. q.path = cfg.MCPHTTPPath
      BY <2>1
    <3>3. q.path \notin {MetricsPath, CardPath, "/health"}
      BY <1>1, <3>2, Zenon
    <3>4. McpStatus(q) = 200
      BY <2>6, <3>1, <3>2, <3>3 DEF McpStatus
    <3> QED
      BY <2>8, <3>4
  <2> QED
    BY <2>7, <2>8
<1> QED
  BY <1>2, <1>3

\* What a running server offers is what its configuration and its own index
\* say, for every file, environment and command line that loads: startHTTPServer,
\* httpAPIIndex and buildMCPServer agree on every route, no tool can be called
\* without the token from another host, and configured browsers get through.
THEOREM ServedCorrect == ProcessSpec => []ServedAsConfigured
<1>1. Init => ConfigInv /\ OriginsInv
  BY DEF Init, ConfigInv, OriginsInv
<1>2. ConfigInv /\ OriginsInv => (phase = "serving" /\ mode = "mcp" => BrowsersServed)
  BY BrowsersGetThrough
<1>3. ProcessSpec => [](ConfigInv /\ OriginsInv)
  BY <1>1, ConfigStep, OriginsStep, PTL DEF ProcessSpec
<1>4. /\ ConfigInv /\ OriginsInv
      /\ phase = "serving" /\ mode = "mcp" => TokenlessIsLocal
      => ServedAsConfigured
  BY <1>2, RestAgrees DEF ServedAsConfigured
<1> QED
  BY <1>3, <1>4, TokenProtects, PTL

=============================================================================
