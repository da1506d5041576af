------------------------- MODULE CatalogToolsProofs -------------------------
(***************************************************************************)
(* Theorems about CatalogTools, for any servers, contents, calls and caps. *)
(***************************************************************************)
EXTENDS CatalogTools, TLAPS, WellFoundedInduction, FiniteSetTheorems

Steps   == {"idle", "plan", "call", "drop", "direct", "fallback", "scan", "row", "exists",
            "source", "target", "columns", "compare", "done"}
Results == {"none", "ok", "error", "note"}

\* What the proofs need to know of the variables' types.
CallsInv ==
    /\ step \in [Calls -> Steps] /\ result \in [Calls -> Results]
    /\ failed \in [Calls -> BOOLEAN]
    /\ pin \in [Calls -> Conns \cup {None}] /\ active \in Conns
    /\ \A c \in Calls : step[c] # "idle" => pin[c] \in Conns
    /\ \A c \in Calls : result[c] = "ok" => step[c] = "done"

WorldInv ==
    /\ catalog \in [Conns -> Content]
    /\ refusal \in [Conns -> {0, 1305, 1370}]

\* The pack of a connection is off, or about to be, only if its server has
\* refused a CALL.
VerdictInv ==
    /\ \A p \in Conns : catalog[p].pack /\ p \notin packs => p \in blamed
    /\ \A c \in Calls : step[c] = "drop" => Server(c) \in blamed

LossInv == \A c \in Calls : result[c] \in {"error", "note"} => failed[c]

-----------------------------------------------------------------------------
(* What a step of a call can do to the things the proofs are about.        *)

Leads(c, s, r) == step' = [step EXCEPT ![c] = s] /\ result' = [result EXCEPT ![c] = r]

\* A call that goes on after a statement.
LEMMA ProceedLeads ==
    ASSUME NEW c \in Calls, NEW o, NEW g, Proceed(c, o, g)
    PROVE  \E s \in {"row", "plan", "exists", "done"}, r \in {result[c], "ok"} :
              Leads(c, s, r) /\ (r = result[c] \/ s = "done")
<1> DEFINE rest == {n \in stmt[c]+1 .. Len(tool[c].stmts) : Applies(c, n, o)}
           check == o = {} /\ tool[c].empty # "ok"
<1>1. /\ step' = [step EXCEPT ![c] = CASE inner[c] -> "row"
                                       [] ~inner[c] /\ rest # {} -> "plan"
                                       [] ~inner[c] /\ rest = {} /\ check -> "exists"
                                       [] OTHER -> "done"]
      /\ result' = [result EXCEPT ![c] =
                      IF inner[c] \/ rest # {} \/ check THEN result[c] ELSE "ok"]
  BY DEF Proceed
<1> HIDE DEF rest, check
<1>2. CASE inner[c] \/ rest # {} \/ check
  <2>1. PICK s \in {"row", "plan", "exists", "done"} : step' = [step EXCEPT ![c] = s]
    BY <1>1
  <2>2. result' = [result EXCEPT ![c] = result[c]]
    BY <1>1, <1>2
  <2> QED
    BY <2>1, <2>2 DEF Leads
<1>3. CASE ~(inner[c] \/ rest # {} \/ check)
  BY <1>1, <1>3 DEF Leads
<1> QED
  BY <1>2, <1>3

\* A statement that fails marks its call, if it fails by itself; if it does
\* not, the call goes on or the answer is an error.
LEMMA FailsLeads ==
    ASSUME CallsInv, NEW c \in Calls, NEW b \in BOOLEAN, StmtFails(c, b)
    PROVE  /\ failed' = [failed EXCEPT ![c] = failed[c] \/ b]
           /\ \E s \in {"row", "plan", "exists", "done"},
                 r \in {result[c], "ok", "error", "note"} :
                 Leads(c, s, r) /\ (r = result[c] \/ s = "done")
<1>1. failed' = [failed EXCEPT ![c] = failed[c] \/ b]
  BY DEF StmtFails
<1>2. \/ Answer(c, "error") \/ Answer(c, "note")
      \/ \E o, g : Proceed(c, o, g)
  BY DEF StmtFails
<1>3. CASE Answer(c, "error") \/ Answer(c, "note")
  BY <1>1, <1>3 DEF Answer, Leads
<1>4. CASE \E o, g : Proceed(c, o, g)
  BY <1>1, <1>4, ProceedLeads
<1> QED
  BY <1>2, <1>3, <1>4

\* The effect of a step of call c.
Effect(c) ==
    /\ UNCHANGED <<catalog, active, refusal, tool, input, pin>>
    /\ step' \in [Calls -> Steps] /\ result' \in [Calls -> Results]
    /\ failed' \in [Calls -> BOOLEAN]
    /\ \A d \in Calls \ {c} :
          step'[d] = step[d] /\ result'[d] = result[d] /\ failed'[d] = failed[d]
    /\ failed[c] => failed'[c]
    /\ result'[c] # result[c] => step'[c] = "done"
    /\ result'[c] # result[c] /\ result'[c] \in {"error", "note"} => failed'[c]
    /\ step'[c] = "drop" => Server(c) \in blamed'
    /\ step[c] \notin {"idle", "done"} /\ step'[c] # "idle"
    /\ blamed \subseteq blamed'
    /\ packs' = packs \/ (step[c] = "drop" /\ packs' = packs \ {Server(c)})

\* A call that only moves on, with failed unchanged or set.
LEMMA MovesOn ==
    ASSUME CallsInv, NEW c \in Calls,
           UNCHANGED <<world, request, packs>>, blamed \subseteq blamed',
           step[c] \notin {"idle", "done"},
           NEW s \in Steps, s # "idle", s = "drop" => Server(c) \in blamed',
           NEW r \in Results, Leads(c, s, r), r = result[c] \/ s = "done",
           \/ failed' = failed /\ r \in {result[c], "ok"}
           \/ failed' = [failed EXCEPT ![c] = TRUE]
    PROVE  Effect(c)
<1>1. UNCHANGED <<catalog, active, refusal, tool, input, pin>> /\ packs' = packs
  BY DEF world, request
<1>2. /\ step' \in [Calls -> Steps] /\ step'[c] = s
      /\ \A d \in Calls \ {c} : step'[d] = step[d]
  BY DEF Leads, CallsInv
<1>3. /\ result' \in [Calls -> Results] /\ result'[c] = r
      /\ \A d \in Calls \ {c} : result'[d] = result[d]
  BY DEF Leads, CallsInv
<1>4. /\ failed' \in [Calls -> BOOLEAN] /\ (failed[c] => failed'[c])
      /\ \A d \in Calls \ {c} : failed'[d] = failed[d]
      /\ r \in {result[c], "ok"} \/ failed'[c]
  BY DEF CallsInv
<1> QED
  BY <1>1, <1>2, <1>3, <1>4 DEF Effect

\* A query that cannot be run.
LEMMA QueryFailsEffect ==
    ASSUME CallsInv, NEW c \in Calls, QueryFails(c, TRUE),
           UNCHANGED <<world, request, packs>>, blamed \subseteq blamed',
           step[c] \notin {"idle", "done"}
    PROVE  Effect(c)
<1> result[c] \in Results
  BY DEF CallsInv
<1>1. CASE Goto(c, "fallback") /\ UNCHANGED failed
  <2>1. Leads(c, "fallback", result[c])
    BY <1>1 DEF Goto, Leads, CallsInv
  <2> QED
    BY <1>1, <2>1, MovesOn DEF Steps, Results
<1>2. CASE StmtFails(c, TRUE)
  <2>1. failed' = [failed EXCEPT ![c] = TRUE]
    BY <1>2, FailsLeads
  <2>2. PICK s \in {"row", "plan", "exists", "done"},
             r \in {result[c], "ok", "error", "note"} :
             Leads(c, s, r) /\ (r = result[c] \/ s = "done")
    BY <1>2, FailsLeads
  <2> QED
    BY <2>1, <2>2, MovesOn DEF Steps, Results
<1> QED
  BY <1>1, <1>2 DEF QueryFails

\* A query that runs.
LEMMA QueryRunsEffect ==
    ASSUME CallsInv, NEW c \in Calls, NEW p, QueryRuns(c, p), UNCHANGED failed,
           UNCHANGED <<world, request, packs>>, blamed \subseteq blamed',
           step[c] \notin {"idle", "done"}
    PROVE  Effect(c)
<1> result[c] \in Results
  BY DEF CallsInv
<1>1. CASE \E o, g : Proceed(c, o, g)
  <2>1. PICK s \in {"row", "plan", "exists", "done"}, r \in {result[c], "ok"} :
             Leads(c, s, r) /\ (r = result[c] \/ s = "done")
    BY <1>1, ProceedLeads
  <2> QED
    BY <2>1, MovesOn DEF Steps, Results
<1>2. CASE \E s \in {"row", "scan"} : Goto(c, s)
  <2>1. PICK s \in {"row", "scan"} : Leads(c, s, result[c])
    BY <1>2 DEF Goto, Leads, CallsInv
  <2> QED
    BY <2>1, MovesOn DEF Steps, Results
<1> QED
  BY <1>1, <1>2 DEF QueryRuns

\* A handler that returns an error has marked its call; one that returns an
\* answer need not.
LEMMA AnswerEffect ==
    ASSUME CallsInv, NEW c \in Calls, NEW r \in {"ok", "error", "note"}, Answer(c, r),
           UNCHANGED <<world, request, packs>>, blamed \subseteq blamed',
           step[c] \notin {"idle", "done"},
           \/ failed' = failed /\ r = "ok"
           \/ failed' = [failed EXCEPT ![c] = TRUE]
    PROVE  Effect(c)
<1>1. Leads(c, "done", r)
  BY DEF Answer, Leads
<1> QED
  BY <1>1, MovesOn DEF Steps, Results

\* Going to another step of the same statement, pack steps aside.
LEMMA GotoEffect ==
    ASSUME CallsInv, NEW c \in Calls, NEW s \in Steps \ {"idle", "drop"}, Goto(c, s),
           UNCHANGED <<world, request, packs, failed>>, blamed \subseteq blamed',
           step[c] \notin {"idle", "done"}
    PROVE  Effect(c)
<1>1. Leads(c, s, result[c]) /\ result[c] \in Results
  BY DEF Goto, Leads, CallsInv
<1> QED
  BY <1>1, MovesOn

\* Every step of a call has only these effects.  A CALL that is refused is
\* refused with one of the two errors that packUnavailable knows.
LEMMA CallEffect ==
    ASSUME CallsInv, WorldInv, NEW c \in Calls, CatalogCall(c)
    PROVE  Effect(c)
<1> result[c] \in Results
  BY DEF CallsInv
<1>1. CASE Plan(c)
  <2>1. PICK s \in {"call", "direct"} : Goto(c, s)
    BY <1>1 DEF Plan
  <2>2. step[c] = "plan" /\ UNCHANGED <<world, request, packs, failed>> /\ blamed' = blamed
    BY <1>1 DEF Plan, history
  <2> QED
    BY <2>1, <2>2, GotoEffect DEF Steps
<1>2. CASE CallPack(c)
  <2>1. step[c] = "call" /\ UNCHANGED <<world, request, packs>> /\ blamed \subseteq blamed'
    BY <1>2 DEF CallPack, history
  <2>2. CASE QueryRuns(c, Server(c)) /\ UNCHANGED history
    BY <2>1, <2>2, QueryRunsEffect DEF history
  <2>3. CASE /\ refusal[Server(c)] # 0 /\ blamed' = blamed \cup {Server(c)}
             /\ IF packUnavailable(refusal[Server(c)])
                THEN Goto(c, "drop") /\ UNCHANGED failed
                ELSE QueryFails(c, FALSE)
    <3>1. Server(c) \in Conns
      BY <2>1 DEF Server, CallsInv
    <3>2. packUnavailable(refusal[Server(c)])
      BY <2>3, <3>1 DEF packUnavailable, WorldInv
    <3>3. Leads(c, "drop", result[c]) /\ failed' = failed
      BY <2>3, <3>2 DEF Goto, Leads, CallsInv
    <3>4. Server(c) \in blamed'
      BY <2>3
    <3> QED
      BY <2>1, <3>3, <3>4, MovesOn DEF Steps, Results
  <2>4. CASE QueryFails(c, TRUE)
    BY <2>1, <2>4, QueryFailsEffect
  <2> QED
    BY <1>2, <2>2, <2>3, <2>4 DEF CallPack
<1>3. CASE dropToolPack(c)
  <2>1. /\ UNCHANGED <<catalog, active, refusal, tool, input, pin>>
        /\ failed' = failed /\ blamed' = blamed /\ result' = result
        /\ step[c] = "drop" /\ packs' = packs \ {Server(c)}
        /\ step' = [step EXCEPT ![c] = "direct"]
    BY <1>3 DEF dropToolPack, Goto, Dropped, world, request, history
  <2>2. step' \in [Calls -> Steps] /\ step'[c] = "direct"
        /\ \A d \in Calls \ {c} : step'[d] = step[d]
    BY <2>1 DEF CallsInv, Steps
  <2> QED
    BY <2>1, <2>2 DEF Effect, CallsInv
<1>4. CASE Query(c)
  <2>1. /\ step[c] \notin {"idle", "done"}
        /\ UNCHANGED <<world, request, packs>> /\ blamed \subseteq blamed'
    BY <1>4 DEF Query
  <2>2. CASE QueryRuns(c, Server(c)) /\ UNCHANGED failed
    BY <2>1, <2>2, QueryRunsEffect
  <2>3. CASE QueryFails(c, TRUE)
    BY <2>1, <2>3, QueryFailsEffect
  <2> QED
    BY <1>4, <2>2, <2>3 DEF Query
<1>5. CASE Scan(c) \/ ReadGuard(c)
  <2>1. /\ step[c] = "scan"
        /\ UNCHANGED <<world, request, packs>> /\ blamed' = blamed
    BY <1>5 DEF Scan, ReadGuard
  <2>2. \/ StmtFails(c, TRUE)
        \/ Answer(c, "error") /\ failed' = [failed EXCEPT ![c] = TRUE]
        \/ \E o, g : Proceed(c, o, g) /\ failed' = failed
    BY <1>5 DEF Scan, ReadGuard
  <2>3. CASE StmtFails(c, TRUE)
    <3>1. failed' = [failed EXCEPT ![c] = TRUE]
      BY <2>3, FailsLeads
    <3>2. PICK s \in {"row", "plan", "exists", "done"},
               r \in {result[c], "ok", "error", "note"} :
               Leads(c, s, r) /\ (r = result[c] \/ s = "done")
      BY <2>3, FailsLeads
    <3> QED
      BY <2>1, <3>1, <3>2, MovesOn DEF Steps, Results
  <2>4. CASE Answer(c, "error") /\ failed' = [failed EXCEPT ![c] = TRUE]
    BY <2>1, <2>4, AnswerEffect
  <2>5. CASE \E o, g : Proceed(c, o, g) /\ failed' = failed
    <3>1. PICK s \in {"row", "plan", "exists", "done"}, r \in {result[c], "ok"} :
               Leads(c, s, r) /\ (r = result[c] \/ s = "done")
      BY <2>5, ProceedLeads
    <3> QED
      BY <2>1, <2>5, <3>1, MovesOn DEF Steps, Results
  <2> QED
    BY <2>2, <2>3, <2>4, <2>5
<1>6. CASE NextColumn(c)
  <2>1. /\ step[c] = "row" /\ failed' = failed
        /\ UNCHANGED <<world, request, packs>> /\ blamed' = blamed
    BY <1>6 DEF NextColumn, history
  <2>2. \E s \in {"plan", "row"} : Leads(c, s, result[c])
    BY <1>6 DEF NextColumn, Leads, CallsInv
  <2> QED
    BY <2>1, <2>2, MovesOn DEF Steps
<1>7. CASE EndColumns(c)
  BY <1>7, AnswerEffect DEF EndColumns, history
<1>8. CASE ExistenceCheck(c)
  BY <1>8, AnswerEffect DEF ExistenceCheck
<1>9. CASE \E s0, d : \E s1 \in {"target", "columns", "compare", "done"} :
              s0 \in {"source", "target", "columns", "compare"} /\ DiffStmt(c, s0, s1, d)
  <2>1. PICK s1 \in {"target", "columns", "compare", "done"} :
           \E s0 \in {"source", "target", "columns", "compare"} : \E d : DiffStmt(c, s0, s1, d)
    BY <1>9
  <2>2. /\ step[c] \notin {"idle", "done"}
        /\ UNCHANGED <<world, request, packs>> /\ blamed' = blamed
    BY <2>1 DEF DiffStmt
  <2>3. \/ failed' = failed /\ (Answer(c, "ok") \/ Goto(c, s1))
        \/ failed' = [failed EXCEPT ![c] = TRUE] /\ Answer(c, "error")
    BY <2>1 DEF DiffStmt
  <2> QED
    BY <2>2, <2>3, AnswerEffect, GotoEffect DEF Steps
<1>10. SourceTables(c) \/ TargetTables(c) \/ SourceColumns(c) \/ TargetColumns(c) =>
         \E s0, d : \E s1 \in {"target", "columns", "compare", "done"} :
              s0 \in {"source", "target", "columns", "compare"} /\ DiffStmt(c, s0, s1, d)
  <2>1. ASSUME SourceTables(c)
        PROVE  \E d : DiffStmt(c, "source", "target", d)
    BY <2>1 DEF SourceTables
  <2>2. ASSUME TargetTables(c)
        PROVE  \E d : DiffStmt(c, "target", "done", d) \/ DiffStmt(c, "target", "columns", d)
    BY <2>2 DEF TargetTables
  <2>3. ASSUME SourceColumns(c)
        PROVE  \E d : DiffStmt(c, "columns", "compare", d)
    BY <2>3 DEF SourceColumns
  <2>4. ASSUME TargetColumns(c)
        PROVE  \E d : DiffStmt(c, "compare", "done", d) \/ DiffStmt(c, "compare", "columns", d)
    BY <2>4 DEF TargetColumns
  <2> QED
    BY <2>1, <2>2, <2>3, <2>4
<1> QED
  BY <1>1, <1>2, <1>3, <1>4, <1>5, <1>6, <1>7, <1>8, <1>9, <1>10 DEF CatalogCall

-----------------------------------------------------------------------------
(* The pack.                                                               *)

PackInv == CallsInv /\ WorldInv /\ LossInv

\* Calls start idle, on a fresh registry.
LEMMA InitPack == CatalogInit => PackInv /\ VerdictInv
<1> SUFFICES ASSUME CatalogInit PROVE PackInv /\ VerdictInv
  OBVIOUS
<1>1. CallsInv
  BY CatalogAssumption DEF CatalogInit, CallsInv, Steps, Results
<1>2. WorldInv
  BY CatalogAssumption DEF CatalogInit, WorldInv
<1>3. VerdictInv /\ LossInv
  BY DEF CatalogInit, VerdictInv, LossInv
<1> QED
  BY <1>1, <1>2, <1>3 DEF PackInv

\* What the arrival of a call does.
LEMMA ArriveEffect ==
    ASSUME CallsInv, NEW c \in Calls, NEW t, NEW in, Arrive(c, t, in)
    PROVE  /\ step[c] = "idle" /\ pin' = [pin EXCEPT ![c] = active]
           /\ UNCHANGED <<catalog, active, refusal, packs, blamed>>
           /\ \/ /\ step' = [step EXCEPT ![c] = "done"]
                 /\ \E r \in {"error", "note"} : result' = [result EXCEPT ![c] = r]
                 /\ failed' = [failed EXCEPT ![c] = TRUE]
              \/ /\ step' = [step EXCEPT ![c] = IF t.diff THEN "source" ELSE "plan"]
                 /\ result' = result /\ failed' = failed
  BY DEF Arrive, world

\* Every step keeps the invariant.
LEMMA PackStep == PackInv /\ [CatalogNext]_catalogVars => PackInv'
<1> SUFFICES ASSUME PackInv, [CatalogNext]_catalogVars PROVE PackInv'
  OBVIOUS
<1> USE DEF PackInv
<1>1. CASE \E c \in Calls : CatalogCall(c)
  <2>1. PICK c \in Calls : Effect(c)
    BY <1>1, CallEffect
  <2>2. CallsInv'
    BY <2>1 DEF Effect, CallsInv
  <2>3. WorldInv' /\ LossInv'
    BY <2>1 DEF Effect, WorldInv, LossInv
  <2> QED
    BY <2>2, <2>3
<1>2. CASE \E c \in Calls : \E t \in ToolsOf[c], in \in Inputs : Arrive(c, t, in)
  <2>1. PICK c \in Calls : \E t, in : Arrive(c, t, in)
    BY <1>2
  <2>2. /\ step[c] = "idle" /\ pin' = [pin EXCEPT ![c] = active]
        /\ UNCHANGED <<catalog, active, refusal, packs, blamed>>
        /\ \/ /\ step' = [step EXCEPT ![c] = "done"]
              /\ \E r \in {"error", "note"} : result' = [result EXCEPT ![c] = r]
              /\ failed' = [failed EXCEPT ![c] = TRUE]
           \/ /\ \E s \in {"source", "plan"} : step' = [step EXCEPT ![c] = s]
              /\ result' = result /\ failed' = failed
    BY <2>1, ArriveEffect
  <2>3. CallsInv'
    BY <2>2 DEF CallsInv, Steps, Results
  <2>4. WorldInv' /\ LossInv'
    BY <2>2 DEF WorldInv, LossInv, CallsInv
  <2> QED
    BY <2>3, <2>4
<1>3. CASE \E p \in Conns : UseConnection(p)
  BY <1>3 DEF UseConnection, CallsInv, WorldInv, LossInv, request, history
<1>4. CASE \E p \in Conns : \E e \in {1305, 1370} : PackGoes(p, e)
  BY <1>4 DEF PackGoes, CallsInv, WorldInv, LossInv, request, history
<1>5. CASE \E c \in Calls : Expire(c)
  BY <1>5 DEF Expire, CallsInv, WorldInv, LossInv, world, request, history
<1>6. CASE UNCHANGED catalogVars
  BY <1>6 DEF catalogVars, CallsInv, WorldInv, LossInv, world, request, history
<1> QED
  BY <1>1, <1>2, <1>3, <1>4, <1>5, <1>6 DEF CatalogNext

\* The verdicts, if calls are pinned.
LEMMA VerdictStep ==
    ASSUME Pinned PROVE PackInv /\ VerdictInv /\ [CatalogNext]_catalogVars => VerdictInv'
<1> SUFFICES ASSUME PackInv, VerdictInv, [CatalogNext]_catalogVars PROVE VerdictInv'
  OBVIOUS
<1> USE DEF PackInv
<1>1. CASE \E c \in Calls : CatalogCall(c)
  <2>1. PICK c \in Calls : Effect(c)
    BY <1>1, CallEffect
  <2> QED
    BY <2>1 DEF Effect, VerdictInv, Server
<1>2. CASE \E c \in Calls : \E t \in ToolsOf[c], in \in Inputs : Arrive(c, t, in)
  <2>1. PICK c \in Calls : \E t, in : Arrive(c, t, in)
    BY <1>2
  <2> QED
    BY <2>1, ArriveEffect DEF VerdictInv, CallsInv, Server
<1>3. CASE \E p \in Conns : UseConnection(p)
  BY <1>3 DEF UseConnection, VerdictInv, Server, request, history
<1>4. CASE \E p \in Conns : \E e \in {1305, 1370} : PackGoes(p, e)
  BY <1>4 DEF PackGoes, VerdictInv, Server, request, history
<1>5. CASE \E c \in Calls : Expire(c)
  BY <1>5 DEF Expire, VerdictInv, Server, world, request, history
<1>6. CASE UNCHANGED catalogVars
  BY <1>6 DEF catalogVars, VerdictInv, Server, world, request, history
<1> QED
  BY <1>1, <1>2, <1>3, <1>4, <1>5, <1>6 DEF CatalogNext

\* A pack that is dropped or revoked while it is used makes no call fail,
\* over MCP and over REST.
THEOREM LossCorrect == CatalogSpec => []PackLossInvisible
<1>1. PackInv => PackLossInvisible
  BY DEF PackInv, LossInv, PackLossInvisible
<1> QED
  BY <1>1, InitPack, PackStep, PTL DEF CatalogSpec

\* dropToolPack never switches off the pack of a server that has not refused
\* it, however many calls run and wherever use_connection moves the active
\* connection; this is what the pin of toolCallMiddleware is for.
THEOREM VerdictCorrect == ASSUME Pinned PROVE CatalogSpec => []PackVerdictSound
<1>1. VerdictInv => PackVerdictSound
  BY DEF VerdictInv, PackVerdictSound
<1> QED
  BY <1>1, InitPack, PackStep, VerdictStep, PTL DEF CatalogSpec

-----------------------------------------------------------------------------
(* schema_diff.                                                            *)

Source(c) == catalog[pin[c]].source
Target(c) == catalog[pin[c]].target
Common(c) == DOMAIN Source(c) \cap DOMAIN Target(c)

\* The differences, if of the tables in both databases only those in X have
\* been compared.
Differences(c, X) ==
    {<<n, "MISSING">> : n \in DOMAIN Source(c) \ DOMAIN Target(c)}
    \cup {<<n, "EXTRA">> : n \in DOMAIN Target(c) \ DOMAIN Source(c)}
    \cup {<<n, "CHANGED">> : n \in {m \in X : Source(c)[m] # Target(c)[m]}}

\* How far a schema_diff has come.
Progress(c) ==
    /\ step[c] \in {"idle", "source", "target", "columns", "compare", "done"}
    /\ step[c] = "source" => diff[c] = NoDiff
    /\ step[c] = "target" => diff[c].source = DOMAIN Source(c)
    /\ step[c] = "columns" =>
          /\ diff[c].todo \subseteq Common(c)
          /\ diff[c].found = Differences(c, Common(c) \ diff[c].todo)
    /\ step[c] = "compare" =>
          \E n \in Common(c) \ diff[c].todo :
             /\ diff[c].todo \subseteq Common(c)
             /\ diff[c].cols = <<n, Source(c)[n]>>
             /\ diff[c].found = Differences(c, Common(c) \ (diff[c].todo \cup {n}))
    /\ result[c] = "ok" => diff[c].found = Differences(c, Common(c))

Fields == {"source", "target", "todo", "cols", "found"}

OneDiff(c) ==
    /\ diff[c] = [i \in Fields |-> diff[c][i]]
    /\ step[c] = "idle" => diff[c] = NoDiff
    /\ step[c] # "done" => result[c] = "none"
    /\ tool[c].diff => Progress(c)

DiffInv ==
    /\ diff = [c \in Calls |-> diff[c]] /\ tool = [c \in Calls |-> tool[c]]
    /\ \A c \in Calls : OneDiff(c)

\* The comparison of two tables finds a difference exactly if they differ.
LEMMA CompareExact ==
    ASSUME NEW s \in TableDefs, NEW t \in TableDefs
    PROVE  compareTableSchema(s, t) = {} <=> s = t
  BY DEF TableDefs, compareTableSchema

\* The tables of a server's databases.
LEMMA TablesOf ==
    ASSUME WorldInv, CallsInv, NEW c \in Calls, step[c] # "idle"
    PROVE  /\ \A n \in DOMAIN Source(c) : Source(c)[n] \in TableDefs
           /\ \A n \in DOMAIN Target(c) : Target(c)[n] \in TableDefs
<1>1. catalog[pin[c]] \in Content
  BY DEF WorldInv, CallsInv
<1>2. Source(c) \in Schemas /\ Target(c) \in Schemas
  BY <1>1 DEF Content, Source, Target
<1> QED
  BY <1>2 DEF Schemas

\* What a step leaves alone stays true.
LEMMA DiffKept ==
    ASSUME NEW c \in Calls, OneDiff(c), catalog' = catalog, pin'[c] = pin[c],
           tool'[c] = tool[c], step'[c] = step[c], result'[c] = result[c],
           diff'[c] = diff[c]
    PROVE  OneDiff(c)'
<1>1. Source(c)' = Source(c) /\ Target(c)' = Target(c)
  BY DEF Source, Target
<1>2. Common(c)' = Common(c) /\ \A X : Differences(c, X)' = Differences(c, X)
  BY <1>1 DEF Common, Differences
<1>3. Progress(c) => Progress(c)'
  BY <1>1, <1>2 DEF Progress
<1> QED
  BY <1>3 DEF OneDiff

\* If one call changes in good order, the others are as they were.
LEMMA OneChanges ==
    ASSUME CallsInv, DiffInv, NEW c \in Calls, Effect(c), OneDiff(c)',
           \/ diff' = diff
           \/ \E d : diff' = [diff EXCEPT ![c] = d]
    PROVE  DiffInv'
<1>1. /\ catalog' = catalog /\ pin' = pin /\ tool' = tool
      /\ \A d \in Calls \ {c} : step'[d] = step[d] /\ result'[d] = result[d]
  BY DEF Effect
<1>2. /\ diff' = [d \in Calls |-> diff'[d]]
      /\ \A d \in Calls \ {c} : diff'[d] = diff[d]
  BY DEF DiffInv
<1>3. \A d \in Calls \ {c} : OneDiff(d)'
  BY <1>1, <1>2, DiffKept DEF DiffInv
<1> QED
  BY <1>1, <1>2, <1>3 DEF DiffInv

\* One statement of a schema_diff: it fails, or what it brings is as due.
LEMMA DiffGoes ==
    ASSUME CallsInv, DiffInv, NEW c \in Calls, Effect(c),
           NEW s0 \in {"source", "target", "columns", "compare"},
           NEW s1 \in {"target", "columns", "compare", "done"},
           NEW e, DiffStmt(c, s0, s1, e),
           e = [i \in Fields |-> e[i]],
           tool[c].diff /\ s1 = "target" => e.source = DOMAIN Source(c),
           tool[c].diff /\ s1 = "columns" =>
              /\ e.todo \subseteq Common(c)
              /\ e.found = Differences(c, Common(c) \ e.todo),
           tool[c].diff /\ s1 = "compare" =>
              \E n \in Common(c) \ e.todo :
                 /\ e.todo \subseteq Common(c) /\ e.cols = <<n, Source(c)[n]>>
                 /\ e.found = Differences(c, Common(c) \ (e.todo \cup {n})),
           tool[c].diff /\ s1 = "done" => e.found = Differences(c, Common(c))
    PROVE  DiffInv'
<1>1. catalog' = catalog /\ pin' = pin /\ tool' = tool /\ step[c] = s0 /\ result[c] = "none"
  BY DEF Effect, DiffStmt, DiffInv, OneDiff
<1>2. Source(c)' = Source(c) /\ Target(c)' = Target(c)
  BY <1>1 DEF Source, Target
<1>3. Common(c)' = Common(c) /\ \A X : Differences(c, X)' = Differences(c, X)
  BY <1>2 DEF Common, Differences
<1>4. CASE Answer(c, "error") /\ diff' = diff
  <2>1. step'[c] = "done" /\ result'[c] = "error"
    BY <1>4 DEF Answer, CallsInv
  <2>2. OneDiff(c)'
    BY <1>1, <1>4, <2>1 DEF DiffInv, OneDiff, Progress
  <2> QED
    BY <1>4, <2>2, OneChanges
<1>5. CASE /\ diff' = [diff EXCEPT ![c] = e]
           /\ IF s1 = "done" THEN Answer(c, "ok") ELSE Goto(c, s1)
  <2>1. diff'[c] = e
    BY <1>5 DEF DiffInv
  <2>2. step'[c] = s1 /\ result'[c] = IF s1 = "done" THEN "ok" ELSE "none"
    BY <1>1, <1>5 DEF Answer, Goto, CallsInv
  <2>3. tool[c].diff => Progress(c)'
    BY <1>2, <1>3, <2>1, <2>2 DEF Progress
  <2>4. OneDiff(c)'
    BY <1>1, <2>1, <2>2, <2>3 DEF OneDiff
  <2> QED
    BY <1>5, <2>4, OneChanges
<1> QED
  BY <1>4, <1>5 DEF DiffStmt

\* Every step of a pinned call keeps its schema_diff exact.
LEMMA DiffCallStep ==
    ASSUME Pinned, CallsInv, WorldInv, DiffInv, NEW c \in Calls, CatalogCall(c)
    PROVE  DiffInv'
<1>1. Effect(c)
  BY CallEffect
<1>2. /\ OneDiff(c) /\ step[c] \notin {"idle", "done"}
      /\ Server(c) = pin[c]
      /\ catalog[Server(c)].source = Source(c) /\ catalog[Server(c)].target = Target(c)
  BY <1>1 DEF DiffInv, Effect, Server, Source, Target
<1> DEFINE D == diff[c]
<1>3. D = [i \in Fields |-> D[i]]
  BY <1>2 DEF OneDiff
<1>4. CASE SourceTables(c)
  <2> DEFINE e == [D EXCEPT !.source = DOMAIN Source(c)]
  <2>1. DiffStmt(c, "source", "target", e)
    BY <1>2, <1>4 DEF SourceTables
  <2>2. /\ e = [i \in Fields |-> e[i]]
        /\ e.source = DOMAIN Source(c)
    BY <1>3 DEF Fields
  <2> HIDE DEF e
  <2> QED
    BY <1>1, <2>1, <2>2, DiffGoes
<1>5. CASE TargetTables(c)
  <2> DEFINE src == D.source
             tgt == DOMAIN Target(c)
             found == {<<t, "MISSING">> : t \in src \ tgt}
                      \cup {<<t, "EXTRA">> : t \in tgt \ src}
             e == [D EXCEPT !.target = tgt, !.todo = src \cap tgt, !.found = found]
             s1 == IF src \cap tgt = {} THEN "done" ELSE "columns"
  <2>1. DiffStmt(c, "target", s1, e)
    BY <1>2, <1>5 DEF TargetTables
  <2>2. /\ e = [i \in Fields |-> e[i]]
        /\ e.todo = src \cap tgt /\ e.found = found
    <3> HIDE DEF found, tgt
    <3> QED
      BY <1>3 DEF Fields
  <2>3. step[c] = "target"
    BY <2>1 DEF DiffStmt
  <2>4. tool[c].diff => src = DOMAIN Source(c)
    BY <1>2, <2>3 DEF OneDiff, Progress
  <2>5. s1 \in {"columns", "done"} /\ (s1 = "done" => src \cap tgt = {})
    OBVIOUS
  <2> HIDE DEF e, s1
  <2>6. tool[c].diff => /\ e.todo = Common(c) /\ Common(c) \ e.todo = {}
                        /\ e.found = Differences(c, {})
    BY <2>2, <2>4 DEF Common, Differences
  <2>7. tool[c].diff /\ s1 = "done" => Common(c) = {}
    BY <2>4, <2>5 DEF Common
  <2> QED
    BY <1>1, <2>1, <2>2, <2>5, <2>6, <2>7, DiffGoes
<1>6. CASE SourceColumns(c)
  <2>1. PICK n \in D.todo :
           DiffStmt(c, "columns", "compare",
                    [D EXCEPT !.todo = D.todo \ {n},
                              !.cols = <<n, ColumnsOf(Source(c), n)>>])
    BY <1>2, <1>6 DEF SourceColumns
  <2> DEFINE todo == D.todo \ {n}
             cols == <<n, ColumnsOf(Source(c), n)>>
             e == [D EXCEPT !.todo = todo, !.cols = cols]
  <2>2. DiffStmt(c, "columns", "compare", e)
    BY <2>1
  <2>3. /\ e = [i \in Fields |-> e[i]]
        /\ e.todo = todo /\ e.cols = cols /\ e.found = D.found
    <3> HIDE DEF todo, cols
    <3> QED
      BY <1>3 DEF Fields
  <2> HIDE DEF e
  <2>4. step[c] = "columns"
    BY <2>2 DEF DiffStmt
  <2>5. tool[c].diff => /\ D.todo \subseteq Common(c)
                        /\ D.found = Differences(c, Common(c) \ D.todo)
    BY <1>2, <2>4 DEF OneDiff, Progress
  <2>6. Common(c) \ D.todo = Common(c) \ (e.todo \cup {n})
    BY <2>3
  <2>7. tool[c].diff => /\ n \in Common(c) \ e.todo /\ e.todo \subseteq Common(c)
                        /\ e.cols = <<n, Source(c)[n]>>
                        /\ e.found = Differences(c, Common(c) \ (e.todo \cup {n}))
    BY <2>3, <2>5, <2>6 DEF ColumnsOf, Common
  <2> QED
    BY <1>1, <2>2, <2>3, <2>7, DiffGoes
<1>7. CASE TargetColumns(c)
  <2> DEFINE n == D.cols[1]
             found == compareTableSchema(D.cols[2], ColumnsOf(Target(c), n))
             all == IF found = {} THEN D.found ELSE D.found \cup {<<n, "CHANGED">>}
             e == [D EXCEPT !.cols = None, !.found = all]
             s1 == IF D.todo = {} THEN "done" ELSE "columns"
  <2>1. DiffStmt(c, "compare", s1, e)
    BY <1>2, <1>7 DEF TargetColumns
  <2>2. /\ e = [i \in Fields |-> e[i]]
        /\ e.todo = D.todo
        /\ e.found = all
    <3> HIDE DEF all
    <3> QED
      BY <1>3 DEF Fields
  <2>3. step[c] = "compare"
    BY <2>1 DEF DiffStmt
  <2>4. s1 \in {"columns", "done"} /\ (s1 = "done" => e.todo = {})
    BY <2>2
  <2> HIDE DEF e, s1
  <2>5. ASSUME tool[c].diff
        PROVE  e.todo \subseteq Common(c) /\ e.found = Differences(c, Common(c) \ e.todo)
    <3>1. PICK m \in Common(c) \ D.todo :
             /\ D.todo \subseteq Common(c)
             /\ D.cols = <<m, Source(c)[m]>>
             /\ D.found = Differences(c, Common(c) \ (D.todo \cup {m}))
      BY <1>2, <2>3, <2>5 DEF OneDiff, Progress
    <3>2. n = m /\ D.cols[2] = Source(c)[m] /\ ColumnsOf(Target(c), n) = Target(c)[m]
      BY <3>1 DEF ColumnsOf, Common
    <3>3. Source(c)[m] \in TableDefs /\ Target(c)[m] \in TableDefs
      BY <1>2, TablesOf DEF Common
    <3>4. found = {} <=> Source(c)[m] = Target(c)[m]
      BY <3>2, <3>3, CompareExact
    <3>5. Common(c) \ D.todo = (Common(c) \ (D.todo \cup {m})) \cup {m}
      BY <3>1
    <3> HIDE DEF n, found
    <3>6. Differences(c, Common(c) \ D.todo) =
             IF Source(c)[m] = Target(c)[m] THEN D.found
             ELSE D.found \cup {<<m, "CHANGED">>}
      BY <3>1, <3>5 DEF Differences
    <3> QED
      BY <2>2, <3>1, <3>2, <3>4, <3>6
  <2>6. e.todo = {} => Common(c) \ e.todo = Common(c)
    OBVIOUS
  <2> QED
    BY <1>1, <2>1, <2>2, <2>4, <2>5, <2>6, DiffGoes
<1>8. CASE \/ Plan(c) \/ CallPack(c) \/ dropToolPack(c) \/ Query(c) \/ Scan(c)
           \/ ReadGuard(c) \/ NextColumn(c) \/ EndColumns(c) \/ ExistenceCheck(c)
  <2>1. diff' = diff
    BY <1>8 DEF Plan, CallPack, dropToolPack, Query, Scan, ReadGuard, NextColumn,
                EndColumns, ExistenceCheck
  <2>2. step[c] \in {"plan", "call", "drop", "direct", "fallback", "scan", "row", "exists"}
    BY <1>8 DEF Plan, CallPack, dropToolPack, Query, Scan, ReadGuard, NextColumn,
                EndColumns, ExistenceCheck
  <2>3. ~tool[c].diff
    BY <1>2, <2>2 DEF OneDiff, Progress
  <2>4. OneDiff(c)'
    BY <1>1, <1>2, <2>1, <2>2, <2>3 DEF OneDiff, Effect
  <2> QED
    BY <1>1, <2>1, <2>4, OneChanges
<1> QED
  BY <1>4, <1>5, <1>6, <1>7, <1>8 DEF CatalogCall

\* Nothing else touches the differences of a call.
LEMMA DiffStep ==
    ASSUME Pinned PROVE PackInv /\ DiffInv /\ [CatalogNext]_catalogVars => DiffInv'
<1> SUFFICES ASSUME PackInv, DiffInv, [CatalogNext]_catalogVars PROVE DiffInv'
  OBVIOUS
<1>1. CASE \E c \in Calls : CatalogCall(c)
  BY <1>1, DiffCallStep DEF PackInv
<1>2. CASE \E c \in Calls : \E t \in ToolsOf[c], in \in Inputs : Arrive(c, t, in)
  <2>1. PICK c \in Calls : \E t, in : Arrive(c, t, in)
    BY <1>2
  <2>2. PICK t : \E in : Arrive(c, t, in)
    BY <2>1
  <2>3. /\ step[c] = "idle" /\ pin' = [pin EXCEPT ![c] = active] /\ catalog' = catalog
        /\ tool' = [tool EXCEPT ![c] = t] /\ diff' = diff
    BY <2>2 DEF Arrive, world
  <2>4. \/ /\ step' = [step EXCEPT ![c] = "done"]
           /\ \E r \in {"error", "note"} : result' = [result EXCEPT ![c] = r]
        \/ /\ step' = [step EXCEPT ![c] = IF t.diff THEN "source" ELSE "plan"]
           /\ result' = result
    BY <2>2, ArriveEffect DEF PackInv
  <2>5. /\ tool' = [d \in Calls |-> tool'[d]] /\ tool'[c] = t
        /\ \A d \in Calls \ {c} : /\ tool'[d] = tool[d] /\ pin'[d] = pin[d]
                                   /\ step'[d] = step[d] /\ result'[d] = result[d]
    BY <2>3, <2>4 DEF PackInv, CallsInv, DiffInv
  <2>6. \A d \in Calls \ {c} : OneDiff(d)'
    BY <2>3, <2>5, DiffKept DEF DiffInv
  <2>7. \/ step'[c] = "done" /\ result'[c] \in {"error", "note"}
        \/ /\ step'[c] = (IF t.diff THEN "source" ELSE "plan")
           /\ result'[c] = "none"
    BY <2>3, <2>4 DEF PackInv, CallsInv, DiffInv, OneDiff
  <2>8. diff'[c] = NoDiff
    BY <2>3 DEF DiffInv, OneDiff
  <2>9. OneDiff(c)'
    <3>1. diff'[c] = [i \in Fields |-> diff'[c][i]]
      BY <2>8 DEF NoDiff, Fields
    <3>2. tool'[c].diff => Progress(c)'
      BY <2>5, <2>7, <2>8 DEF Progress, NoDiff
    <3> QED
      BY <2>7, <2>8, <3>1, <3>2 DEF OneDiff, NoDiff
  <2> QED
    BY <2>3, <2>5, <2>6, <2>9 DEF DiffInv
<1>3. CASE UNCHANGED <<catalog, tool, pin, step, result, diff>>
  BY <1>3, DiffKept DEF DiffInv
<1>4. (\E p \in Conns : UseConnection(p) \/ \E e \in {1305, 1370} : PackGoes(p, e))
      \/ (\E c \in Calls : Expire(c)) \/ UNCHANGED catalogVars
      => UNCHANGED <<catalog, tool, pin, step, result, diff>>
  BY DEF UseConnection, PackGoes, Expire, catalogVars, world, request
<1> QED
  BY <1>1, <1>2, <1>3, <1>4 DEF CatalogNext

\* A schema_diff over MCP reports exactly the differences of the two
\* databases of one server: although it asks for the connection again before
\* each statement, and whatever other calls and use_connection do meanwhile.
THEOREM DiffCorrect == ASSUME Pinned PROVE CatalogSpec => []SchemaDiffExact
<1>1. CatalogInit => DiffInv
  <2> SUFFICES ASSUME CatalogInit PROVE DiffInv
    OBVIOUS
  <2>1. \A c \in Calls : /\ diff[c] = NoDiff /\ tool[c] = Tool /\ step[c] = "idle"
                         /\ result[c] = "none"
    BY DEF CatalogInit
  <2>2. ~Tool.diff
    BY DEF Tool
  <2>3. NoDiff = [i \in Fields |-> NoDiff[i]]
    BY DEF NoDiff, Fields
  <2>4. diff = [c \in Calls |-> diff[c]] /\ tool = [c \in Calls |-> tool[c]]
    BY DEF CatalogInit
  <2> QED
    BY <2>1, <2>2, <2>3, <2>4 DEF DiffInv, OneDiff
<1>2. PackInv /\ DiffInv => SchemaDiffExact
  BY DEF DiffInv, OneDiff, Progress, SchemaDiffExact, Answered, Differences, Common,
         Source, Target
<1> QED
  BY <1>1, <1>2, InitPack, PackStep, DiffStep, PTL DEF CatalogSpec

-----------------------------------------------------------------------------
(* server_info and the guard.                                              *)

\* A set of numbers has a least element.
LEMMA LeastNumber ==
    ASSUME NEW T, T \subseteq Nat, T # {}
    PROVE  \E x \in T : \A y \in T : x <= y
<1> DEFINE R == {ss \in Nat \X Nat : ss[1] < ss[2]}
<1>1. IsWellFoundedOn(R, Nat)
  BY NatLessThanWellFounded, Zenon DEF OpToRel
<1>2. PICK x \in T : \A y \in T : <<y, x>> \notin R
  <2> HIDE DEF R
  <2> QED
    BY <1>1, WFMin
<1>3. ASSUME NEW y \in T PROVE x <= y
  <2>1. <<y, x>> \in Nat \X Nat /\ <<y, x>>[1] = y /\ <<y, x>>[2] = x
    OBVIOUS
  <2>2. ~(y < x)
    BY <1>2, <2>1
  <2> QED
    BY <2>2
<1> QED
  BY <1>3

\* The statements of server_info: none goes through the pack or reads nested
\* rows, and the last one is the lookup of the guard, which is always made.
LEMMA ServerInfoStmts ==
    LET st == toolServerInfo.stmts IN
    /\ Len(st) = 7 /\ DOMAIN st = 1..7
    /\ \A n \in 1..7 : st[n].rows \in {"one", "list", "guard"}
    /\ \A n \in 1..6 : st[n].rows # "guard"
    /\ st[1].when = "always" /\ st[7].when = "always"
    /\ st[7].rows = "guard" /\ st[7].onError = "report" /\ ~st[7].fallback
    /\ toolServerInfo.empty = "ok" /\ ~toolServerInfo.diff
<1> DEFINE vars == [Listing EXCEPT !.pack = FALSE, !.fallback = TRUE, !.cap = NoCap]
           extra == [OneRow EXCEPT !.onError = "ignore", !.when = "flag"]
           last == [extra EXCEPT !.fallback = TRUE]
           st == <<OneRow, vars, vars, OneRow, extra, last, guardInfo>>
<1>1. toolServerInfo.stmts = st /\ toolServerInfo.empty = "ok" /\ ~toolServerInfo.diff
  BY DEF toolServerInfo, Tool
<1>2. vars.rows = "list"
  BY DEF Listing
<1>3. /\ OneRow.rows = "one" /\ OneRow.when = "always"
      /\ extra.rows = "one" /\ last.rows = "one"
  BY DEF OneRow, Listing
<1>4. /\ guardInfo.rows = "guard" /\ guardInfo.onError = "report" /\ ~guardInfo.fallback
      /\ guardInfo.when = "always"
  BY DEF guardInfo, Listing
<1> HIDE DEF vars, extra, last
<1> QED
  BY <1>1, <1>2, <1>3, <1>4

\* The statement and the rows a call is at, its answer so far, and what it
\* knows of the guard.
PlaceInv ==
    /\ stmt = [d \in Calls |-> stmt[d]] /\ inner = [d \in Calls |-> inner[d]]
    /\ rowsOn = [d \in Calls |-> rowsOn[d]] /\ guard = [d \in Calls |-> guard[d]]
    /\ out = [d \in Calls |-> out[d]]

\* Only call c has moved.
Only(c) ==
    /\ PlaceInv'
    /\ \A d \in Calls \ {c} : /\ stmt'[d] = stmt[d] /\ inner'[d] = inner[d]
                               /\ rowsOn'[d] = rowsOn[d] /\ guard'[d] = guard[d]
                               /\ out'[d] = out[d]

\* What server_info may say of the guard of the server it was called on.
GuardVerdict(c) ==
    guard[c] \in {"error", IF catalog[pin[c]].guard THEN "installed" ELSE "absent"}

\* A call of server_info is at one of its seven statements, on its own server,
\* and does not return an answer before it knows of the guard.
OneGuard(c) ==
    /\ step[c] = "idle" => ~inner[c] /\ result[c] = "none"
    /\ tool[c] = toolServerInfo /\ step[c] # "idle" =>
          /\ ~inner[c]
          /\ step[c] \in {"plan", "call", "drop", "direct", "fallback", "scan", "done"}
          /\ step[c] # "done" => stmt[c] \in 1..7 /\ result[c] = "none"
          /\ step[c] = "scan" => rowsOn[c] = pin[c]
          /\ result[c] = "ok" => GuardVerdict(c)

GuardInv ==
    /\ PlaceInv /\ tool = [d \in Calls |-> tool[d]]
    /\ \A c \in Calls : OneGuard(c)

\* What a step leaves alone stays true.
LEMMA GuardKept ==
    ASSUME NEW d \in Calls, OneGuard(d), catalog' = catalog, pin'[d] = pin[d],
           tool'[d] = tool[d], step'[d] = step[d], result'[d] = result[d],
           stmt'[d] = stmt[d], inner'[d] = inner[d], rowsOn'[d] = rowsOn[d],
           guard'[d] = guard[d]
    PROVE  OneGuard(d)'
  BY DEF OneGuard, GuardVerdict

\* Of the places of the calls, at most that of call c has changed.
Moved(c) ==
    \E n, i, g, o : /\ stmt' = [stmt EXCEPT ![c] = n] /\ inner' = [inner EXCEPT ![c] = i]
                    /\ guard' = [guard EXCEPT ![c] = g] /\ out' = [out EXCEPT ![c] = o]

RowsMoved(c) == rowsOn' = rowsOn \/ \E x : rowsOn' = [rowsOn EXCEPT ![c] = x]

\* Answer, Goto and Proceed change the place of their own call only.
LEMMA PartsMove ==
    ASSUME PlaceInv, NEW c \in Calls
    PROVE  /\ \A r : Answer(c, r) => Moved(c)
           /\ \A s : Goto(c, s) => Moved(c)
           /\ \A o, g : Proceed(c, o, g) => Moved(c)
<1>0. /\ stmt = [stmt EXCEPT ![c] = stmt[c]] /\ inner = [inner EXCEPT ![c] = inner[c]]
      /\ guard = [guard EXCEPT ![c] = guard[c]] /\ out = [out EXCEPT ![c] = out[c]]
  BY DEF PlaceInv
<1>1. ASSUME NEW r, Answer(c, r) PROVE Moved(c)
  <2>1. /\ stmt' = [stmt EXCEPT ![c] = 0] /\ inner' = [inner EXCEPT ![c] = inner[c]]
        /\ guard' = [guard EXCEPT ![c] = guard[c]]
    BY <1>0, <1>1 DEF Answer
  <2>2. \E o : out' = [out EXCEPT ![c] = o]
    BY <1>1, Zenon DEF Answer
  <2> QED
    BY <2>1, <2>2, Zenon DEF Moved
<1>2. ASSUME NEW s, Goto(c, s) PROVE Moved(c)
  <2>1. /\ stmt' = [stmt EXCEPT ![c] = stmt[c]] /\ inner' = [inner EXCEPT ![c] = inner[c]]
        /\ guard' = [guard EXCEPT ![c] = guard[c]] /\ out' = [out EXCEPT ![c] = out[c]]
    BY <1>0, <1>2 DEF Goto
  <2> QED
    BY <2>1, Zenon DEF Moved
<1>3. ASSUME NEW o, NEW g, Proceed(c, o, g) PROVE Moved(c)
  <2>1. \E n : stmt' = [stmt EXCEPT ![c] = n]
    BY <1>3, Zenon DEF Proceed
  <2>2. /\ inner' = [inner EXCEPT ![c] = FALSE] /\ guard' = [guard EXCEPT ![c] = g]
        /\ out' = [out EXCEPT ![c] = o]
    BY <1>3, Zenon DEF Proceed
  <2> QED
    BY <2>1, <2>2, Zenon DEF Moved
<1> QED
  BY <1>1, <1>2, <1>3

\* A step of one call does not move the others.
LEMMA OnlyOne ==
    ASSUME PlaceInv, NEW c \in Calls, CatalogCall(c)
    PROVE  Only(c)
<1>1. ASSUME Moved(c), RowsMoved(c) PROVE Only(c)
  BY <1>1 DEF Moved, RowsMoved, PlaceInv, Only
<1>2. ASSUME NEW b, StmtFails(c, b) PROVE Moved(c)
  BY <1>2, PartsMove DEF StmtFails
<1>3. ASSUME NEW b, QueryFails(c, b) PROVE Moved(c)
  BY <1>2, <1>3, PartsMove DEF QueryFails
<1>4. ASSUME CloseRows(c) PROVE RowsMoved(c)
  BY <1>4, Zenon DEF CloseRows, RowsMoved, open
<1>5. ASSUME NEW p, QueryRuns(c, p) PROVE Moved(c) /\ RowsMoved(c)
  BY <1>5, <1>4, PartsMove DEF QueryRuns, RowsMoved
<1>6. CASE Plan(c) \/ dropToolPack(c) \/ ExistenceCheck(c)
  BY <1>1, <1>4, <1>6, PartsMove DEF Plan, dropToolPack, ExistenceCheck, RowsMoved, open
<1>7. CASE CallPack(c) \/ Query(c)
  BY <1>1, <1>3, <1>4, <1>5, <1>7, PartsMove DEF CallPack, Query, RowsMoved, open
<1>8. CASE Scan(c) \/ ReadGuard(c) \/ EndColumns(c)
  BY <1>1, <1>2, <1>4, <1>8, PartsMove DEF Scan, ReadGuard, EndColumns
<1>9. CASE NextColumn(c)
  <2>1. /\ stmt' = stmt /\ rowsOn' = rowsOn /\ guard' = guard
        /\ inner' = inner \/ inner' = [inner EXCEPT ![c] = TRUE]
        /\ out' = out \/ \E o : out' = [out EXCEPT ![c] = o]
    BY <1>9, Zenon DEF NextColumn, open
  <2> QED
    BY <2>1 DEF PlaceInv, Only
<1>10. ASSUME NEW s0, NEW s1, NEW d, DiffStmt(c, s0, s1, d) PROVE Only(c)
  BY <1>1, <1>10, PartsMove DEF DiffStmt, RowsMoved, open
<1>11. CASE SourceTables(c) \/ TargetTables(c) \/ SourceColumns(c) \/ TargetColumns(c)
  BY <1>10, <1>11, Zenon DEF SourceTables, TargetTables, SourceColumns, TargetColumns
<1> QED
  BY <1>6, <1>7, <1>8, <1>9, <1>11 DEF CatalogCall

\* server_info goes on to its next statement, and to its answer only after the
\* last one, whose verdict is g.
LEMMA GuardProceeds ==
    ASSUME CallsInv, GuardInv, NEW c \in Calls, tool[c] = toolServerInfo,
           step[c] \notin {"idle", "done"}, UNCHANGED <<catalog, pin, tool>>,
           NEW o, NEW g, Proceed(c, o, g),
           stmt[c] = 7 =>
              g \in {"error", IF catalog[pin[c]].guard THEN "installed" ELSE "absent"}
    PROVE  OneGuard(c)'
<1> DEFINE rest == {n \in stmt[c]+1 .. Len(tool[c].stmts) : Applies(c, n, o)}
           check == o = {} /\ tool[c].empty # "ok"
           first == CHOOSE n \in rest : \A m \in rest : n <= m
<1>1. stmt[c] \in 1..7 /\ result[c] = "none" /\ ~inner[c]
  BY DEF GuardInv, OneGuard
<1>2. Len(tool[c].stmts) = 7 /\ ~check
  BY ServerInfoStmts
<1>3. /\ step'[c] = (IF rest # {} THEN "plan" ELSE "done")
      /\ result'[c] = (IF rest # {} THEN "none" ELSE "ok")
      /\ stmt'[c] = (IF rest = {} THEN 0 ELSE first)
      /\ ~inner'[c] /\ guard'[c] = g
  <2>1. /\ step' = [step EXCEPT ![c] = CASE inner[c] -> "row"
                                         [] ~inner[c] /\ rest # {} -> "plan"
                                         [] ~inner[c] /\ rest = {} /\ check -> "exists"
                                         [] OTHER -> "done"]
        /\ result' = [result EXCEPT ![c] =
                        IF inner[c] \/ rest # {} \/ check THEN result[c] ELSE "ok"]
        /\ stmt' = [stmt EXCEPT ![c] = IF inner[c] \/ check THEN stmt[c]
                                       ELSE IF rest = {} THEN 0 ELSE first]
        /\ inner' = [inner EXCEPT ![c] = FALSE] /\ guard' = [guard EXCEPT ![c] = g]
    BY DEF Proceed
  <2> HIDE DEF rest, check, first
  <2> QED
    BY <1>1, <1>2, <2>1 DEF CallsInv, GuardInv, PlaceInv
<1>4. CASE stmt[c] < 7
  <2>1. Applies(c, 7, o)
    BY ServerInfoStmts DEF Applies
  <2>2. 7 \in rest /\ rest \subseteq 1..7
    BY <1>1, <1>2, <1>4, <2>1
  <2>3. first \in 1..7
    <3> HIDE DEF rest
    <3>1. \E n \in rest : \A m \in rest : n <= m
      BY <2>2, LeastNumber
    <3>2. first \in rest
      BY <3>1
    <3> QED
      BY <2>2, <3>2
  <2> HIDE DEF rest, first
  <2> QED
    BY <1>3, <2>2, <2>3 DEF OneGuard
<1>5. CASE stmt[c] = 7
  <2>1. rest = {}
    BY <1>2, <1>5
  <2> HIDE DEF rest, first
  <2>2. step'[c] = "done" /\ result'[c] = "ok" /\ ~inner'[c] /\ guard'[c] = g
    BY <1>3, <2>1
  <2>3. GuardVerdict(c)'
    BY <1>5, <2>2 DEF GuardVerdict
  <2> QED
    BY <2>2, <2>3 DEF OneGuard
<1> QED
  BY <1>1, <1>4, <1>5

\* A statement of server_info that fails: at the guard this is reported.
LEMMA GuardFails ==
    ASSUME CallsInv, GuardInv, NEW c \in Calls, tool[c] = toolServerInfo,
           step[c] \notin {"idle", "done"}, UNCHANGED <<catalog, pin, tool>>,
           NEW b, StmtFails(c, b)
    PROVE  OneGuard(c)'
<1>1. stmt[c] \in 1..7 /\ ~inner[c] /\ Stmt(c) = toolServerInfo.stmts[stmt[c]]
  BY DEF GuardInv, OneGuard, Stmt
<1>2. stmt[c] = 7 => Stmt(c).onError = "report"
  BY <1>1, ServerInfoStmts
<1>3. CASE Answer(c, "error") \/ Answer(c, "note")
  <2>1. step'[c] = "done" /\ result'[c] \in {"error", "note"} /\ inner'[c] = inner[c]
    BY <1>3 DEF Answer, CallsInv
  <2> QED
    BY <1>1, <2>1 DEF OneGuard
<1>4. CASE Proceed(c, out[c], "error")
  BY <1>4, GuardProceeds
<1>5. CASE Stmt(c).onError = "ignore" /\ Proceed(c, out[c], guard[c])
  <2>1. stmt[c] # 7
    BY <1>2, <1>5
  <2> QED
    BY <1>5, <2>1, GuardProceeds
<1> QED
  BY <1>3, <1>4, <1>5 DEF StmtFails

\* A query of server_info, with its fallback.
LEMMA GuardQueries ==
    ASSUME CallsInv, GuardInv, NEW c \in Calls, tool[c] = toolServerInfo,
           step[c] \in {"call", "direct", "fallback"}, UNCHANGED <<catalog, pin, tool>>
    PROVE  /\ \A b : QueryFails(c, b) => OneGuard(c)'
           /\ QueryRuns(c, pin[c]) => OneGuard(c)'
<1>1. /\ stmt[c] \in 1..7 /\ ~inner[c] /\ result[c] = "none"
      /\ Stmt(c) = toolServerInfo.stmts[stmt[c]]
  BY DEF GuardInv, OneGuard, Stmt
<1>2. Stmt(c).rows # "nested" /\ (Stmt(c).rows = "one" => stmt[c] # 7)
  BY <1>1, ServerInfoStmts
<1>3. ASSUME NEW s \in {"fallback", "scan"}, Goto(c, s),
             s = "scan" => rowsOn'[c] = pin[c]
      PROVE  OneGuard(c)'
  <2>1. /\ step'[c] = s /\ stmt'[c] = stmt[c] /\ inner'[c] = inner[c]
        /\ result'[c] = result[c]
    BY <1>3 DEF Goto, CallsInv
  <2> QED
    BY <1>1, <1>3, <2>1 DEF OneGuard
<1>4. ASSUME NEW b, QueryFails(c, b) PROVE OneGuard(c)'
  BY <1>3, <1>4, GuardFails DEF QueryFails
<1>5. ASSUME QueryRuns(c, pin[c]) PROVE OneGuard(c)'
  <2>1. CASE Stmt(c).rows = "one"
    BY <1>2, <1>5, <2>1, GuardProceeds DEF QueryRuns
  <2>2. CASE Stmt(c).rows # "one"
    <3>1. Goto(c, "scan") /\ rowsOn' = [rowsOn EXCEPT ![c] = pin[c]]
      BY <1>2, <1>5, <2>2 DEF QueryRuns
    <3>2. rowsOn'[c] = pin[c]
      BY <3>1 DEF GuardInv, PlaceInv
    <3> QED
      BY <1>3, <3>1, <3>2
  <2> QED
    BY <2>1, <2>2
<1> QED
  BY <1>4, <1>5

\* Every step of a pinned call of server_info keeps it in order.
LEMMA GuardCallStep ==
    ASSUME Pinned, CallsInv, WorldInv, GuardInv, NEW c \in Calls, CatalogCall(c),
           tool[c] = toolServerInfo
    PROVE  OneGuard(c)'
<1>1. Effect(c)
  BY CallEffect
<1>2. /\ step[c] \in {"plan", "call", "drop", "direct", "fallback", "scan"}
      /\ UNCHANGED <<catalog, pin, tool>> /\ Server(c) = pin[c]
  BY <1>1 DEF Effect, GuardInv, OneGuard, Server
<1>3. /\ stmt[c] \in 1..7 /\ ~inner[c] /\ result[c] = "none"
      /\ Stmt(c) = toolServerInfo.stmts[stmt[c]]
  BY <1>2 DEF GuardInv, OneGuard, Stmt
<1>4. ASSUME NEW s \in {"call", "drop", "direct"}, Goto(c, s) PROVE OneGuard(c)'
  <2>1. /\ step'[c] = s /\ stmt'[c] = stmt[c] /\ inner'[c] = inner[c]
        /\ result'[c] = result[c]
    BY <1>4 DEF Goto, CallsInv
  <2> QED
    BY <1>2, <1>3, <1>4, <2>1 DEF OneGuard
<1>5. CASE Plan(c) \/ dropToolPack(c)
  BY <1>4, <1>5 DEF Plan, dropToolPack
<1>6. CASE CallPack(c)
  <2>1. step[c] = "call"
    BY <1>6 DEF CallPack
  <2>2. \/ QueryRuns(c, pin[c]) \/ QueryFails(c, TRUE) \/ QueryFails(c, FALSE)
        \/ Goto(c, "drop")
    BY <1>2, <1>6 DEF CallPack
  <2> QED
    BY <1>2, <1>4, <2>1, <2>2, GuardQueries
<1>7. CASE Query(c)
  <2>1. step[c] \in {"direct", "fallback"}
    BY <1>7 DEF Query
  <2>2. QueryRuns(c, pin[c]) \/ QueryFails(c, TRUE)
    BY <1>2, <1>7 DEF Query
  <2> QED
    BY <1>2, <2>1, <2>2, GuardQueries
<1>8. CASE Scan(c)
  <2>1. stmt[c] # 7
    BY <1>3, <1>8, ServerInfoStmts DEF Scan
  <2>2. Answer(c, "error") \/ \E o, g : Proceed(c, o, g)
    BY <1>8 DEF Scan
  <2>3. CASE Answer(c, "error")
    <3>1. step'[c] = "done" /\ result'[c] = "error" /\ inner'[c] = inner[c]
      BY <2>3 DEF Answer, CallsInv
    <3> QED
      BY <1>3, <3>1 DEF OneGuard
  <2>4. CASE \E o, g : Proceed(c, o, g)
    BY <1>2, <2>1, <2>4, GuardProceeds
  <2> QED
    BY <2>2, <2>3, <2>4
<1>9. CASE ReadGuard(c)
  <2>1. rowsOn[c] = pin[c]
    BY <1>9 DEF ReadGuard, GuardInv, OneGuard
  <2> DEFINE g == IF catalog[pin[c]].guard THEN "installed" ELSE "absent"
  <2>2. StmtFails(c, TRUE) \/ Proceed(c, out[c], g)
    BY <1>9, <2>1 DEF ReadGuard
  <2>3. CASE StmtFails(c, TRUE)
    BY <1>2, <2>3, GuardFails
  <2>4. CASE Proceed(c, out[c], g)
    BY <1>2, <2>4, GuardProceeds
  <2> QED
    BY <2>2, <2>3, <2>4
<1> QED
  BY <1>2, <1>5, <1>6, <1>7, <1>8, <1>9 DEF CatalogCall, NextColumn, EndColumns,
     ExistenceCheck, SourceTables, TargetTables, SourceColumns, TargetColumns, DiffStmt

\* A call of server_info starts at its first statement.
LEMMA GuardArrives ==
    ASSUME PackInv, GuardInv, NEW c \in Calls, NEW t, NEW in, Arrive(c, t, in)
    PROVE  /\ Only(c) /\ tool' = [d \in Calls |-> tool'[d]] /\ OneGuard(c)'
           /\ \A d \in Calls \ {c} : OneGuard(d)'
<1>1. /\ step[c] = "idle" /\ pin' = [pin EXCEPT ![c] = active] /\ catalog' = catalog
      /\ tool' = [tool EXCEPT ![c] = t]
      /\ inner' = inner /\ rowsOn' = rowsOn /\ guard' = guard /\ out' = out
  BY DEF Arrive, world, open
<1>2. \/ /\ step' = [step EXCEPT ![c] = "done"]
         /\ \E r \in {"error", "note"} : result' = [result EXCEPT ![c] = r]
      \/ /\ step' = [step EXCEPT ![c] = IF t.diff THEN "source" ELSE "plan"]
         /\ result' = result
  BY ArriveEffect DEF PackInv
<1> DEFINE rest == {n \in DOMAIN t.stmts :
                       t.stmts[n].when # (IF in.flag THEN "noFlag" ELSE "flag")}
           first == IF rest = {} THEN 0 ELSE CHOOSE n \in rest : \A m \in rest : n <= m
<1>3. stmt' = [stmt EXCEPT ![c] = first]
  BY DEF Arrive
<1>4. t = toolServerInfo => first \in 1..7 /\ ~t.diff
  <2> SUFFICES ASSUME t = toolServerInfo PROVE first \in 1..7 /\ ~t.diff
    OBVIOUS
  <2>1. DOMAIN t.stmts = 1..7 /\ t.stmts[1].when = "always" /\ ~t.diff
    BY ServerInfoStmts
  <2>2. 1 \in rest /\ rest \subseteq 1..7
    BY <2>1
  <2> HIDE DEF rest
  <2>3. \E n \in rest : \A m \in rest : n <= m
    BY <2>2, LeastNumber
  <2>4. first \in rest
    BY <2>2, <2>3
  <2> QED
    BY <2>1, <2>2, <2>4
<1> HIDE DEF first
<1>5. Only(c)
  BY <1>1, <1>3 DEF Only, GuardInv, PlaceInv
<1>6. /\ tool' = [d \in Calls |-> tool'[d]] /\ tool'[c] = t
      /\ \A d \in Calls \ {c} : /\ tool'[d] = tool[d] /\ pin'[d] = pin[d]
                                 /\ step'[d] = step[d] /\ result'[d] = result[d]
  BY <1>1, <1>2 DEF PackInv, CallsInv, GuardInv
<1>7. \A d \in Calls \ {c} : OneGuard(d)'
  BY <1>1, <1>5, <1>6, GuardKept DEF GuardInv, Only
<1>8. /\ ~inner'[c] /\ stmt'[c] = first
      /\ \/ step'[c] = "done" /\ result'[c] \in {"error", "note"}
         \/ /\ step'[c] = (IF t.diff THEN "source" ELSE "plan")
            /\ result'[c] = "none"
  BY <1>1, <1>2, <1>3 DEF PackInv, CallsInv, GuardInv, PlaceInv, OneGuard
<1>9. OneGuard(c)'
  BY <1>4, <1>6, <1>8 DEF OneGuard
<1> QED
  BY <1>5, <1>6, <1>7, <1>9

\* Every step keeps the calls of server_info in order, if calls are pinned.
LEMMA GuardStep ==
    ASSUME Pinned PROVE PackInv /\ GuardInv /\ [CatalogNext]_catalogVars => GuardInv'
<1> SUFFICES ASSUME PackInv, GuardInv, [CatalogNext]_catalogVars PROVE GuardInv'
  OBVIOUS
<1>1. CASE \E c \in Calls : CatalogCall(c)
  <2>1. PICK c \in Calls : CatalogCall(c)
    BY <1>1
  <2>2. Effect(c) /\ Only(c)
    BY <2>1, CallEffect, OnlyOne DEF PackInv, GuardInv
  <2>3. OneGuard(c)'
    <3>1. CASE tool[c] = toolServerInfo
      BY <2>1, <3>1, GuardCallStep DEF PackInv
    <3>2. CASE tool[c] # toolServerInfo
      BY <2>2, <3>2 DEF Effect, OneGuard
    <3> QED
      BY <3>1, <3>2
  <2>4. \A d \in Calls \ {c} : OneGuard(d)'
    BY <2>2, GuardKept DEF Effect, Only, GuardInv
  <2> QED
    BY <2>2, <2>3, <2>4 DEF Effect, Only, GuardInv
<1>2. CASE \E c \in Calls : \E t \in ToolsOf[c], in \in Inputs : Arrive(c, t, in)
  <2>1. PICK c \in Calls : \E t, in : Arrive(c, t, in)
    BY <1>2
  <2> QED
    BY <2>1, GuardArrives DEF GuardInv, Only
<1>3. CASE UNCHANGED <<catalog, tool, pin, step, result, stmt, inner, rowsOn, guard, out>>
  BY <1>3, GuardKept DEF GuardInv, PlaceInv
<1>4. (\E p \in Conns : UseConnection(p) \/ \E e \in {1305, 1370} : PackGoes(p, e))
      \/ (\E c \in Calls : Expire(c)) \/ UNCHANGED catalogVars
      => UNCHANGED <<catalog, tool, pin, step, result, stmt, inner, rowsOn, guard, out>>
  BY DEF UseConnection, PackGoes, Expire, catalogVars, world, request, open
<1> QED
  BY <1>1, <1>2, <1>3, <1>4 DEF CatalogNext

\* server_info over MCP never takes a failed lookup for "no guard", nor the
\* guard of one server for that of another: what its answer says of the guard
\* is true of the server the call was pinned to, or that the lookup failed.
THEOREM GuardCorrect == ASSUME Pinned PROVE CatalogSpec => []GuardNeverMissed
<1>1. CatalogInit => GuardInv
  BY DEF CatalogInit, GuardInv, PlaceInv, OneGuard
<1>2. PackInv /\ GuardInv => GuardNeverMissed
  BY DEF PackInv, CallsInv, GuardInv, OneGuard, GuardVerdict, GuardNeverMissed, Answered
<1> QED
  BY <1>1, <1>2, InitPack, PackStep, GuardStep, PTL DEF CatalogSpec

-----------------------------------------------------------------------------
(* Sets of positions.                                                      *)

\* The members of a set before one of its members are fewer than all.
LEMMA RankBound ==
    ASSUME NEW S, IsFiniteSet(S), S \subseteq Nat, NEW i \in S
    PROVE  /\ IsFiniteSet({j \in S : j < i})
           /\ Cardinality({j \in S : j < i}) \in Nat /\ Cardinality(S) \in Nat
           /\ Cardinality({j \in S : j < i}) < Cardinality(S)
<1> DEFINE B == {j \in S : j < i}
<1>1. B \in SUBSET S /\ i \notin B
  OBVIOUS
<1> HIDE DEF B
<1>2. IsFiniteSet(B) /\ Cardinality(B) <= Cardinality(S) /\ Cardinality(B) # Cardinality(S)
  BY <1>1, FS_Subset
<1>3. Cardinality(B) \in Nat /\ Cardinality(S) \in Nat
  BY <1>2, FS_CardinalityType
<1>4. IsFiniteSet(B) /\ Cardinality(B) \in Nat /\ Cardinality(S) \in Nat
      /\ Cardinality(B) < Cardinality(S)
  BY <1>2, <1>3
<1> QED
  BY <1>4 DEF B

\* A set with no more than n members is its first n.
LEMMA FirstAll ==
    ASSUME NEW S, IsFiniteSet(S), S \subseteq Nat, NEW n \in Nat, Cardinality(S) <= n
    PROVE  FirstOf(S, n) = S
<1>1. ASSUME NEW i \in S PROVE Cardinality({j \in S : j < i}) < n
  <2> DEFINE B == {j \in S : j < i}
  <2>1. /\ Cardinality(B) \in Nat /\ Cardinality(S) \in Nat
        /\ Cardinality(B) < Cardinality(S)
    BY RankBound
  <2> HIDE DEF B
  <2>2. Cardinality(B) < n
    BY <2>1
  <2> QED
    BY <2>2 DEF B
<1> QED
  BY <1>1 DEF FirstOf

\* An initial segment with n members or more has the first n of the whole.
LEMMA FirstOfSegment ==
    ASSUME NEW S, IsFiniteSet(S), S \subseteq Nat, NEW P \in SUBSET S, NEW n \in Nat,
           \A i \in P : \A j \in S : j < i => j \in P, Cardinality(P) >= n
    PROVE  FirstOf(P, n) = FirstOf(S, n)
<1>1. ASSUME NEW i \in P PROVE {j \in P : j < i} = {j \in S : j < i}
  OBVIOUS
<1>2. ASSUME NEW i \in S, i \notin P PROVE ~(Cardinality({j \in S : j < i}) < n)
  <2> DEFINE B == {j \in S : j < i}
  <2>1. \A k \in P : k < i
    BY <1>2
  <2>2. P \in SUBSET B
    BY <2>1
  <2>3. IsFiniteSet(B) /\ Cardinality(B) \in Nat
    BY RankBound
  <2> HIDE DEF B
  <2>4. Cardinality(P) <= Cardinality(B) /\ IsFiniteSet(P)
    BY <2>2, <2>3, FS_Subset
  <2>5. Cardinality(P) \in Nat
    BY <2>4, FS_CardinalityType
  <2>6. ~(Cardinality(B) < n)
    BY <2>3, <2>4, <2>5
  <2> QED
    BY <2>6 DEF B
<1> QED
  BY <1>1, <1>2 DEF FirstOf

\* If fewer than n are the first n, they are all.
LEMMA FirstFew ==
    ASSUME NEW S, IsFiniteSet(S), S \subseteq Nat, NEW n \in Nat,
           Cardinality(FirstOf(S, n)) < n
    PROVE  FirstOf(S, n) = S
<1> DEFINE F == FirstOf(S, n)
           L == S \ F
<1>0. F \in SUBSET S
  BY DEF FirstOf
<1>1. CASE L = {}
  BY <1>0, <1>1
<1>2. CASE L # {}
  <2>1. L \subseteq Nat
    OBVIOUS
  <2>2. PICK i \in L : \A k \in L : i <= k
    BY <1>2, <2>1, LeastNumber
  <2> DEFINE B == {j \in S : j < i}
  <2>3. B \in SUBSET F
    <3>1. ASSUME NEW j \in B, j \notin F PROVE FALSE
      <4> HIDE DEF F
      <4>1. j \in S /\ j < i
        OBVIOUS
      <4>2. i <= j /\ i \in Nat /\ j \in Nat
        BY <2>1, <2>2, <3>1, <4>1
      <4> QED
        BY <4>1, <4>2
    <3> QED
      BY <3>1
  <2>4. IsFiniteSet(F)
    BY <1>0, FS_Subset
  <2>5. ~(Cardinality(B) < n)
    BY <2>2 DEF FirstOf
  <2> HIDE DEF B, F
  <2>6. Cardinality(B) <= Cardinality(F) /\ IsFiniteSet(B)
    BY <2>3, <2>4, FS_Subset
  <2>7. Cardinality(B) \in Nat /\ Cardinality(F) \in Nat
    BY <2>4, <2>6, FS_CardinalityType
  <2>8. Cardinality(F) < n
    BY DEF F
  <2> QED
    BY <2>5, <2>6, <2>7, <2>8
<1> QED
  BY <1>1, <1>2

RowsAt(s, n, S) == {<<s, n, i>> : i \in S}

\* The rows of one statement are as many as their positions.
LEMMA RowsCounted ==
    ASSUME NEW S, IsFiniteSet(S), NEW s, NEW n
    PROVE  /\ IsFiniteSet(RowsAt(s, n, S))
           /\ Cardinality(RowsAt(s, n, S)) = Cardinality(S)
<1> DEFINE f == [i \in S |-> <<s, n, i>>]
<1>1. f \in Bijection(S, RowsAt(s, n, S))
  BY DEF Bijection, Injection, IsInjective, Surjection, RowsAt
<1>2. ExistsBijection(S, RowsAt(s, n, S))
  BY <1>1 DEF ExistsBijection
<1> QED
  BY <1>2, FS_Bijection

\* Some of the first n are their own first n.
LEMMA FirstOfSome ==
    ASSUME NEW S, IsFiniteSet(S), S \subseteq Nat, NEW n \in Nat,
           NEW B \in SUBSET FirstOf(S, n)
    PROVE  FirstOf(B, n) = B
<1>1. ASSUME NEW i \in B PROVE Cardinality({j \in B : j < i}) < n
  <2> DEFINE P == {j \in B : j < i}
             Q == {j \in S : j < i}
  <2>1. i \in S /\ B \in SUBSET S /\ Cardinality(Q) < n
    BY DEF FirstOf
  <2>2. P \in SUBSET Q
    BY <2>1
  <2>3. IsFiniteSet(Q) /\ Cardinality(Q) \in Nat
    BY <2>1, RankBound
  <2> HIDE DEF P, Q
  <2>4. IsFiniteSet(P) /\ Cardinality(P) <= Cardinality(Q)
    BY <2>2, <2>3, FS_Subset
  <2>5. Cardinality(P) < n
    BY <2>1, <2>3, <2>4, FS_CardinalityType
  <2> QED
    BY <2>5 DEF P
<1> QED
  BY <1>1 DEF FirstOf

\* The first k of a set are the first k of those of its first n that include
\* them.
LEMMA FirstOfFirst ==
    ASSUME NEW S, IsFiniteSet(S), S \subseteq Nat, NEW n \in Nat, NEW k \in Nat,
           NEW B \in SUBSET FirstOf(S, n), FirstOf(S, k) \subseteq B
    PROVE  FirstOf(B, k) = FirstOf(S, k)
<1> DEFINE A == FirstOf(S, k)
<1>1. A \in SUBSET S /\ A \in SUBSET B /\ B \in SUBSET S
  BY DEF FirstOf
<1>2. IsFiniteSet(A) /\ IsFiniteSet(B)
  BY <1>1, FS_Subset
<1>3. Cardinality(A) \in Nat
  BY <1>2, FS_CardinalityType
<1>4. CASE Cardinality(A) < k
  <2>1. A = S
    BY <1>4, FirstFew
  <2>2. B = S
    BY <1>1, <2>1
  <2> QED
    BY <2>2
<1>5. CASE Cardinality(A) >= k
  <2>1. ASSUME NEW i \in A, NEW j \in S, j < i PROVE j \in A
    <3> DEFINE P == {l \in S : l < j}
               Q == {l \in S : l < i}
    <3>1. i \in S /\ Cardinality(Q) < k
      BY <2>1 DEF FirstOf
    <3>2. P \in SUBSET Q
      <4>1. i \in Nat /\ j \in Nat
        BY <3>1
      <4>2. \A l \in S : l < j => l < i
        BY <2>1, <4>1
      <4> QED
        BY <4>2
    <3>3. IsFiniteSet(Q) /\ Cardinality(Q) \in Nat
      BY <3>1, RankBound
    <3> HIDE DEF P, Q
    <3>4. IsFiniteSet(P) /\ Cardinality(P) <= Cardinality(Q)
      BY <3>2, <3>3, FS_Subset
    <3>5. Cardinality(P) < k
      BY <3>1, <3>3, <3>4, FS_CardinalityType
    <3> QED
      BY <3>5 DEF P, FirstOf
  <2> HIDE DEF A
  <2>2. \A i \in A : \A j \in S : j < i => j \in A
    BY <2>1
  <2>3. FirstOf(A, k) = FirstOf(S, k)
    BY <1>1, <1>5, <2>2, FirstOfSegment
  <2>4. B \subseteq Nat /\ \A i \in A : \A j \in B : j < i => j \in A
    BY <1>1, <2>2
  <2>5. FirstOf(A, k) = FirstOf(B, k)
    BY <1>1, <1>2, <1>5, <2>4, FirstOfSegment
  <2> QED
    BY <2>3, <2>5
<1> QED
  BY <1>3, <1>4, <1>5

-----------------------------------------------------------------------------
(* The listing tools that look at rows.Err().                              *)

Checked(t) == \A n \in DOMAIN t.stmts : t.stmts[n].checked

\* What their statements have in common.
ListStmt(t, n) ==
    LET s == t.stmts[n] IN
    /\ s.onError \in {"fail", "note"} /\ s.cap \in Nat
    /\ s.filter \in {"none", "loop", "sql"} /\ s.limited \in BOOLEAN
    /\ s.scan \in {"skip", "fail"}
    /\ s.limited => s.cap # NoCap /\ s.filter # "loop"
    /\ s.cap # NoCap => \/ t = toolSearchSchema /\ n = 2
                        \/ \A m \in 1..n-1 : t.stmts[m].rows # "list"

ListTool(t) ==
    /\ ~t.diff /\ Len(t.stmts) \in Nat \ {0} /\ DOMAIN t.stmts = 1..Len(t.stmts)
    /\ \A n \in DOMAIN t.stmts :
          /\ t.stmts[n].rows \in {"one", "list", "guard"}
          /\ t.stmts[n].rows = "list" => ListStmt(t, n)
          /\ t.stmts[n].when = "room" => t = toolSearchSchema /\ n = 2
    /\ t.empty # "ok" => Len(t.stmts) = 1
    /\ \/ t.stmts[1].when = "always"
       \/ /\ Len(t.stmts) = 2 /\ t.stmts[1].rows = "one"
          /\ t.stmts[1].when = "flag" /\ t.stmts[2].when = "noFlag"

\* The tools with one statement.
LEMMA OneStmtTool ==
    ASSUME NEW t, NEW s, t.stmts = <<s>>, t.diff = FALSE,
           s.rows \in {"one", "list"}, s.onError \in {"fail", "note"}, s.cap \in Nat,
           s.filter \in {"none", "loop", "sql"}, s.limited = FALSE,
           s.scan \in {"skip", "fail"}, s.when = "always"
    PROVE  ListTool(t)
<1>1. Len(t.stmts) = 1 /\ DOMAIN t.stmts = 1..1 /\ t.stmts[1] = s
  OBVIOUS
<1>2. ASSUME NEW n \in DOMAIN t.stmts PROVE n = 1
  BY <1>1
<1>3. ListStmt(t, 1)
  <2>1. \A m \in 1..1-1 : FALSE
    OBVIOUS
  <2>2. s.limited \in BOOLEAN /\ ~s.limited
    OBVIOUS
  <2> QED
    BY <1>1, <2>1, <2>2 DEF ListStmt
<1> QED
  BY <1>1, <1>2, <1>3 DEF ListTool

\* search_schema: tables, then columns if there is room.
LEMMA SearchTool ==
    /\ ListTool(toolSearchSchema)
    /\ Len(toolSearchSchema.stmts) = 2
    /\ \A n \in 1..2 :
          LET s == toolSearchSchema.stmts[n] IN
          /\ s.rows = "list" /\ s.scan = "fail" /\ s.limited /\ s.cap = MaxRows
          /\ s.filter = "sql"
    /\ toolSearchSchema.stmts[1].when = "always" /\ toolSearchSchema.stmts[2].when = "room"
<1> DEFINE t == toolSearchSchema
           s == [Listing EXCEPT !.scan = "fail", !.filter = "sql", !.limited = TRUE]
           u == [s EXCEPT !.when = "room"]
<1>1. t.stmts = <<s, u>> /\ ~t.diff /\ t.empty = "ok"
  BY DEF toolSearchSchema, Tool
<1>2. /\ s.rows = "list" /\ s.scan = "fail" /\ s.limited = TRUE /\ s.cap = MaxRows
      /\ s.filter = "sql" /\ s.onError = "fail" /\ s.when = "always"
  BY DEF Listing
<1>3. /\ u.rows = "list" /\ u.scan = "fail" /\ u.limited = TRUE /\ u.cap = MaxRows
      /\ u.filter = "sql" /\ u.onError = "fail" /\ u.when = "room"
  BY DEF Listing
<1> HIDE DEF s, u
<1>4. Len(t.stmts) = 2 /\ DOMAIN t.stmts = 1..2 /\ t.stmts[1] = s /\ t.stmts[2] = u
  BY <1>1
<1>5. MaxRows \in Nat /\ MaxRows # NoCap
  BY CatalogAssumption DEF NoCap
<1>6. ListStmt(t, 1) /\ ListStmt(t, 2)
  <2>1. \A m \in 1..1-1 : FALSE
    OBVIOUS
  <2>2. s.limited \in BOOLEAN /\ u.limited \in BOOLEAN
    BY <1>2, <1>3
  <2>3. ListStmt(t, 1)
    BY <1>2, <1>4, <1>5, <2>1, <2>2 DEF ListStmt
  <2>4. ListStmt(t, 2)
    BY <1>3, <1>4, <1>5, <2>2 DEF ListStmt
  <2> QED
    BY <2>3, <2>4
<1>7. \A n \in DOMAIN t.stmts : n = 1 \/ n = 2
  BY <1>4
<1>8. ListTool(t)
  BY <1>1, <1>2, <1>3, <1>4, <1>6, <1>7 DEF ListTool
<1> QED
  BY <1>2, <1>3, <1>4, <1>8

\* explain_query: one JSON document or a listing, as the flag says.
LEMMA ExplainTool == ListTool(toolExplainQuery)
<1> DEFINE t == toolExplainQuery
           s == [OneRow EXCEPT !.when = "flag"]
           u == [Listing EXCEPT !.pack = FALSE, !.scan = "fail", !.cap = NoCap,
                                !.when = "noFlag"]
<1>1. t.stmts = <<s, u>> /\ ~t.diff /\ t.empty = "ok"
  BY DEF toolExplainQuery, Tool
<1>2. s.rows = "one" /\ s.when = "flag"
  BY DEF OneRow, Listing
<1>3. /\ u.rows = "list" /\ u.scan = "fail" /\ u.limited = FALSE /\ u.cap = NoCap
      /\ u.filter = "none" /\ u.onError = "fail" /\ u.when = "noFlag"
  BY DEF Listing
<1> HIDE DEF s, u
<1>4. Len(t.stmts) = 2 /\ DOMAIN t.stmts = 1..2 /\ t.stmts[1] = s /\ t.stmts[2] = u
  BY <1>1
<1>5. ListStmt(t, 2)
  <2>1. u.limited \in BOOLEAN /\ ~u.limited /\ NoCap \in Nat
    BY <1>3 DEF NoCap
  <2> QED
    BY <1>3, <1>4, <2>1 DEF ListStmt
<1>6. \A n \in DOMAIN t.stmts : n = 1 \/ n = 2
  BY <1>4
<1> QED
  BY <1>1, <1>2, <1>3, <1>4, <1>5, <1>6 DEF ListTool

\* slow_query_log: three statements of one row, and the log table.
LEMMA SlowLogTool == ListTool(toolSlowQueryLog)
<1> DEFINE t == toolSlowQueryLog
           s == [OneRow EXCEPT !.onError = "note"]
           u == [OneRow EXCEPT !.onError = "ignore"]
           v == [OneRow EXCEPT !.onError = "ignore", !.when = "file"]
           w == [Listing EXCEPT !.pack = FALSE, !.filter = "sql", !.cap = SlowLimit,
                                !.limited = TRUE, !.onError = "note", !.when = "table"]
<1>1. t.stmts = <<s, u, v, w>> /\ ~t.diff /\ t.empty = "ok"
  BY DEF toolSlowQueryLog, Tool
<1>2. /\ s.rows = "one" /\ s.when = "always" /\ u.rows = "one" /\ u.when = "always"
      /\ v.rows = "one" /\ v.when = "file"
  BY DEF OneRow, Listing
<1>3. /\ w.rows = "list" /\ w.scan = "skip" /\ w.limited = TRUE /\ w.cap = SlowLimit
      /\ w.filter = "sql" /\ w.onError = "note" /\ w.when = "table"
  BY DEF Listing
<1> HIDE DEF s, u, v, w
<1>4. /\ Len(t.stmts) = 4 /\ DOMAIN t.stmts = 1..4 /\ t.stmts[1] = s /\ t.stmts[2] = u
      /\ t.stmts[3] = v /\ t.stmts[4] = w
  BY <1>1
<1>5. ListStmt(t, 4)
  <2>1. w.limited \in BOOLEAN /\ SlowLimit \in Nat /\ SlowLimit # NoCap
    BY <1>3, CatalogAssumption DEF NoCap
  <2>2. \A m \in 1..4-1 : m = 1 \/ m = 2 \/ m = 3
    OBVIOUS
  <2>3. \A m \in 1..4-1 : t.stmts[m].rows # "list"
    BY <1>2, <1>4, <2>2
  <2> QED
    BY <1>3, <1>4, <2>1, <2>3 DEF ListStmt
<1>6. \A n \in DOMAIN t.stmts : n = 1 \/ n = 2 \/ n = 3 \/ n = 4
  BY <1>4
<1> QED
  BY <1>1, <1>2, <1>3, <1>4, <1>5, <1>6 DEF ListTool

\* server_info: two listings without a cap, among statements of one row.
LEMMA ServerInfoTool == ListTool(toolServerInfo)
<1> DEFINE t == toolServerInfo
           vars == [Listing EXCEPT !.pack = FALSE, !.fallback = TRUE, !.cap = NoCap]
           extra == [OneRow EXCEPT !.onError = "ignore", !.when = "flag"]
           last == [extra EXCEPT !.fallback = TRUE]
<1>1. t.stmts = <<OneRow, vars, vars, OneRow, extra, last, guardInfo>>
      /\ ~t.diff /\ t.empty = "ok"
  BY DEF toolServerInfo, Tool
<1>2. /\ vars.rows = "list" /\ vars.scan = "skip" /\ vars.limited = FALSE
      /\ vars.cap = NoCap /\ vars.filter = "none" /\ vars.onError = "fail"
      /\ vars.when = "always"
  BY DEF Listing
<1>3. /\ OneRow.rows = "one" /\ OneRow.when = "always" /\ extra.rows = "one"
      /\ extra.when = "flag" /\ last.rows = "one" /\ last.when = "flag"
  BY DEF OneRow, Listing
<1>4. guardInfo.rows = "guard" /\ guardInfo.when = "always"
  BY DEF guardInfo, Listing
<1> HIDE DEF vars, extra, last
<1>5. /\ Len(t.stmts) = 7 /\ DOMAIN t.stmts = 1..7 /\ t.stmts[1] = OneRow
      /\ t.stmts[2] = vars /\ t.stmts[3] = vars /\ t.stmts[4] = OneRow
      /\ t.stmts[5] = extra /\ t.stmts[6] = last /\ t.stmts[7] = guardInfo
  BY <1>1
<1>6. ListStmt(t, 2) /\ ListStmt(t, 3)
  <2>1. vars.limited \in BOOLEAN /\ ~vars.limited /\ NoCap \in Nat
    BY <1>2 DEF NoCap
  <2> QED
    BY <1>2, <1>5, <2>1 DEF ListStmt
<1>7. \A n \in DOMAIN t.stmts : n = 1 \/ n = 2 \/ n = 3 \/ n = 4 \/ n = 5 \/ n = 6 \/ n = 7
  BY <1>5
<1> QED
  BY <1>1, <1>2, <1>3, <1>4, <1>5, <1>6, <1>7 DEF ListTool

\* Every tool that looks at rows.Err() is schema_diff or one of these.
LEMMA ToolFacts ==
    ASSUME NEW t \in AllTools, Checked(t)
    PROVE  ListTool(t) \/ (t.diff /\ DOMAIN t.stmts = {})
<1>0. MaxRows \in Nat /\ MaxProcessList \in Nat /\ NoCap \in Nat
  BY CatalogAssumption DEF NoCap
<1>1. ListTool(Tool)
  <2>1. /\ Listing.rows = "list" /\ Listing.onError = "fail" /\ Listing.cap = MaxRows
        /\ Listing.filter = "none" /\ Listing.limited = FALSE /\ Listing.scan = "skip"
        /\ Listing.when = "always"
    BY DEF Listing
  <2>2. Tool.stmts = <<Listing>> /\ Tool.diff = FALSE
    BY DEF Tool
  <2> QED
    BY <1>0, <2>1, <2>2, OneStmtTool
<1>2. ListTool(toolListDatabases)
  <2> DEFINE s == [Listing EXCEPT !.scan = "fail", !.filter = "loop"]
  <2>1. /\ s.rows = "list" /\ s.onError = "fail" /\ s.cap = MaxRows /\ s.filter = "loop"
        /\ s.limited = FALSE /\ s.scan = "fail" /\ s.when = "always"
    BY DEF Listing
  <2>2. toolListDatabases.stmts = <<s>> /\ toolListDatabases.diff = FALSE
    BY DEF toolListDatabases, Tool
  <2> HIDE DEF s
  <2> QED
    BY <1>0, <2>1, <2>2, OneStmtTool
<1>3. ListTool(toolListTables) /\ ListTool(toolDescribeTable)
  <2> DEFINE s == [Listing EXCEPT !.scan = "fail"]
  <2>1. /\ s.rows = "list" /\ s.onError = "fail" /\ s.cap = MaxRows /\ s.filter = "none"
        /\ s.limited = FALSE /\ s.scan = "fail" /\ s.when = "always"
    BY DEF Listing
  <2>2. /\ toolListTables.stmts = <<s>> /\ toolListTables.diff = FALSE
        /\ toolDescribeTable.stmts = <<s>> /\ toolDescribeTable.diff = FALSE
    BY DEF toolListTables, toolDescribeTable, Tool
  <2> HIDE DEF s
  <2> QED
    BY <1>0, <2>1, <2>2, OneStmtTool
<1>4. ListTool(toolDatabaseSize)
  <2> DEFINE s == [Listing EXCEPT !.filter = "loop"]
  <2>1. /\ s.rows = "list" /\ s.onError = "fail" /\ s.cap = MaxRows /\ s.filter = "loop"
        /\ s.limited = FALSE /\ s.scan = "skip" /\ s.when = "always"
    BY DEF Listing
  <2>2. toolDatabaseSize.stmts = <<s>> /\ toolDatabaseSize.diff = FALSE
    BY DEF toolDatabaseSize, Tool
  <2> HIDE DEF s
  <2> QED
    BY <1>0, <2>1, <2>2, OneStmtTool
<1>5. ListTool(toolShowCreateTable) /\ ListTool(toolKillQuery)
  <2> DEFINE s == [OneRow EXCEPT !.pack = TRUE]
             u == [OneRow EXCEPT !.onError = "note"]
  <2>1. /\ s.rows = "one" /\ s.onError = "fail" /\ s.cap = NoCap /\ s.filter = "none"
        /\ s.limited = FALSE /\ s.scan = "skip" /\ s.when = "always"
    BY DEF OneRow, Listing
  <2>2. /\ u.rows = "one" /\ u.onError = "note" /\ u.cap = NoCap /\ u.filter = "none"
        /\ u.limited = FALSE /\ u.scan = "skip" /\ u.when = "always"
    BY DEF OneRow, Listing
  <2>3. /\ toolShowCreateTable.stmts = <<s>> /\ toolShowCreateTable.diff = FALSE
        /\ toolKillQuery.stmts = <<u>> /\ toolKillQuery.diff = FALSE
    BY DEF toolShowCreateTable, toolKillQuery, Tool
  <2> HIDE DEF s, u
  <2> QED
    BY <1>0, <2>1, <2>2, <2>3, OneStmtTool
<1>6. ListTool(toolListStatus) /\ ListTool(toolProcessList)
  <2> DEFINE s == [Listing EXCEPT !.fallback = TRUE]
             u == [Listing EXCEPT !.cap = MaxProcessList, !.onError = "note"]
  <2>1. /\ s.rows = "list" /\ s.onError = "fail" /\ s.cap = MaxRows /\ s.filter = "none"
        /\ s.limited = FALSE /\ s.scan = "skip" /\ s.when = "always"
    BY DEF Listing
  <2>2. /\ u.rows = "list" /\ u.onError = "note" /\ u.cap = MaxProcessList
        /\ u.filter = "none" /\ u.limited = FALSE /\ u.scan = "skip" /\ u.when = "always"
    BY DEF Listing
  <2>3. /\ toolListStatus.stmts = <<s>> /\ toolListStatus.diff = FALSE
        /\ toolProcessList.stmts = <<u>> /\ toolProcessList.diff = FALSE
    BY DEF toolListStatus, toolProcessList, Tool
  <2> HIDE DEF s, u
  <2> QED
    BY <1>0, <2>1, <2>2, <2>3, OneStmtTool
<1>7. ~Checked(toolListIndexes) /\ ~Checked(toolVectorSearch) /\ ~Checked(toolVectorInfo)
  <2> DEFINE s == [Listing EXCEPT !.cap = NoCap, !.checked = FALSE]
             u == [Listing EXCEPT !.pack = FALSE, !.limited = TRUE, !.checked = FALSE]
             w == [Listing EXCEPT !.rows = "nested", !.cap = NoCap, !.checked = FALSE,
                                  !.when = "vector"]
  <2>1. s.checked = FALSE /\ u.checked = FALSE /\ w.checked = FALSE
    BY DEF Listing
  <2>2. /\ toolListIndexes.stmts = <<s>> /\ toolVectorSearch.stmts = <<u>>
        /\ toolVectorInfo.stmts = <<OneRow, w>>
    BY DEF toolListIndexes, toolVectorSearch, toolVectorInfo, Tool
  <2> HIDE DEF s, u, w
  <2>3. /\ 1 \in DOMAIN toolListIndexes.stmts /\ toolListIndexes.stmts[1] = s
        /\ 1 \in DOMAIN toolVectorSearch.stmts /\ toolVectorSearch.stmts[1] = u
        /\ 2 \in DOMAIN toolVectorInfo.stmts /\ toolVectorInfo.stmts[2] = w
    BY <2>2
  <2> QED
    BY <2>1, <2>3 DEF Checked
<1>8. toolSchemaDiff.diff = TRUE /\ DOMAIN toolSchemaDiff.stmts = {}
  BY DEF toolSchemaDiff, Tool
<1>9. /\ toolListViews = Tool /\ toolListTriggers = Tool /\ toolListProcedures = Tool
      /\ toolListFunctions = Tool /\ toolListPartitions = Tool /\ toolTableSize = Tool
      /\ toolForeignKeys = Tool /\ toolListVariables = toolListStatus
  BY DEF toolListViews, toolListTriggers, toolListProcedures, toolListFunctions,
         toolListPartitions, toolTableSize, toolForeignKeys, toolListVariables
<1> QED
  BY <1>1, <1>2, <1>3, <1>4, <1>5, <1>6, <1>7, <1>8, <1>9, SearchTool, ExplainTool, SlowLogTool,
     ServerInfoTool DEF AllTools

-----------------------------------------------------------------------------
(* The rows due, statement by statement.                                   *)

\* All rows the statements would bring, and those of the statements before n.
Gathered(c) == UNION {RowsAt(pin[c], n, Brought(c, n)) : n \in Listed(c)}
Earlier(c, n) == {q \in Gathered(c) : q[2] < n}

\* The rows due of statement n, and of those before it.
DueAt(c, n) == {r \in Due(c) : r[2] = n}
DueBefore(c, n) == {r \in Due(c) : r[2] < n}

\* A listing is finite.
LEMMA BroughtFinite ==
    ASSUME WorldInv, NEW c \in Calls, pin[c] \in Conns, NEW n
    PROVE  /\ IsFiniteSet(MayShow(c, n)) /\ MayShow(c, n) \subseteq Nat
           /\ IsFiniteSet(Brought(c, n)) /\ Brought(c, n) \in SUBSET MayShow(c, n)
           /\ Brought(c, n) \subseteq Nat
<1> DEFINE rows == catalog[pin[c]].rows
<1>1. Len(rows) \in Nat /\ DOMAIN rows = 1..Len(rows)
  BY DEF WorldInv, Content
<1>2. IsFiniteSet(DOMAIN rows) /\ DOMAIN rows \subseteq Nat
  BY <1>1, FS_Interval
<1>3. MayShow(c, n) \in SUBSET DOMAIN rows
  BY DEF MayShow
<1>4. Brought(c, n) \in SUBSET MayShow(c, n)
  BY DEF Brought, FirstOf
<1>5. IsFiniteSet(MayShow(c, n))
  <2> HIDE DEF rows
  <2> QED
    BY <1>2, <1>3, FS_Subset
<1>6. IsFiniteSet(Brought(c, n))
  BY <1>4, <1>5, FS_Subset
<1> QED
  BY <1>2, <1>3, <1>4, <1>5, <1>6

\* A row due is one that a statement of the tool would bring.
LEMMA DueForm ==
    ASSUME NEW c, NEW r \in Due(c)
    PROVE  \E n \in Listed(c) : \E i \in Brought(c, n) : r = <<pin[c], n, i>>
<1> DEFINE rows == UNION {{<<pin[c], n, i>> : i \in Brought(c, n)} : n \in Listed(c)}
<1>1. r \in rows
  BY DEF Due
<1> QED
  BY <1>1

\* A row is due if its statement has no cap, or fewer rows come before it.
LEMMA DueRow ==
    ASSUME NEW c, Listed(c) \subseteq Nat, NEW n \in Listed(c), NEW i \in Brought(c, n)
    PROVE  <<pin[c], n, i>> \in Due(c) <=>
             (tool[c].stmts[n].cap # NoCap =>
                Cardinality(Earlier(c, n) \cup
                            RowsAt(pin[c], n, {j \in Brought(c, n) : j < i}))
                  < tool[c].stmts[n].cap)
<1> DEFINE rows == UNION {{<<pin[c], m, k>> : k \in Brought(c, m)} : m \in Listed(c)}
           Before(q, r) == q[2] < r[2] \/ (q[2] = r[2] /\ q[3] < r[3])
           r == <<pin[c], n, i>>
           B == {q \in rows : Before(q, r)}
           E == Earlier(c, n) \cup RowsAt(pin[c], n, {j \in Brought(c, n) : j < i})
<1>1. rows = Gathered(c)
  BY DEF Gathered, RowsAt
<1>2. r \in rows
  OBVIOUS
<1>3. ASSUME NEW q \in B PROVE q \in E
  <2>1. PICK m \in Listed(c) : \E k \in Brought(c, m) : q = <<pin[c], m, k>>
    OBVIOUS
  <2>2. PICK k \in Brought(c, m) : q = <<pin[c], m, k>>
    BY <2>1
  <2>3. m < n \/ (m = n /\ k < i)
    BY <2>2
  <2>4. CASE m < n
    BY <1>1, <2>2, <2>4 DEF Earlier
  <2>5. CASE m = n /\ k < i
    BY <2>2, <2>5 DEF RowsAt
  <2> QED
    BY <2>3, <2>4, <2>5
<1>4. ASSUME NEW q \in E PROVE q \in B
  <2>1. CASE q \in Earlier(c, n)
    BY <1>1, <2>1 DEF Earlier
  <2>2. CASE q \in RowsAt(pin[c], n, {j \in Brought(c, n) : j < i})
    <3>1. PICK k \in Brought(c, n) : k < i /\ q = <<pin[c], n, k>>
      BY <2>2 DEF RowsAt
    <3>2. q \in rows
      BY <3>1
    <3> QED
      BY <3>1, <3>2
  <2> QED
    BY <2>1, <2>2
<1>5. B = E
  <2> HIDE DEF B, E
  <2> QED
    BY <1>3, <1>4
<1>6. r \in Due(c) <=> (tool[c].stmts[n].cap # NoCap => Cardinality(B) < tool[c].stmts[n].cap)
  BY <1>2 DEF Due
<1> QED
  BY <1>5, <1>6

\* The statements a tool lists with are statements of it; MySQL's room for the
\* columns of search_schema aside, they do not depend on the rows so far.
LEMMA ListedStmts ==
    ASSUME NEW c, ListTool(tool[c])
    PROVE  /\ Listed(c) \subseteq 1..Len(tool[c].stmts) /\ Listed(c) \subseteq Nat
           /\ \A n \in Listed(c) : tool[c].stmts[n].rows = "list" /\ ListStmt(tool[c], n)
           /\ \A n \in 1..Len(tool[c].stmts) : \A o :
                 /\ tool[c].stmts[n].rows = "list" /\ Applies(c, n, o) => n \in Listed(c)
                 /\ n \in Listed(c) /\ ~Applies(c, n, o) =>
                       /\ tool[c] = toolSearchSchema /\ n = 2
                       /\ ~(Cardinality(o) < MaxRows)
<1>1. Listed(c) \subseteq 1..Len(tool[c].stmts) /\ Listed(c) \subseteq Nat
  BY DEF Listed, ListTool
<1>2. \A n \in Listed(c) : tool[c].stmts[n].rows = "list" /\ ListStmt(tool[c], n)
  BY DEF Listed, ListTool
<1>3. Cardinality({}) < MaxRows
  BY FS_EmptySet, CatalogAssumption
<1>4. ASSUME NEW n \in 1..Len(tool[c].stmts), NEW o
      PROVE  /\ tool[c].stmts[n].rows = "list" /\ Applies(c, n, o) => n \in Listed(c)
             /\ n \in Listed(c) /\ ~Applies(c, n, o) =>
                   /\ tool[c] = toolSearchSchema /\ n = 2
                   /\ ~(Cardinality(o) < MaxRows)
  <2>1. n \in DOMAIN tool[c].stmts
    BY DEF ListTool
  <2>2. CASE tool[c].stmts[n].when = "room"
    <3>1. Applies(c, n, {}) /\ (Applies(c, n, o) <=> Cardinality(o) < MaxRows)
      BY <1>3, <2>2 DEF Applies
    <3>2. tool[c] = toolSearchSchema /\ n = 2
      BY <2>1, <2>2 DEF ListTool
    <3> QED
      BY <2>1, <3>1, <3>2 DEF Listed
  <2>3. CASE tool[c].stmts[n].when # "room"
    <3>1. Applies(c, n, o) <=> Applies(c, n, {})
      BY <2>3 DEF Applies
    <3> QED
      BY <2>1, <3>1 DEF Listed
  <2> QED
    BY <2>2, <2>3
<1> QED
  BY <1>1, <1>2, <1>4

\* A statement before which nothing is listed has nothing due before it.
LEMMA NothingEarlier ==
    ASSUME NEW c, NEW n, \A m \in Listed(c) : ~(m < n)
    PROVE  Earlier(c, n) = {} /\ DueBefore(c, n) = {}
<1>1. ASSUME NEW q \in Earlier(c, n) PROVE FALSE
  <2>1. q[2] < n /\ \E m \in Listed(c) : \E i \in Brought(c, m) : q = <<pin[c], m, i>>
    BY <1>1 DEF Earlier, Gathered, RowsAt
  <2> QED
    BY <2>1
<1>2. ASSUME NEW q \in DueBefore(c, n) PROVE FALSE
  <2>1. q[2] < n /\ q \in Due(c)
    BY <1>2 DEF DueBefore
  <2>2. \E m \in Listed(c) : \E i \in Brought(c, m) : q = <<pin[c], m, i>>
    BY <2>1, DueForm
  <2> QED
    BY <2>1, <2>2
<1> QED
  BY <1>1, <1>2

\* All tables that search_schema brings are due.
LEMMA TablesDue ==
    ASSUME WorldInv, NEW c \in Calls, pin[c] \in Conns, tool[c] = toolSearchSchema
    PROVE  /\ Earlier(c, 2) = RowsAt(pin[c], 1, Brought(c, 1))
           /\ DueBefore(c, 2) = RowsAt(pin[c], 1, Brought(c, 1))
<1> DEFINE B == Brought(c, 1)
<1>0. ListTool(tool[c]) /\ Listed(c) \subseteq Nat
  BY SearchTool, ListedStmts
<1>1. 1 \in Listed(c) /\ \A m \in Listed(c) : m < 2 => m = 1
  <2>1. Listed(c) \subseteq 1..2
    BY <1>0, SearchTool, ListedStmts
  <2>2. Applies(c, 1, {})
    BY SearchTool DEF Applies
  <2>3. 1 \in DOMAIN tool[c].stmts /\ tool[c].stmts[1].rows = "list"
    BY SearchTool DEF ListTool
  <2>4. 1 \in Listed(c)
    BY <2>2, <2>3 DEF Listed
  <2> QED
    BY <2>1, <2>4
<1>2. Earlier(c, 2) = RowsAt(pin[c], 1, B)
  BY <1>1 DEF Earlier, Gathered, RowsAt
<1>3. /\ tool[c].stmts[1].cap = MaxRows /\ MaxRows \in Nat
      /\ B \in SUBSET FirstOf(MayShow(c, 1), MaxRows)
  <2>1. tool[c].stmts[1].cap = MaxRows /\ tool[c].stmts[1].limited
    BY SearchTool
  <2> QED
    BY <2>1, CatalogAssumption DEF Brought
<1>4. FirstOf(B, MaxRows) = B /\ IsFiniteSet(B) /\ B \subseteq Nat
  BY <1>3, BroughtFinite, FirstOfSome
<1>5. Earlier(c, 1) = {}
  <2>1. \A m \in Listed(c) : ~(m < 1)
    BY <1>0, SearchTool, ListedStmts
  <2> QED
    BY <2>1, NothingEarlier
<1>6. ASSUME NEW i \in B PROVE <<pin[c], 1, i>> \in Due(c)
  <2> DEFINE P == {j \in B : j < i}
  <2>1. Cardinality(P) < MaxRows
    BY <1>4 DEF FirstOf
  <2>2. IsFiniteSet(P)
    BY <1>4, RankBound
  <2>3. Cardinality(Earlier(c, 1) \cup RowsAt(pin[c], 1, P)) < MaxRows
    <3> HIDE DEF P
    <3>1. Earlier(c, 1) \cup RowsAt(pin[c], 1, P) = RowsAt(pin[c], 1, P)
      BY <1>5
    <3> QED
      BY <2>1, <2>2, <3>1, RowsCounted
  <2> QED
    BY <1>0, <1>1, <1>3, <2>3, DueRow
<1>7. DueBefore(c, 2) \subseteq RowsAt(pin[c], 1, B)
  <2>1. ASSUME NEW q \in DueBefore(c, 2) PROVE q \in RowsAt(pin[c], 1, B)
    <3>1. q[2] < 2 /\ \E m \in Listed(c) : \E i \in Brought(c, m) : q = <<pin[c], m, i>>
      BY <2>1, DueForm DEF DueBefore
    <3> QED
      BY <1>1, <3>1 DEF RowsAt
  <2> QED
    BY <2>1
<1>8. RowsAt(pin[c], 1, B) \subseteq DueBefore(c, 2)
  BY <1>6 DEF RowsAt, DueBefore
<1> QED
  BY <1>2, <1>7, <1>8

\* A capped statement comes after nothing, or it is the columns of search_schema.
LEMMA CappedAfter ==
    ASSUME NEW c, ListTool(tool[c]), NEW n \in Listed(c), tool[c].stmts[n].cap # NoCap,
           ~(tool[c] = toolSearchSchema /\ n = 2)
    PROVE  Earlier(c, n) = {} /\ DueBefore(c, n) = {}
<1>1. n \in Nat /\ \A m \in 1..n-1 : tool[c].stmts[m].rows # "list"
  BY ListedStmts DEF ListStmt
<1>2. ASSUME NEW m \in Listed(c), m < n PROVE FALSE
  <2>1. m \in Nat /\ m >= 1 /\ tool[c].stmts[m].rows = "list"
    BY ListedStmts DEF ListTool
  <2>2. m \in 1..n-1
    BY <1>1, <1>2, <2>1
  <2> QED
    BY <1>1, <2>1, <2>2
<1> QED
  BY <1>2, NothingEarlier

\* What is due of a statement, in terms of what is due before it.
Part(c, n) ==
    {i \in Brought(c, n) :
        tool[c].stmts[n].cap # NoCap =>
           Cardinality(DueBefore(c, n)) + Cardinality({j \in Brought(c, n) : j < i})
             < tool[c].stmts[n].cap}

\* All that comes before a capped statement is due.
LEMMA DuePart ==
    ASSUME WorldInv, NEW c \in Calls, pin[c] \in Conns, ListTool(tool[c]),
           NEW n \in Listed(c)
    PROVE  /\ tool[c].stmts[n].cap # NoCap => IsFiniteSet(DueBefore(c, n))
           /\ DueAt(c, n) = RowsAt(pin[c], n, Part(c, n))
<1> DEFINE B == Brought(c, n)
           D == DueBefore(c, n)
           cap == tool[c].stmts[n].cap
<1>0. IsFiniteSet(B) /\ B \subseteq Nat /\ Listed(c) \subseteq Nat
  BY BroughtFinite, ListedStmts
<1>1. ASSUME cap # NoCap PROVE D = Earlier(c, n) /\ IsFiniteSet(D) /\ \A q \in D : q[2] # n
  <2>1. CASE tool[c] = toolSearchSchema /\ n = 2
    <3>1. D = Earlier(c, n) /\ D = RowsAt(pin[c], 1, Brought(c, 1))
      BY <2>1, TablesDue
    <3>2. IsFiniteSet(D)
      BY <3>1, BroughtFinite, RowsCounted
    <3> QED
      BY <2>1, <3>1, <3>2 DEF RowsAt
  <2>2. CASE ~(tool[c] = toolSearchSchema /\ n = 2)
    BY <1>1, <2>2, CappedAfter, FS_EmptySet
  <2> QED
    BY <2>1, <2>2
<1>2. ASSUME NEW i \in B PROVE <<pin[c], n, i>> \in Due(c) <=> i \in Part(c, n)
  <2> DEFINE P == {j \in B : j < i}
             R == RowsAt(pin[c], n, P)
  <2>1. /\ <<pin[c], n, i>> \in Due(c)
           <=> (cap # NoCap => Cardinality(Earlier(c, n) \cup R) < cap)
    BY <1>0, DueRow
  <2>2. i \in Part(c, n) <=> (cap # NoCap => Cardinality(D) + Cardinality(P) < cap)
    BY DEF Part
  <2>3. IsFiniteSet(P)
    BY <1>0, RankBound
  <2> HIDE DEF P
  <2>4. IsFiniteSet(R) /\ Cardinality(R) = Cardinality(P) /\ \A q \in R : q[2] = n
    <3>1. \A q \in R : q[2] = n
      BY DEF RowsAt
    <3> QED
      BY <2>3, <3>1, RowsCounted
  <2> HIDE DEF R, D
  <2>5. ASSUME cap # NoCap
        PROVE  Cardinality(Earlier(c, n) \cup R) = Cardinality(D) + Cardinality(P)
    <3>1. D = Earlier(c, n) /\ IsFiniteSet(D) /\ \A q \in D : q[2] # n
      BY <1>1, <2>5
    <3>2. D \cap R = {}
      BY <2>4, <3>1
    <3>3. Cardinality(D \cup R) = Cardinality(D) + Cardinality(R) - 0
      BY <2>4, <3>1, <3>2, FS_Union, FS_EmptySet
    <3>4. Cardinality(D) \in Nat /\ Cardinality(R) \in Nat
      BY <2>4, <3>1, FS_CardinalityType
    <3> QED
      BY <2>4, <3>1, <3>3, <3>4
  <2> QED
    BY <2>1, <2>2, <2>5
<1>3. ASSUME NEW q \in DueAt(c, n) PROVE q \in RowsAt(pin[c], n, Part(c, n))
  <2>1. q \in Due(c) /\ q[2] = n
    BY <1>3 DEF DueAt
  <2>2. PICK m \in Listed(c) : \E i \in Brought(c, m) : q = <<pin[c], m, i>>
    BY <2>1, DueForm
  <2>3. m = n
    BY <2>1, <2>2
  <2>4. PICK i \in B : q = <<pin[c], n, i>>
    BY <2>2, <2>3
  <2> QED
    BY <1>2, <2>1, <2>4 DEF RowsAt
<1>4. ASSUME NEW q \in RowsAt(pin[c], n, Part(c, n)) PROVE q \in DueAt(c, n)
  <2>1. PICK i \in Part(c, n) : q = <<pin[c], n, i>>
    BY <1>4 DEF RowsAt
  <2>2. i \in B
    BY DEF Part
  <2> QED
    BY <1>2, <2>1, <2>2 DEF DueAt
<1> QED
  BY <1>1, <1>3, <1>4

\* The row loop appends exactly the rows due of its statement, unless it ends
\* with an error or the stream ended before the cap.
LEMMA LoopExact ==
    ASSUME WorldInv, NEW c \in Calls, pin[c] \in Conns, ListTool(tool[c]),
           ~inner[c], stmt[c] \in Listed(c), Applies(c, stmt[c], out[c]),
           out[c] = DueBefore(c, stmt[c]), NEW k \in Nat,
           NEW rows, rows = {i \in Sent(c, pin[c]) : i <= k},
           ~Loop(c, pin[c], rows).scanError,
           Loop(c, pin[c], rows).capped \/ rows = Sent(c, pin[c])
    PROVE  Loop(c, pin[c], rows).rows = DueAt(c, stmt[c])
<1> DEFINE n == stmt[c]
           s == pin[c]
           st == tool[c].stmts[n]
           M == MayShow(c, n)
           B == Brought(c, n)
           good(i) == Scans(s, i) /\ ~Hidden(c, s, i)
           seen == {i \in rows : st.scan = "fail" => \A j \in rows : j <= i => Scans(s, j)}
           wanted == {i \in seen : good(i)}
           cap == IF st.limited THEN NoCap ELSE st.cap
           capped == cap # NoCap /\ Cardinality(wanted) >= cap
           sent == {i \in DOMAIN catalog[s].rows :
                      \/ catalog[s].rows[i] # "other"
                      \/ input[c].db # "given" /\ ~(st.filter = "sql" /\ AccessControl)}
<1>1. Stmt(c) = st /\ ListStmt(tool[c], n) /\ n \in Nat
  BY ListedStmts DEF Stmt
<1>2. /\ Loop(c, s, rows).rows = RowsAt(s, n, IF capped THEN FirstOf(wanted, cap) ELSE wanted)
      /\ Loop(c, s, rows).capped = capped
      /\ Loop(c, s, rows).scanError = (~capped /\ seen # rows)
  BY <1>1 DEF Loop, RowsAt
<1>3. Sent(c, s) = IF st.limited THEN FirstOf(sent, st.cap - Cardinality(out[c])) ELSE sent
  BY <1>1 DEF Sent
<1>4. {i \in sent : good(i)} = {i \in M : Scans(s, i)} /\ (st.filter # "loop" => sent = M)
      /\ \A i : st.filter # "loop" => ~Hidden(c, s, i)
  BY <1>1 DEF ListStmt, Hidden, MayShow
<1>5. /\ IsFiniteSet(B) /\ B \subseteq Nat /\ IsFiniteSet(M) /\ M \subseteq Nat
      /\ sent \subseteq Nat
  <2>1. DOMAIN catalog[s].rows \subseteq Nat
    BY DEF WorldInv, Content
  <2> QED
    BY <2>1, BroughtFinite
<1>6. (IF capped THEN FirstOf(wanted, cap) ELSE wanted) = Part(c, n)
  <2> DEFINE D == DueBefore(c, n)
  <2>0. st.cap # NoCap => Part(c, n) = FirstOf(B, st.cap - Cardinality(D)) /\ Cardinality(D) \in Nat
    <3> SUFFICES ASSUME st.cap # NoCap
                 PROVE  Part(c, n) = FirstOf(B, st.cap - Cardinality(D)) /\ Cardinality(D) \in Nat
      OBVIOUS
    <3>1. Cardinality(D) \in Nat /\ st.cap \in Nat
      BY <1>1, DuePart, FS_CardinalityType DEF ListStmt
    <3>2. ASSUME NEW i \in B
          PROVE  i \in Part(c, n) <=> i \in FirstOf(B, st.cap - Cardinality(D))
      <4> DEFINE r == Cardinality({j \in B : j < i})
      <4>1. r \in Nat
        BY <1>5, RankBound
      <4>2. i \in Part(c, n) <=> Cardinality(D) + r < st.cap
        BY DEF Part
      <4>3. i \in FirstOf(B, st.cap - Cardinality(D)) <=> r < st.cap - Cardinality(D)
        BY DEF FirstOf
      <4> HIDE DEF r, D, st, B
      <4> QED
        BY <3>1, <4>1, <4>2, <4>3
    <3>3. Part(c, n) \subseteq B /\ FirstOf(B, st.cap - Cardinality(D)) \subseteq B
      BY DEF Part, FirstOf
    <3> QED
      BY <3>1, <3>2, <3>3
  <2>1. CASE ~st.limited
    <3>1. cap = st.cap /\ Sent(c, s) = sent /\ st.cap \in Nat
      BY <1>1, <1>3, <2>1 DEF ListStmt
    <3>2. B = {i \in sent : good(i)}
      <4>1. B = {i \in M : Scans(s, i)}
        BY <2>1 DEF Brought, Scans
      <4> QED
        BY <1>4, <4>1
    <3>3. wanted \in SUBSET B
      BY <3>1, <3>2
    <3>4. ASSUME NEW i \in wanted, NEW j \in B, j < i PROVE j \in wanted
      <4>1. i \in Nat /\ j \in Nat /\ i <= k /\ i \in seen
        BY <1>5, <3>3
      <4>2. j \in rows /\ good(j)
        <5>1. j \in sent /\ good(j)
          BY <3>2
        <5>2. j <= k
          BY <3>4, <4>1
        <5> HIDE DEF sent
        <5> QED
          BY <3>1, <5>1, <5>2
      <4>3. \A l \in rows : l \in Nat
        <5> HIDE DEF sent
        <5> QED
          BY <1>5, <3>1
      <4>4. ASSUME st.scan = "fail", NEW l \in rows, l <= j PROVE Scans(s, l)
        <5>1. l <= i
          BY <3>4, <4>1, <4>3, <4>4
        <5> QED
          BY <4>1, <4>4, <5>1
      <4> QED
        BY <4>2, <4>4
    <3>5. st.cap # NoCap => D = {} /\ Part(c, n) = FirstOf(B, st.cap)
      <4> SUFFICES ASSUME st.cap # NoCap PROVE D = {} /\ Part(c, n) = FirstOf(B, st.cap)
        OBVIOUS
      <4>1. ~(tool[c] = toolSearchSchema /\ n = 2)
        BY <2>1, SearchTool
      <4>2. D = {} /\ Cardinality(D) = 0
        BY <4>1, CappedAfter, FS_EmptySet
      <4>3. Part(c, n) = FirstOf(B, st.cap - Cardinality(D))
        BY <2>0
      <4> HIDE DEF D, B, st, n
      <4>4. st.cap - Cardinality(D) = st.cap
        BY <3>1, <4>2
      <4> QED
        BY <4>2, <4>3, <4>4
    <3> HIDE DEF wanted, B, st, n
    <3>6. CASE capped
      <4>1. FirstOf(wanted, st.cap) = FirstOf(B, st.cap)
        BY <1>5, <3>1, <3>3, <3>4, <3>6, FirstOfSegment
      <4> QED
        BY <3>1, <3>5, <3>6, <4>1
    <3>7. CASE ~capped
      <4>1. rows = sent /\ seen = rows
        BY <1>2, <3>1, <3>7
      <4>2. wanted = B
        BY <3>2, <4>1 DEF wanted
      <4>3. CASE st.cap = NoCap
        BY <3>7, <4>2, <4>3 DEF Part, B, st, n
      <4>4. CASE st.cap # NoCap
        <5>1. Cardinality(B) \in Nat
          BY <1>5, FS_CardinalityType
        <5>2. Cardinality(B) <= st.cap
          BY <3>1, <3>7, <4>2, <4>4, <5>1
        <5>3. FirstOf(B, st.cap) = B
          BY <1>5, <3>1, <5>2, FirstAll
        <5> QED
          BY <3>5, <3>7, <4>2, <4>4, <5>3
      <4> QED
        BY <4>3, <4>4
    <3> QED
      BY <3>6, <3>7
  <2>2. CASE st.limited
    <3>1. ~capped /\ seen = rows /\ rows = Sent(c, s)
      BY <1>2, <2>2
    <3>2. st.cap \in Nat /\ st.cap # NoCap /\ sent = M
      BY <1>1, <1>4, <2>2 DEF ListStmt
    <3>3. Sent(c, s) = FirstOf(M, st.cap - Cardinality(D))
      BY <1>3, <2>2, <3>2
    <3>4. wanted = {i \in Sent(c, s) : Scans(s, i)}
      BY <1>1, <1>4, <2>2, <3>1 DEF ListStmt
    <3>5. B = {i \in FirstOf(M, st.cap) : Scans(s, i)}
      BY <2>2 DEF Brought, Scans
    <3>6. CASE tool[c] = toolSearchSchema /\ n = 2
      <4> DEFINE m == st.cap - Cardinality(D)
      <4>1. st.scan = "fail" /\ st.cap = MaxRows /\ st.when = "room"
        BY <3>6, SearchTool
      <4>2. Cardinality(D) < MaxRows
        BY <4>1 DEF Applies
      <4>3. m \in Nat /\ m <= st.cap
        BY <2>0, <3>2, <4>1, <4>2
      <4>4. \A i \in Sent(c, s) : Scans(s, i)
        <5>1. ASSUME NEW i \in seen PROVE Scans(s, i)
          <6>1. i \in Nat
            BY <3>1, <3>3, <1>5 DEF FirstOf
          <6> QED
            BY <4>1, <6>1
        <5> QED
          BY <3>1, <5>1
      <4>5. FirstOf(M, m) \subseteq FirstOf(M, st.cap)
        <5>1. ASSUME NEW i \in M, Cardinality({j \in M : j < i}) < m
              PROVE  Cardinality({j \in M : j < i}) < st.cap
          <6> DEFINE r == Cardinality({j \in M : j < i})
          <6>1. r \in Nat /\ r < m
            BY <1>5, <5>1, RankBound
          <6> HIDE DEF r, m
          <6>2. r < st.cap
            BY <3>2, <4>3, <6>1
          <6> QED
            BY <6>2 DEF r
        <5> QED
          BY <5>1 DEF FirstOf
      <4>6. FirstOf(M, m) \subseteq B
        BY <3>3, <3>5, <4>4, <4>5
      <4> HIDE DEF wanted, B, st, n, M, m
      <4>7. B \in SUBSET FirstOf(M, st.cap)
        BY <3>5
      <4>8. FirstOf(B, m) = FirstOf(M, m)
        <5> DEFINE cp == st.cap
        <5>1. cp \in Nat /\ B \in SUBSET FirstOf(M, cp)
          BY <3>2, <4>7
        <5>2. IsFiniteSet(M) /\ M \subseteq Nat /\ m \in Nat
          BY <1>5, <4>3
        <5> HIDE DEF cp
        <5> QED
          BY <4>6, <5>1, <5>2, FirstOfFirst
      <4> QED
        BY <2>0, <3>1, <3>2, <3>3, <3>4, <4>4, <4>8 DEF m
    <3>7. CASE ~(tool[c] = toolSearchSchema /\ n = 2)
      <4>1. D = {} /\ Cardinality(D) = 0
        BY <3>2, <3>7, CappedAfter, FS_EmptySet
      <4>2. st.cap - Cardinality(D) = st.cap
        BY <3>2, <4>1
      <4> HIDE DEF wanted, B, st, n, M
      <4>3. wanted = B
        BY <3>3, <3>4, <3>5, <4>2
      <4>4. B \in SUBSET FirstOf(M, st.cap)
        BY <3>5
      <4>5. FirstOf(B, st.cap) = B
        BY <1>5, <3>2, <4>4, FirstOfSome
      <4> QED
        BY <2>0, <3>1, <3>2, <4>2, <4>3, <4>5
    <3> QED
      BY <3>6, <3>7
  <2> QED
    BY <2>1, <2>2
<1>7. DueAt(c, n) = RowsAt(s, n, Part(c, n))
  BY DuePart
<1> HIDE DEF wanted, cap, capped
<1> QED
  BY <1>2, <1>6, <1>7

-----------------------------------------------------------------------------
(* Answers.                                                                *)

\* What is due to a pinned call depends on its arguments, its tool, the server
\* it is pinned to and that server's contents, and on nothing else.
LEMMA DueKept ==
    ASSUME Pinned, NEW c, catalog' = catalog, pin'[c] = pin[c], tool'[c] = tool[c],
           input'[c] = input[c]
    PROVE  /\ Due(c)' = Due(c)
           /\ \A n, o : Applies(c, n, o)' <=> Applies(c, n, o)
<1>1. \A n, o : Applies(c, n, o)' <=> Applies(c, n, o)
  BY DEF Applies, Server
<1>2. Listed(c)' = Listed(c)
  <2>1. \A n : Applies(c, n, {})' <=> Applies(c, n, {})
    BY <1>1
  <2> QED
    BY <2>1 DEF Listed
<1>3. ASSUME NEW n PROVE MayShow(c, n)' = MayShow(c, n)
  BY DEF MayShow
<1>4. ASSUME NEW n PROVE Brought(c, n)' = Brought(c, n)
  <2>1. MayShow(c, n)' = MayShow(c, n)
    BY <1>3
  <2> QED
    BY <2>1 DEF Brought, FirstOf
<1>5. Due(c)' = Due(c)
  <2> DEFINE rows == UNION {{<<pin[c], n, i>> : i \in Brought(c, n)} : n \in Listed(c)}
  <2>1. rows' = rows
    BY <1>2, <1>4
  <2> QED
    BY <2>1 DEF Due
<1> QED
  BY <1>1, <1>5

AtStmt == {"plan", "call", "drop", "direct", "fallback", "scan"}

\* A call whose handler looks at rows.Err() is at a statement that applies, with
\* the rows due of the statements before it, or at the existence check with
\* none due; its rows come from its own server; and its answer is what is due.
OneAnswer(c) ==
    /\ step[c] = "idle" => out[c] = {} /\ ~inner[c] /\ result[c] = "none"
    /\ step[c] # "idle" => tool[c] \in AllTools
    /\ step[c] # "idle" /\ Checked(tool[c]) =>
          /\ ~inner[c] /\ step[c] # "row"
          /\ step[c] # "done" => result[c] = "none"
          /\ step[c] \in AtStmt =>
                /\ ListTool(tool[c]) /\ stmt[c] \in 1..Len(tool[c].stmts)
                /\ Applies(c, stmt[c], out[c]) /\ out[c] = DueBefore(c, stmt[c])
          /\ step[c] = "scan" => /\ rowsOn[c] = pin[c]
                                 /\ tool[c].stmts[stmt[c]].rows \in {"list", "guard"}
          /\ step[c] = "exists" => out[c] = {} /\ Due(c) = {}
          /\ step[c] \in {"source", "target", "columns", "compare"} =>
                out[c] = {} /\ tool[c].diff
          /\ result[c] = "ok" =>
                /\ out[c] = Due(c)
                /\ tool[c] = toolListTables /\ out[c] = {} => catalog[pin[c]].exists

AnswerInv ==
    /\ PlaceInv /\ tool = [d \in Calls |-> tool[d]] /\ input = [d \in Calls |-> input[d]]
    /\ \A c \in Calls : OneAnswer(c)

\* What a step leaves alone stays true.
LEMMA AnswerKept ==
    ASSUME Pinned, NEW d \in Calls, OneAnswer(d), catalog' = catalog, pin'[d] = pin[d],
           tool'[d] = tool[d], input'[d] = input[d], step'[d] = step[d],
           result'[d] = result[d], stmt'[d] = stmt[d], inner'[d] = inner[d],
           rowsOn'[d] = rowsOn[d], out'[d] = out[d]
    PROVE  OneAnswer(d)'
<1>1. Due(d)' = Due(d) /\ \A n, o : Applies(d, n, o)' <=> Applies(d, n, o)
  BY DueKept
<1>2. PICK n, o : n = stmt[d] /\ o = out[d]
  OBVIOUS
<1>3. Applies(d, n, o)' <=> Applies(d, n, o)
  BY <1>1
<1>4. DueBefore(d, n)' = DueBefore(d, n)
  BY <1>1 DEF DueBefore
<1> QED
  BY <1>1, <1>2, <1>3, <1>4 DEF OneAnswer

\* The rows due by the end of a statement.
LEMMA DueNext ==
    ASSUME NEW c, ListTool(tool[c]), NEW n \in Nat
    PROVE  /\ DueBefore(c, n + 1) = DueBefore(c, n) \cup DueAt(c, n)
           /\ n \notin Listed(c) => DueAt(c, n) = {}
<1>1. ASSUME NEW r \in Due(c) PROVE r[2] \in Listed(c) /\ r[2] \in Nat
  <2>1. \E m \in Listed(c) : \E i \in Brought(c, m) : r = <<pin[c], m, i>>
    BY DueForm
  <2> QED
    BY <2>1, ListedStmts
<1>2. \A r \in Due(c) : r[2] < n + 1 <=> r[2] < n \/ r[2] = n
  BY <1>1
<1> QED
  BY <1>1, <1>2 DEF DueBefore, DueAt

\* A statement that is not run has no rows due: it does not apply, or the cap
\* has been reached.
LEMMA SkippedNotDue ==
    ASSUME WorldInv, NEW c \in Calls, pin[c] \in Conns, ListTool(tool[c]),
           NEW n \in 1..Len(tool[c].stmts), NEW o, o = DueBefore(c, n + 1),
           NEW r \in Due(c), ~(r[2] < n + 1)
    PROVE  r[2] \in n+1 .. Len(tool[c].stmts) /\ Applies(c, r[2], o)
<1>1. PICK m \in Listed(c) : \E i \in Brought(c, m) : r = <<pin[c], m, i>>
  BY DueForm
<1>2. m = r[2] /\ m \in 1..Len(tool[c].stmts) /\ Len(tool[c].stmts) \in Nat
  BY <1>1, ListedStmts DEF ListTool
<1>3. m \in n+1 .. Len(tool[c].stmts)
  BY <1>2
<1>4. ASSUME ~Applies(c, m, o) PROVE FALSE
  <2>1. tool[c] = toolSearchSchema /\ m = 2 /\ ~(Cardinality(o) < MaxRows)
    BY <1>2, <1>4, ListedStmts
  <2>2. n = 1 /\ o = DueBefore(c, m)
    BY <1>3, <2>1
  <2>3. tool[c].stmts[m].cap = MaxRows /\ MaxRows # NoCap /\ MaxRows \in Nat
    BY <2>1, SearchTool, CatalogAssumption DEF NoCap
  <2>4. IsFiniteSet(o) /\ DueAt(c, m) = RowsAt(pin[c], m, Part(c, m))
    BY <2>2, <2>3, DuePart
  <2>5. r \in DueAt(c, m)
    BY <1>2 DEF DueAt
  <2>6. PICK i \in Part(c, m) : r = <<pin[c], m, i>>
    BY <2>4, <2>5 DEF RowsAt
  <2> DEFINE k == Cardinality({j \in Brought(c, m) : j < i})
  <2>7. i \in Brought(c, m) /\ Cardinality(o) + k < MaxRows
    BY <2>2, <2>3 DEF Part
  <2>8. k \in Nat
    BY <2>7, BroughtFinite, RankBound
  <2>9. Cardinality(o) \in Nat
    BY <2>4, FS_CardinalityType
  <2> HIDE DEF k
  <2> QED
    BY <2>1, <2>3, <2>7, <2>8, <2>9
<1> QED
  BY <1>2, <1>3, <1>4

\* A call that returns an error, or a note instead of an answer.
LEMMA AnswerEnds ==
    ASSUME CallsInv, AnswerInv, NEW c \in Calls, step[c] # "idle", UNCHANGED tool,
           Answer(c, "error") \/ Answer(c, "note")
    PROVE  OneAnswer(c)'
<1>1. step'[c] = "done" /\ result'[c] \in {"error", "note"} /\ inner'[c] = inner[c]
  BY DEF Answer, CallsInv
<1> QED
  BY <1>1 DEF AnswerInv, OneAnswer, AtStmt

\* A call that has the rows due by the end of its statement goes on to the next
\* statement that applies, to the existence check or to its answer.
LEMMA AnswerProceeds ==
    ASSUME Pinned, CallsInv, WorldInv, AnswerInv, NEW c \in Calls, step[c] \in AtStmt,
           Checked(tool[c]), UNCHANGED <<catalog, pin, tool, input>>,
           NEW o, NEW g, Proceed(c, o, g), o = DueBefore(c, stmt[c] + 1)
    PROVE  OneAnswer(c)'
<1> DEFINE t == tool[c]
           rest == {n \in stmt[c]+1 .. Len(t.stmts) : Applies(c, n, o)}
           check == o = {} /\ t.empty # "ok"
           first == CHOOSE n \in rest : \A m \in rest : n <= m
<1>1. /\ t \in AllTools /\ ListTool(t) /\ stmt[c] \in 1..Len(t.stmts)
      /\ result[c] = "none" /\ ~inner[c] /\ pin[c] \in Conns /\ Len(t.stmts) \in Nat
  BY DEF AnswerInv, OneAnswer, AtStmt, CallsInv, ListTool
<1>2. check => rest = {}
  BY <1>1 DEF ListTool
<1>3. /\ step'[c] = (IF rest # {} THEN "plan" ELSE IF check THEN "exists" ELSE "done")
      /\ result'[c] = (IF rest # {} \/ check THEN "none" ELSE "ok")
      /\ rest # {} => stmt'[c] = first
      /\ ~inner'[c] /\ out'[c] = o
  <2>1. /\ step' = [step EXCEPT ![c] = CASE inner[c] -> "row"
                                         [] ~inner[c] /\ rest # {} -> "plan"
                                         [] ~inner[c] /\ rest = {} /\ check -> "exists"
                                         [] OTHER -> "done"]
        /\ result' = [result EXCEPT ![c] =
                        IF inner[c] \/ rest # {} \/ check THEN result[c] ELSE "ok"]
        /\ stmt' = [stmt EXCEPT ![c] = IF inner[c] \/ check THEN stmt[c]
                                       ELSE IF rest = {} THEN 0 ELSE first]
        /\ inner' = [inner EXCEPT ![c] = FALSE] /\ out' = [out EXCEPT ![c] = o]
    BY DEF Proceed
  <2> HIDE DEF rest, check, first
  <2> QED
    BY <1>1, <1>2, <2>1 DEF CallsInv, AnswerInv, PlaceInv
<1>4. \A r \in Due(c) : r[2] < stmt[c] + 1 \/ r[2] \in rest
  BY <1>1, SkippedNotDue
<1>5. Due(c)' = Due(c) /\ \A n, p : Applies(c, n, p)' <=> Applies(c, n, p)
  BY DueKept
<1>6. CASE rest # {}
  <2>1. rest \subseteq 1..Len(t.stmts) /\ rest \subseteq Nat /\ \A m \in rest : stmt[c] + 1 <= m
    BY <1>1
  <2> HIDE DEF rest
  <2>2. \E n \in rest : \A m \in rest : n <= m
    BY <1>6, <2>1, LeastNumber
  <2>3. PICK n : n = first
    OBVIOUS
  <2>4. n \in rest /\ \A m \in rest : n <= m
    BY <2>2, <2>3
  <2> HIDE DEF first
  <2>5. Applies(c, n, o)'
    BY <1>5, <2>4 DEF rest
  <2>6. DueBefore(c, n)' = o
    <3>1. DueBefore(c, n)' = {r \in Due(c) : r[2] < n}
      BY <1>5 DEF DueBefore
    <3>2. ASSUME NEW r \in Due(c) PROVE r[2] < n <=> r[2] < stmt[c] + 1
      <4>1. r[2] \in Nat
        <5>1. \E m \in Listed(c) : \E i \in Brought(c, m) : r = <<pin[c], m, i>>
          BY DueForm
        <5>2. Listed(c) \subseteq Nat
          BY <1>1, ListedStmts
        <5> QED
          BY <5>1, <5>2
      <4>2. n \in Nat /\ stmt[c] \in Nat /\ stmt[c] + 1 <= n
        <5>1. n \in Nat /\ stmt[c] + 1 <= n
          BY <2>1, <2>4
        <5>2. stmt[c] \in Nat
          BY <1>1
        <5> QED
          BY <5>1, <5>2
      <4>3. r[2] \in rest => n <= r[2]
        BY <2>4
      <4> QED
        BY <1>4, <4>1, <4>2, <4>3
    <3> QED
      BY <3>1, <3>2 DEF DueBefore
  <2>7. n \in 1..Len(t.stmts) /\ stmt'[c] = n /\ step'[c] = "plan" /\ result'[c] = "none"
    BY <1>3, <1>6, <2>1, <2>3, <2>4
  <2> HIDE DEF check
  <2> QED
    BY <1>1, <1>3, <2>5, <2>6, <2>7 DEF OneAnswer, AtStmt
<1>7. CASE rest = {}
  <2>1. o = Due(c)
    BY <1>4, <1>7 DEF DueBefore
  <2>2. toolListTables.empty = "schemaExists"
    BY DEF toolListTables, Tool
  <2>3. CASE check
    <3>1. step'[c] = "exists" /\ result'[c] = "none" /\ out'[c] = {} /\ Due(c)' = {}
      BY <1>3, <1>5, <1>7, <2>1, <2>3
    <3> QED
      BY <1>1, <1>3, <3>1 DEF OneAnswer, AtStmt
  <2>4. CASE ~check
    <3>1. /\ step'[c] = "done" /\ result'[c] = "ok" /\ out'[c] = Due(c)'
          /\ ~(tool'[c] = toolListTables /\ out'[c] = {})
      BY <1>3, <1>5, <1>7, <2>1, <2>2, <2>4
    <3> QED
      BY <1>1, <1>3, <3>1 DEF OneAnswer, AtStmt
  <2> QED
    BY <2>3, <2>4
<1> QED
  BY <1>6, <1>7

\* The statement of such a call: if it brings no rows, nothing is due of it.
LEMMA AnswerStmt ==
    ASSUME CallsInv, AnswerInv, NEW c \in Calls, step[c] \in AtStmt, Checked(tool[c])
    PROVE  /\ ListTool(tool[c]) /\ stmt[c] \in 1..Len(tool[c].stmts) /\ stmt[c] \in Nat
           /\ ~inner[c] /\ Stmt(c) = tool[c].stmts[stmt[c]] /\ result[c] = "none"
           /\ tool[c] \in AllTools /\ pin[c] \in Conns
           /\ Applies(c, stmt[c], out[c]) /\ out[c] = DueBefore(c, stmt[c])
           /\ Stmt(c).rows \in {"one", "list", "guard"} /\ Stmt(c).checked
           /\ Stmt(c).rows = "list" => /\ stmt[c] \in Listed(c)
                                       /\ Stmt(c).onError \in {"fail", "note"}
           /\ Stmt(c).rows # "list" => out[c] = DueBefore(c, stmt[c] + 1)
<1>1. /\ ListTool(tool[c]) /\ stmt[c] \in 1..Len(tool[c].stmts)
      /\ ~inner[c] /\ result[c] = "none" /\ tool[c] \in AllTools /\ pin[c] \in Conns
      /\ Applies(c, stmt[c], out[c]) /\ out[c] = DueBefore(c, stmt[c])
  BY DEF AnswerInv, OneAnswer, AtStmt, CallsInv
<1>2. Stmt(c) = tool[c].stmts[stmt[c]] /\ stmt[c] \in DOMAIN tool[c].stmts /\ stmt[c] \in Nat
  BY <1>1 DEF Stmt, ListTool
<1>3. Stmt(c).rows \in {"one", "list", "guard"} /\ Stmt(c).checked
  BY <1>1, <1>2 DEF ListTool, Checked
<1>4. ASSUME Stmt(c).rows = "list"
      PROVE  stmt[c] \in Listed(c) /\ Stmt(c).onError \in {"fail", "note"}
  <2>1. stmt[c] \in Listed(c)
    BY <1>1, <1>2, <1>4, ListedStmts
  <2>2. ListStmt(tool[c], stmt[c])
    BY <1>1, <2>1, ListedStmts
  <2> QED
    BY <1>2, <2>1, <2>2 DEF ListStmt
<1>5. ASSUME Stmt(c).rows # "list" PROVE out[c] = DueBefore(c, stmt[c] + 1)
  <2>1. stmt[c] \notin Listed(c)
    BY <1>2, <1>5 DEF Listed
  <2>2. DueAt(c, stmt[c]) = {}
    BY <1>1, <1>2, <2>1, DueNext
  <2>3. DueBefore(c, stmt[c] + 1) = DueBefore(c, stmt[c]) \cup DueAt(c, stmt[c])
    BY <1>1, <1>2, DueNext
  <2> QED
    BY <1>1, <2>2, <2>3
<1> QED
  BY <1>1, <1>2, <1>3, <1>4, <1>5

\* A statement that fails ends the call, or had no rows to bring.
LEMMA AnswerFails ==
    ASSUME Pinned, CallsInv, WorldInv, AnswerInv, NEW c \in Calls, step[c] \in AtStmt,
           Checked(tool[c]), UNCHANGED <<catalog, pin, tool, input>>,
           NEW b, StmtFails(c, b)
    PROVE  OneAnswer(c)'
<1>1. CASE Answer(c, "error") \/ Answer(c, "note")
  BY <1>1, AnswerEnds DEF AtStmt
<1>2. CASE /\ Stmt(c).onError \notin {"fail", "note"}
           /\ Proceed(c, out[c], guard[c]) \/ Proceed(c, out[c], "error")
  <2>1. out[c] = DueBefore(c, stmt[c] + 1)
    BY <1>2, AnswerStmt
  <2> QED
    BY <1>2, <2>1, AnswerProceeds
<1> QED
  BY <1>1, <1>2 DEF StmtFails

\* Going to another step of the same statement.
LEMMA AnswerGoes ==
    ASSUME Pinned, CallsInv, AnswerInv, NEW c \in Calls, step[c] \in AtStmt,
           Checked(tool[c]), UNCHANGED <<catalog, pin, tool, input>>,
           NEW s \in AtStmt, Goto(c, s),
           s = "scan" => rowsOn'[c] = pin[c] /\ Stmt(c).rows \in {"list", "guard"}
    PROVE  OneAnswer(c)'
<1>1. /\ step'[c] = s /\ stmt'[c] = stmt[c] /\ inner'[c] = inner[c]
      /\ result'[c] = result[c] /\ out'[c] = out[c]
  BY DEF Goto, CallsInv
<1>2. Due(c)' = Due(c) /\ \A n, p : Applies(c, n, p)' <=> Applies(c, n, p)
  BY DueKept
<1>3. PICK n, o : n = stmt[c] /\ o = out[c]
  OBVIOUS
<1>4. Applies(c, n, o)' /\ DueBefore(c, n)' = o
  <2>1. Applies(c, n, o) /\ o = DueBefore(c, n)
    BY <1>3, AnswerStmt
  <2>2. Applies(c, n, o)'
    BY <1>2, <2>1
  <2>3. DueBefore(c, n)' = DueBefore(c, n)
    BY <1>2 DEF DueBefore
  <2> QED
    BY <2>1, <2>2, <2>3
<1>5. /\ ListTool(tool[c]) /\ stmt[c] \in 1..Len(tool[c].stmts) /\ ~inner[c]
      /\ Stmt(c) = tool[c].stmts[stmt[c]] /\ result[c] = "none" /\ tool[c] \in AllTools
  BY AnswerStmt
<1> QED
  BY <1>1, <1>3, <1>4, <1>5 DEF OneAnswer, AtStmt

\* A query of such a call, with its fallback.
LEMMA AnswerQueries ==
    ASSUME Pinned, CallsInv, WorldInv, AnswerInv, NEW c \in Calls,
           step[c] \in {"call", "direct", "fallback"}, Checked(tool[c]),
           UNCHANGED <<catalog, pin, tool, input>>
    PROVE  /\ \A b : QueryFails(c, b) => OneAnswer(c)'
           /\ QueryRuns(c, pin[c]) => OneAnswer(c)'
<1>0. step[c] \in AtStmt
  BY DEF AtStmt
<1>1. ASSUME NEW b, QueryFails(c, b) PROVE OneAnswer(c)'
  <2>1. CASE Goto(c, "fallback")
    BY <1>0, <2>1, AnswerGoes DEF AtStmt
  <2>2. CASE StmtFails(c, b)
    BY <1>0, <2>2, AnswerFails
  <2> QED
    BY <1>1, <2>1, <2>2 DEF QueryFails
<1>2. ASSUME QueryRuns(c, pin[c]) PROVE OneAnswer(c)'
  <2>1. CASE Stmt(c).rows = "one"
    <3>1. Proceed(c, out[c], guard[c])
      BY <1>2, <2>1 DEF QueryRuns
    <3>2. out[c] = DueBefore(c, stmt[c] + 1)
      BY <1>0, <2>1, AnswerStmt
    <3> QED
      BY <1>0, <3>1, <3>2, AnswerProceeds
  <2>2. CASE Stmt(c).rows # "one"
    <3>1. Stmt(c).rows \in {"list", "guard"}
      BY <1>0, <2>2, AnswerStmt
    <3>2. Goto(c, "scan") /\ rowsOn' = [rowsOn EXCEPT ![c] = pin[c]]
      BY <1>2, <3>1 DEF QueryRuns
    <3>3. rowsOn'[c] = pin[c]
      BY <3>2 DEF AnswerInv, PlaceInv
    <3> QED
      BY <1>0, <3>1, <3>2, <3>3, AnswerGoes DEF AtStmt
  <2> QED
    BY <2>1, <2>2
<1> QED
  BY <1>1, <1>2

\* The row loop: an error, or exactly the rows due of the statement.
LEMMA AnswerScans ==
    ASSUME Pinned, CallsInv, WorldInv, AnswerInv, NEW c \in Calls, Scan(c),
           Checked(tool[c]), UNCHANGED <<catalog, pin, tool, input>>
    PROVE  OneAnswer(c)'
<1>1. step[c] = "scan" /\ step[c] \in AtStmt /\ Stmt(c).rows # "guard"
  BY DEF Scan, AtStmt
<1>2. rowsOn[c] = pin[c] /\ tool[c].stmts[stmt[c]].rows \in {"list", "guard"}
  BY <1>1 DEF AnswerInv, OneAnswer
<1>3. /\ ListTool(tool[c]) /\ stmt[c] \in Nat /\ ~inner[c] /\ pin[c] \in Conns
      /\ Stmt(c) = tool[c].stmts[stmt[c]] /\ Stmt(c).checked
      /\ Applies(c, stmt[c], out[c]) /\ out[c] = DueBefore(c, stmt[c])
  BY <1>1, AnswerStmt
<1>4. stmt[c] \in Listed(c)
  BY <1>1, <1>2, <1>3, AnswerStmt
<1>5. PICK k \in 0..Len(catalog[pin[c]].rows), broken \in BOOLEAN :
        LET rows == {i \in Sent(c, pin[c]) : i <= k}
            l    == Loop(c, pin[c], rows)
        IN  /\ broken \/ (rows = Sent(c, pin[c]) /\ ~expired[c])
            /\ \/ Answer(c, "error")
               \/ /\ ~l.scanError /\ (l.capped \/ ~RowsErr(c, broken))
                  /\ Proceed(c, out[c] \cup l.rows, guard[c])
  BY <1>2 DEF Scan
<1> DEFINE rows == {i \in Sent(c, pin[c]) : i <= k}
           l == Loop(c, pin[c], rows)
<1>6. CASE Answer(c, "error")
  BY <1>1, <1>6, AnswerEnds
<1>7. CASE /\ ~l.scanError /\ (l.capped \/ ~RowsErr(c, broken))
           /\ Proceed(c, out[c] \cup l.rows, guard[c])
  <2>1. l.capped \/ rows = Sent(c, pin[c])
    BY <1>3, <1>5, <1>7 DEF RowsErr
  <2>2. k \in Nat
    BY <1>3 DEF WorldInv, Content
  <2>3. l.rows = DueAt(c, stmt[c])
    <3> HIDE DEF rows
    <3>1. rows = {i \in Sent(c, pin[c]) : i <= k}
      BY DEF rows
    <3> QED
      BY <1>3, <1>4, <1>7, <2>1, <2>2, <3>1, LoopExact
  <2>4. out[c] \cup l.rows = DueBefore(c, stmt[c] + 1)
    <3> HIDE DEF l
    <3> QED
      BY <1>3, <2>3, DueNext
  <2> HIDE DEF l
  <2> QED
    BY <1>1, <1>7, <2>4, AnswerProceeds
<1> QED
  BY <1>5, <1>6, <1>7

\* An answer without rows, when none is due: an empty database that exists, or
\* a schema_diff.
LEMMA AnswerEmpty ==
    ASSUME Pinned, CallsInv, AnswerInv, NEW c \in Calls, step[c] # "idle",
           Checked(tool[c]), UNCHANGED <<catalog, pin, tool, input>>, Answer(c, "ok"),
           out[c] = {}, Due(c) = {}, tool[c] = toolListTables => catalog[pin[c]].exists
    PROVE  OneAnswer(c)'
<1>1. step'[c] = "done" /\ result'[c] = "ok" /\ inner'[c] = inner[c] /\ out'[c] = out[c]
  BY DEF Answer, CallsInv, AnswerInv, PlaceInv
<1>2. Due(c)' = Due(c)
  BY DueKept
<1>3. ~inner[c] /\ tool[c] \in AllTools
  BY DEF AnswerInv, OneAnswer
<1> QED
  BY <1>1, <1>2, <1>3 DEF OneAnswer, AtStmt

\* A statement of schema_diff.
LEMMA AnswerDiffs ==
    ASSUME Pinned, CallsInv, AnswerInv, NEW c \in Calls, Checked(tool[c]),
           UNCHANGED <<catalog, pin, tool, input>>,
           NEW s0 \in {"source", "target", "columns", "compare"},
           NEW s1 \in {"target", "columns", "compare", "done"}, NEW d,
           DiffStmt(c, s0, s1, d)
    PROVE  OneAnswer(c)'
<1>1. step[c] = s0 /\ step[c] # "idle"
  BY DEF DiffStmt
<1>2. /\ out[c] = {} /\ tool[c].diff /\ ~inner[c] /\ result[c] = "none"
      /\ tool[c] \in AllTools
  BY <1>1 DEF AnswerInv, OneAnswer
<1>3. \/ Answer(c, "ok") \/ Answer(c, "error")
      \/ s1 # "done" /\ Goto(c, s1)
  BY DEF DiffStmt
<1>4. CASE Answer(c, "error")
  BY <1>1, <1>4, AnswerEnds
<1>5. CASE Answer(c, "ok")
  <2>1. DOMAIN tool[c].stmts = {}
    BY <1>2, ToolFacts DEF ListTool
  <2>2. Listed(c) = {}
    BY <2>1 DEF Listed
  <2>3. Due(c) = {}
    BY <2>2, DueForm
  <2>4. toolListTables.diff = FALSE
    BY DEF toolListTables, Tool
  <2> QED
    BY <1>1, <1>2, <1>5, <2>3, <2>4, AnswerEmpty
<1>6. CASE s1 # "done" /\ Goto(c, s1)
  <2>1. /\ step'[c] = s1 /\ inner'[c] = inner[c] /\ result'[c] = result[c]
        /\ out'[c] = out[c]
    BY <1>6 DEF Goto, CallsInv
  <2> QED
    BY <1>2, <1>6, <2>1 DEF OneAnswer, AtStmt
<1> QED
  BY <1>3, <1>4, <1>5, <1>6

\* Every step of a pinned call keeps its answer in order.
LEMMA AnswerCallStep ==
    ASSUME Pinned, CallsInv, WorldInv, AnswerInv, NEW c \in Calls, CatalogCall(c)
    PROVE  OneAnswer(c)'
<1>1. Effect(c)
  BY CallEffect
<1>2. /\ UNCHANGED <<catalog, pin, tool, input>> /\ Server(c) = pin[c]
      /\ step[c] \notin {"idle", "done"} /\ step'[c] # "idle"
  BY <1>1 DEF Effect, Server
<1>3. CASE ~Checked(tool[c])
  BY <1>2, <1>3 DEF AnswerInv, OneAnswer
<1>4. CASE Checked(tool[c])
  <2>1. CASE Plan(c)
    <3>1. step[c] \in AtStmt /\ \E s \in {"call", "direct"} : Goto(c, s)
      BY <2>1 DEF Plan, AtStmt
    <3> QED
      BY <1>2, <1>4, <3>1, AnswerGoes DEF AtStmt
  <2>2. CASE dropToolPack(c)
    <3>1. step[c] \in AtStmt /\ Goto(c, "direct")
      BY <2>2 DEF dropToolPack, AtStmt
    <3> QED
      BY <1>2, <1>4, <3>1, AnswerGoes DEF AtStmt
  <2>3. CASE CallPack(c)
    <3>1. step[c] = "call" /\ step[c] \in AtStmt
      BY <2>3 DEF CallPack, AtStmt
    <3>2. \/ QueryRuns(c, pin[c]) \/ QueryFails(c, TRUE) \/ QueryFails(c, FALSE)
          \/ Goto(c, "drop")
      BY <1>2, <2>3 DEF CallPack
    <3>3. CASE Goto(c, "drop")
      BY <1>2, <1>4, <3>1, <3>3, AnswerGoes DEF AtStmt
    <3> QED
      BY <1>2, <1>4, <3>1, <3>2, <3>3, AnswerQueries
  <2>4. CASE Query(c)
    <3>1. step[c] \in {"direct", "fallback"}
      BY <2>4 DEF Query
    <3>2. QueryRuns(c, pin[c]) \/ QueryFails(c, TRUE)
      BY <1>2, <2>4 DEF Query
    <3> QED
      BY <1>2, <1>4, <3>1, <3>2, AnswerQueries
  <2>5. CASE Scan(c)
    BY <1>2, <1>4, <2>5, AnswerScans
  <2>6. CASE ReadGuard(c)
    <3>1. step[c] \in AtStmt /\ Stmt(c).rows = "guard"
      BY <2>6 DEF ReadGuard, AtStmt
    <3>2. StmtFails(c, TRUE) \/ \E g : Proceed(c, out[c], g)
      BY <2>6 DEF ReadGuard
    <3>3. out[c] = DueBefore(c, stmt[c] + 1)
      BY <1>4, <3>1, AnswerStmt
    <3> QED
      BY <1>2, <1>4, <3>1, <3>2, <3>3, AnswerFails, AnswerProceeds
  <2>7. CASE NextColumn(c) \/ EndColumns(c)
    <3>1. step[c] = "row"
      BY <2>7 DEF NextColumn, EndColumns
    <3> QED
      BY <1>4, <3>1 DEF AnswerInv, OneAnswer
  <2>8. CASE ExistenceCheck(c)
    <3>1. step[c] = "exists"
      BY <2>8 DEF ExistenceCheck
    <3>2. out[c] = {} /\ Due(c) = {}
      BY <1>4, <3>1 DEF AnswerInv, OneAnswer
    <3>3. Answer(c, "error") \/ (Answer(c, "ok") /\ catalog[pin[c]].exists)
      BY <1>2, <2>8 DEF ExistenceCheck
    <3> QED
      BY <1>2, <1>4, <3>1, <3>2, <3>3, AnswerEnds, AnswerEmpty
  <2>9. CASE SourceTables(c) \/ TargetTables(c) \/ SourceColumns(c) \/ TargetColumns(c)
    <3>1. ASSUME SourceTables(c) PROVE \E d : DiffStmt(c, "source", "target", d)
      BY <3>1 DEF SourceTables
    <3>2. ASSUME TargetTables(c)
          PROVE  \E d : DiffStmt(c, "target", "done", d) \/ DiffStmt(c, "target", "columns", d)
      BY <3>2 DEF TargetTables
    <3>3. ASSUME SourceColumns(c) PROVE \E d : DiffStmt(c, "columns", "compare", d)
      BY <3>3 DEF SourceColumns
    <3>4. ASSUME TargetColumns(c)
          PROVE  \E d : DiffStmt(c, "compare", "done", d) \/ DiffStmt(c, "compare", "columns", d)
      BY <3>4 DEF TargetColumns
    <3> QED
      BY <1>2, <1>4, <2>9, <3>1, <3>2, <3>3, <3>4, AnswerDiffs
  <2> QED
    BY <2>1, <2>2, <2>3, <2>4, <2>5, <2>6, <2>7, <2>8, <2>9 DEF CatalogCall
<1> QED
  BY <1>3, <1>4

\* A call starts at the first of its statements that applies, with no rows due
\* before it.
LEMMA AnswerArrives ==
    ASSUME Pinned, PackInv, AnswerInv, NEW c \in Calls, NEW t \in ToolsOf[c], NEW in,
           Arrive(c, t, in)
    PROVE  AnswerInv'
<1>1. /\ step[c] = "idle" /\ pin' = [pin EXCEPT ![c] = active] /\ catalog' = catalog
      /\ tool' = [tool EXCEPT ![c] = t] /\ input' = [input EXCEPT ![c] = in]
      /\ inner' = inner /\ rowsOn' = rowsOn /\ guard' = guard /\ out' = out
  BY DEF Arrive, world, open
<1>2. \/ /\ step' = [step EXCEPT ![c] = "done"]
         /\ \E r \in {"error", "note"} : result' = [result EXCEPT ![c] = r]
      \/ /\ step' = [step EXCEPT ![c] = IF t.diff THEN "source" ELSE "plan"]
         /\ result' = result
  BY ArriveEffect DEF PackInv
<1> DEFINE other == IF in.flag THEN "noFlag" ELSE "flag"
           rest == {n \in DOMAIN t.stmts : t.stmts[n].when # other}
           first == IF rest = {} THEN 0 ELSE CHOOSE n \in rest : \A m \in rest : n <= m
<1>3. stmt' = [stmt EXCEPT ![c] = first]
  BY DEF Arrive
<1>4. t \in AllTools
  BY ToolsAssumption
<1>5. /\ tool'[c] = t /\ input'[c] = in /\ pin'[c] = active /\ out'[c] = {} /\ ~inner'[c]
      /\ stmt'[c] = first
      /\ \/ step'[c] = "done" /\ result'[c] \in {"error", "note"}
         \/ /\ step'[c] = (IF t.diff THEN "source" ELSE "plan")
            /\ result'[c] = "none"
  <2> HIDE DEF first
  <2> QED
    BY <1>1, <1>2, <1>3 DEF PackInv, CallsInv, AnswerInv, PlaceInv, OneAnswer
<1>6. ASSUME ListTool(t)
      PROVE  /\ first \in 1..Len(t.stmts) /\ Applies(c, first, {})'
             /\ DueBefore(c, first)' = {}
  <2>1. Len(t.stmts) \in Nat \ {0} /\ DOMAIN t.stmts = 1..Len(t.stmts)
    BY <1>6 DEF ListTool
  <2>2. CASE t.stmts[1].when = "always"
    <3>1. 1 \in rest /\ \A m \in rest : 1 <= m
      BY <2>1, <2>2
    <3>2. rest \subseteq Nat
      BY <2>1
    <3>3. first = 1
      <4> HIDE DEF rest
      <4>1. PICK k : k = CHOOSE n \in rest : \A m \in rest : n <= m
        OBVIOUS
      <4>2. k \in rest /\ \A m \in rest : k <= m
        BY <3>1, <4>1
      <4>3. k <= 1 /\ 1 <= k /\ k \in Nat
        BY <3>1, <3>2, <4>2
      <4>4. k = 1
        BY <4>3
      <4> QED
        BY <3>1, <4>1, <4>4
    <3>4. Applies(c, 1, {})'
      BY <1>5, <2>2 DEF Applies
    <3>5. \A m \in Listed(c)' : m \in Nat /\ ~(m < 1)
      BY <1>5, <2>1 DEF Listed
    <3>6. DueBefore(c, 1)' = {}
      <4>1. \A r \in Due(c)' : r[2] \in Listed(c)'
        BY DEF Due
      <4> QED
        BY <3>5, <4>1 DEF DueBefore
    <3> HIDE DEF first
    <3> QED
      BY <2>1, <3>3, <3>4, <3>6
  <2>3. CASE t.stmts[1].when # "always"
    <3>1. /\ Len(t.stmts) = 2 /\ t.stmts[1].rows = "one" /\ DOMAIN t.stmts = 1..2
          /\ t.stmts[1].when = "flag" /\ t.stmts[2].when = "noFlag"
      BY <1>6, <2>1, <2>3 DEF ListTool
    <3>2. rest = IF in.flag THEN {1} ELSE {2}
      BY <3>1
    <3>3. first = IF in.flag THEN 1 ELSE 2
      <4>1. ASSUME NEW k \in Nat, rest = {k} PROVE first = k
        BY <4>1
      <4> HIDE DEF first, rest
      <4> QED
        BY <3>2, <4>1
    <3> HIDE DEF first, rest, other
    <3>4. /\ in.flag => Applies(c, 1, {})'
          /\ ~in.flag => Applies(c, 2, {})'
      BY <1>5, <3>1 DEF Applies
    <3>5. \A m \in Listed(c)' : m = 2
      BY <1>5, <3>1 DEF Listed
    <3>6. DueBefore(c, 1)' = {} /\ DueBefore(c, 2)' = {}
      <4>1. \A r \in Due(c)' : r[2] \in Listed(c)'
        BY DEF Due
      <4> QED
        BY <3>5, <4>1 DEF DueBefore
    <3> QED
      BY <3>1, <3>3, <3>4, <3>6
  <2> QED
    BY <2>2, <2>3
<1>7. PICK n : n = first
  OBVIOUS
<1>8. ListTool(t) => n \in 1..Len(t.stmts) /\ Applies(c, n, {})' /\ DueBefore(c, n)' = {}
  <2> HIDE DEF first
  <2> QED
    BY <1>6, <1>7
<1> HIDE DEF first
<1>9. OneAnswer(c)'
  <2>1. ListTool(t) => ~t.diff
    BY DEF ListTool
  <2>2. Checked(t) => ListTool(t) \/ t.diff
    BY <1>4, ToolFacts
  <2> QED
    BY <1>4, <1>5, <1>7, <1>8, <2>1, <2>2 DEF OneAnswer, AtStmt
<1>10. /\ tool' = [d \in Calls |-> tool'[d]] /\ input' = [d \in Calls |-> input'[d]]
       /\ PlaceInv'
  BY <1>1, <1>3 DEF AnswerInv, PlaceInv
<1>11. ASSUME NEW d \in Calls \ {c} PROVE OneAnswer(d)'
  <2>1. /\ tool'[d] = tool[d] /\ pin'[d] = pin[d] /\ input'[d] = input[d]
        /\ step'[d] = step[d] /\ result'[d] = result[d] /\ stmt'[d] = stmt[d]
        /\ inner'[d] = inner[d] /\ rowsOn'[d] = rowsOn[d] /\ out'[d] = out[d]
    BY <1>1, <1>2, <1>3 DEF PackInv, CallsInv, AnswerInv, PlaceInv
  <2> QED
    BY <1>1, <2>1, AnswerKept DEF AnswerInv
<1> QED
  BY <1>9, <1>10, <1>11 DEF AnswerInv

\* Every step keeps the answers in order, if calls are pinned.
LEMMA AnswerStep ==
    ASSUME Pinned PROVE PackInv /\ AnswerInv /\ [CatalogNext]_catalogVars => AnswerInv'
<1> SUFFICES ASSUME PackInv, AnswerInv, [CatalogNext]_catalogVars PROVE AnswerInv'
  OBVIOUS
<1>1. CASE \E c \in Calls : CatalogCall(c)
  <2>1. PICK c \in Calls : CatalogCall(c)
    BY <1>1
  <2>2. Effect(c) /\ Only(c)
    BY <2>1, CallEffect, OnlyOne DEF PackInv, AnswerInv
  <2>3. OneAnswer(c)'
    BY <2>1, AnswerCallStep DEF PackInv
  <2>4. \A d \in Calls \ {c} : OneAnswer(d)'
    BY <2>2, AnswerKept DEF Effect, Only, AnswerInv
  <2> QED
    BY <2>2, <2>3, <2>4 DEF Effect, Only, AnswerInv
<1>2. CASE \E c \in Calls : \E t \in ToolsOf[c], in \in Inputs : Arrive(c, t, in)
  BY <1>2, AnswerArrives
<1>3. CASE UNCHANGED <<catalog, tool, input, pin, step, result, stmt, inner, rowsOn, guard, out>>
  BY <1>3, AnswerKept DEF AnswerInv, PlaceInv
<1>4. (\E p \in Conns : UseConnection(p) \/ \E e \in {1305, 1370} : PackGoes(p, e))
      \/ (\E c \in Calls : Expire(c)) \/ UNCHANGED catalogVars
      => UNCHANGED <<catalog, tool, input, pin, step, result, stmt, inner, rowsOn, guard, out>>
  BY DEF UseConnection, PackGoes, Expire, catalogVars, world, request, open
<1> QED
  BY <1>1, <1>2, <1>3, <1>4 DEF CatalogNext

\* The answer over MCP of every listing tool that looks at rows.Err() is exact,
\* for any servers, contents, calls, arguments and caps: an answer that is not
\* an error has all rows due and no others, from the server the call was pinned
\* to, whatever happens to the pack, the pool, the active connection, the
\* deadline and the stream meanwhile.
THEOREM AnswerCorrect == ASSUME Pinned PROVE CatalogSpec => []AnswerExact
<1>1. CatalogInit => AnswerInv
  BY DEF CatalogInit, AnswerInv, PlaceInv, OneAnswer, AtStmt
<1>2. PackInv /\ AnswerInv => AnswerExact
  <2> SUFFICES ASSUME PackInv, AnswerInv, NEW c \in Calls, Answered(c), Checked(tool[c])
               PROVE  /\ out[c] = Due(c)
                      /\ tool[c] = toolListTables /\ out[c] = {} => catalog[pin[c]].exists
    BY DEF AnswerExact, Checked
  <2>1. step[c] = "done" /\ result[c] = "ok"
    BY DEF Answered, PackInv, CallsInv
  <2> QED
    BY <2>1 DEF AnswerInv, OneAnswer
<1> QED
  BY <1>1, <1>2, InitPack, PackStep, AnswerStep, PTL DEF CatalogSpec

=============================================================================
