----------------------- MODULE ConnectionManagerProofs -----------------------
(***************************************************************************)
(* Theorems about ConnectionManager, for every set of calls, names and     *)
(* sessions and every cap.                                                 *)
(***************************************************************************)
EXTENDS ConnectionManager, FiniteSetTheorems, TLAPS

Finished(c) == pc[c] \in {"release", "done"}

\* What a call holds at each stage.
StageInv ==
    \A c \in Calls :
        /\ pc[c] \in {"idle", "release"} => ~replace[c]
        /\ pc[c] \in {"idle", "open", "dial"} => pool[c] = "none"
        /\ pc[c] \in {"ping", "register"} => pool[c] = "open"
        /\ pc[c] \in {"idle", "open"} => tunnel[c] = "none"
        /\ pc[c] \in {"dial", "ping", "register"} => tunnel[c] # "closed"
        /\ replace[c] => key[c] \notin SessionKeys

\* A registered pool belongs to a finished add of that key.
RegisteredInv ==
    \A k \in Keys : Has(k) => key[connections[k]] = k /\ Finished(connections[k])

\* Every open handle of a finished add is registered under its key.
HeldInv ==
    \A c \in Calls : Finished(c) =>
        /\ pool[c] = "open" => connections[key[c]] = c
        /\ tunnel[c] = "open" => tunnelClosers[key[c]] = c

HandlesInv == StageInv /\ RegisteredInv /\ HeldInv /\ RegisteredPoolsUsable

\* Until Close, an add-if-absent call in flight holds its name's reservation,
\* and no other call holds the same one.
ReservationInv ==
    ~shutdown =>
        /\ \A c \in Calls : HoldsReservation(c) => key[c] \in pendingAdds
        /\ NoDuplicateOpen

\* SessionCap, with the finiteness that makes the count meaningful.
CapInv == ~shutdown => IsFiniteSet(SessionConnsInUse) /\ SessionConnCount <= MaxTotal

\* A call that has started has a key.
KeyInv == \A c \in Calls : pc[c] # "idle" => key[c] \in Keys

-----------------------------------------------------------------------------
(* Type correctness.                                                       *)

\* tearDownNamedConnection keeps every map and handle well typed.
LEMMA TearDownType ==
    ASSUME TypeOK, NEW k \in Keys
    PROVE  /\ Forget(connections, k) \in [Keys -> Calls \cup {None}]
           /\ Forget(configs, k) \in [Keys -> Calls \cup {None}]
           /\ Forget(toolPacks, k) \in [Keys -> Calls \cup {None}]
           /\ Forget(tunnelClosers, k) \in [Keys -> Calls \cup {None}]
           /\ PoolsWithout(k) \in [Calls -> Handle]
           /\ TunnelsWithout(k) \in [Calls -> Handle]
           /\ ActiveWithout(k) \in Keys \cup {None}
  BY DEF TypeOK, Forget, PoolsWithout, TunnelsWithout, ActiveWithout, Handle, Has

\* Every step of the manager keeps the state well typed and the keys in place.
LEMMA TypeStep == TypeOK /\ KeyInv /\ [Next]_cmVars => TypeOK' /\ KeyInv'
<1> USE DEF maps, handles, args
<1> SUFFICES ASSUME TypeOK, KeyInv, [Next]_cmVars
             PROVE  TypeOK' /\ KeyInv'
  OBVIOUS
<1> Names \subseteq Keys
  BY DEF Keys
<1>1. ASSUME NEW c \in Calls, AddStep(c)
      PROVE  TypeOK' /\ KeyInv'
  <2>1. CASE StartTunnel(c) \/ SkipTunnel(c) \/ OpenFails(c)
    BY <2>1 DEF StartTunnel, SkipTunnel, OpenFails, Return, TypeOK, KeyInv, Handle, Stage, Outcome
  <2>2. CASE OpenDB(c) \/ OpenDBFails(c)
    BY <2>2 DEF OpenDB, OpenDBFails, CleanupLocal, Return, TypeOK, KeyInv, Handle, Stage, Outcome
  <2>3. CASE PingOK(c) \/ PingFails(c) \/ LoseRace(c)
    BY <2>3 DEF PingOK, PingFails, LoseRace, CleanupLocal, Return, TypeOK, KeyInv, Handle, Stage, Outcome
  <2>4. ASSUME NEW pack \in BOOLEAN, Register(c, pack)
        PROVE  TypeOK' /\ KeyInv'
    <3>1. key[c] \in Keys
      BY <2>4 DEF Register, KeyInv
    <3>2. QED
      BY <2>4, <3>1, TearDownType DEF Register, ActiveAfterRegister, Return, TypeOK, KeyInv, Stage, Outcome
  <2>5. CASE ReleaseReservation(c)
    BY <2>5 DEF ReleaseReservation, TypeOK, KeyInv, Stage
  <2>6. QED
    BY <1>1, <2>1, <2>2, <2>3, <2>4, <2>5 DEF AddStep
<1>2. ASSUME NEW c \in Calls, NEW k \in Keys, RefuseAdd(c, k) \/ ReserveAdd(c, k)
      PROVE  TypeOK' /\ KeyInv'
  BY <1>2 DEF RefuseAdd, ReserveAdd, ReservationsWith, TypeOK, KeyInv, Stage, Outcome
<1>3. ASSUME NEW c \in Calls, NEW k \in Names, BeginReplace(c, k)
      PROVE  TypeOK' /\ KeyInv'
  BY <1>3, TearDownType DEF BeginReplace, TearDownNamedConnection, TypeOK, KeyInv, Stage
<1>4. ASSUME NEW k \in Names, SetActive(k)
      PROVE  TypeOK' /\ KeyInv'
  BY <1>4 DEF SetActive, TypeOK, KeyInv
<1>5. ASSUME NEW k \in Keys, RemoveConnection(k) \/ DropToolPack(k)
      PROVE  TypeOK' /\ KeyInv'
  BY <1>5, TearDownType DEF RemoveConnection, DropToolPack, TearDownNamedConnection, TypeOK, KeyInv
<1>6. CASE Close
  BY <1>6 DEF Close, TypeOK, KeyInv, Handle
<1>7. CASE UNCHANGED cmVars
  BY <1>7 DEF cmVars, TypeOK, KeyInv
<1>8. QED
  BY <1>1, <1>2, <1>3, <1>4, <1>5, <1>6, <1>7 DEF Next

\* The state is well typed, and every call past its first lock section of an
\* add works on a manager key (what keeps the map updates well typed).
LEMMA TypeAndKeys == Spec => [](TypeOK /\ KeyInv)
<1> USE DEF maps, handles, args
<1>1. NewConnectionManager => TypeOK /\ KeyInv
  <2> SUFFICES ASSUME NewConnectionManager
               PROVE  TypeOK /\ KeyInv
    OBVIOUS
  <2>1. replace \in [Calls -> BOOLEAN] /\ shutdown \in BOOLEAN
    BY Zenon DEF NewConnectionManager
  <2>2. KeyInv
    BY DEF NewConnectionManager, KeyInv
  <2>3. QED
    BY <2>1, <2>2 DEF NewConnectionManager, TypeOK, KeyInv, Handle, Stage, Outcome
<1>2. QED
  BY <1>1, TypeStep, PTL DEF Spec

\* Every state of the connection manager is well typed.
THEOREM TypeCorrect == Spec => []TypeOK
  BY TypeAndKeys, PTL

-----------------------------------------------------------------------------
(* The metadata of a name always describes the pool registered under it.   *)

\* List, ServerTypeFor, ToolPackFor and the tunnel table agree with the pool a
\* name resolves to, for every interleaving of adds, replacements and removals.
THEOREM MetadataCorrect == Spec => []MetadataMatchesPool
<1> USE DEF maps, handles, args
<1>1. NewConnectionManager => MetadataMatchesPool
  BY DEF NewConnectionManager, MetadataMatchesPool
<1>2. TypeOK /\ KeyInv /\ MetadataMatchesPool /\ [Next]_cmVars => MetadataMatchesPool'
  <2> SUFFICES ASSUME TypeOK, KeyInv, MetadataMatchesPool, [Next]_cmVars
               PROVE  MetadataMatchesPool'
    OBVIOUS
  <2> Names \subseteq Keys
    BY DEF Keys
  <2>1. ASSUME UNCHANGED maps
        PROVE  MetadataMatchesPool'
    BY <2>1 DEF MetadataMatchesPool
  <2>2. ASSUME NEW k \in Keys, TearDownNamedConnection(k)
        PROVE  MetadataMatchesPool'
    BY <2>2 DEF TearDownNamedConnection, Forget, Has, MetadataMatchesPool, TypeOK
  <2>3. ASSUME NEW c \in Calls, AddStep(c)
        PROVE  MetadataMatchesPool'
    <3>1. ASSUME NEW pack \in BOOLEAN, Register(c, pack)
          PROVE  MetadataMatchesPool'
      BY <3>1 DEF Register, Forget, Has, MetadataMatchesPool, TypeOK, KeyInv
    <3>2. QED
      BY <2>1, <2>3, <3>1
      DEF AddStep, StartTunnel, SkipTunnel, OpenFails, OpenDB, OpenDBFails,
          PingOK, PingFails, LoseRace, ReleaseReservation
  <2>4. ASSUME NEW k \in Keys, DropToolPack(k)
        PROVE  MetadataMatchesPool'
    BY <2>4 DEF DropToolPack, MetadataMatchesPool, TypeOK
  <2>5. CASE Close
    BY <2>5 DEF Close, MetadataMatchesPool
  <2>6. QED
    BY <2>1, <2>2, <2>3, <2>4, <2>5
    DEF Next, RefuseAdd, ReserveAdd, BeginReplace, SetActive, RemoveConnection, cmVars
<1>3. QED
  BY <1>1, <1>2, TypeAndKeys, PTL DEF Spec

-----------------------------------------------------------------------------
(* The process-wide default.                                               *)

\* The active connection is registered and belongs to no MCP session.
THEOREM ActiveCorrect == Spec => []ActiveConnRegistered
<1> USE DEF maps, handles, args
<1>1. NewConnectionManager => ActiveConnRegistered
  BY DEF NewConnectionManager, ActiveConnRegistered
<1>2. TypeOK /\ KeyInv /\ ActiveConnRegistered /\ [Next]_cmVars => ActiveConnRegistered'
  <2> SUFFICES ASSUME TypeOK, KeyInv, ActiveConnRegistered, [Next]_cmVars
               PROVE  ActiveConnRegistered'
    OBVIOUS
  <2> USE KeysAssumption DEF ActiveConnRegistered, Has, IsSessionConnKey
  <2> Names \subseteq Keys
    BY DEF Keys
  <2>1. ASSUME UNCHANGED <<connections, activeConn>>
        PROVE  ActiveConnRegistered'
    BY <2>1
  <2>2. ASSUME NEW k \in Keys, TearDownNamedConnection(k)
        PROVE  ActiveConnRegistered'
    BY <2>2 DEF TearDownNamedConnection, Forget, ActiveWithout, TypeOK
  <2>3. ASSUME NEW c \in Calls, AddStep(c)
        PROVE  ActiveConnRegistered'
    <3>1. ASSUME NEW pack \in BOOLEAN, Register(c, pack)
          PROVE  ActiveConnRegistered'
      BY <3>1 DEF Register, ActiveAfterRegister, ActiveWithout, TypeOK, KeyInv
    <3>2. QED
      BY <2>1, <2>3, <3>1
      DEF AddStep, StartTunnel, SkipTunnel, OpenFails, OpenDB, OpenDBFails,
          PingOK, PingFails, LoseRace, ReleaseReservation
  <2>4. ASSUME NEW k \in Names, SetActive(k)
        PROVE  ActiveConnRegistered'
    BY <2>4 DEF SetActive, TypeOK
  <2>5. QED
    BY <2>1, <2>2, <2>3, <2>4
    DEF Next, RefuseAdd, ReserveAdd, BeginReplace, RemoveConnection, DropToolPack,
        Close, cmVars
<1>3. QED
  BY <1>1, <1>2, TypeAndKeys, PTL DEF Spec

-----------------------------------------------------------------------------
(* No leaked handle, no closed pool in use.                                *)

\* tearDownNamedConnection preserves the handle invariant, alone (Remove-
\* Connection) or as the first step of a replacing add.
LEMMA TearDownHandles ==
    ASSUME TypeOK, KeyInv, MetadataMatchesPool, HandlesInv,
           NEW k \in Keys, TearDownNamedConnection(k), UNCHANGED shutdown,
           \A c \in Calls :
              \/ pc'[c] = pc[c] /\ key'[c] = key[c] /\ replace'[c] = replace[c]
              \/ pc[c] = "idle" /\ pc'[c] = "open" /\ key'[c] \in Names
    PROVE  HandlesInv'
<1> USE DEF Finished, Has
<1>1. StageInv'
  BY KeysAssumption DEF TearDownNamedConnection, PoolsWithout, TunnelsWithout, HandlesInv,
     StageInv, RegisteredInv, MetadataMatchesPool, TypeOK
<1>2. RegisteredInv'
  BY DEF TearDownNamedConnection, Forget, HandlesInv, RegisteredInv, TypeOK
<1>3. HeldInv'
  BY DEF TearDownNamedConnection, Forget, PoolsWithout, TunnelsWithout,
     HandlesInv, RegisteredInv, HeldInv, KeyInv, MetadataMatchesPool, TypeOK
<1>4. RegisteredPoolsUsable'
  BY DEF TearDownNamedConnection, Forget, PoolsWithout, TunnelsWithout,
     HandlesInv, RegisteredInv, RegisteredPoolsUsable, MetadataMatchesPool, TypeOK
<1>5. QED
  BY <1>1, <1>2, <1>3, <1>4 DEF HandlesInv

\* Publishing a pool preserves the handle invariant.
LEMMA RegisterHandles ==
    ASSUME TypeOK, KeyInv, MetadataMatchesPool, HandlesInv,
           NEW c \in Calls, NEW pack \in BOOLEAN, Register(c, pack)
    PROVE  HandlesInv'
<1> USE DEF Finished, Has, handles, args
<1> DEFINE k == key[c]
<1>1. k \in Keys /\ ~Finished(c)
  BY DEF Register, KeyInv
<1>2. /\ connections' = [connections EXCEPT ![k] = c]
      /\ pc' = [pc EXCEPT ![c] = IF replace[c] THEN "done" ELSE "release"]
      /\ pool' = PoolsWithout(k) /\ tunnel' = TunnelsWithout(k)
      /\ UNCHANGED <<key, replace, shutdown>>
      /\ pool[c] = "open" /\ tunnel[c] # "closed"
      /\ Has(k) => connections[k] \in Calls /\ connections[k] # c
  BY <1>1 DEF Register, Return, HandlesInv, StageInv, RegisteredInv, TypeOK
<1>3. pool'[c] = "open" /\ tunnel'[c] = tunnel[c]
  BY <1>1, <1>2 DEF PoolsWithout, TunnelsWithout, MetadataMatchesPool, TypeOK
<1>4. \A j \in Keys : tunnelClosers'[j] =
         IF j = k THEN (IF tunnel[c] = "open" THEN c ELSE None) ELSE tunnelClosers[j]
  BY <1>1 DEF Register, Forget, MetadataMatchesPool, TypeOK
<1>5. StageInv'
  BY <1>1, <1>2 DEF PoolsWithout, TunnelsWithout, HandlesInv, StageInv,
     RegisteredInv, MetadataMatchesPool, TypeOK
<1>6. RegisteredInv'
  BY <1>1, <1>2 DEF HandlesInv, RegisteredInv, TypeOK
<1>7. HeldInv'
  <2> SUFFICES ASSUME NEW d \in Calls, Finished(d)'
               PROVE  /\ pool'[d] = "open" => connections'[key[d]] = d
                      /\ tunnel'[d] = "open" => tunnelClosers'[key[d]] = d
    BY <1>2 DEF HeldInv
  <2>1. CASE d = c
    BY <2>1, <1>1, <1>2, <1>3, <1>4 DEF TypeOK
  <2>2. CASE d # c
    <3>1. Finished(d) /\ key[d] \in Keys
      BY <2>2, <1>2 DEF KeyInv, TypeOK
    <3>2. pool'[d] = "open" => connections[key[d]] = d /\ d # connections[k]
      BY <3>1, <1>1, <1>2, KeysAssumption DEF PoolsWithout, HandlesInv, HeldInv, TypeOK
    <3>3. tunnel'[d] = "open" => tunnelClosers[key[d]] = d /\ d # tunnelClosers[k]
      BY <3>1, <1>1, <1>2, KeysAssumption
      DEF TunnelsWithout, HandlesInv, HeldInv, MetadataMatchesPool, TypeOK
    <3>4. QED
      BY <3>1, <3>2, <3>3, <1>1, <1>2, <1>4 DEF TypeOK
  <2>3. QED
    BY <2>1, <2>2
<1>8. RegisteredPoolsUsable'
  BY <1>1, <1>2, <1>3, <1>4 DEF PoolsWithout, TunnelsWithout, HandlesInv,
     RegisteredInv, RegisteredPoolsUsable, MetadataMatchesPool, TypeOK
<1>9. QED
  BY <1>5, <1>6, <1>7, <1>8 DEF HandlesInv

\* The other steps of an add touch only handles the call has not registered.
LEMMA LocalStepHandles ==
    ASSUME TypeOK, KeyInv, MetadataMatchesPool, HandlesInv, NEW c \in Calls,
           \/ StartTunnel(c) \/ SkipTunnel(c) \/ OpenFails(c)
           \/ OpenDB(c) \/ OpenDBFails(c)
           \/ PingOK(c) \/ PingFails(c) \/ LoseRace(c) \/ ReleaseReservation(c)
    PROVE  HandlesInv'
<1> USE DEF Finished, Has, maps, handles, args, Return, CleanupLocal, StartTunnel,
        SkipTunnel, OpenFails, OpenDB, OpenDBFails, PingOK, PingFails, LoseRace,
        ReleaseReservation
<1>1. UNCHANGED <<maps, key, replace, shutdown>>
  OBVIOUS
<1>2. \A d \in Calls : d # c => pool'[d] = pool[d] /\ tunnel'[d] = tunnel[d] /\ pc'[d] = pc[d]
  BY DEF TypeOK
<1>3. \A k \in Keys : connections[k] = c =>
        pc[c] = "release" /\ pool'[c] = pool[c] /\ tunnel'[c] = tunnel[c]
  BY KeysAssumption DEF HandlesInv, RegisteredInv, TypeOK
<1>4. StageInv'
  BY <1>1, <1>2 DEF HandlesInv, StageInv, TypeOK, Stage, Handle
<1>5. RegisteredInv'
  BY <1>1, <1>2, <1>3 DEF HandlesInv, RegisteredInv, TypeOK
<1>6. HeldInv'
  BY <1>1, <1>2, <1>3 DEF HandlesInv, HeldInv, StageInv, TypeOK, Handle
<1>7. RegisteredPoolsUsable'
  BY <1>1, <1>2, <1>3 DEF HandlesInv, RegisteredPoolsUsable, TypeOK
<1>8. QED
  BY <1>4, <1>5, <1>6, <1>7 DEF HandlesInv

\* HandlesInv holds in every state.
LEMMA HandlesCorrect == Spec => []HandlesInv
<1> USE DEF maps, handles, args
<1>1. NewConnectionManager => HandlesInv
  BY DEF NewConnectionManager, HandlesInv, StageInv, RegisteredInv, HeldInv,
     RegisteredPoolsUsable, Finished, Has
<1>2. /\ TypeOK /\ KeyInv /\ MetadataMatchesPool /\ HandlesInv
      /\ [Next]_cmVars
      => HandlesInv'
  <2> SUFFICES ASSUME TypeOK, KeyInv, MetadataMatchesPool, HandlesInv, [Next]_cmVars
               PROVE  HandlesInv'
    OBVIOUS
  <2> USE DEF Finished, Has
  <2>1. ASSUME NEW c \in Calls, AddStep(c)
        PROVE  HandlesInv'
    BY <2>1, RegisterHandles, LocalStepHandles DEF AddStep
  <2>2. ASSUME NEW c \in Calls, NEW k \in Keys, RefuseAdd(c, k) \/ ReserveAdd(c, k)
        PROVE  HandlesInv'
    <3>1. /\ UNCHANGED <<maps, handles, replace, shutdown>>
          /\ pc[c] = "idle" /\ pc'[c] \in {"open", "done"} /\ key'[c] = k
          /\ \A d \in Calls : d # c => pc'[d] = pc[d] /\ key'[d] = key[d]
      BY <2>2 DEF RefuseAdd, ReserveAdd, ReservationsWith, TypeOK
    <3>2. \A j \in Keys : Has(j) => connections[j] # c
      BY <3>1 DEF HandlesInv, RegisteredInv
    <3>3. StageInv'
      BY <3>1 DEF HandlesInv, StageInv, TypeOK
    <3>4. RegisteredInv' /\ RegisteredPoolsUsable'
      BY <3>1, <3>2 DEF HandlesInv, RegisteredInv, RegisteredPoolsUsable, TypeOK
    <3>5. HeldInv'
      BY <3>1 DEF HandlesInv, HeldInv, StageInv, TypeOK
    <3>6. QED
      BY <3>3, <3>4, <3>5 DEF HandlesInv
  <2>3. ASSUME NEW c \in Calls, NEW k \in Names, BeginReplace(c, k)
        PROVE  HandlesInv'
    <3>1. k \in Keys
      BY DEF Keys
    <3>2. QED
      BY <2>3, <3>1, TearDownHandles DEF BeginReplace, TypeOK
  <2>4. ASSUME NEW k \in Names, SetActive(k)
        PROVE  HandlesInv'
    BY <2>4 DEF SetActive, HandlesInv, StageInv, RegisteredInv, HeldInv,
       RegisteredPoolsUsable
  <2>5. ASSUME NEW k \in Keys, RemoveConnection(k)
        PROVE  HandlesInv'
    BY <2>5, TearDownHandles DEF RemoveConnection
  <2>6. ASSUME NEW k \in Keys, DropToolPack(k)
        PROVE  HandlesInv'
    BY <2>6 DEF DropToolPack, HandlesInv, StageInv, RegisteredInv, HeldInv,
       RegisteredPoolsUsable
  <2>7. CASE Close
    BY <2>7, KeysAssumption DEF Close, HandlesInv, StageInv, RegisteredInv, HeldInv,
       RegisteredPoolsUsable, MetadataMatchesPool, KeyInv, TypeOK
  <2>8. CASE UNCHANGED cmVars
    BY <2>8 DEF cmVars, HandlesInv, StageInv, RegisteredInv, HeldInv, RegisteredPoolsUsable
  <2>9. QED
    BY <2>1, <2>2, <2>3, <2>4, <2>5, <2>6, <2>7, <2>8 DEF Next
<1>3. QED
  BY <1>1, <1>2, TypeAndKeys, MetadataCorrect, PTL DEF Spec

\* No pool and no tunnel is ever leaked: an open one is local to the add that
\* opened it or registered.
THEOREM NoLeak == Spec => []NoOrphanHandles
<1>1. TypeOK /\ KeyInv /\ HandlesInv => NoOrphanHandles
  BY DEF TypeOK, KeyInv, HandlesInv, StageInv, HeldInv, Finished, NoOrphanHandles, Stage
<1>2. QED
  BY <1>1, TypeAndKeys, HandlesCorrect, PTL

\* Until Close, a name never resolves to a closed pool or one without its
\* tunnel.
THEOREM UsableCorrect == Spec => []RegisteredPoolsUsable
<1>1. HandlesInv => RegisteredPoolsUsable
  BY DEF HandlesInv
<1>2. QED
  BY <1>1, HandlesCorrect, PTL

-----------------------------------------------------------------------------
(* The steps of an add, as other components see them.                     *)

\* What the steps of an add after its first lock section do: they move its pc
\* and its result; one registers the pool, one gives the reservation back.
Registers(c) ==
    /\ pc[c] = "register" /\ (replace[c] \/ ~Has(key[c]))
    /\ connections' = [connections EXCEPT ![key[c]] = c]
    /\ pc'[c] \in {"release", "done"} /\ result'[c] = "ok"
    /\ pendingAdds' = pendingAdds /\ activeConn' = ActiveAfterRegister(key[c])

MovesOn(c) ==
    /\ connections' = connections /\ activeConn' = activeConn
    /\ \/ /\ pc[c] # "release" /\ pendingAdds' = pendingAdds
          /\ \/ pc'[c] \in {"dial", "ping", "register"} /\ result'[c] = result[c]
             \/ pc'[c] \in {"release", "done"} /\ result'[c] \in {"failed", "exists"}
       \/ /\ pc[c] = "release" /\ pendingAdds' = pendingAdds \ {key[c]}
          /\ pc'[c] = "done" /\ result'[c] = result[c]

\* A step of a reserved add changes only its own call: it registers the pool
\* under its key, or leaves the registry alone.
LEMMA AddStepEffect ==
    ASSUME TypeOK, NEW c \in Calls, AddStep(c)
    PROVE  /\ UNCHANGED <<key, replace, shutdown>>
           /\ pc[c] \notin {"idle", "done"}
           /\ pc'[c] = "release" => ~replace[c]
           /\ \A e \in Calls \ {c} : pc'[e] = pc[e] /\ result'[e] = result[e]
           /\ Registers(c) \/ MovesOn(c)
<1> USE DEF maps, handles, args, TypeOK
<1>1. ASSUME NEW pack \in BOOLEAN, Register(c, pack)
      PROVE  /\ Registers(c) /\ UNCHANGED <<key, replace, shutdown>>
             /\ pc[c] \notin {"idle", "done"} /\ (pc'[c] = "release" => ~replace[c])
             /\ \A e \in Calls \ {c} : pc'[e] = pc[e] /\ result'[e] = result[e]
  BY <1>1 DEF Register, Return, Registers
<1>2. CASE StartTunnel(c) \/ SkipTunnel(c) \/ OpenDB(c) \/ PingOK(c)
  BY <1>2 DEF StartTunnel, SkipTunnel, OpenDB, PingOK, MovesOn
<1>3. CASE OpenFails(c) \/ OpenDBFails(c) \/ PingFails(c) \/ LoseRace(c)
  BY <1>3 DEF OpenFails, OpenDBFails, PingFails, LoseRace, Return, MovesOn
<1>4. CASE ReleaseReservation(c)
  BY <1>4 DEF ReleaseReservation, MovesOn
<1>5. QED
  BY <1>1, <1>2, <1>3, <1>4 DEF AddStep

-----------------------------------------------------------------------------
(* Reservations and the cap on session connections.                        *)

\* Until Close, every add-if-absent call in flight has its name in pendingAdds
\* and no two of them have the same name.
LEMMA ReservationsHeld == Spec => []ReservationInv
<1> USE DEF maps, handles, args
<1>1. NewConnectionManager => ReservationInv
  BY DEF NewConnectionManager, ReservationInv, NoDuplicateOpen, HoldsReservation
<1>2. TypeOK /\ HandlesInv /\ ReservationInv /\ [Next]_cmVars => ReservationInv'
  <2> SUFFICES ASSUME TypeOK, HandlesInv, ReservationInv, [Next]_cmVars
               PROVE  ReservationInv'
    OBVIOUS
  <2> USE DEF ReservationInv, NoDuplicateOpen, HoldsReservation
  <2>1. ASSUME NEW c \in Calls, AddStep(c)
        PROVE  ReservationInv'
    <3>1. ASSUME NEW pack \in BOOLEAN, Register(c, pack)
          PROVE  ReservationInv'
      BY <3>1 DEF Register, Return, TypeOK
    <3>2. CASE StartTunnel(c) \/ SkipTunnel(c) \/ OpenDB(c) \/ PingOK(c)
      BY <3>2 DEF StartTunnel, SkipTunnel, OpenDB, PingOK, TypeOK
    <3>3. CASE OpenFails(c) \/ OpenDBFails(c) \/ PingFails(c) \/ LoseRace(c)
      BY <3>3 DEF OpenFails, OpenDBFails, PingFails, LoseRace, Return, TypeOK
    <3>4. CASE ReleaseReservation(c)
      BY <3>4 DEF ReleaseReservation, HandlesInv, StageInv, TypeOK
    <3>5. QED
      BY <2>1, <3>1, <3>2, <3>3, <3>4 DEF AddStep
  <2>2. ASSUME NEW c \in Calls, NEW k \in Keys, RefuseAdd(c, k) \/ ReserveAdd(c, k)
        PROVE  ReservationInv'
    BY <2>2 DEF RefuseAdd, ReserveAdd, ReservationsWith, NameFree, HandlesInv, StageInv, TypeOK
  <2>3. ASSUME NEW c \in Calls, NEW k \in Names, BeginReplace(c, k)
        PROVE  ReservationInv'
    BY <2>3 DEF BeginReplace, TypeOK
  <2>4. QED
    BY <2>1, <2>2, <2>3
    DEF Next, SetActive, RemoveConnection, DropToolPack, Close, cmVars
<1>3. QED
  BY <1>1, <1>2, TypeAndKeys, HandlesCorrect, PTL DEF Spec

\* Every reservation belongs to an add-if-absent call in flight: none is left
\* behind by a call that has returned.
PendingInv == \A k \in pendingAdds : \E c \in Calls : HoldsReservation(c) /\ key[c] = k

\* Every name in pendingAdds belongs to an add that still holds it.
LEMMA PendingHeld == Spec => []PendingInv
<1> USE DEF maps, handles, args
<1>1. NewConnectionManager => PendingInv
  BY DEF NewConnectionManager, PendingInv
<1>2. TypeOK /\ HandlesInv /\ PendingInv /\ [Next]_cmVars => PendingInv'
  <2> SUFFICES ASSUME TypeOK, HandlesInv, PendingInv, [Next]_cmVars, NEW k \in pendingAdds'
               PROVE  \E c \in Calls : HoldsReservation(c)' /\ key'[c] = k
    BY DEF PendingInv
  <2>1. ASSUME NEW e \in Calls, NEW l \in Keys, ReserveAdd(e, l)
        PROVE  \E c \in Calls : HoldsReservation(c)' /\ key'[c] = k
    <3>1. CASE k = l
      <4>1. HoldsReservation(e)' /\ key'[e] = k
        BY <2>1, <3>1 DEF ReserveAdd, HoldsReservation, HandlesInv, StageInv, TypeOK
      <4>2. QED
        BY <4>1
    <3>2. CASE k # l
      <4>1. k \in pendingAdds
        BY <2>1, <3>2 DEF ReserveAdd, ReservationsWith
      <4>2. PICK c \in Calls : HoldsReservation(c) /\ key[c] = k
        BY <4>1 DEF PendingInv
      <4>3. HoldsReservation(c)' /\ key'[c] = k
        BY <2>1, <4>2 DEF ReserveAdd, HoldsReservation, TypeOK
      <4>4. QED
        BY <4>3
    <3>3. QED
      BY <3>1, <3>2
  <2>2. CASE \A e \in Calls, l \in Keys : ~ReserveAdd(e, l)
    <3> USE DEF HoldsReservation
    <3>1. k \in pendingAdds
      BY <2>2 DEF Next, AddStep, StartTunnel, SkipTunnel, OpenFails, OpenDB, OpenDBFails, PingOK,
         PingFails, LoseRace, Register, ReleaseReservation, RefuseAdd, BeginReplace, SetActive,
         RemoveConnection, DropToolPack, Close, cmVars
    <3>2. PICK c \in Calls : HoldsReservation(c) /\ key[c] = k
      BY <3>1 DEF PendingInv
    <3>3. ASSUME NEW e \in Calls, AddStep(e)
          PROVE  HoldsReservation(c)' /\ key'[c] = k
      <4>1. ASSUME NEW pack \in BOOLEAN, Register(e, pack)
            PROVE  HoldsReservation(c)' /\ key'[c] = k
        BY <3>2, <4>1 DEF Register, Return, TypeOK
      <4>2. CASE StartTunnel(e) \/ SkipTunnel(e) \/ OpenDB(e) \/ PingOK(e)
        BY <3>2, <4>2 DEF StartTunnel, SkipTunnel, OpenDB, PingOK, TypeOK
      <4>3. CASE OpenFails(e) \/ OpenDBFails(e) \/ PingFails(e) \/ LoseRace(e)
        BY <3>2, <4>3 DEF OpenFails, OpenDBFails, PingFails, LoseRace, Return, TypeOK
      <4>4. CASE ReleaseReservation(e)
        BY <3>2, <4>4 DEF ReleaseReservation, TypeOK
      <4>5. QED
        BY <3>3, <4>1, <4>2, <4>3, <4>4 DEF AddStep
    <3>4. ASSUME NEW e \in Calls, NEW l \in Keys, RefuseAdd(e, l) \/ BeginReplace(e, l)
          PROVE  HoldsReservation(c)' /\ key'[c] = k
      BY <3>2, <3>4 DEF RefuseAdd, BeginReplace, TypeOK
    <3>5. HoldsReservation(c)' /\ key'[c] = k
      BY <2>2, <3>2, <3>3, <3>4
      DEF Next, SetActive, RemoveConnection, DropToolPack, Close, cmVars, Keys
    <3>6. QED
      BY <3>5
  <2>3. QED
    BY <2>1, <2>2
<1>3. QED
  BY <1>1, <1>2, TypeAndKeys, HandlesCorrect, PTL DEF Spec

\* Until Close, no two add-if-absent calls open pools for the same name.
THEOREM ReservationCorrect == Spec => []NoDuplicateOpen
<1>1. ReservationInv => NoDuplicateOpen
  BY DEF ReservationInv, NoDuplicateOpen
<1>2. QED
  BY <1>1, ReservationsHeld, PTL

\* Removing keys from a set within the cap keeps it within the cap.
LEMMA FewerWithinCap ==
    ASSUME NEW S, NEW T, IsFiniteSet(S), Cardinality(S) <= MaxTotal, T \subseteq S
    PROVE  IsFiniteSet(T) /\ Cardinality(T) <= MaxTotal
<1>1. IsFiniteSet(T) /\ Cardinality(T) <= Cardinality(S)
  BY FS_Subset
<1>2. Cardinality(S) \in Nat /\ Cardinality(T) \in Nat
  BY <1>1, FS_CardinalityType
<1>3. QED
  BY <1>1, <1>2, LimitAssumption

\* The keys that count against the cap are finitely many and within it.
LEMMA CapHeld == Spec => []CapInv
<1> USE DEF maps, handles, args
<1>1. NewConnectionManager => CapInv
  <2> SUFFICES ASSUME NewConnectionManager
               PROVE  CapInv
    OBVIOUS
  <2>1. SessionConnsInUse = {}
    BY DEF NewConnectionManager, SessionConnsInUse, Has, Keys
  <2>2. QED
    BY <2>1, FS_EmptySet, LimitAssumption DEF CapInv, SessionConnCount
<1>2. TypeOK /\ KeyInv /\ ReservationInv /\ HandlesInv /\ CapInv /\ [Next]_cmVars => CapInv'
  <2> SUFFICES ASSUME TypeOK, KeyInv, ReservationInv, HandlesInv, CapInv, [Next]_cmVars,
                      ~shutdown'
               PROVE  /\ IsFiniteSet(SessionConnsInUse')
                      /\ Cardinality(SessionConnsInUse') <= MaxTotal
    BY DEF CapInv, SessionConnCount
  <2> DEFINE S == SessionConnsInUse
  <2>0. ~shutdown /\ IsFiniteSet(S) /\ Cardinality(S) <= MaxTotal
    BY DEF Next, AddStep, StartTunnel, SkipTunnel, OpenFails, OpenDB, OpenDBFails, PingOK,
       PingFails, LoseRace, Register, ReleaseReservation, RefuseAdd, ReserveAdd,
       BeginReplace, SetActive, RemoveConnection, DropToolPack, Close, cmVars,
       CapInv, SessionConnCount
  <2>1. ASSUME S' \subseteq S
        PROVE  IsFiniteSet(S') /\ Cardinality(S') <= MaxTotal
    BY <2>0, <2>1, FewerWithinCap
  <2>2. ASSUME NEW c \in Calls, AddStep(c)
        PROVE  S' \subseteq S
    <3>1. ASSUME NEW pack \in BOOLEAN, Register(c, pack)
          PROVE  S' \subseteq S
      <4>1. key[c] \in SessionKeys => key[c] \in pendingAdds
        BY <2>0, <3>1 DEF Register, ReservationInv, HoldsReservation, HandlesInv, StageInv
      <4>2. QED
        BY <3>1, <4>1 DEF Register, SessionConnsInUse, Has, Keys, TypeOK
    <3>2. QED
      BY <2>2, <3>1
      DEF AddStep, StartTunnel, SkipTunnel, OpenFails, OpenDB, OpenDBFails, PingOK,
          PingFails, LoseRace, ReleaseReservation, SessionConnsInUse, Has
  <2>3. ASSUME NEW c \in Calls, NEW k \in Keys, ReserveAdd(c, k)
        PROVE  IsFiniteSet(S') /\ Cardinality(S') <= MaxTotal
    <3>1. CASE k \notin SessionKeys
      <4>1. S' \subseteq S
        BY <2>3, <3>1 DEF ReserveAdd, ReservationsWith, SessionConnsInUse, Has
      <4>2. QED
        BY <4>1, <2>1
    <3>2. CASE k \in SessionKeys
      <4>1. S' = S \cup {k}
        BY <2>3, <3>2 DEF ReserveAdd, ReservationsWith, SessionConnsInUse, Has
      <4>2. Cardinality(S) < MaxTotal
        BY <2>0, <2>3, <3>2, FS_CardinalityType, LimitAssumption
        DEF ReserveAdd, OverCap, SessionConnCount, IsSessionConnKey
      <4>3. /\ IsFiniteSet(S \cup {k})
            /\ Cardinality(S \cup {k}) <= Cardinality(S) + 1
            /\ Cardinality(S) \in Nat /\ Cardinality(S \cup {k}) \in Nat
        BY <2>0, FS_AddElement, FS_CardinalityType
      <4>4. QED
        BY <4>1, <4>2, <4>3, LimitAssumption
    <3>3. QED
      BY <3>1, <3>2
  <2>4. ASSUME NEW k \in Keys, TearDownNamedConnection(k), UNCHANGED pendingAdds
        PROVE  S' \subseteq S
    BY <2>4 DEF TearDownNamedConnection, Forget, SessionConnsInUse, Has, Keys, TypeOK
  <2>5. ASSUME UNCHANGED <<connections, pendingAdds>>
        PROVE  S' \subseteq S
    BY <2>5 DEF SessionConnsInUse, Has
  <2> HIDE DEF S
  <2> Names \subseteq Keys
    BY DEF Keys
  <2>6. (S' \subseteq S) \/ (\E c \in Calls, k \in Keys : ReserveAdd(c, k))
    BY <2>2, <2>4, <2>5
    DEF Next, RefuseAdd, BeginReplace, SetActive, RemoveConnection, DropToolPack, Close, cmVars
  <2>7. QED
    BY <2>1, <2>3, <2>6 DEF S
<1>3. QED
  BY <1>1, <1>2, TypeAndKeys, ReservationsHeld, HandlesCorrect, PTL DEF Spec

\* The cap on session-owned connections holds for every interleaving of adds,
\* removals and session cleanups, while the manager is open.
THEOREM CapCorrect == Spec => []SessionCap
<1>1. CapInv => SessionCap
  BY DEF CapInv, SessionCap
<1>2. QED
  BY <1>1, CapHeld, PTL

=============================================================================
