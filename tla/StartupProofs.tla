---------------------------- MODULE StartupProofs ----------------------------
(***************************************************************************)
(* What Startup leaves in the registry, for any configuration, with or     *)
(* without names that occur twice.                                         *)
(***************************************************************************)
EXTENDS Startup, ConnectionManagerProofs, WellFoundedInduction

Busy(i) == pc[i] \notin {"idle", "done"}

\* Every later entry with the name of entry i has still to be added.
LastSoFar(i) == \A j \in DOMAIN conf : j > i /\ conf[j] = conf[i] => pc[j] = "idle"

\* Entry i of the loop: entries start in order and one at a time, the replacing
\* add has no reservation to release and has cleared its name before it opens
\* the pool, and what it leaves under the name stays until a later entry takes
\* the name.
EntryOK(i) ==
    /\ pc[i] # "idle" => Reached(i) /\ key[i] = conf[i] /\ replace[i]
    /\ pc[i] # "release"
    /\ Busy(i) => connections[conf[i]] = None
    /\ pc[i] = "done" /\ LastSoFar(i) =>
          connections[conf[i]] = IF result[i] = "ok" THEN i ELSE None

\* With distinct names the default is the first entry that succeeded.
DefaultOK ==
    DistinctNames =>
        \/ activeConn = None /\ \A i \in DOMAIN conf : ~Succeeded(i)
        \/ \E i \in DOMAIN conf : FirstSuccess(i) /\ activeConn = conf[i]

BootInv == phase = "starting" => (\A i \in DOMAIN conf : EntryOK(i)) /\ DefaultOK

\* An entry is a number, an add call and a user name.
LEMMA EntryTypes ==
    ASSUME conf \in Configurations
    PROVE  /\ DOMAIN conf = 1..Len(conf) /\ Len(conf) \in Nat
           /\ \A i \in DOMAIN conf : /\ i \in Nat /\ i \in Calls /\ conf[i] \in Names
                                     /\ conf[i] \in Keys /\ conf[i] \notin SessionKeys
                                     /\ 1..i-1 \subseteq DOMAIN conf
<1>1. conf \in Seq(Names) /\ DOMAIN conf \subseteq Calls
  BY StartupAssumption
<1>2. DOMAIN conf = 1..Len(conf) /\ Len(conf) \in Nat
  BY <1>1
<1>3. QED
  BY <1>1, <1>2, KeysAssumption DEF Keys

\* Entries are added one at a time: the others have returned or not begun.
LEMMA OneAtATime ==
    ASSUME StartupTypeOK, \A i \in DOMAIN conf : EntryOK(i),
           NEW i \in DOMAIN conf, Reached(i), pc[i] # "done", NEW j \in DOMAIN conf, j # i
    PROVE  /\ j < i => pc[j] = "done"
           /\ j > i => pc[j] = "idle"
<1>1. i \in Nat /\ j \in Nat /\ DOMAIN conf = 1..Len(conf) /\ Len(conf) \in Nat
  BY EntryTypes DEF StartupTypeOK
<1>2. j < i => pc[j] = "done"
  BY <1>1 DEF Reached
<1>3. j > i => pc[j] = "idle"
  <2>1. SUFFICES ASSUME j > i, pc[j] # "idle" PROVE FALSE
    OBVIOUS
  <2>2. Reached(j)
    BY <2>1 DEF EntryOK
  <2>3. QED
    BY <1>1, <2>1, <2>2 DEF Reached
<1>4. QED
  BY <1>2, <1>3

\* The loop's add starts: whatever the name had is gone.
LEMMA BeginEntry ==
    ASSUME StartupTypeOK, BootInv, NEW i \in DOMAIN conf, AddConfigured(i)
    PROVE  BootInv'
<1> USE DEF maps, handles, args
<1>0. /\ TypeOK /\ conf \in Configurations /\ conf' = conf /\ phase' = phase /\ phase = "starting"
      /\ (\A j \in DOMAIN conf : EntryOK(j)) /\ DefaultOK /\ Reached(i) /\ pc[i] = "idle"
  BY DEF StartupTypeOK, BootInv, AddConfigured, BeginReplace, bootVars
<1>1. /\ i \in Calls /\ conf[i] \in Keys /\ i \in Nat /\ DOMAIN conf \subseteq Nat \cap Calls
      /\ \A j \in DOMAIN conf : conf[j] \in Keys /\ 1..j-1 \subseteq DOMAIN conf
  BY <1>0, EntryTypes
<1>2. /\ pc'[i] = "open" /\ key'[i] = conf[i] /\ replace'[i] /\ result' = result
      /\ \A j \in Calls \ {i} : pc'[j] = pc[j] /\ key'[j] = key[j] /\ replace'[j] = replace[j]
      /\ connections'[conf[i]] = None
      /\ \A k \in Keys \ {conf[i]} : connections'[k] = connections[k]
      /\ activeConn' = ActiveWithout(conf[i])
  BY <1>0, <1>1 DEF AddConfigured, BeginReplace, TearDownNamedConnection, Forget, Has, TypeOK
<1>3. \A j \in DOMAIN conf \ {i} : (j < i => pc[j] = "done") /\ (j > i => pc[j] = "idle")
  BY <1>0, OneAtATime
<1>4. ASSUME NEW j \in DOMAIN conf, Reached(j)
      PROVE  Reached(j)'
  <2>1. \A m \in 1..j-1 : m \in Calls /\ m # i /\ pc[m] = "done"
    BY <1>0, <1>1, <1>4 DEF Reached
  <2>2. QED
    BY <1>2, <2>1 DEF Reached
<1>5. ASSUME NEW j \in DOMAIN conf
      PROVE  EntryOK(j)'
  <2>1. CASE j = i
    BY <1>0, <1>1, <1>2, <1>4, <2>1 DEF EntryOK, Busy
  <2>2. CASE j > i
    BY <1>0, <1>1, <1>2, <1>3, <2>2 DEF EntryOK, Busy
  <2>3. CASE j < i
    <3>1. pc[j] = "done" /\ pc'[j] = "done" /\ Reached(j) /\ Reached(j)'
      BY <1>0, <1>1, <1>2, <1>3, <1>4, <2>3 DEF EntryOK
    <3>2. ASSUME LastSoFar(j)'
          PROVE  conf[j] # conf[i] /\ LastSoFar(j)
      BY <1>0, <1>1, <1>2, <2>3, <3>2 DEF LastSoFar
    <3>3. QED
      BY <1>0, <1>1, <1>2, <2>3, <3>1, <3>2 DEF EntryOK, Busy
  <2>4. QED
    BY <1>1, <2>1, <2>2, <2>3
<1>6. \A j \in DOMAIN conf : Succeeded(j)' = Succeeded(j)
  BY <1>0, <1>1, <1>2 DEF Succeeded
<1>7. DefaultOK'
  <2>1. SUFFICES ASSUME DistinctNames PROVE DefaultOK'
    BY <1>0 DEF DefaultOK, DistinctNames
  <2>2. activeConn' = activeConn
    <3>1. ASSUME activeConn = conf[i] PROVE FALSE
      <4>1. PICK j \in DOMAIN conf : FirstSuccess(j) /\ activeConn = conf[j]
        BY <1>0, <1>1, <2>1, <3>1, KeysAssumption DEF DefaultOK
      <4>2. QED
        BY <1>0, <2>1, <3>1, <4>1 DEF DistinctNames, FirstSuccess, Succeeded
    <3>2. QED
      BY <1>2, <3>1 DEF ActiveWithout
  <2>3. \A j \in DOMAIN conf : FirstSuccess(j)' = FirstSuccess(j)
    BY <1>1, <1>6 DEF FirstSuccess
  <2>4. QED
    BY <1>0, <1>6, <2>1, <2>2, <2>3 DEF DefaultOK, DistinctNames
<1>8. QED
  BY <1>0, <1>5, <1>7 DEF BootInv

\* The loop's add goes on, and perhaps returns.
LEMMA ContinueEntry ==
    ASSUME StartupTypeOK, BootInv, NEW i \in DOMAIN conf, AddConfiguredStep(i)
    PROVE  BootInv'
<1>0. /\ TypeOK /\ conf \in Configurations /\ conf' = conf /\ phase' = phase /\ phase = "starting"
      /\ (\A j \in DOMAIN conf : EntryOK(j)) /\ DefaultOK
  BY DEF StartupTypeOK, BootInv, AddConfiguredStep, bootVars
<1>1. /\ i \in Calls /\ conf[i] \in Keys /\ i \in Nat /\ DOMAIN conf \subseteq Nat \cap Calls
      /\ \A j \in DOMAIN conf : conf[j] \in Keys /\ 1..j-1 \subseteq DOMAIN conf
      /\ conf[i] \notin SessionKeys
  BY <1>0, EntryTypes
<1>2. /\ Busy(i) /\ UNCHANGED <<key, replace>> /\ (pc'[i] = "release" => ~replace[i])
      /\ \A j \in Calls \ {i} : pc'[j] = pc[j] /\ result'[j] = result[j]
      /\ Registers(i) \/ MovesOn(i)
  BY <1>0, <1>1, AddStepEffect DEF AddConfiguredStep, Busy
<1>3. Reached(i) /\ key[i] = conf[i] /\ replace[i] /\ connections[conf[i]] = None
  BY <1>0, <1>2 DEF EntryOK, Busy
<1>4. \A j \in DOMAIN conf \ {i} : (j < i => pc[j] = "done") /\ (j > i => pc[j] = "idle")
  BY <1>0, <1>2, <1>3, OneAtATime DEF Busy
<1>5. \/ /\ pc'[i] = "done" /\ result'[i] = "ok" /\ connections' = [connections EXCEPT ![conf[i]] = i]
         /\ activeConn' = ActiveAfterRegister(conf[i])
      \/ /\ pc'[i] = "done" /\ result'[i] # "ok" /\ connections' = connections /\ activeConn' = activeConn
      \/ /\ Busy(i)' /\ connections' = connections /\ activeConn' = activeConn
  <2>1. pc'[i] # "release" /\ pc[i] # "release"
    BY <1>0, <1>2, <1>3 DEF EntryOK
  <2>2. QED
    BY <1>2, <1>3, <2>1 DEF Registers, MovesOn, Busy
<1>6. ASSUME NEW j \in DOMAIN conf, j <= i
      PROVE  Reached(j)'
  <2>1. \A m \in 1..j-1 : m \in Calls /\ m # i /\ m \in 1..i-1
    BY <1>1, <1>6
  <2>2. QED
    BY <1>2, <1>3, <2>1 DEF Reached
<1>7. ASSUME NEW j \in DOMAIN conf
      PROVE  EntryOK(j)'
  <2>1. CASE j = i
    BY <1>0, <1>1, <1>2, <1>3, <1>5, <1>6, <2>1 DEF EntryOK, Busy, TypeOK
  <2>2. CASE j > i
    BY <1>0, <1>1, <1>2, <1>4, <2>2 DEF EntryOK, Busy
  <2>3. CASE j < i
    <3>1. pc[j] = "done" /\ pc'[j] = "done" /\ Reached(j)'
      BY <1>1, <1>2, <1>4, <1>6, <2>3
    <3>2. ASSUME LastSoFar(j)'
          PROVE  conf[j] # conf[i] /\ LastSoFar(j)
      BY <1>0, <1>1, <1>2, <1>5, <2>3, <3>2 DEF LastSoFar, Busy
    <3>3. conf[j] # conf[i] => connections'[conf[j]] = connections[conf[j]]
      BY <1>0, <1>1, <1>5 DEF TypeOK
    <3>4. QED
      BY <1>0, <1>1, <1>2, <2>3, <3>1, <3>2, <3>3 DEF EntryOK, Busy
  <2>4. QED
    BY <1>1, <2>1, <2>2, <2>3
<1>8. /\ \A j \in DOMAIN conf \ {i} : Succeeded(j)' = Succeeded(j)
      /\ Succeeded(i)' <=> pc'[i] = "done" /\ result'[i] = "ok"
      /\ ~Succeeded(i)
  BY <1>1, <1>2 DEF Succeeded, Busy
<1>9. DefaultOK'
  <2>1. SUFFICES ASSUME DistinctNames PROVE DefaultOK'
    BY <1>0 DEF DefaultOK, DistinctNames
  <2>2. ASSUME NEW j \in DOMAIN conf, FirstSuccess(j)
        PROVE  FirstSuccess(j)'
    <3>1. j < i
      BY <1>1, <1>2, <1>4, <2>2 DEF FirstSuccess, Succeeded, Busy
    <3>2. \A m \in 1..j-1 : m \in DOMAIN conf \ {i}
      BY <1>1, <3>1
    <3>3. QED
      BY <1>8, <2>2, <3>1, <3>2 DEF FirstSuccess
  <2>3. CASE pc'[i] = "done" /\ result'[i] = "ok" /\ activeConn = None
    <3>1. activeConn' = conf[i]
      BY <1>1, <1>5, <2>3 DEF ActiveAfterRegister, ActiveWithout, IsSessionConnKey, Busy
    <3>2. \A j \in DOMAIN conf : ~Succeeded(j)
      BY <1>0, <1>1, <2>1, <2>3, KeysAssumption DEF DefaultOK
    <3>3. \A m \in 1..i-1 : m \in DOMAIN conf \ {i}
      BY <1>1
    <3>4. FirstSuccess(i)'
      BY <1>8, <2>3, <3>2, <3>3 DEF FirstSuccess
    <3>5. QED
      BY <1>0, <3>1, <3>4 DEF DefaultOK
  <2>4. CASE ~(pc'[i] = "done" /\ result'[i] = "ok") \/ activeConn # None
    <3>1. activeConn' = activeConn
      BY <1>3, <1>5, <2>4 DEF ActiveAfterRegister, ActiveWithout, Has
    <3>2. CASE activeConn = None /\ \A j \in DOMAIN conf : ~Succeeded(j)
      BY <1>0, <1>8, <2>4, <3>1, <3>2 DEF DefaultOK
    <3>3. ASSUME NEW j \in DOMAIN conf, FirstSuccess(j), activeConn = conf[j]
          PROVE  DefaultOK'
      BY <1>0, <2>2, <3>1, <3>3 DEF DefaultOK
    <3>4. QED
      BY <1>0, <2>1, <3>2, <3>3 DEF DefaultOK
  <2>5. QED
    BY <2>3, <2>4
<1>10. QED
  BY <1>0, <1>7, <1>9 DEF BootInv

\* A step of the startup keeps what is known of it.
LEMMA BootStep ==
    ASSUME StartupTypeOK, BootInv, StartupStep
    PROVE  BootInv'
  BY BeginEntry, ContinueEntry DEF StartupStep, StartServing, FailStartup, BootInv

\* What the code does: a name has the pool of its last entry if that one could be
\* opened, and none otherwise.
LastEntryRegistered(i) ==
    LastEntry(i) => connections[conf[i]] = IF Succeeded(i) THEN i ELSE None

\* What LastEntryWins says of one entry.
NewestRegistered(i) ==
    /\ LastEntry(i) /\ Succeeded(i) => connections[conf[i]] = i
    /\ Has(conf[i]) =>
         \E j \in DOMAIN conf : conf[j] = conf[i] /\ LastSuccess(j) /\ connections[conf[i]] = j

\* When the loop is over, every entry has returned.
LEMMA LoopOver ==
    ASSUME StartupTypeOK, BootInv, phase = "starting", Reached(Len(conf) + 1)
    PROVE  /\ \A i \in DOMAIN conf : pc[i] = "done" /\ LastEntryRegistered(i)
           /\ DefaultOK
           /\ DistinctNames /\ GetActiveDB = None => \A i \in DOMAIN conf : ~Succeeded(i)
<1>1. /\ \A i \in DOMAIN conf : i \in Nat /\ i \in Calls /\ conf[i] \in Keys
      /\ DOMAIN conf = 1..Len(conf) /\ Len(conf) \in Nat
  BY EntryTypes DEF StartupTypeOK
<1>2. \A i \in DOMAIN conf : pc[i] = "done" /\ EntryOK(i)
  BY <1>1 DEF Reached, BootInv
<1>3. \A i \in DOMAIN conf : LastEntryRegistered(i)
  BY <1>1, <1>2 DEF EntryOK, LastSoFar, LastEntryRegistered, LastEntry, Succeeded
<1>4. ASSUME DistinctNames, GetActiveDB = None
      PROVE  \A i \in DOMAIN conf : ~Succeeded(i)
  <2>1. ASSUME NEW i \in DOMAIN conf, FirstSuccess(i), activeConn = conf[i]
        PROVE  FALSE
    <3>1. connections[conf[i]] = i
      BY <1>1, <1>3, <1>4, <2>1 DEF LastEntryRegistered, LastEntry, DistinctNames, FirstSuccess
    <3>2. QED
      BY <1>1, <1>4, <2>1, <3>1, KeysAssumption DEF GetActiveDB
  <2>2. QED
    BY <1>4, <2>1 DEF BootInv, DefaultOK
<1>5. QED
  BY <1>2, <1>3, <1>4 DEF BootInv

\* Every name has a last entry.
LEMMA LastEntryExists ==
    ASSUME conf \in Configurations, NEW i \in DOMAIN conf
    PROVE  \E j \in DOMAIN conf : conf[j] = conf[i] /\ LastEntry(j)
<1> DEFINE R == {ss \in Nat \X Nat : ss[1] < ss[2]}
           After(j) == Len(conf) - j
           T == {After(j) : j \in {l \in DOMAIN conf : conf[l] = conf[i]}}
<1>0. \A j \in DOMAIN conf : j \in Nat /\ After(j) \in Nat
  BY EntryTypes
<1>1. IsWellFoundedOn(R, Nat)
  BY NatLessThanWellFounded, Zenon DEF OpToRel
<1>2. T \subseteq Nat /\ T # {}
  BY <1>0
<1>3. PICK x \in T : \A y \in T : <<y, x>> \notin R
  <2> HIDE DEF R, T
  <2> QED
    BY <1>1, <1>2, WFMin
<1>4. PICK j \in DOMAIN conf : conf[j] = conf[i] /\ x = After(j)
  OBVIOUS
<1>5. ASSUME NEW l \in DOMAIN conf, l > j, conf[l] = conf[j]
      PROVE  FALSE
  <2>1. After(l) \in T /\ After(l) < After(j) /\ <<After(l), After(j)>> \in Nat \X Nat
    BY <1>0, <1>4, <1>5, EntryTypes
  <2>2. <<After(l), After(j)>> \in R
    <3> HIDE DEF After
    <3> QED
      BY <2>1
  <2>3. QED
    BY <1>3, <1>4, <2>1, <2>2
<1>6. QED
  BY <1>4, <1>5 DEF LastEntry

\* Then the pool under a name is the one of the last entry that could be opened.
LEMMA NewestWins ==
    ASSUME StartupTypeOK, BootInv, phase = "starting", Reached(Len(conf) + 1)
    PROVE  \A i \in DOMAIN conf : NewestRegistered(i)
<1> SUFFICES ASSUME NEW i \in DOMAIN conf PROVE NewestRegistered(i)
  OBVIOUS
<1>1. /\ conf \in Configurations
      /\ \A j \in DOMAIN conf : j \in Nat /\ LastEntryRegistered(j)
  BY LoopOver, EntryTypes DEF StartupTypeOK
<1>2. PICK j \in DOMAIN conf : conf[j] = conf[i] /\ LastEntry(j)
  BY <1>1, LastEntryExists
<1>3. LastEntry(i) => i = j
  BY <1>1, <1>2 DEF LastEntry
<1>4. LastEntry(j) => (Succeeded(j) => LastSuccess(j))
  BY DEF LastEntry, LastSuccess
<1>5. QED
  BY <1>1, <1>2, <1>3, <1>4 DEF NewestRegistered, LastEntryRegistered, Has

\* The step that starts the transport, or gives up.
LEMMA StartupEnds ==
    ASSUME StartupTypeOK, BootInv, StartServing \/ FailStartup
    PROVE  /\ phase' = "serving" => \A i \in DOMAIN conf : NewestRegistered(i)
           /\ DistinctNames /\ phase' = "serving" =>
                 \E i \in DOMAIN conf : FirstSuccess(i) /\ activeConn = conf[i]
           /\ DistinctNames /\ phase' = "fatal" => \A i \in DOMAIN conf : ~Succeeded(i)
<1>1. phase = "starting" /\ Reached(Len(conf) + 1)
  BY DEF StartServing, FailStartup
<1>2. CASE StartServing
  BY <1>1, <1>2, LoopOver, NewestWins DEF StartServing, DefaultOK, GetActiveDB
<1>3. CASE FailStartup
  BY <1>1, <1>3, LoopOver DEF FailStartup
<1>4. QED
  BY <1>2, <1>3

\* What one step may do to the phase: only the two steps above end the startup.
LEMMA StartupPhase ==
    ASSUME StartupTypeOK, StartupStep \/ Exit
    PROVE  /\ phase = "starting" => StartupStep
           /\ phase' = phase \/ StartServing \/ FailStartup \/ (phase = "serving" /\ phase' = "exited")
  BY DEF StartupStep, AddConfigured, AddConfiguredStep, StartServing, FailStartup, Exit, bootVars

\* Startup alone, without tool calls, is a manager at work.
LEMMA StartupManagerStep == StartupTypeOK /\ [StartupNext]_startVars => [Next]_cmVars
<1> SUFFICES ASSUME StartupTypeOK, [StartupNext]_startVars
             PROVE  [Next]_cmVars
  OBVIOUS
<1>1. ASSUME NEW i \in DOMAIN conf, AddConfigured(i) \/ AddConfiguredStep(i)
      PROVE  Next
  BY <1>1, EntryTypes DEF StartupTypeOK, AddConfigured, AddConfiguredStep, Next
<1>2. QED
  BY <1>1 DEF StartupNext, StartupStep, StartServing, FailStartup, Exit, Next, startVars

\* The types and the startup invariant hold throughout.
LEMMA BootHeld == StartupSpec => [](StartupTypeOK /\ KeyInv /\ BootInv)
<1>1. StartupInit => StartupTypeOK /\ KeyInv /\ BootInv
  <2> SUFFICES ASSUME StartupInit PROVE StartupTypeOK /\ KeyInv /\ BootInv
    OBVIOUS
  <2>1. StartupTypeOK /\ KeyInv
    BY DEF StartupInit, StartupTypeOK, NewConnectionManager, TypeOK, KeyInv, Handle, Stage, Outcome
  <2>2. \A i \in DOMAIN conf : i \in Calls
    BY <2>1, EntryTypes DEF StartupTypeOK
  <2>3. BootInv
    BY <2>2 DEF StartupInit, NewConnectionManager, BootInv, EntryOK, Busy, DefaultOK, Succeeded
  <2>4. QED
    BY <2>1, <2>3
<1>2. StartupTypeOK /\ KeyInv /\ BootInv /\ [StartupNext]_startVars => (StartupTypeOK /\ KeyInv /\ BootInv)'
  <2> SUFFICES ASSUME StartupTypeOK, KeyInv, BootInv, [StartupNext]_startVars
               PROVE  (StartupTypeOK /\ KeyInv /\ BootInv)'
    OBVIOUS
  <2>1. TypeOK' /\ KeyInv'
    BY StartupManagerStep, TypeStep DEF StartupTypeOK
  <2>2. CASE StartupNext
    <3>1. conf' = conf /\ phase' \in {"starting", "serving", "fatal", "exited"}
      BY <2>2
      DEF StartupTypeOK, StartupNext, StartupStep, AddConfigured, AddConfiguredStep, StartServing,
          FailStartup, Exit, bootVars
    <3>2. BootInv'
      BY <2>2, BootStep DEF StartupNext, Exit, BootInv
    <3>3. QED
      BY <2>1, <3>1, <3>2 DEF StartupTypeOK
  <2>3. CASE UNCHANGED startVars
    BY <2>1, <2>3
    DEF startVars, cmVars, bootVars, StartupTypeOK, BootInv, EntryOK, Busy, LastSoFar, Reached,
        DefaultOK, DistinctNames, Succeeded, FirstSuccess
  <2>4. QED
    BY <2>2, <2>3
<1>3. QED
  BY <1>1, <1>2, PTL DEF StartupSpec

\* A name that is configured twice never serves the pool of an entry a later one
\* has replaced, for every configuration: a name whose last entry could be opened
\* has that entry's pool, and any registered pool is the one of the last entry of
\* its name that could be opened.
THEOREM StartupLastEntry == StartupSpec => LastEntryWins
<1>1. StartupTypeOK /\ BootInv /\ [StartupNext]_startVars =>
        [phase' = "serving" /\ phase # "serving" =>
           \A i \in DOMAIN conf : NewestRegistered(i)]_startVars
  BY StartupPhase, StartupEnds DEF StartupNext
<1>2. QED
  BY <1>1, BootHeld, PTL DEF StartupSpec, LastEntryWins, NewestRegistered

\* With distinct names, the default connection of a server that starts is the
\* first configured one that could be opened, and startup fails only if none
\* could.
THEOREM StartupFirstSuccess == StartupSpec => FirstSuccessIsDefault
<1>1. StartupTypeOK /\ BootInv /\ [StartupNext]_startVars =>
        [DistinctNames /\ phase = "starting" =>
           /\ phase' = "serving" =>
                \E i \in DOMAIN conf : FirstSuccess(i) /\ activeConn = conf[i]
           /\ phase' = "fatal" => \A i \in DOMAIN conf : ~Succeeded(i)]_startVars
  BY StartupPhase, StartupEnds DEF StartupNext
<1>2. QED
  BY <1>1, BootHeld, PTL DEF StartupSpec, FirstSuccessIsDefault

\* While the configured connections are added, nothing else is registered.
OnlyConfigured == \A k \in Keys : Has(k) => \E i \in DOMAIN conf : conf[i] = k

FatalInv ==
    /\ phase = "starting" => OnlyConfigured
    /\ DistinctNames => FatalOnlyWithoutConnections

\* The process gives up only when no connection is usable, unless a name is
\* configured twice: that one case, which the run startup_duplicate_fatal shows,
\* is the only one in which the message of the fatal exit is wrong.
THEOREM FatalCorrect == StartupSpec => [](DistinctNames => FatalOnlyWithoutConnections)
<1>1. StartupInit => FatalInv
  BY DEF StartupInit, NewConnectionManager, FatalInv, OnlyConfigured, Has, FatalOnlyWithoutConnections
<1>2. StartupTypeOK /\ BootInv /\ FatalInv /\ [StartupNext]_startVars => FatalInv'
  <2> SUFFICES ASSUME StartupTypeOK, BootInv, FatalInv, [StartupNext]_startVars
               PROVE  FatalInv'
    OBVIOUS
  <2> USE DEF maps, handles, args
  <2>0. /\ TypeOK /\ conf \in Configurations
        /\ \A i \in DOMAIN conf : i \in Nat /\ i \in Calls /\ conf[i] \in Keys
    BY EntryTypes DEF StartupTypeOK
  <2>1. CASE UNCHANGED startVars
    BY <2>1
    DEF startVars, cmVars, bootVars, FatalInv, OnlyConfigured, Has, DistinctNames,
        FatalOnlyWithoutConnections
  <2>2. ASSUME NEW i \in DOMAIN conf, AddConfigured(i) \/ AddConfiguredStep(i)
        PROVE  FatalInv'
    <3>1. phase = "starting" /\ phase' = "starting" /\ conf' = conf /\ OnlyConfigured
      BY <2>2 DEF AddConfigured, AddConfiguredStep, bootVars, FatalInv
    <3>2. \A k \in Keys : Has(k)' => Has(k) \/ k = conf[i]
      <4>1. CASE AddConfigured(i)
        BY <2>0, <4>1 DEF AddConfigured, BeginReplace, TearDownNamedConnection, Forget, Has, TypeOK
      <4>2. CASE AddConfiguredStep(i)
        <5>1. key[i] = conf[i]
          BY <2>0, <3>1, <4>2, AddStepEffect DEF AddConfiguredStep, BootInv, EntryOK
        <5>2. QED
          BY <2>0, <4>2, <5>1, AddStepEffect DEF AddConfiguredStep, Registers, MovesOn, Has, TypeOK
      <4>3. QED
        BY <2>2, <4>1, <4>2
    <3>3. QED
      BY <3>1, <3>2 DEF FatalInv, OnlyConfigured, FatalOnlyWithoutConnections
  <2>3. CASE StartServing \/ Exit
    BY <2>3 DEF StartServing, Exit, FatalInv, FatalOnlyWithoutConnections
  <2>4. CASE FailStartup
    <3>1. phase = "starting" /\ conf' = conf /\ connections' = connections /\ phase' = "fatal"
      BY <2>4 DEF FailStartup, Close
    <3>2. ASSUME DistinctNames, NEW k \in Names, Has(k)
          PROVE  FALSE
      <4>1. PICK i \in DOMAIN conf : conf[i] = k
        BY <3>1, <3>2 DEF FatalInv, OnlyConfigured, Keys
      <4>2. LastEntryRegistered(i) /\ ~Succeeded(i)
        BY <2>4, <3>2, LoopOver DEF FailStartup
      <4>3. connections[k] = None
        BY <2>0, <3>2, <4>1, <4>2 DEF LastEntryRegistered, LastEntry, DistinctNames
      <4>4. QED
        BY <3>2, <4>3 DEF Has
    <3>3. QED
      BY <3>1, <3>2 DEF FatalInv, FatalOnlyWithoutConnections, DistinctNames, Has
  <2>5. QED
    BY <2>1, <2>2, <2>3, <2>4 DEF StartupNext, StartupStep
<1>3. FatalInv => (DistinctNames => FatalOnlyWithoutConnections)
  BY DEF FatalInv
<1>4. QED
  BY <1>1, <1>2, <1>3, BootHeld, PTL DEF StartupSpec

=============================================================================
