--------------------------- MODULE RunQueryProofs ---------------------------
(***************************************************************************)
(* Theorems about RunQuery, for any number of callers, connections,        *)
(* databases and retries, every row cap and every result size.             *)
(***************************************************************************)
EXTENDS RunQuery, TLAPS, FiniteSetTheorems

\* A call at work has passed the checks of toolRunQuery.
AcceptInv == \A q \in Queries : step[q] \notin {"idle", "done"} => Accepted(req[q])

\* has_more is told of pages only.
MoreInv == \A q \in Queries : hasMore[q] => Paginated(req[q])

TypeInv == QueryTypeOK /\ AcceptInv /\ MoreInv

\* A connection belongs to the one attempt that runs on it.
HolderInv ==
    /\ \A q \in Queries : step[q] \in {"use", "query", "scan"} => \E k \in Conns : holder[k] = q
    /\ \A k \in Conns : holder[k] # None => step[holder[k]] \in {"use", "query", "scan"}
    /\ \A k, l \in Conns : holder[k] = holder[l] /\ holder[k] # None => k = l

\* Once past USE, the connection of an attempt is in the database asked for.
SelectInv ==
    \A q \in Queries : \A k \in Conns :
        holder[k] = q /\ step[q] = "query" /\ req[q].db # None => connDB[k] = req[q].db

\* A call that waits for a retry has one left.
BudgetInv ==
    /\ RetryBudget
    /\ \A q \in Queries : step[q] = "backoff" => attempts[q] <= MaxRetries

-----------------------------------------------------------------------------
(* Limits.                                                                 *)

\* The limit of a query and the rows MySQL sends for it.
LEMMA LimitFacts ==
    ASSUME QueryTypeOK, NEW q \in Queries
    PROVE  /\ Limit(req[q]) \in Nat
           /\ Last(req[q]) \in Int /\ Last(req[q]) <= size /\ size \in Nat
           /\ Paginated(req[q]) => req[q].offset \in Int
<1>1. /\ req[q].maxRows \in MaxRowArgs \cup {None} /\ req[q].offset \in Int \cup {None}
      /\ maxRows \in Int /\ size \in Nat /\ MaxRowArgs \subseteq Int /\ OwnLimit \in Nat
  BY QueryAssumption DEF QueryTypeOK
<1>2. Limit(req[q]) \in Nat
  <2> DEFINE limit == IF req[q].maxRows # None /\ req[q].maxRows > 0 /\ req[q].maxRows < maxRows
                      THEN req[q].maxRows ELSE maxRows
  <2>1. limit \in Int
    BY <1>1
  <2>2. Limit(req[q]) = IF limit < 0 THEN 0 ELSE limit
    BY DEF Limit
  <2> HIDE DEF limit
  <2> QED
    BY <2>1, <2>2
<1>3. Paginated(req[q]) => req[q].offset \in Int
  BY <1>1 DEF Paginated
<1> HIDE DEF Limit
<1> QED
  BY <1>1, <1>2, <1>3 DEF Last

\* MySQL sends rows of the result only.
LEMMA AvailableFacts ==
    ASSUME QueryTypeOK, NEW q \in Queries, Accepted(req[q])
    PROVE  /\ First(req[q]) \in Nat
           /\ Available(req[q]) \in Nat
           /\ Available(req[q]) > 0 => First(req[q]) + Available(req[q]) <= size
           /\ Available(req[q]) <= size
<1>1. First(req[q]) \in Nat
  BY LimitFacts DEF First, Accepted, Pageable
<1> HIDE DEF First, Last
<1> QED
  BY <1>1, LimitFacts DEF Available

-----------------------------------------------------------------------------
(* Types.                                                                  *)

\* Begin, for all three actions of the caller.
LEMMA BeginType ==
    ASSUME TypeInv, NEW q \in Queries, NEW r, Begin(q, r),
           r \in [kind : Kinds \cup {"show"}, maxRows : MaxRowArgs \cup {None},
                  offset : Int \cup {None}, db : DBs \cup {None}, refs : SUBSET DBs],
           chain' \in [Queries -> BOOLEAN], collected' \in [Queries -> Seq(1..size)]
    PROVE  TypeInv'
<1>1. UNCHANGED <<maxRows, allowed, size, holder, connDB>>
  BY DEF Begin, config, poolVars
<1>2. QueryTypeOK'
  <2>1. 0 \in 0..size /\ <<>> \in Seq(1..size) /\ 0 \in Nat /\ 1 \in Nat
    BY DEF TypeInv, QueryTypeOK
  <2>2. /\ req' \in [Queries -> [kind : Kinds \cup {"show"}, maxRows : MaxRowArgs \cup {None},
                         offset : Int \cup {None}, db : DBs \cup {None}, refs : SUBSET DBs]]
        /\ step' \in [Queries -> {"idle", "conn", "use", "query", "scan", "backoff", "done"}]
        /\ outcome' \in [Queries -> {"none", "ok", "failed", "refused"}]
        /\ attempts' \in [Queries -> Nat]
    BY <2>1 DEF TypeInv, QueryTypeOK, Begin
  <2>3. sent' \in [Queries -> 0..size] /\ rows' \in [Queries -> Seq(1..size)]
    BY <2>1 DEF TypeInv, QueryTypeOK, Begin
  <2>4. /\ hasMore' \in [Queries -> BOOLEAN] /\ truncated' \in [Queries -> BOOLEAN]
        /\ expired' \in [Queries -> BOOLEAN] /\ touched' \in [Queries -> SUBSET DBs]
    BY DEF TypeInv, QueryTypeOK, Begin
  <2> QED
    BY <1>1, <2>2, <2>3, <2>4 DEF TypeInv, QueryTypeOK
<1>3. AcceptInv'
  BY <1>1 DEF TypeInv, QueryTypeOK, AcceptInv, Begin, Accepted, AccessAllowed, Paginated,
              Pageable, Limit
<1>4. MoreInv'
  BY DEF TypeInv, QueryTypeOK, MoreInv, Begin, Paginated
<1> QED
  BY <1>2, <1>3, <1>4 DEF TypeInv

\* Whatever keeps the configuration and the requests keeps AcceptInv, as long
\* as no call comes to work.
LEMMA AcceptKept ==
    ASSUME AcceptInv, UNCHANGED <<config, req>>,
           \A q \in Queries : step'[q] \notin {"idle", "done"} => step[q] \notin {"idle", "done"}
    PROVE  AcceptInv'
  BY DEF AcceptInv, config, Accepted, AccessAllowed, Paginated, Pageable, Limit

\* An attempt that runs has its connection, and no other call has it.
LEMMA ConnOfFacts ==
    ASSUME HolderInv, NEW q \in Queries, step[q] \in {"use", "query", "scan"}
    PROVE  ConnOf(q) \in Conns /\ holder[ConnOf(q)] = q
<1>1. PICK k \in Conns : holder[k] = q
  BY DEF HolderInv
<1> QED
  BY <1>1 DEF ConnOf

\* The steps of an attempt that succeeds.
LEMMA AttemptType ==
    ASSUME TypeInv, HolderInv, NEW q \in Queries,
           \/ \E k \in Conns : GetConn(q, k)
           \/ UseDatabase(q) \/ Execute(q)
           \/ ScanRow(q) \/ RowBeyondLimit(q) \/ RowsEnd(q)
    PROVE  TypeInv'
<1> USE DEF TypeInv, QueryTypeOK, config, poolVars, out, history
<1>1. ASSUME NEW k \in Conns, GetConn(q, k) PROVE TypeInv'
  <2>1. AcceptInv'
    BY <1>1, AcceptKept DEF GetConn
  <2>2. MoreInv'
    BY <1>1 DEF GetConn, MoreInv, Paginated
  <2> QED
    BY <1>1, <2>1, <2>2 DEF GetConn
<1>2. ASSUME UseDatabase(q) PROVE TypeInv'
  <2>1. AcceptInv'
    BY <1>2, AcceptKept DEF UseDatabase
  <2>2. MoreInv'
    BY <1>2 DEF UseDatabase, MoreInv, Paginated
  <2>3. req[q].db \in DBs \cup {None}
    OBVIOUS
  <2>4. connDB' \in [Conns -> DBs]
    BY <1>2, <2>3 DEF UseDatabase, SelectedDB
  <2> QED
    BY <1>2, <2>1, <2>2, <2>4 DEF UseDatabase
<1>3. ASSUME Execute(q) PROVE TypeInv'
  <2>1. AcceptInv'
    BY <1>3, AcceptKept DEF Execute
  <2>2. MoreInv'
    BY <1>3 DEF Execute, MoreInv, Paginated
  <2>3. req[q].refs \subseteq DBs /\ touched[q] \subseteq DBs
    OBVIOUS
  <2>4. connDB[ConnOf(q)] \in DBs
    BY <1>3, ConnOfFacts DEF Execute
  <2>5. touched' \in [Queries -> SUBSET DBs]
    BY <1>3, <2>3, <2>4 DEF Execute
  <2>6. 0 \in 0..size /\ <<>> \in Seq(1..size)
    OBVIOUS
  <2>7. sent' \in [Queries -> 0..size] /\ rows' \in [Queries -> Seq(1..size)]
    BY <1>3, <2>6 DEF Execute, RowsAtStart
  <2> QED
    BY <1>3, <2>1, <2>2, <2>5, <2>7 DEF Execute
<1>4. ASSUME ScanRow(q) PROVE TypeInv'
  <2>1. AcceptInv'
    BY <1>4, AcceptKept DEF ScanRow
  <2>2. MoreInv'
    BY <1>4 DEF ScanRow, MoreInv, Paginated
  <2>3. Accepted(req[q])
    BY <1>4 DEF ScanRow, AcceptInv
  <2>4. sent[q] + 1 \in 0..size /\ First(req[q]) + sent[q] + 1 \in 1..size
    <3>1. /\ First(req[q]) \in Nat /\ Available(req[q]) \in Nat
          /\ Available(req[q]) > 0 => First(req[q]) + Available(req[q]) <= size
          /\ Available(req[q]) <= size
      BY <2>3, AvailableFacts
    <3>2. sent[q] \in Nat /\ size \in Nat /\ sent[q] < Available(req[q])
      BY <1>4, QueryAssumption DEF ScanRow
    <3> QED
      BY <3>1, <3>2
  <2>5. Append(rows[q], First(req[q]) + sent[q] + 1) \in Seq(1..size)
    BY <2>4
  <2>6. sent' \in [Queries -> 0..size] /\ rows' \in [Queries -> Seq(1..size)]
    BY <1>4, <2>4, <2>5 DEF ScanRow
  <2> QED
    BY <1>4, <2>1, <2>2, <2>6 DEF ScanRow
<1>5. ASSUME NEW more \in BOOLEAN, NEW cut \in BOOLEAN, Finish(q, more, cut),
             more => Paginated(req[q])
      PROVE  TypeInv'
  <2>1. AcceptInv'
    BY <1>5, AcceptKept DEF Finish
  <2>2. MoreInv'
    BY <1>5 DEF Finish, MoreInv, Paginated
  <2>3. holder' \in [Conns -> Queries \cup {None}]
    BY <1>5 DEF Finish, Released
  <2>4. <<>> \in Seq(1..size) /\ collected[q] \o rows[q] \in Seq(1..size)
    OBVIOUS
  <2>5. collected' \in [Queries -> Seq(1..size)]
    BY <1>5, <2>4 DEF Finish
  <2> QED
    BY <1>5, <2>1, <2>2, <2>3, <2>5 DEF Finish
<1>6. ASSUME RowBeyondLimit(q) \/ RowsEnd(q) PROVE TypeInv'
  BY <1>5, <1>6 DEF RowBeyondLimit, RowsEnd, Paginated
<1> QED
  BY <1>1, <1>2, <1>3, <1>4, <1>6

\* Failures, retries and the deadline.
LEMMA RetryType ==
    ASSUME TypeInv, NEW q \in Queries,
           \/ \E e \in Errors : AttemptFails(q, e)
           \/ Retry(q) \/ BackoffCancelled(q) \/ Expire(q)
    PROVE  TypeInv'
<1> USE DEF TypeInv, QueryTypeOK, config, poolVars, out, history
<1>1. ASSUME NEW e \in Errors, AttemptFails(q, e) PROVE TypeInv'
  <2>1. AcceptInv'
    BY <1>1, AcceptKept DEF AttemptFails
  <2>2. MoreInv'
    BY <1>1 DEF AttemptFails, MoreInv, Paginated
  <2>3. holder' \in [Conns -> Queries \cup {None}]
    BY <1>1 DEF AttemptFails, ReleasedOnError, Released
  <2>4. connDB' \in [Conns -> DBs]
    BY <1>1, QueryAssumption DEF AttemptFails
  <2> QED
    BY <1>1, <2>1, <2>2, <2>3, <2>4 DEF AttemptFails
<1>2. ASSUME Retry(q) PROVE TypeInv'
  <2>1. AcceptInv'
    BY <1>2, AcceptKept DEF Retry
  <2>2. MoreInv'
    BY <1>2 DEF Retry, MoreInv, Paginated
  <2> QED
    BY <1>2, <2>1, <2>2 DEF Retry
<1>3. ASSUME BackoffCancelled(q) PROVE TypeInv'
  <2>1. AcceptInv'
    BY <1>3, AcceptKept DEF BackoffCancelled
  <2>2. MoreInv'
    BY <1>3 DEF BackoffCancelled, MoreInv, Paginated
  <2> QED
    BY <1>3, <2>1, <2>2 DEF BackoffCancelled
<1>4. ASSUME Expire(q) PROVE TypeInv'
  <2>1. AcceptInv'
    BY <1>4, AcceptKept DEF Expire
  <2>2. MoreInv'
    BY <1>4 DEF Expire, MoreInv, Paginated
  <2> QED
    BY <1>4, <2>1, <2>2 DEF Expire
<1> QED
  BY <1>1, <1>2, <1>3, <1>4

-----------------------------------------------------------------------------
(* Connections, databases and retries.                                     *)

PoolInv == HolderInv /\ SelectInv /\ BudgetInv /\ DatabaseRespected /\ AllowedDatabasesOnly

\* None is not a call.
LEMMA NoneFacts == \A q \in Queries : q # None
  BY QueryAssumption

\* A call that is not running a statement holds no connection.
LEMMA HoldsNone ==
    ASSUME HolderInv, NEW q \in Queries, step[q] \notin {"use", "query", "scan"}
    PROVE  \A k \in Conns : holder[k] # q
  BY NoneFacts DEF HolderInv

\* A call that begins holds no connection yet and has touched no database.
LEMMA BeginPool ==
    ASSUME TypeInv, PoolInv, NEW q \in Queries, NEW r, Begin(q, r), step[q] \in {"idle", "done"}
    PROVE  PoolInv'
<1> USE DEF TypeInv, QueryTypeOK, PoolInv
<1>1. /\ UNCHANGED <<allowed, holder, connDB>>
      /\ step' = [step EXCEPT ![q] = IF Accepted(r) THEN "conn" ELSE "done"]
      /\ req' = [req EXCEPT ![q] = r]
      /\ touched' = [touched EXCEPT ![q] = {}]
      /\ attempts' = [attempts EXCEPT ![q] = IF Accepted(r) THEN 1 ELSE 0]
  BY DEF Begin, config, poolVars
<1>2. \A k \in Conns : holder[k] # q
  BY HoldsNone
<1>3. HolderInv'
  BY <1>1, <1>2 DEF HolderInv
<1>4. SelectInv'
  BY <1>1, <1>2 DEF SelectInv
<1>5. BudgetInv'
  BY <1>1, QueryAssumption DEF BudgetInv, RetryBudget
<1>6. DatabaseRespected'
  BY <1>1 DEF DatabaseRespected
<1>7. AllowedDatabasesOnly'
  BY <1>1 DEF AllowedDatabasesOnly
<1> QED
  BY <1>3, <1>4, <1>5, <1>6, <1>7

\* The steps of an attempt that succeeds.  Only USE and the statement itself
\* say something about databases.
LEMMA AttemptPool ==
    ASSUME TypeInv, PoolInv, NEW q \in Queries,
           \/ \E k \in Conns : GetConn(q, k)
           \/ UseDatabase(q) \/ Execute(q)
           \/ ScanRow(q) \/ RowBeyondLimit(q) \/ RowsEnd(q)
    PROVE  PoolInv'
<1> USE DEF TypeInv, QueryTypeOK, PoolInv, config, poolVars, out, history
<1>1. ASSUME NEW k \in Conns, GetConn(q, k) PROVE PoolInv'
  <2>1. HolderInv'
    <3>1. \A l \in Conns : holder[l] # q
      BY <1>1, HoldsNone DEF GetConn
    <3>2. /\ step' = [step EXCEPT ![q] = "use"] /\ holder' = [holder EXCEPT ![k] = q]
          /\ holder[k] = None
      BY <1>1 DEF GetConn
    <3>3. \A p \in Queries : step'[p] \in {"use", "query", "scan"} => \E l \in Conns : holder'[l] = p
      BY <3>2, NoneFacts DEF HolderInv
    <3>4. \A l \in Conns : holder'[l] # None => step'[holder'[l]] \in {"use", "query", "scan"}
      BY <3>2 DEF HolderInv
    <3>5. \A l, m \in Conns : holder'[l] = holder'[m] /\ holder'[l] # None => l = m
      BY <3>1, <3>2 DEF HolderInv
    <3> QED
      BY <3>3, <3>4, <3>5 DEF HolderInv
  <2>2. SelectInv'
    BY <1>1 DEF GetConn, SelectInv
  <2>3. BudgetInv' /\ DatabaseRespected' /\ AllowedDatabasesOnly'
    BY <1>1 DEF GetConn, BudgetInv, RetryBudget, DatabaseRespected, AllowedDatabasesOnly
  <2> QED
    BY <2>1, <2>2, <2>3
<1>2. ASSUME UseDatabase(q) PROVE PoolInv'
  <2>1. HolderInv'
    BY <1>2 DEF UseDatabase, HolderInv
  <2>2. ConnOf(q) \in Conns /\ holder[ConnOf(q)] = q
    BY <1>2, ConnOfFacts DEF UseDatabase
  <2>3. \A k \in Conns : holder[k] = q => k = ConnOf(q)
    BY <2>2, QueryAssumption DEF HolderInv
  <2>4. SelectInv'
    <3> SUFFICES ASSUME NEW p \in Queries, NEW k \in Conns, holder'[k] = p,
                        step'[p] = "query", req'[p].db # None
                 PROVE  connDB'[k] = req'[p].db
      BY DEF SelectInv
    <3>1. CASE p = q
      BY <1>2, <2>2, <2>3, <3>1 DEF UseDatabase, SelectedDB, UseTarget
    <3>2. CASE p # q
      <4>1. connDB'[k] = connDB[k]
        BY <1>2, <2>2, <3>2 DEF UseDatabase, SelectedDB, UseTarget
      <4> QED
        BY <1>2, <3>2, <4>1 DEF UseDatabase, SelectInv
    <3> QED
      BY <3>1, <3>2
  <2>5. BudgetInv' /\ DatabaseRespected' /\ AllowedDatabasesOnly'
    BY <1>2 DEF UseDatabase, BudgetInv, RetryBudget, DatabaseRespected, AllowedDatabasesOnly
  <2> QED
    BY <2>1, <2>4, <2>5
<1>3. ASSUME Execute(q) PROVE PoolInv'
  <2>1. HolderInv'
    BY <1>3 DEF Execute, HolderInv
  <2>2. SelectInv'
    BY <1>3 DEF Execute, SelectInv
  <2>3. BudgetInv'
    BY <1>3 DEF Execute, BudgetInv, RetryBudget
  <2>4. ConnOf(q) \in Conns /\ holder[ConnOf(q)] = q
    BY <1>3, ConnOfFacts DEF Execute
  <2>5. req[q].db # None => connDB[ConnOf(q)] = req[q].db
    BY <1>3, <2>4 DEF Execute, SelectInv
  <2>6. /\ touched' = [touched EXCEPT ![q] = touched[q] \cup {connDB[ConnOf(q)]} \cup req[q].refs]
        /\ UNCHANGED <<req, allowed>>
    BY <1>3 DEF Execute
  <2>7. DatabaseRespected'
    BY <2>5, <2>6 DEF DatabaseRespected
  <2>8. AllowedDatabasesOnly'
    <3>1. AccessAllowed(req[q])
      BY <1>3 DEF Execute, AcceptInv, Accepted
    <3>2. allowed # {} => req[q].db # None /\ req[q].db \in allowed /\ req[q].refs \subseteq allowed
      BY <3>1, QueryAssumption DEF AccessAllowed
    <3> QED
      BY <2>5, <2>6, <3>2 DEF AllowedDatabasesOnly
  <2> QED
    BY <2>1, <2>2, <2>3, <2>7, <2>8
<1>4. ASSUME ScanRow(q) PROVE PoolInv'
  BY <1>4 DEF ScanRow, HolderInv, SelectInv, BudgetInv, RetryBudget, DatabaseRespected,
              AllowedDatabasesOnly
<1>5. ASSUME NEW more \in BOOLEAN, NEW cut \in BOOLEAN, Finish(q, more, cut)
      PROVE  PoolInv'
  <2>1. HolderInv'
    BY <1>5, QueryAssumption DEF Finish, Released, HolderInv
  <2>2. SelectInv'
    BY <1>5, QueryAssumption DEF Finish, Released, SelectInv
  <2>3. BudgetInv' /\ DatabaseRespected' /\ AllowedDatabasesOnly'
    BY <1>5 DEF Finish, BudgetInv, RetryBudget, DatabaseRespected, AllowedDatabasesOnly
  <2> QED
    BY <2>1, <2>2, <2>3
<1>6. ASSUME RowBeyondLimit(q) \/ RowsEnd(q) PROVE PoolInv'
  BY <1>5, <1>6 DEF RowBeyondLimit, RowsEnd, Paginated
<1> QED
  BY <1>1, <1>2, <1>3, <1>4, <1>6

\* Failures, retries and the deadline.
LEMMA RetryPool ==
    ASSUME TypeInv, PoolInv, NEW q \in Queries,
           \/ \E e \in Errors : AttemptFails(q, e)
           \/ Retry(q) \/ BackoffCancelled(q) \/ Expire(q)
    PROVE  PoolInv'
<1> USE DEF TypeInv, QueryTypeOK, PoolInv, config, poolVars, out, history
<1>1. ASSUME NEW e \in Errors, AttemptFails(q, e) PROVE PoolInv'
  <2>1. HolderInv'
    BY <1>1, QueryAssumption DEF AttemptFails, ReleasedOnError, Released, HolderInv
  <2>2. SelectInv'
    BY <1>1, QueryAssumption DEF AttemptFails, ReleasedOnError, Released, SelectInv
  <2>3. BudgetInv'
    BY <1>1 DEF AttemptFails, BudgetLeft, BudgetInv, RetryBudget
  <2>4. DatabaseRespected' /\ AllowedDatabasesOnly'
    BY <1>1 DEF AttemptFails, DatabaseRespected, AllowedDatabasesOnly
  <2> QED
    BY <2>1, <2>2, <2>3, <2>4
<1>2. ASSUME Retry(q) PROVE PoolInv'
  <2>1. BudgetInv'
    BY <1>2, QueryAssumption DEF Retry, BudgetInv, RetryBudget
  <2>2. \A k \in Conns : holder[k] # q
    BY <1>2, HoldsNone DEF Retry
  <2>3. HolderInv' /\ SelectInv'
    BY <1>2, <2>2 DEF Retry, HolderInv, SelectInv
  <2> QED
    BY <1>2, <2>1, <2>3 DEF Retry, DatabaseRespected, AllowedDatabasesOnly
<1>3. ASSUME BackoffCancelled(q) PROVE PoolInv'
  <2>1. \A k \in Conns : holder[k] # q
    BY <1>3, HoldsNone DEF BackoffCancelled
  <2>2. HolderInv' /\ SelectInv'
    BY <1>3, <2>1 DEF BackoffCancelled, HolderInv, SelectInv
  <2> QED
    BY <1>3, <2>2 DEF BackoffCancelled, BudgetInv, RetryBudget, DatabaseRespected,
                      AllowedDatabasesOnly
<1>4. ASSUME Expire(q) PROVE PoolInv'
  BY <1>4 DEF Expire, HolderInv, SelectInv, BudgetInv, RetryBudget, DatabaseRespected,
              AllowedDatabasesOnly
<1> QED
  BY <1>1, <1>2, <1>3, <1>4

\* The pool replaces only connections nobody holds.
LEMMA RecycleInv ==
    ASSUME TypeInv, PoolInv, NEW k \in Conns, Recycle(k)
    PROVE  TypeInv' /\ PoolInv'
<1> USE DEF TypeInv, QueryTypeOK, PoolInv, config, out, history
<1>1. AcceptInv'
  BY AcceptKept DEF Recycle
<1>2. MoreInv'
  BY DEF Recycle, MoreInv, Paginated
<1>3. QueryTypeOK'
  BY QueryAssumption DEF Recycle
<1>4. SelectInv'
  BY NoneFacts DEF Recycle, SelectInv
<1> QED
  BY <1>1, <1>2, <1>3, <1>4 DEF Recycle, HolderInv, BudgetInv, RetryBudget, DatabaseRespected,
                                AllowedDatabasesOnly

-----------------------------------------------------------------------------
(* The theorems.                                                           *)

\* The invariants hold at the start.
LEMMA InitInv == QueryInit => TypeInv /\ PoolInv
<1> SUFFICES ASSUME QueryInit PROVE TypeInv /\ PoolInv
  OBVIOUS
<1> USE DEF QueryInit
<1>1. QueryTypeOK
  <2>1. 0 \in 0..size /\ <<>> \in Seq(1..size) /\ 0 \in Nat
    BY QueryAssumption
  <2>2. /\ sent \in [Queries -> 0..size] /\ rows \in [Queries -> Seq(1..size)]
        /\ attempts \in [Queries -> Nat] /\ collected \in [Queries -> Seq(1..size)]
    BY <2>1
  <2>3. NoRequest \in [kind : Kinds \cup {"show"}, maxRows : MaxRowArgs \cup {None},
                        offset : Int \cup {None}, db : DBs \cup {None}, refs : SUBSET DBs]
    BY DEF NoRequest
  <2> QED
    BY <2>2, <2>3, QueryAssumption DEF QueryTypeOK
<1>2. AcceptInv /\ MoreInv
  BY DEF AcceptInv, MoreInv
<1>3. HolderInv /\ SelectInv
  BY NoneFacts DEF HolderInv, SelectInv
<1>4. BudgetInv /\ DatabaseRespected /\ AllowedDatabasesOnly
  BY QueryAssumption DEF BudgetInv, RetryBudget, DatabaseRespected, AllowedDatabasesOnly
<1> QED
  BY <1>1, <1>2, <1>3, <1>4 DEF TypeInv, PoolInv

\* The actions of the caller.
LEMMA CallerInv ==
    ASSUME TypeInv, PoolInv, NEW q \in Queries, Caller(q)
    PROVE  TypeInv' /\ PoolInv'
<1> USE DEF TypeInv, QueryTypeOK
<1> DEFINE Any == [kind : Kinds \cup {"show"}, maxRows : MaxRowArgs \cup {None},
                   offset : Int \cup {None}, db : DBs \cup {None}, refs : SUBSET DBs]
<1>1. ASSUME NEW r \in Requests, Submit(q, r) PROVE TypeInv' /\ PoolInv'
  <2>1. r \in Any
    BY QueryAssumption DEF Requests
  <2>2. chain' \in [Queries -> BOOLEAN]
    BY <1>1 DEF Submit
  <2>3. collected' \in [Queries -> Seq(1..size)]
    BY <1>1 DEF Submit
  <2>4. Begin(q, r) /\ step[q] \in {"idle", "done"}
    BY <1>1 DEF Submit
  <2> QED
    BY <2>1, <2>2, <2>3, <2>4, BeginType, BeginPool
<1>2. ASSUME NextPage(q) PROVE TypeInv' /\ PoolInv'
  <2>1. Begin(q, [req[q] EXCEPT !.offset = NextOffset(q)]) /\ step[q] \in {"idle", "done"}
    BY <1>2 DEF NextPage
  <2>2. NextOffset(q) \in Int
    <3>1. Paginated(req[q])
      BY <1>2 DEF NextPage, MoreInv
    <3>2. req[q].offset \in Int /\ Limit(req[q]) \in Nat
      BY <3>1, LimitFacts
    <3> QED
      BY <3>2 DEF NextOffset
  <2>3. [req[q] EXCEPT !.offset = NextOffset(q)] \in Any
    <3>1. req[q] \in Any
      OBVIOUS
    <3>2. ASSUME NEW r \in Any, NEW n \in Int \cup {None} PROVE [r EXCEPT !.offset = n] \in Any
      OBVIOUS
    <3> QED
      BY <2>2, <3>1, <3>2
  <2>4. UNCHANGED <<chain, collected>>
    BY <1>2 DEF NextPage
  <2>5. chain' \in [Queries -> BOOLEAN] /\ collected' \in [Queries -> Seq(1..size)]
    BY <2>4
  <2> QED
    BY <2>1, <2>3, <2>5, BeginType, BeginPool
<1>3. ASSUME SamePage(q) PROVE TypeInv' /\ PoolInv'
  <2>1. Begin(q, req[q]) /\ step[q] \in {"idle", "done"}
    BY <1>3 DEF SamePage
  <2>2. req[q] \in Any
    OBVIOUS
  <2>3. UNCHANGED <<chain, collected>>
    BY <1>3 DEF SamePage
  <2>4. chain' \in [Queries -> BOOLEAN] /\ collected' \in [Queries -> Seq(1..size)]
    BY <2>3
  <2> QED
    BY <2>1, <2>2, <2>4, BeginType, BeginPool
<1> QED
  BY <1>1, <1>2, <1>3 DEF Caller

\* Every step preserves the invariants.
LEMMA StepInv == TypeInv /\ PoolInv /\ [QueryNext]_queryVars => TypeInv' /\ PoolInv'
<1> SUFFICES ASSUME TypeInv, PoolInv, [QueryNext]_queryVars PROVE TypeInv' /\ PoolInv'
  OBVIOUS
<1>0. HolderInv
  BY DEF PoolInv
<1>1. ASSUME NEW q \in Queries, Caller(q) PROVE TypeInv' /\ PoolInv'
  BY <1>1, CallerInv
<1>2. ASSUME NEW q \in Queries, QueryStep(q) \/ Expire(q) PROVE TypeInv' /\ PoolInv'
  <2>1. \/ \/ \E k \in Conns : GetConn(q, k)
           \/ UseDatabase(q) \/ Execute(q)
           \/ ScanRow(q) \/ RowBeyondLimit(q) \/ RowsEnd(q)
        \/ \/ \E e \in Errors : AttemptFails(q, e)
           \/ Retry(q) \/ BackoffCancelled(q) \/ Expire(q)
    BY <1>2 DEF QueryStep
  <2> QED
    BY <1>0, <2>1, AttemptType, AttemptPool, RetryType, RetryPool
<1>3. ASSUME NEW k \in Conns, Recycle(k) PROVE TypeInv' /\ PoolInv'
  BY <1>3, RecycleInv
<1>4. CASE UNCHANGED queryVars
  BY <1>4 DEF queryVars, config, poolVars, out, history, TypeInv, PoolInv, QueryTypeOK, AcceptInv,
       MoreInv, HolderInv, SelectInv, BudgetInv, RetryBudget, DatabaseRespected,
       AllowedDatabasesOnly, Accepted, AccessAllowed, Paginated, Pageable, Limit
<1> QED
  BY <1>1, <1>2, <1>3, <1>4 DEF QueryNext

\* TypeInv and PoolInv are invariants of every behaviour.
LEMMA QueryInvariant == QuerySpec => [](TypeInv /\ PoolInv)
  BY InitInv, StepInv, PTL DEF QuerySpec

\* Types: rows are rows of the result, no USE without a database, and databases
\* selected exist.
THEOREM QueryTypeCorrect == QuerySpec => []QueryTypeOK
<1>1. TypeInv => QueryTypeOK
  BY DEF TypeInv
<1> QED
  BY <1>1, QueryInvariant, PTL

\* The allowlist: no statement runs in or names a database outside it.
THEOREM AccessCorrect == QuerySpec => []AllowedDatabasesOnly
<1>1. PoolInv => AllowedDatabasesOnly
  BY DEF PoolInv
<1> QED
  BY <1>1, QueryInvariant, PTL

\* A statement given a database runs in that one.
THEOREM DatabaseCorrect == QuerySpec => []DatabaseRespected
<1>1. PoolInv => DatabaseRespected
  BY DEF PoolInv
<1> QED
  BY <1>1, QueryInvariant, PTL

\* The number of attempts: MYSQL_MCP_DB_RETRY_MAX retries and no more.
THEOREM RetryBudgetCorrect == QuerySpec => []RetryBudget
<1>1. PoolInv => RetryBudget
  BY DEF PoolInv, BudgetInv
<1> QED
  BY <1>1, QueryInvariant, PTL

\* A running attempt holds one connection, every other call none.
THEOREM ConnsCorrect == QuerySpec => []ConnsHeldByAttempts
<1>1. TypeInv /\ PoolInv => ConnsHeldByAttempts
  <2> SUFFICES ASSUME TypeInv, HolderInv, NEW q \in Queries
               PROVE  Cardinality({k \in Conns : holder[k] = q})
                          = IF step[q] \in {"use", "query", "scan"} THEN 1 ELSE 0
    BY DEF PoolInv, ConnsHeldByAttempts
  <2>1. CASE step[q] \in {"use", "query", "scan"}
    <3>1. PICK k \in Conns : holder[k] = q
      BY <2>1, ConnOfFacts
    <3>2. {l \in Conns : holder[l] = q} = {k}
      BY <3>1, NoneFacts DEF HolderInv
    <3> QED
      BY <2>1, <3>2, FS_Singleton
  <2>2. CASE step[q] \notin {"use", "query", "scan"}
    <3>1. {l \in Conns : holder[l] = q} = {}
      BY <2>2, HoldsNone
    <3> QED
      BY <2>2, <3>1, FS_EmptySet
  <2> QED
    BY <2>1, <2>2
<1> QED
  BY <1>1, QueryInvariant, PTL

=============================================================================
