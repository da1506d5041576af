------------------------- MODULE RunQueryPagesProofs -------------------------
(***************************************************************************)
(* What run_query returns, for every row cap, limit, offset, result size   *)
(* and pattern of failures and retries: the right rows, and all of them    *)
(* for a caller that pages through.                                        *)
(***************************************************************************)
EXTENDS RunQueryProofs, SequenceTheorems

-----------------------------------------------------------------------------
(* Sequences of consecutive rows.                                          *)

\* RowsFrom is a sequence of known length.
LEMMA RowsFromFacts ==
    ASSUME NEW a \in Nat, NEW n \in Nat
    PROVE  /\ RowsFrom(a, a + n) \in Seq(Nat)
           /\ Len(RowsFrom(a, a + n)) = n
           /\ RowsFrom(a, a + n) = [i \in 1..n |-> a + i]
<1>1. (IF a + n > a THEN (a + n) - a ELSE 0) = n
  OBVIOUS
<1>2. RowsFrom(a, a + n) = [i \in 1..n |-> a + i]
  BY <1>1 DEF RowsFrom
<1>3. [i \in 1..n |-> a + i] \in Seq(Nat)
  OBVIOUS
<1> QED
  BY <1>2, <1>3

\* The next row.
LEMMA RowsFromAppend ==
    ASSUME NEW a \in Nat, NEW n \in Nat
    PROVE  Append(RowsFrom(a, a + n), a + n + 1) = RowsFrom(a, a + (n + 1))
<1> DEFINE s == RowsFrom(a, a + n)
           t == RowsFrom(a, a + (n + 1))
<1>1. s \in Seq(Nat) /\ Len(s) = n /\ s = [i \in 1..n |-> a + i]
  BY RowsFromFacts
<1>2. t \in Seq(Nat) /\ Len(t) = n + 1 /\ t = [i \in 1..(n + 1) |-> a + i]
  BY RowsFromFacts
<1> HIDE DEF s, t
<1>3. Append(s, a + n + 1) \in Seq(Nat) /\ Len(Append(s, a + n + 1)) = n + 1
  BY <1>1
<1>4. \A i \in 1..(n + 1) : Append(s, a + n + 1)[i] = t[i]
  BY <1>1, <1>2
<1> QED
  BY <1>2, <1>3, <1>4 DEF s, t

\* The next page.
LEMMA RowsFromConcat ==
    ASSUME NEW a \in Nat, NEW n \in Nat
    PROVE  RowsFrom(0, a) \o RowsFrom(a, a + n) = RowsFrom(0, a + n)
<1> DEFINE s == RowsFrom(0, a)
           t == RowsFrom(a, a + n)
           u == RowsFrom(0, a + n)
<1>1. s \in Seq(Nat) /\ Len(s) = a /\ s = [i \in 1..a |-> 0 + i]
  <2>1. 0 + a = a
    OBVIOUS
  <2> QED
    BY <2>1, RowsFromFacts
<1>2. t \in Seq(Nat) /\ Len(t) = n /\ t = [i \in 1..n |-> a + i]
  BY RowsFromFacts
<1>3. u \in Seq(Nat) /\ Len(u) = a + n /\ u = [i \in 1..(a + n) |-> 0 + i]
  <2>1. 0 + (a + n) = a + n /\ a + n \in Nat
    OBVIOUS
  <2> QED
    BY <2>1, RowsFromFacts
<1> HIDE DEF s, t, u
<1>4. /\ s \o t \in Seq(Nat) /\ Len(s \o t) = a + n
      /\ \A i \in 1..(a + n) : (s \o t)[i] = IF i <= a THEN s[i] ELSE t[i - a]
  BY <1>1, <1>2, ConcatProperties
<1>5. \A i \in 1..(a + n) : (s \o t)[i] = u[i]
  <2> SUFFICES ASSUME NEW i \in 1..(a + n) PROVE (s \o t)[i] = u[i]
    OBVIOUS
  <2>1. u[i] = i
    BY <1>3
  <2>2. CASE i <= a
    <3>1. (s \o t)[i] = s[i] /\ i \in 1..a
      BY <1>4, <2>2
    <3>2. s[i] = i
      BY <1>1, <3>1
    <3> QED
      BY <2>1, <3>1, <3>2
  <2>3. CASE ~(i <= a)
    <3>1. (s \o t)[i] = t[i - a] /\ i - a \in 1..n
      BY <1>4, <2>3
    <3>2. t[i - a] = i
      BY <1>2, <3>1
    <3> QED
      BY <2>1, <3>1, <3>2
  <2> QED
    BY <2>2, <2>3
<1>6. s \o t = u
  BY <1>3, <1>4, <1>5, SeqEqual
<1> QED
  BY <1>6 DEF s, t, u

-----------------------------------------------------------------------------
(* One result.                                                             *)

\* The number of rows a result should have.
Due(r) ==
    LET end == IF r.kind = "limited" /\ OwnLimit < size THEN OwnLimit ELSE size
        upTo == IF First(r) + Limit(r) < end THEN First(r) + Limit(r) ELSE end
    IN  IF upTo > First(r) THEN upTo - First(r) ELSE 0

\* While it scans, an attempt has the rows from the offset on, no more than
\* the limit and no more than MySQL sends.
Scanning(q) ==
    step[q] = "scan" =>
        /\ rows[q] = RowsFrom(First(req[q]), First(req[q]) + sent[q])
        /\ sent[q] <= Available(req[q]) /\ sent[q] <= Limit(req[q])

\* A returned result has the rows due, and a page tells whether there is
\* another.
Complete(q) ==
    outcome[q] = "ok" =>
        /\ Accepted(req[q])
        /\ rows[q] = RowsFrom(First(req[q]), First(req[q]) + Due(req[q]))
        /\ Paginated(req[q]) => (hasMore[q] <=> req[q].offset + Limit(req[q]) < size)

\* The outcome of a call that has not returned is open.
Open(q) == step[q] \notin {"idle", "done"} => outcome[q] = "none"

\* A caller that pages has the rows before the page it asks for ...
PagesBefore(q) ==
    chain[q] /\ outcome[q] \in {"none", "failed"} =>
        /\ req[q].offset \in Nat /\ req[q].offset <= size
        /\ collected[q] = RowsFrom(0, req[q].offset)

\* ... and, once it has that page, the rows to its end.
PagesAfter(q) ==
    chain[q] /\ outcome[q] = "ok" =>
        /\ Paginated(req[q])
        /\ collected[q] = RowsFrom(0, IF req[q].offset + Limit(req[q]) < size
                                      THEN req[q].offset + Limit(req[q]) ELSE size)

CallInv(q) == Scanning(q) /\ Complete(q) /\ Open(q) /\ PagesBefore(q) /\ PagesAfter(q)

CallsInv == \A q \in Queries : CallInv(q)

\* A scan ends, by a row beyond the limit or without one, with the rows due.
LEMMA ScanEnds ==
    ASSUME TypeInv, NEW q \in Queries, Scanning(q), RowBeyondLimit(q) \/ RowsEnd(q)
    PROVE  /\ sent[q] = Due(req[q])
           /\ rows[q] = RowsFrom(First(req[q]), First(req[q]) + Due(req[q]))
           /\ Paginated(req[q]) =>
                (RowBeyondLimit(q) <=> req[q].offset + Limit(req[q]) < size)
<1> DEFINE r == req[q]
<1>1. step[q] = "scan" /\ Accepted(r) /\ QueryTypeOK
  BY DEF TypeInv, AcceptInv, RowBeyondLimit, RowsEnd
<1>2. /\ rows[q] = RowsFrom(First(r), First(r) + sent[q])
      /\ sent[q] <= Available(r) /\ sent[q] <= Limit(r)
  BY <1>1 DEF Scanning
<1>3. /\ Limit(r) \in Nat /\ First(r) \in Nat /\ Available(r) \in Nat /\ size \in Nat
      /\ sent[q] \in Nat /\ OwnLimit \in Nat
  <2>1. Limit(r) \in Nat /\ First(r) \in Nat /\ Available(r) \in Nat /\ size \in Nat
    BY <1>1, LimitFacts, AvailableFacts
  <2>2. sent[q] \in 0..size
    BY <1>1 DEF QueryTypeOK
  <2> QED
    BY <2>1, <2>2, QueryAssumption
<1>4. Len(rows[q]) = sent[q]
  <2>1. \A a, n \in Nat : Len(RowsFrom(a, a + n)) = n
    BY RowsFromFacts
  <2> QED
    BY <1>2, <1>3, <2>1, Zenon
<1>5. \/ sent[q] < Available(r) /\ sent[q] = Limit(r) /\ RowBeyondLimit(q) /\ ~RowsEnd(q)
      \/ sent[q] = Available(r) /\ ~RowBeyondLimit(q)
  <2>1. RowBeyondLimit(q) => sent[q] < Available(r) /\ Len(rows[q]) >= Limit(r)
    BY DEF RowBeyondLimit
  <2>2. RowsEnd(q) => sent[q] = Available(r)
    BY DEF RowsEnd
  <2> HIDE DEF r
  <2> QED
    BY <1>2, <1>3, <1>4, <2>1, <2>2
<1>6. CASE Paginated(r)
  <2>1. r.kind = "select" /\ r.offset \in Nat /\ First(r) = r.offset /\ Limit(r) > 0
    BY <1>1, <1>3, <1>6, LimitFacts DEF Accepted, Pageable, First
  <2>2. Last(r) = IF r.offset + Limit(r) + 1 < size THEN r.offset + Limit(r) + 1 ELSE size
    BY <1>6 DEF Last
  <2>3. Due(r) = LET upTo == IF r.offset + Limit(r) < size THEN r.offset + Limit(r) ELSE size
                 IN  IF upTo > r.offset THEN upTo - r.offset ELSE 0
    BY <2>1 DEF Due
  <2>4. Available(r) = IF Last(r) > r.offset THEN Last(r) - r.offset ELSE 0
    BY <2>1 DEF Available
  <2> HIDE DEF Limit, Last, Available, Due, First
  <2>5. sent[q] = Due(r) /\ (RowBeyondLimit(q) <=> r.offset + Limit(r) < size)
    BY <1>2, <1>3, <1>5, <2>1, <2>2, <2>3, <2>4
  <2> QED
    BY <1>2, <2>5
<1>7. CASE ~Paginated(r)
  <2>1. First(r) = 0
    BY <1>7 DEF First
  <2>2. Available(r) = IF Last(r) > 0 THEN Last(r) - 0 ELSE 0
    BY <2>1 DEF Available
  <2>3. Due(r) = LET end == IF r.kind = "limited" /\ OwnLimit < size THEN OwnLimit ELSE size
                     upTo == IF 0 + Limit(r) < end THEN 0 + Limit(r) ELSE end
                 IN  IF upTo > 0 THEN upTo - 0 ELSE 0
    BY <2>1 DEF Due
  <2>4. Last(r) = LET cap == CASE r.kind = "select" /\ Limit(r) > 0 -> Limit(r)
                               [] r.kind = "limited" -> OwnLimit
                               [] OTHER -> size
                  IN  IF cap < size THEN cap ELSE size
    BY <1>7 DEF Last
  <2> HIDE DEF Limit, Last, Available, Due, First
  <2>5. sent[q] = Due(r)
    BY <1>2, <1>3, <1>5, <2>2, <2>3, <2>4
  <2> QED
    BY <1>2, <1>7, <2>5
<1> QED
  BY <1>6, <1>7

\* What is said of a call depends on its request and the configuration.
LEMMA Frame ==
    ASSUME UNCHANGED config, NEW q \in Queries, req'[q] = req[q]
    PROVE  /\ Limit(req[q])' = Limit(req[q]) /\ First(req[q])' = First(req[q])
           /\ Available(req[q])' = Available(req[q])
           /\ Paginated(req[q])' = Paginated(req[q])
           /\ size' = size
  BY DEF config, Limit, First, Available, Last, Paginated

\* The two ways to say where a result ends are one.
LEMMA ResultOfExact ==
    ASSUME QueryTypeOK, NEW q \in Queries, First(req[q]) \in Nat
    PROVE  LET r == req[q]
               upTo == First(r) + Limit(r)
               end == IF r.kind = "limited" /\ OwnLimit < size THEN OwnLimit ELSE size
           IN  RowsFrom(First(r), IF upTo < end THEN upTo ELSE end)
                 = RowsFrom(First(r), First(r) + Due(r))
<1> DEFINE r == req[q]
           upTo == First(r) + Limit(r)
           end == IF r.kind = "limited" /\ OwnLimit < size THEN OwnLimit ELSE size
           b == IF upTo < end THEN upTo ELSE end
<1>1. Limit(r) \in Nat /\ size \in Nat /\ OwnLimit \in Nat
  BY LimitFacts, QueryAssumption
<1>2. b \in Int /\ First(r) \in Nat
  BY <1>1
<1>3. Due(r) = IF b > First(r) THEN b - First(r) ELSE 0
  BY DEF Due
<1> HIDE DEF r, b
<1>4. (IF b > First(r) THEN b - First(r) ELSE 0)
        = (IF First(r) + Due(r) > First(r) THEN (First(r) + Due(r)) - First(r) ELSE 0)
  BY <1>2, <1>3
<1>5. RowsFrom(First(r), b) = RowsFrom(First(r), First(r) + Due(r))
  BY <1>4 DEF RowsFrom
<1> QED
  BY <1>5 DEF r, b

-----------------------------------------------------------------------------
(* The steps.                                                              *)

\* Nothing that CallInv(q) is about changes.
Same(q) ==
    /\ UNCHANGED config
    /\ step'[q] = step[q] /\ req'[q] = req[q] /\ sent'[q] = sent[q] /\ rows'[q] = rows[q]
    /\ hasMore'[q] = hasMore[q] /\ outcome'[q] = outcome[q]
    /\ chain'[q] = chain[q] /\ collected'[q] = collected[q]

\* Then it stays true.
LEMMA SameKept ==
    ASSUME NEW q \in Queries, CallInv(q), Same(q)
    PROVE  CallInv(q)'
  BY DEF CallInv, Same, Scanning, Complete, Open, PagesBefore, PagesAfter, config, Accepted,
         AccessAllowed, Pageable, Limit, First, Available, Last, Paginated, Due

\* A call that moves on but neither scans nor succeeds.
LEMMA MovesOn ==
    ASSUME NEW q \in Queries, CallInv(q), UNCHANGED config,
           step[q] \notin {"idle", "done"}, step'[q] # "scan",
           req'[q] = req[q], rows'[q] = rows[q], hasMore'[q] = hasMore[q],
           chain'[q] = chain[q], collected'[q] = collected[q],
           outcome'[q] \in {"none", "failed"}, step'[q] # "done" => outcome'[q] = "none"
    PROVE  CallInv(q)'
<1>1. outcome[q] = "none"
  BY DEF CallInv, Open
<1>2. Scanning(q)' /\ Open(q)' /\ Complete(q)' /\ PagesAfter(q)'
  BY DEF Scanning, Open, Complete, PagesAfter
<1>3. PagesBefore(q)'
  BY <1>1 DEF CallInv, PagesBefore, config
<1> QED
  BY <1>2, <1>3 DEF CallInv

\* The steps of a call concern that call.
LEMMA OthersSame ==
    ASSUME TypeInv, NEW q \in Queries, NEW p \in Queries \ {q},
           Caller(q) \/ QueryStep(q) \/ Expire(q)
    PROVE  Same(p)
<1> USE DEF TypeInv, QueryTypeOK, Same, config, poolVars, out, history
<1>1. ASSUME NEW r, Begin(q, r) PROVE
        /\ UNCHANGED config
        /\ step'[p] = step[p] /\ req'[p] = req[p] /\ sent'[p] = sent[p] /\ rows'[p] = rows[p]
        /\ hasMore'[p] = hasMore[p] /\ outcome'[p] = outcome[p]
  BY <1>1 DEF Begin
<1>2. ASSUME Caller(q) PROVE Same(p)
  <2>1. ASSUME NEW r \in Requests, Submit(q, r) PROVE Same(p)
    BY <2>1, <1>1 DEF Submit
  <2>2. ASSUME NextPage(q) PROVE Same(p)
    BY <2>2, <1>1 DEF NextPage
  <2>3. ASSUME SamePage(q) PROVE Same(p)
    BY <2>3, <1>1 DEF SamePage
  <2> QED
    BY <1>2, <2>1, <2>2, <2>3 DEF Caller
<1>3. ASSUME NEW k \in Conns, GetConn(q, k) PROVE Same(p)
  BY <1>3 DEF GetConn
<1>4. ASSUME UseDatabase(q) PROVE Same(p)
  BY <1>4 DEF UseDatabase
<1>5. ASSUME Execute(q) PROVE Same(p)
  BY <1>5 DEF Execute
<1>6. ASSUME ScanRow(q) PROVE Same(p)
  BY <1>6 DEF ScanRow
<1>7. ASSUME NEW more, NEW cut, Finish(q, more, cut) PROVE Same(p)
  BY <1>7 DEF Finish
<1>8. ASSUME RowBeyondLimit(q) \/ RowsEnd(q) PROVE Same(p)
  BY <1>7, <1>8 DEF RowBeyondLimit, RowsEnd
<1>9. ASSUME NEW e \in Errors, AttemptFails(q, e) PROVE Same(p)
  BY <1>9 DEF AttemptFails
<1>10. ASSUME Retry(q) PROVE Same(p)
  BY <1>10 DEF Retry
<1>11. ASSUME BackoffCancelled(q) PROVE Same(p)
  BY <1>11 DEF BackoffCancelled
<1>12. ASSUME Expire(q) PROVE Same(p)
  BY <1>12 DEF Expire
<1> QED
  BY <1>2, <1>3, <1>4, <1>5, <1>6, <1>8, <1>9, <1>10, <1>11, <1>12 DEF QueryStep

\* The caller: a first page, the next page, the same page again.
LEMMA CallerOwn ==
    ASSUME TypeInv, NEW q \in Queries, CallInv(q), Caller(q)
    PROVE  CallInv(q)'
<1> USE DEF TypeInv, QueryTypeOK
<1>1. ASSUME NEW r, Begin(q, r) PROVE
        /\ UNCHANGED config
        /\ Scanning(q)' /\ Complete(q)' /\ Open(q)' /\ PagesAfter(q)'
        /\ req'[q] = r
  BY <1>1 DEF Begin, Scanning, Complete, Open, PagesAfter
<1>2. ASSUME NEW r \in Requests, Submit(q, r) PROVE CallInv(q)'
  <2>1. Begin(q, r) /\ chain'[q] = (r.offset = 0) /\ collected'[q] = <<>>
    BY <1>2 DEF Submit
  <2>2. RowsFrom(0, 0) = <<>>
    <3>1. RowsFrom(0, 0) = [i \in 1..0 |-> 0 + i]
      BY DEF RowsFrom
    <3> QED
      BY <3>1
  <2>3. size \in Nat /\ size' = size
    BY <1>1, <2>1, QueryAssumption DEF config
  <2>4. chain'[q] => r.offset = 0
    BY <2>1
  <2>5. req'[q] = r
    BY <1>1, <2>1
  <2>6. PagesBefore(q)'
    BY <2>1, <2>2, <2>3, <2>4, <2>5 DEF PagesBefore
  <2> QED
    BY <1>1, <2>1, <2>6 DEF CallInv
<1>3. ASSUME NextPage(q) PROVE CallInv(q)'
  <2> DEFINE r == [req[q] EXCEPT !.offset = NextOffset(q)]
  <2>1. Begin(q, r) /\ UNCHANGED <<chain, collected>> /\ outcome[q] = "ok" /\ hasMore[q]
    BY <1>3 DEF NextPage
  <2>2. r.offset = NextOffset(q) /\ size' = size
    BY <1>1, <2>1 DEF config
  <2>3. PagesBefore(q)'
    <3> SUFFICES ASSUME chain[q]
                 PROVE  /\ NextOffset(q) \in Nat /\ NextOffset(q) <= size
                        /\ collected[q] = RowsFrom(0, NextOffset(q))
      BY <1>1, <2>1, <2>2 DEF PagesBefore
    <3>1. /\ Paginated(req[q]) /\ Accepted(req[q])
          /\ req[q].offset + Limit(req[q]) < size
          /\ collected[q] = RowsFrom(0, IF req[q].offset + Limit(req[q]) < size
                                        THEN req[q].offset + Limit(req[q]) ELSE size)
      BY <2>1 DEF CallInv, Complete, PagesAfter
    <3>2. req[q].offset \in Nat
      BY <3>1, LimitFacts DEF Accepted, Pageable
    <3>3. Limit(req[q]) \in Nat /\ size \in Nat
      BY LimitFacts
    <3> QED
      BY <3>1, <3>2, <3>3 DEF NextOffset
  <2> QED
    BY <1>1, <2>1, <2>3 DEF CallInv
<1>4. ASSUME SamePage(q) PROVE CallInv(q)'
  <2>1. Begin(q, req[q]) /\ UNCHANGED <<chain, collected>> /\ outcome[q] = "failed"
    BY <1>4 DEF SamePage
  <2>2. req'[q] = req[q] /\ size' = size
    BY <1>1, <2>1 DEF config
  <2>3. PagesBefore(q)'
    BY <2>1, <2>2 DEF CallInv, PagesBefore
  <2> QED
    BY <1>1, <2>1, <2>3 DEF CallInv
<1> QED
  BY <1>2, <1>3, <1>4 DEF Caller

\* The statement is run: a result from nothing, whatever came before.
LEMMA ExecuteOwn ==
    ASSUME TypeInv, NEW q \in Queries, CallInv(q), Execute(q)
    PROVE  CallInv(q)'
<1> USE DEF TypeInv, QueryTypeOK, config, history
<1>1. /\ step[q] = "query" /\ UNCHANGED config /\ req'[q] = req[q]
      /\ sent'[q] = 0 /\ rows'[q] = <<>> /\ step'[q] = "scan" /\ outcome'[q] = outcome[q]
      /\ UNCHANGED <<chain, collected>>
  BY DEF Execute, RowsAtStart
<1>2. outcome[q] = "none" /\ Accepted(req[q])
  BY <1>1 DEF CallInv, Open, AcceptInv
<1>3. First(req[q]) \in Nat /\ Available(req[q]) \in Nat /\ Limit(req[q]) \in Nat
  BY <1>2, AvailableFacts, LimitFacts
<1>4. RowsFrom(First(req[q]), First(req[q]) + 0) = <<>>
  <2>1. RowsFrom(First(req[q]), First(req[q]) + 0) = [i \in 1..0 |-> First(req[q]) + i]
    BY <1>3, RowsFromFacts
  <2> QED
    BY <2>1
<1>5. Scanning(q)'
  BY <1>1, <1>3, <1>4, Frame DEF Scanning
<1>6. Complete(q)' /\ Open(q)' /\ PagesAfter(q)'
  BY <1>1, <1>2 DEF Complete, Open, PagesAfter
<1>7. PagesBefore(q)'
  BY <1>1 DEF CallInv, PagesBefore
<1> QED
  BY <1>5, <1>6, <1>7 DEF CallInv

\* A row within the limit is the next row.
LEMMA ScanRowOwn ==
    ASSUME TypeInv, NEW q \in Queries, CallInv(q), ScanRow(q)
    PROVE  CallInv(q)'
<1> USE DEF TypeInv, QueryTypeOK, config, history
<1> DEFINE r == req[q]
<1>1. /\ step[q] = "scan" /\ sent[q] < Available(r) /\ Len(rows[q]) < Limit(r)
      /\ rows'[q] = Append(rows[q], First(r) + sent[q] + 1)
      /\ sent'[q] = sent[q] + 1
      /\ UNCHANGED config /\ req'[q] = r /\ step'[q] = "scan" /\ outcome'[q] = outcome[q]
      /\ UNCHANGED <<chain, collected>>
  BY DEF ScanRow
<1>2. outcome[q] = "none" /\ Accepted(r) /\ rows[q] = RowsFrom(First(r), First(r) + sent[q])
  BY <1>1 DEF CallInv, Open, Scanning, AcceptInv
<1>3. First(r) \in Nat /\ Available(r) \in Nat /\ Limit(r) \in Nat /\ sent[q] \in Nat
  <2>1. sent[q] \in 0..size
    OBVIOUS
  <2> QED
    BY <1>2, <2>1, AvailableFacts, LimitFacts
<1>4. Len(rows[q]) = sent[q] /\ rows'[q] = RowsFrom(First(r), First(r) + (sent[q] + 1))
  <2>1. \A a, n \in Nat : /\ Len(RowsFrom(a, a + n)) = n
                           /\ Append(RowsFrom(a, a + n), a + n + 1) = RowsFrom(a, a + (n + 1))
    BY RowsFromFacts, RowsFromAppend
  <2>2. Len(RowsFrom(First(r), First(r) + sent[q])) = sent[q]
    BY <1>3, <2>1, Zenon
  <2>3. Append(RowsFrom(First(r), First(r) + sent[q]), First(r) + sent[q] + 1)
          = RowsFrom(First(r), First(r) + (sent[q] + 1))
    BY <1>3, <2>1, Zenon
  <2> QED
    BY <1>1, <1>2, <2>2, <2>3, Zenon
<1>5. sent[q] + 1 <= Available(r) /\ sent[q] + 1 <= Limit(r)
  BY <1>1, <1>3, <1>4
<1>6. Scanning(q)'
  BY <1>1, <1>4, <1>5, Frame DEF Scanning
<1>7. Complete(q)' /\ Open(q)' /\ PagesAfter(q)'
  BY <1>1, <1>2 DEF Complete, Open, PagesAfter
<1>8. PagesBefore(q)'
  BY <1>1 DEF CallInv, PagesBefore
<1> QED
  BY <1>6, <1>7, <1>8 DEF CallInv

\* The result is returned.
LEMMA FinishOwn ==
    ASSUME TypeInv, NEW q \in Queries, CallInv(q), RowBeyondLimit(q) \/ RowsEnd(q)
    PROVE  CallInv(q)'
<1> USE DEF TypeInv, QueryTypeOK
<1> DEFINE r == req[q]
<1>1. /\ step[q] = "scan" /\ step'[q] = "done" /\ outcome'[q] = "ok"
      /\ UNCHANGED <<maxRows, allowed, size, req, rows, chain>>
      /\ chain[q] => collected'[q] = collected[q] \o rows[q]
      /\ Paginated(r) => (hasMore'[q] <=> RowBeyondLimit(q))
  <2>1. ASSUME NEW more, NEW cut, Finish(q, more, cut) PROVE
          /\ step'[q] = "done" /\ outcome'[q] = "ok" /\ hasMore'[q] = more
          /\ UNCHANGED <<maxRows, allowed, size, req, rows, chain>>
          /\ chain[q] => collected'[q] = collected[q] \o rows[q]
    BY <2>1 DEF Finish, config
  <2>2. CASE RowBeyondLimit(q)
    <3>1. step[q] = "scan" /\ Finish(q, Paginated(r), ~Paginated(r))
      BY <2>2 DEF RowBeyondLimit
    <3>2. hasMore'[q] = Paginated(r)
      BY <2>1, <3>1
    <3> QED
      BY <2>1, <2>2, <3>1, <3>2
  <2>3. CASE RowsEnd(q) /\ ~RowBeyondLimit(q)
    <3>1. step[q] = "scan" /\ Finish(q, FALSE, FALSE)
      BY <2>3 DEF RowsEnd
    <3> QED
      BY <2>1, <2>3, <3>1
  <2> QED
    BY <2>2, <2>3
<1>2. /\ rows[q] = RowsFrom(First(r), First(r) + Due(r))
      /\ Paginated(r) => (RowBeyondLimit(q) <=> r.offset + Limit(r) < size)
  BY ScanEnds DEF CallInv
<1>3. outcome[q] = "none" /\ Accepted(r)
  BY <1>1 DEF CallInv, Open, AcceptInv
<1>4. /\ Limit(r)' = Limit(r) /\ First(r)' = First(r) /\ Paginated(r)' = Paginated(r)
      /\ Due(r)' = Due(r) /\ Accepted(r)' = Accepted(r)
  BY <1>1 DEF Limit, First, Paginated, Due, Accepted, AccessAllowed, Pageable
<1>5. Complete(q)'
  BY <1>1, <1>2, <1>3, <1>4 DEF Complete
<1>6. Scanning(q)' /\ Open(q)' /\ PagesBefore(q)'
  BY <1>1 DEF Scanning, Open, PagesBefore
<1>7. PagesAfter(q)'
  <2> SUFFICES ASSUME chain[q]
               PROVE  /\ Paginated(r)
                      /\ collected'[q] = RowsFrom(0, IF r.offset + Limit(r) < size
                                                     THEN r.offset + Limit(r) ELSE size)
    BY <1>1, <1>4 DEF PagesAfter
  <2>1. r.offset \in Nat /\ r.offset <= size /\ collected[q] = RowsFrom(0, r.offset)
    BY <1>3 DEF CallInv, PagesBefore
  <2>2. Paginated(r) /\ First(r) = r.offset /\ r.kind = "select"
    BY <1>3, <2>1, QueryAssumption DEF Paginated, First, Accepted, Pageable
  <2>3. Limit(r) \in Nat /\ size \in Nat
    BY LimitFacts
  <2>4. Due(r) = LET upTo == IF r.offset + Limit(r) < size THEN r.offset + Limit(r) ELSE size
                 IN  IF upTo > r.offset THEN upTo - r.offset ELSE 0
    BY <2>2 DEF Due
  <2> HIDE DEF Due, Limit
  <2>5. /\ Due(r) \in Nat
        /\ r.offset + Due(r) = IF r.offset + Limit(r) < size THEN r.offset + Limit(r) ELSE size
    BY <2>1, <2>3, <2>4
  <2>6. collected'[q] = RowsFrom(0, r.offset) \o RowsFrom(r.offset, r.offset + Due(r))
    BY <1>1, <1>2, <2>1, <2>2
  <2>7. collected'[q] = RowsFrom(0, r.offset + Due(r))
    BY <2>1, <2>5, <2>6, RowsFromConcat
  <2> QED
    BY <2>2, <2>5, <2>7
<1> QED
  BY <1>5, <1>6, <1>7 DEF CallInv

\* Every step of a call preserves its invariant.
LEMMA OwnStep ==
    ASSUME TypeInv, NEW q \in Queries, CallInv(q), Caller(q) \/ QueryStep(q) \/ Expire(q)
    PROVE  CallInv(q)'
<1> USE DEF TypeInv, QueryTypeOK, config, poolVars, out, history
<1>1. ASSUME NEW k \in Conns, GetConn(q, k) PROVE CallInv(q)'
  BY <1>1, MovesOn DEF GetConn, CallInv, Open
<1>2. ASSUME UseDatabase(q) PROVE CallInv(q)'
  BY <1>2, MovesOn DEF UseDatabase, CallInv, Open
<1>3. ASSUME NEW e \in Errors, AttemptFails(q, e) PROVE CallInv(q)'
  BY <1>3, MovesOn DEF AttemptFails
<1>4. ASSUME Retry(q) PROVE CallInv(q)'
  BY <1>4, MovesOn DEF Retry, CallInv, Open
<1>5. ASSUME BackoffCancelled(q) PROVE CallInv(q)'
  BY <1>5, MovesOn DEF BackoffCancelled
<1>6. ASSUME Expire(q) PROVE CallInv(q)'
  BY <1>6, SameKept DEF Expire, Same
<1> QED
  BY <1>1, <1>2, <1>3, <1>4, <1>5, <1>6, CallerOwn, ExecuteOwn, ScanRowOwn, FinishOwn DEF QueryStep

-----------------------------------------------------------------------------
(* The theorems.                                                           *)

\* CallsInv is an invariant of every behaviour.
LEMMA CallsInvariant == QuerySpec => [](TypeInv /\ PoolInv /\ CallsInv)
<1>1. QueryInit => CallsInv
  BY DEF QueryInit, CallsInv, CallInv, Scanning, Complete, Open, PagesBefore, PagesAfter
<1>2. TypeInv /\ CallsInv /\ [QueryNext]_queryVars => CallsInv'
  <2> SUFFICES ASSUME TypeInv, CallsInv, [QueryNext]_queryVars, NEW p \in Queries
               PROVE  CallInv(p)'
    BY DEF CallsInv
  <2>1. CallInv(p)
    BY DEF CallsInv
  <2>2. ASSUME NEW q \in Queries, Caller(q) \/ QueryStep(q) \/ Expire(q) PROVE CallInv(p)'
    <3>1. CASE p = q
      BY <2>1, <2>2, <3>1, OwnStep
    <3>2. CASE p # q
      BY <2>1, <2>2, <3>2, OthersSame, SameKept
    <3> QED
      BY <3>1, <3>2
  <2>3. ASSUME NEW k \in Conns, Recycle(k) PROVE CallInv(p)'
    BY <2>1, <2>3, SameKept DEF Recycle, Same, out, history
  <2>4. CASE UNCHANGED queryVars
    BY <2>1, <2>4, SameKept DEF queryVars, Same, out, history
  <2> QED
    BY <2>2, <2>3, <2>4 DEF QueryNext
<1> QED
  BY <1>1, <1>2, QueryInvariant, PTL DEF QuerySpec

\* Whatever was retried, a result is exactly the rows due.
THEOREM ResultCorrect == QuerySpec => []ResultExact
<1>1. TypeInv /\ CallsInv => ResultExact
  <2> SUFFICES ASSUME TypeInv, CallsInv, NEW q \in Queries, Returned(q)
               PROVE  LET r == req[q]
                          upTo == First(r) + Limit(r)
                          end == IF r.kind = "limited" /\ OwnLimit < size THEN OwnLimit ELSE size
                      IN  rows[q] = RowsFrom(First(r), IF upTo < end THEN upTo ELSE end)
    BY DEF ResultExact
  <2>1. /\ Accepted(req[q]) /\ QueryTypeOK
        /\ rows[q] = RowsFrom(First(req[q]), First(req[q]) + Due(req[q]))
    BY DEF CallsInv, CallInv, Complete, Returned, TypeInv
  <2>2. First(req[q]) \in Nat
    BY <2>1, AvailableFacts
  <2> QED
    BY <2>1, <2>2, ResultOfExact
<1> QED
  BY <1>1, CallsInvariant, PTL

\* A caller that follows next_offset gets every row once, in order.
THEOREM PagesCorrect == QuerySpec => []PagesComplete
<1>1. TypeInv /\ CallsInv => PagesComplete
  <2> SUFFICES ASSUME TypeInv, CallsInv, NEW q \in Queries, Returned(q), chain[q]
               PROVE  /\ collected[q] = RowsFrom(0, Len(collected[q]))
                      /\ hasMore[q] <=> Len(collected[q]) < size
    BY DEF PagesComplete
  <2> DEFINE r == req[q]
             b == IF r.offset + Limit(r) < size THEN r.offset + Limit(r) ELSE size
  <2>1. /\ Paginated(r) /\ Accepted(r) /\ collected[q] = RowsFrom(0, b)
        /\ hasMore[q] <=> r.offset + Limit(r) < size
    BY DEF CallsInv, CallInv, Complete, PagesAfter, Returned
  <2>2. r.offset \in Nat /\ Limit(r) \in Nat /\ size \in Nat
    BY <2>1, LimitFacts DEF TypeInv, Accepted, Pageable
  <2>3. b \in Nat /\ 0 + b = b /\ (r.offset + Limit(r) < size <=> b < size)
    BY <2>2
  <2> HIDE DEF b
  <2>4. Len(RowsFrom(0, 0 + b)) = b
    BY <2>3, RowsFromFacts
  <2> QED
    BY <2>1, <2>3, <2>4
<1> QED
  BY <1>1, CallsInvariant, PTL

==============================================================================
