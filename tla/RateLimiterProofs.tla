-------------------------- MODULE RateLimiterProofs --------------------------
(***************************************************************************)
(* Theorems about RateLimiter, for every rate, burst, cleanup period and   *)
(* set of clients and requests that satisfies the assumptions.             *)
(***************************************************************************)
EXTENDS RateLimiter, TLAPS

\* The bucket charged is the one of the client that made the request.
OriginInv == \A r \in Requests : ip[r] = origin[r]

-----------------------------------------------------------------------------
(* Arithmetic.                                                             *)

\* A burst is a whole number of units: at least the price of a request, or
\* none at all.
LEMMA CapacityFacts ==
    /\ Capacity \in Int /\ Price \in Nat /\ Price >= 1
    /\ Burst >= 1 => Capacity >= Price
    /\ Burst < 1 => Capacity <= 0
<1>1. \A m \in Int, n \in Nat : m * n \in Int /\ (m >= 1 => m * n >= n) /\ (m < 1 => m * n <= 0)
  OBVIOUS
<1> QED
  BY <1>1, RateAssumption DEF Capacity

\* The range of bucket.tokens.
Low  == Least(0, Capacity - Price)
High == Most(0, Capacity)

\* The ranges of the type invariant hold what a bucket starts with.
LEMMA Bounds ==
    /\ 0 \in Low..High /\ Capacity - Price \in Low..High
    /\ 0 \in 0..MaxIdle /\ Cleanup \in 1..Cleanup
<1> HIDE DEF Capacity
<1> QED
  BY CapacityFacts, RateAssumption, BoundAssumption DEF Low, High, Least, Most

\* More time refills more.
LEMMA ProductMonotone ==
    ASSUME NEW m \in Nat, NEW n \in Nat, m <= n
    PROVE  m * Rate <= n * Rate /\ m * Rate \in Nat
<1>1. PICK d \in Nat : n = m + d
  <2>1. n - m \in Nat /\ n = m + (n - m)
    OBVIOUS
  <2> QED
    BY <2>1
<1>2. n * Rate = m * Rate + d * Rate
  BY <1>1, RateAssumption
<1>3. d * Rate \in Nat /\ m * Rate \in Nat
  BY RateAssumption
<1> QED
  BY <1>2, <1>3

\* Refilling stays in the range and yields no more than a burst.
LEMMA RefilledType ==
    ASSUME RateTypeOK, NEW a \in Clients
    PROVE  Refilled(a) \in Low..High /\ Refilled(a) \in Int /\ Refilled(a) <= Capacity
<1>1. tokens[a] \in Low..High /\ idle[a] \in Nat
  BY BoundAssumption DEF RateTypeOK, Low, High
<1>2. idle[a] * Rate \in Nat
  BY <1>1, RateAssumption
<1> HIDE DEF Capacity
<1> QED
  BY <1>1, <1>2, CapacityFacts DEF Refilled, Least, Most, Low, High

-----------------------------------------------------------------------------
(* Types, and whose bucket is charged.                                     *)

\* getClientIP finds the client, whatever it put into the headers itself and
\* whether it comes directly or through either kind of proxy.
LEMMA ClientFound ==
    ASSUME NEW a \in Clients, NEW q \in Deliveries(a)
    PROVE  ClientIP(q) = a
<1>1. CASE q \in {[peer |-> Loopback, xff |-> Append(h, a), xri |-> x] :
                     h \in Headers, x \in Clients \cup {Junk}}
  <2>1. PICK h \in Headers, x \in Clients \cup {Junk} :
           q = [peer |-> Loopback, xff |-> Append(h, a), xri |-> x]
    BY <1>1
  <2>2. h \in Seq(Clients \cup {Junk})
    BY RateAssumption DEF Headers
  <2>3. Append(h, a) # <<>> /\ Append(h, a)[Len(Append(h, a))] = a
    BY <2>2
  <2> QED
    BY <2>1, <2>3 DEF ClientIP
<1>2. CASE q = [peer |-> Loopback, xff |-> <<>>, xri |-> a]
  BY <1>2 DEF ClientIP
<1>3. CASE a = Loopback /\ q = [peer |-> a, xff |-> <<>>, xri |-> Junk]
  BY <1>3, AddressAssumption DEF ClientIP
<1>4. CASE a # Loopback /\ \E h \in Headers, x \in Clients \cup {Junk} :
              q = [peer |-> a, xff |-> h, xri |-> x]
  BY <1>4 DEF ClientIP
<1> QED
  BY <1>1, <1>2, <1>3, <1>4 DEF Deliveries

\* The limiter is well typed and charges the right client.
LEMMA TypeAndOrigin == RateSpec => [](RateTypeOK /\ OriginInv)
<1>1. NewRateLimiter => RateTypeOK /\ OriginInv
  BY Bounds, AddressAssumption, Zenon DEF NewRateLimiter, RateTypeOK, OriginInv, Low, High
<1>2. RateTypeOK /\ OriginInv /\ [RateNext]_rateVars => RateTypeOK' /\ OriginInv'
  <2> SUFFICES ASSUME RateTypeOK, OriginInv, [RateNext]_rateVars
               PROVE  RateTypeOK' /\ OriginInv'
    OBVIOUS
  <2> USE DEF bucketState, loopState, requestState
  <2> HIDE DEF Capacity
  <2>1. ASSUME NEW r \in Requests, Arrive(r)
        PROVE  RateTypeOK' /\ OriginInv'
    <3>1. PICK a \in Clients : \E q \in Deliveries(a) :
             /\ ip' = [ip EXCEPT ![r] = ClientIP(q)]
             /\ origin' = [origin EXCEPT ![r] = a]
      BY <2>1 DEF Arrive
    <3>2. ip' = [ip EXCEPT ![r] = a] /\ origin' = [origin EXCEPT ![r] = a]
      BY <3>1, ClientFound
    <3> QED
      BY <2>1, <3>2 DEF Arrive, RateTypeOK, OriginInv
  <2>2. ASSUME NEW r \in Requests, AllowNew(r)
        PROVE  RateTypeOK' /\ OriginInv'
    <3>1. Capacity - Price \in Least(0, Capacity - Price)..Most(0, Capacity) /\ 0 \in 0..MaxIdle
      BY Bounds DEF Low, High
    <3> QED
      BY <2>2, <3>1, Zenon DEF AllowNew, RateTypeOK, OriginInv
  <2>3. ASSUME NEW r \in Requests, AllowKnown(r)
        PROVE  RateTypeOK' /\ OriginInv'
    <3>1. ip[r] \in Clients
      BY DEF RateTypeOK
    <3>2. Refilled(ip[r]) - Price \in Low..High
      BY <2>3, <3>1, RefilledType, CapacityFacts DEF AllowKnown, Low, High, Least, Most
    <3> QED
      BY <2>3, <3>2, Bounds, Zenon DEF AllowKnown, RateTypeOK, OriginInv, Low, High
  <2>4. ASSUME NEW r \in Requests, Refuse(r)
        PROVE  RateTypeOK' /\ OriginInv'
    <3>1. AfterRefusal(ip[r]) \in Low..High
      BY <2>4, RefilledType DEF Refuse, RateTypeOK, AfterRefusal
    <3> QED
      BY <2>4, <3>1, Bounds, Zenon DEF Refuse, RateTypeOK, OriginInv, Low, High
  <2>5. ASSUME NEW r \in Requests, Respond(r)
        PROVE  RateTypeOK' /\ OriginInv'
    BY <2>5 DEF Respond, RateTypeOK, OriginInv
  <2>6. CASE Tick
    <3>1. idle' \in [Clients -> 0..MaxIdle]
      BY <2>6, BoundAssumption DEF Tick, RateTypeOK, Least
    <3>2. ticker' \in 1..Cleanup /\ fired' \in BOOLEAN
      BY <2>6, RateAssumption DEF Tick, RateTypeOK
    <3> QED
      BY <2>6, <3>1, <3>2, Zenon DEF Tick, RateTypeOK, OriginInv
  <2>7. CASE CleanupStale
    <3>1. tokens' \in [Clients -> Low..High] /\ idle' \in [Clients -> 0..MaxIdle]
      BY <2>7, Bounds DEF CleanupStale, RateTypeOK, Low, High
    <3>2. buckets' \in SUBSET Clients
      BY <2>7 DEF CleanupStale, RateTypeOK
    <3> QED
      BY <2>7, <3>1, <3>2, Zenon DEF CleanupStale, RateTypeOK, OriginInv, Low, High
  <2>8. CASE Stop
    BY <2>8 DEF Stop, RateTypeOK, OriginInv
  <2>9. CASE LoopEnds
    BY <2>9 DEF LoopEnds, RateTypeOK, OriginInv
  <2>10. CASE UNCHANGED rateVars
    BY <2>10 DEF rateVars, RateTypeOK, OriginInv
  <2> QED
    BY <2>1, <2>2, <2>3, <2>4, <2>5, <2>6, <2>7, <2>8, <2>9, <2>10 DEF RateNext
<1> QED
  BY <1>1, <1>2, PTL DEF RateSpec

\* The limiter is well typed: whatever the burst, no bucket ever holds more
\* than that, nor less than the first request leaves.
THEOREM RateTypeCorrect == RateSpec => []RateTypeOK
  BY TypeAndOrigin, PTL

\* A client that waits for the second Retry-After names is served next, for
\* every rate of at least one request per second and burst of at least one.
THEOREM RetryCorrect == RateSpec => []RetryAfterHonoured
<1>1. RateTypeOK => RetryAfterHonoured
  <2> SUFFICES ASSUME RateTypeOK, Second * Rate >= Price, Burst >= 1,
                      NEW a \in buckets, idle[a] >= Second
               PROVE  Refilled(a) >= Price
    BY DEF RetryAfterHonoured
  <2>1. idle[a] \in Nat /\ tokens[a] \in Nat
    <3> HIDE DEF Capacity
    <3> QED
      BY CapacityFacts, BoundAssumption DEF RateTypeOK, Least, Most
  <2>2. Second * Rate <= idle[a] * Rate /\ idle[a] * Rate \in Nat /\ Second * Rate \in Nat
    BY <2>1, ProductMonotone, RateAssumption
  <2> HIDE DEF Capacity
  <2> QED
    BY <2>1, <2>2, CapacityFacts, RateAssumption DEF Refilled, Least
<1> QED
  BY <1>1, TypeAndOrigin, PTL

-----------------------------------------------------------------------------
(* The refinement.                                                         *)

\* What a client may spend when its bucket holds as much as a refill yields.
LEMMA LevelFacts ==
    ASSUME RateTypeOK, NEW a \in Clients
    PROVE  /\ Level(a) \in Nat /\ Full \in Nat /\ Full >= Price
           /\ Burst >= 1 => Full = Capacity /\ Level(a) <= Capacity
           /\ Burst >= 1 /\ a \in buckets => Level(a) = Refilled(a) /\ tokens[a] \in Nat
           /\ Burst < 1 /\ a \in buckets => Level(a) = 0
<1>1. Refilled(a) \in Low..High /\ Refilled(a) \in Int /\ Refilled(a) <= Capacity
  BY RefilledType
<1>2. tokens[a] \in Low..High
  BY DEF RateTypeOK, Low, High
<1> HIDE DEF Capacity
<1> QED
  BY <1>1, <1>2, CapacityFacts DEF Level, Full, Low, High, Least, Most

\* One more tick of age is one more refill of the ideal bucket.
LEMMA TickGains ==
    ASSUME RateTypeOK, RateTypeOK', Tick, NEW a \in Clients
    PROVE  Level(a)' = IF Level(a) >= Capacity THEN Level(a)
                       ELSE Least(Capacity, Level(a) + Rate)
<1>1. idle[a] \in Nat /\ idle[a] <= MaxIdle
  BY BoundAssumption DEF RateTypeOK
<1>2. Full \in Nat /\ Full >= Capacity /\ Full >= Price
  <2> HIDE DEF Capacity
  <2> QED
    BY CapacityFacts DEF Full, Most
<1>3. CASE a \notin buckets
  BY <1>2, <1>3, CapacityFacts DEF Tick, Level
<1>4. CASE a \in buckets /\ Burst < 1
  <2>1. Level(a) = 0 /\ Level(a)' = 0
    <3>1. \A b \in Clients : b \in buckets => Level(b) = 0
      BY <1>4, LevelFacts
    <3>2. \A b \in Clients : b \in buckets' => Level(b)' = 0
      <4> SUFFICES ASSUME NEW b \in Clients, b \in buckets' PROVE Level(b)' = 0
        OBVIOUS
      <4>1. tokens'[b] \in Int /\ idle'[b] \in Nat
        BY BoundAssumption DEF RateTypeOK
      <4>2. idle'[b] * Rate \in Nat
        BY <4>1, RateAssumption
      <4> HIDE DEF Capacity
      <4> QED
        BY <1>4, <4>1, <4>2, CapacityFacts DEF Level, Refilled, Least, Most
    <3> QED
      BY <1>4, <3>1, <3>2 DEF Tick
  <2> HIDE DEF Capacity
  <2> QED
    BY <1>4, <2>1, CapacityFacts
<1>5. CASE a \in buckets /\ Burst >= 1 /\ idle[a] < MaxIdle
  <2>1. a \in buckets' /\ tokens'[a] = tokens[a] /\ idle'[a] = idle[a] + 1
    BY <1>1, <1>5, BoundAssumption DEF Tick, Least, RateTypeOK
  <2>2. idle'[a] * Rate = idle[a] * Rate + Rate /\ idle[a] * Rate \in Nat
    BY <1>1, <2>1, RateAssumption
  <2>3. Level(a) = Refilled(a) /\ tokens[a] \in Nat
    BY <1>5, LevelFacts
  <2> HIDE DEF Capacity
  <2> QED
    BY <1>5, <2>1, <2>2, <2>3, CapacityFacts, RateAssumption DEF Level, Refilled, Least, Most
<1>6. CASE a \in buckets /\ Burst >= 1 /\ idle[a] = MaxIdle
  <2>1. a \in buckets' /\ tokens'[a] = tokens[a] /\ idle'[a] = idle[a]
    BY <1>1, <1>6, BoundAssumption DEF Tick, Least, RateTypeOK
  <2>2. Level(a)' = Level(a)
    BY <1>6, <2>1 DEF Level, Refilled
  <2>3. Level(a) = Refilled(a) /\ tokens[a] \in Nat
    BY <1>6, LevelFacts
  <2>4. Rate = 0 \/ Refilled(a) = Capacity
    <3>1. MaxIdle * Rate \in Nat
      BY RateAssumption, BoundAssumption
    <3> HIDE DEF Capacity
    <3> QED
      BY <1>2, <1>6, <2>3, <3>1, CapacityFacts, BoundAssumption DEF Refilled, Least
  <2>5. Refilled(a) \in Int /\ Refilled(a) <= Capacity
    BY RefilledType
  <2> HIDE DEF Capacity
  <2> QED
    BY <2>2, <2>3, <2>4, <2>5, CapacityFacts DEF Least
<1> QED
  BY <1>1, <1>3, <1>4, <1>5, <1>6, RateAssumption, BoundAssumption

\* A bucket that is kept is as it was, and one that is forgotten was idle for
\* longer than the cleanup period.
LEMMA SweepForgets ==
    ASSUME RateTypeOK, CleanupStale, NEW a \in Clients
    PROVE  /\ a \in buckets' => a \in buckets /\ Level(a)' = Level(a) /\ idle'[a] = idle[a]
           /\ a \in buckets /\ a \notin buckets' => idle[a] > Cleanup
           /\ a \notin buckets' => Level(a)' = Full
  BY DEF CleanupStale, Stale, Level, Refilled, RateTypeOK

\* What Allow does to the buckets: the client's level is set, the others'
\* stay.
LEMMA AllowLevels ==
    ASSUME RateTypeOK, NEW b \in Clients, NEW t \in Int, t <= Capacity,
           buckets' = buckets \cup {b},
           tokens' = [tokens EXCEPT ![b] = t],
           idle' = [idle EXCEPT ![b] = 0]
    PROVE  [a \in Clients |-> Level(a)']
              = [[a \in Clients |-> Level(a)] EXCEPT ![b] = Most(0, t)]
<1>1. Level(b)' = Most(0, t)
  <2>1. b \in buckets' /\ tokens'[b] = t /\ idle'[b] = 0
    BY DEF RateTypeOK
  <2>2. idle'[b] * Rate = 0
    BY <2>1, RateAssumption
  <2> HIDE DEF Capacity
  <2>3. Least(Capacity, t + 0) = t
    BY CapacityFacts DEF Least
  <2> QED
    BY <2>1, <2>2, <2>3 DEF Level, Refilled
<1>2. ASSUME NEW a \in Clients, a # b
      PROVE  Level(a)' = Level(a)
  BY <1>2 DEF Level, Refilled, RateTypeOK
<1> QED
  BY <1>1, <1>2

\* And the client is no longer quiet.
LEMMA AllowQuiet ==
    ASSUME RateTypeOK, NEW b \in Clients,
           buckets' = buckets \cup {b},
           idle' = [idle EXCEPT ![b] = 0]
    PROVE  [a \in Clients |-> IF a \in buckets' THEN idle'[a] ELSE MaxIdle]
              = [[a \in Clients |-> IF a \in buckets THEN idle[a] ELSE MaxIdle]
                    EXCEPT ![b] = 0]
  BY DEF RateTypeOK

\* The limiter with its lazily refilled, occasionally forgotten buckets and
\* its reading of proxy headers implements a token bucket per client that is
\* filled up out of turn only after a cleanup period without a request: for
\* every rate and every burst, also those a cleanup period does not refill.
THEOREM RateRefinement == RateSpec => ImplementsTokenBucket
<1>1. NewRateLimiter => Buckets!BucketInit
  BY AddressAssumption DEF NewRateLimiter, Buckets!BucketInit, Level
<1>2. RateTypeOK /\ OriginInv /\ RateTypeOK' /\ [RateNext]_rateVars
         => [Buckets!BucketNext]_(Buckets!bucketVars)
  <2> SUFFICES ASSUME RateTypeOK, OriginInv, RateTypeOK', [RateNext]_rateVars
               PROVE  [Buckets!BucketNext]_(Buckets!bucketVars)
    OBVIOUS
  <2> DEFINE level == [a \in Clients |-> Level(a)]
             quiet == [a \in Clients |-> IF a \in buckets THEN idle[a] ELSE MaxIdle]
  <2> USE DEF bucketState, loopState, requestState
  <2>1. ASSUME NEW r \in Requests, Arrive(r)
        PROVE  Buckets!Ask(r)
    <3>1. level' = level /\ quiet' = quiet
      BY <2>1 DEF Arrive, Level, Refilled
    <3> QED
      BY <2>1, <3>1 DEF Arrive, Buckets!Ask
  <2>2. ASSUME NEW r \in Requests, AllowNew(r)
        PROVE  Buckets!Serve(r)
    <3>1. ip[r] \in Clients /\ origin[r] = ip[r] /\ level[ip[r]] = Full
      BY <2>2 DEF AllowNew, Level, RateTypeOK, OriginInv
    <3> HIDE DEF Capacity
    <3>2. level' = [level EXCEPT ![ip[r]] = Most(0, Capacity - Price)]
      <4>1. Capacity - Price \in Int /\ Capacity - Price <= Capacity
        BY CapacityFacts
      <4> QED
        BY <2>2, <3>1, <4>1, AllowLevels DEF AllowNew
    <3>3. Most(0, Capacity - Price) = Full - Price /\ Full >= Price
      BY CapacityFacts DEF Full, Most
    <3>4. quiet' = [quiet EXCEPT ![ip[r]] = 0]
      BY <2>2, <3>1, AllowQuiet DEF AllowNew
    <3> QED
      BY <2>2, <3>1, <3>2, <3>3, <3>4 DEF AllowNew, Buckets!Serve
  <2>3. ASSUME NEW r \in Requests, AllowKnown(r)
        PROVE  Buckets!Serve(r)
    <3>1. ip[r] \in Clients /\ origin[r] = ip[r] /\ buckets' = buckets \cup {ip[r]}
      BY <2>3 DEF AllowKnown, RateTypeOK, OriginInv
    <3>2. Refilled(ip[r]) \in Int /\ Refilled(ip[r]) <= Capacity /\ Refilled(ip[r]) >= Price
      BY <2>3, <3>1, RefilledType DEF AllowKnown
    <3> HIDE DEF Capacity
    <3>3. level[ip[r]] = Refilled(ip[r])
      BY <2>3, <3>1, <3>2, CapacityFacts DEF AllowKnown, Level, Most
    <3>4. level' = [level EXCEPT ![ip[r]] = Most(0, Refilled(ip[r]) - Price)]
      <4>1. Refilled(ip[r]) - Price \in Int /\ Refilled(ip[r]) - Price <= Capacity
        BY <3>2, CapacityFacts
      <4> QED
        BY <2>3, <3>1, <4>1, AllowLevels DEF AllowKnown
    <3>5. Most(0, Refilled(ip[r]) - Price) = Refilled(ip[r]) - Price
      BY <3>2, CapacityFacts DEF Most
    <3>6. quiet' = [quiet EXCEPT ![ip[r]] = 0]
      BY <2>3, <3>1, AllowQuiet DEF AllowKnown
    <3> QED
      BY <2>3, <3>1, <3>2, <3>3, <3>4, <3>5, <3>6 DEF AllowKnown, Buckets!Serve
  <2>4. ASSUME NEW r \in Requests, Refuse(r)
        PROVE  Buckets!Limit(r)
    <3>1. ip[r] \in Clients /\ origin[r] = ip[r] /\ buckets' = buckets \cup {ip[r]}
      BY <2>4 DEF Refuse, RateTypeOK, OriginInv
    <3>2. Refilled(ip[r]) \in Int /\ Refilled(ip[r]) <= Capacity /\ Refilled(ip[r]) < Price
      BY <2>4, <3>1, RefilledType DEF Refuse
    <3>3. level[ip[r]] = Most(0, Refilled(ip[r]))
      BY <2>4, <3>1 DEF Refuse, Level
    <3>4. level[ip[r]] < Price
      BY <3>2, <3>3, CapacityFacts DEF Most
    <3>5. level' = [level EXCEPT ![ip[r]] = Most(0, Refilled(ip[r]))]
      BY <2>4, <3>1, <3>2, AllowLevels DEF Refuse, AfterRefusal
    <3>6. level' = level
      BY <3>1, <3>3, <3>5
    <3>7. quiet' = [quiet EXCEPT ![ip[r]] = 0]
      BY <2>4, <3>1, AllowQuiet DEF Refuse
    <3> QED
      BY <2>4, <3>1, <3>4, <3>6, <3>7 DEF Refuse, Buckets!Limit
  <2>5. ASSUME NEW r \in Requests, Respond(r)
        PROVE  Buckets!Leave(r)
    <3>1. level' = level /\ quiet' = quiet
      BY <2>5 DEF Respond, Level, Refilled
    <3> QED
      BY <2>5, <3>1 DEF Respond, Buckets!Leave
  <2>6. ASSUME Tick PROVE Buckets!Gain
    <3>1. level' = [a \in Clients |-> IF level[a] >= Capacity THEN level[a]
                                      ELSE Buckets!Least(Capacity, level[a] + Rate)]
      BY <2>6, TickGains DEF Least, Buckets!Least
    <3>2. quiet' = [a \in Clients |-> Buckets!Least(MaxIdle, quiet[a] + 1)]
      BY <2>6, BoundAssumption DEF Tick, Least, Buckets!Least, RateTypeOK
    <3> QED
      BY <2>6, <3>1, <3>2 DEF Tick, Buckets!Gain
  <2>7. ASSUME CleanupStale PROVE Buckets!Forget
    <3> DEFINE S == {a \in Clients : a \notin buckets'}
    <3>1. S \in SUBSET {a \in Clients : quiet[a] > Cleanup}
      BY <2>7, SweepForgets, BoundAssumption
    <3>2. level' = [a \in Clients |-> IF a \in S THEN Full ELSE level[a]]
      BY <2>7, SweepForgets
    <3>3. quiet' = [a \in Clients |-> IF a \in S THEN MaxIdle ELSE quiet[a]]
      BY <2>7, SweepForgets
    <3>4. UNCHANGED <<status, origin>>
      BY <2>7 DEF CleanupStale
    <3> HIDE DEF S
    <3> QED
      BY <3>1, <3>2, <3>3, <3>4 DEF Buckets!Forget
  <2>8. ASSUME Stop \/ LoopEnds \/ UNCHANGED rateVars
        PROVE  UNCHANGED Buckets!bucketVars
    <3>1. level' = level /\ quiet' = quiet
      BY <2>8 DEF Stop, LoopEnds, rateVars, Level, Refilled
    <3> QED
      BY <2>8, <3>1 DEF Stop, LoopEnds, rateVars, Buckets!bucketVars
  <2> QED
    BY <2>1, <2>2, <2>3, <2>4, <2>5, <2>6, <2>7, <2>8 DEF RateNext, Buckets!BucketNext
<1> QED
  BY <1>1, <1>2, TypeAndOrigin, PTL DEF RateSpec, ImplementsTokenBucket, Buckets!BucketSpec

\* Where a cleanup period refills a whole burst, nobody gains from being
\* forgotten: a sweep changes what no client may spend.
SweepGivesNothing ==
    [][CleanupStale => \A a \in Clients : Level(a)' = Level(a)]_rateVars

\* The promise of a burst per cleanup period at most holds from a burst of one
\* to rate * cleanup, 30000 at the default 100 requests per second; beyond it
\* the sweep of cleanup_stale hands out tokens that were not earned.
THEOREM ForgettingInvisible ==
    ASSUME 1 <= Burst, Capacity <= Cleanup * Rate
    PROVE  RateSpec => SweepGivesNothing
<1>1. RateTypeOK /\ CleanupStale => \A a \in Clients : Level(a)' = Level(a)
  <2> SUFFICES ASSUME RateTypeOK, CleanupStale, NEW a \in Clients
               PROVE  Level(a)' = Level(a)
    OBVIOUS
  <2>1. CASE a \in buckets' \/ a \notin buckets
    BY <2>1, SweepForgets DEF Level
  <2>2. CASE a \in buckets /\ a \notin buckets'
    <3>1. idle[a] > Cleanup /\ Level(a)' = Full
      BY <2>2, SweepForgets
    <3>2. Level(a) = Refilled(a) /\ tokens[a] \in Nat /\ Full = Capacity
      BY <2>2, RateAssumption, LevelFacts
    <3>3. idle[a] \in Nat
      BY BoundAssumption DEF RateTypeOK
    <3>4. Cleanup * Rate <= idle[a] * Rate /\ idle[a] * Rate \in Nat /\ Cleanup * Rate \in Nat
      BY <3>1, <3>3, ProductMonotone, RateAssumption
    <3> HIDE DEF Capacity
    <3>5. Refilled(a) = Capacity
      BY <3>2, <3>4, CapacityFacts DEF Refilled, Least
    <3> QED
      BY <3>1, <3>2, <3>5
  <2> QED
    BY <2>1, <2>2
<1> QED
  BY <1>1, TypeAndOrigin, PTL DEF RateSpec, SweepGivesNothing

=============================================================================
