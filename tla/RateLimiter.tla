----------------------------- MODULE RateLimiter -----------------------------
(***************************************************************************)
(* The per-client rate limiter of both HTTP servers, internal/api/         *)
(* ratelimit.go: lazily refilled token buckets in a map, a background loop *)
(* that forgets idle ones, and the choice of the client address behind a   *)
(* reverse proxy.                                                          *)
(*                                                                         *)
(* Tokens are counted in units, Price units to a token, so that a rate     *)
(* that is no whole number of tokens per tick is exact.  Instead of        *)
(* lastUpdate a bucket has its age ("idle"), which stops growing at        *)
(* MaxIdle: by then the bucket is stale and as full as it gets, so more    *)
(* changes nothing.                                                        *)
(*                                                                         *)
(* Neither the environment nor the file has its rate and burst checked, so *)
(* nothing here relates the two to each other or to the cleanup period,    *)
(* the rate may be zero and the burst zero or below.  Only a negative rate *)
(* is left out.                                                            *)
(***************************************************************************)
EXTENDS Integers, Sequences

CONSTANTS
    Clients,    \* addresses of clients
    Loopback,   \* the address of programs on the same host
    Junk,       \* a header entry that is not an address
    Requests,   \* requests in flight
    Rate,       \* rl.rate, in units per tick
    Price,      \* units per token
    Burst,      \* rl.burst, in tokens
    Cleanup,    \* rl.cleanup, in ticks
    Second,     \* ticks in the second that Retry-After names
    MaxIdle,    \* bound: ages are told apart up to here
    MaxHeader   \* bound: entries a client puts into X-Forwarded-For

Least(m, n) == IF m < n THEN m ELSE n
Most(m, n)  == IF m < n THEN n ELSE m

Capacity == Burst * Price

\* What a client without a bucket has: a burst, and whatever the burst one
\* request.
Full == Most(Price, Capacity)

ASSUME AddressAssumption == Loopback \in Clients /\ Junk \notin Clients

ASSUME RateAssumption ==
    /\ Rate \in Nat /\ Burst \in Int /\ Price \in Nat \ {0}
    /\ Cleanup \in Nat \ {0} /\ Second \in Nat \ {0}
    /\ MaxHeader \in Nat

\* The bound on ages loses nothing: it is beyond every threshold, and an
\* empty bucket of that age is full unless it never fills.
ASSUME BoundAssumption ==
    /\ MaxIdle \in Nat /\ MaxIdle > Cleanup /\ MaxIdle >= Second
    /\ Rate = 0 \/ MaxIdle * Rate >= Full

VARIABLES
    buckets,    \* the addresses that have a bucket
    tokens,     \* bucket.tokens, in units
    idle,       \* time since bucket.lastUpdate
    ticker,     \* ticks until the ticker fires
    fired,      \* ticker.C holds a tick
    stopChan,   \* stopChan is closed
    looping,    \* cleanupLoop runs
    status,     \* where each request is
    ip,         \* what getClientIP returned for it
    origin      \* the client that made it (history)

bucketState  == <<buckets, tokens, idle>>
loopState    == <<ticker, fired, stopChan, looping>>
requestState == <<status, ip, origin>>
rateVars == <<bucketState, loopState, requestState>>

RateTypeOK ==
    /\ buckets \in SUBSET Clients
    /\ tokens \in [Clients -> Least(0, Capacity - Price)..Most(0, Capacity)]
    /\ idle \in [Clients -> 0..MaxIdle]
    /\ ticker \in 1..Cleanup
    /\ fired \in BOOLEAN /\ stopChan \in BOOLEAN /\ looping \in BOOLEAN
    /\ status \in [Requests -> {"idle", "waiting", "served", "limited", "exempt"}]
    /\ ip \in [Requests -> Clients]
    /\ origin \in [Requests -> Clients]

NewRateLimiter ==
    /\ buckets = {}
    /\ tokens = [a \in Clients |-> 0]
    /\ idle = [a \in Clients |-> 0]
    /\ ticker = Cleanup
    /\ fired = FALSE /\ stopChan = FALSE /\ looping = TRUE
    /\ status = [r \in Requests |-> "idle"]
    /\ ip = [r \in Requests |-> Loopback]
    /\ origin = [r \in Requests |-> Loopback]

-----------------------------------------------------------------------------
(* Whose request is it?                                                    *)

Headers == UNION {[1..n -> Clients \cup {Junk}] : n \in 0..MaxHeader}

\* How a client's request can reach the server: directly, with any headers;
\* through a same-host proxy that appends the client to X-Forwarded-For; or
\* through one that drops that header and sets X-Real-IP.  Programs on the
\* same host are trusted, so one that connects directly sends neither.
Deliveries(a) ==
    {[peer |-> Loopback, xff |-> Append(h, a), xri |-> x] :
        h \in Headers, x \in Clients \cup {Junk}}
    \cup {[peer |-> Loopback, xff |-> <<>>, xri |-> a]}
    \cup IF a = Loopback
         THEN {[peer |-> a, xff |-> <<>>, xri |-> Junk]}
         ELSE {[peer |-> a, xff |-> h, xri |-> x] :
                  h \in Headers, x \in Clients \cup {Junk}}

\* Fault: believe the leftmost entry.
ClientIPLeftmost(q) ==
    CASE q.peer = Loopback /\ q.xff # <<>> /\ q.xff[1] \in Clients -> q.xff[1]
      [] q.peer = Loopback /\ (q.xff = <<>> \/ q.xff[1] \notin Clients)
           /\ q.xri \in Clients -> q.xri
      [] OTHER -> q.peer

\* getClientIP: the proxy headers count only if the peer is on this host.
ClientIP(q) ==
    LET forwarded == q.xff # <<>> /\ q.xff[Len(q.xff)] \in Clients IN
    CASE q.peer = Loopback /\ forwarded -> q.xff[Len(q.xff)]
      [] q.peer = Loopback /\ ~forwarded /\ q.xri \in Clients -> q.xri
      [] OTHER -> q.peer

\* WithRateLimit is entered: an OPTIONS request passes, any other waits for
\* Allow.
Arrive(r) ==
    /\ status[r] = "idle"
    /\ \E a \in Clients : \E q \in Deliveries(a) :
          /\ ip' = [ip EXCEPT ![r] = ClientIP(q)]
          /\ origin' = [origin EXCEPT ![r] = a]
    /\ \E s \in {"waiting", "exempt"} : status' = [status EXCEPT ![r] = s]
    /\ UNCHANGED <<bucketState, loopState>>

-----------------------------------------------------------------------------
(* Allow, under rl.mu.                                                     *)

\* Fault: tokens accumulate beyond the burst.
RefilledWithoutCap(a) == tokens[a] + idle[a] * Rate

Refilled(a) == Least(Capacity, tokens[a] + idle[a] * Rate)

\* Fault: a refused request costs a token too.
RefusalCosts(a) == Refilled(a) - Price

AfterRefusal(a) == Refilled(a)

\* No bucket yet: make one with a token less than the burst, be that negative.
AllowNew(r) ==
    LET a == ip[r] IN
    /\ status[r] = "waiting" /\ a \notin buckets
    /\ buckets' = buckets \cup {a}
    /\ tokens' = [tokens EXCEPT ![a] = Capacity - Price]
    /\ idle' = [idle EXCEPT ![a] = 0]
    /\ status' = [status EXCEPT ![r] = "served"]
    /\ UNCHANGED <<loopState, ip, origin>>

\* A bucket with a token: refill it and take one.
AllowKnown(r) ==
    LET a == ip[r] IN
    /\ status[r] = "waiting" /\ a \in buckets
    /\ Refilled(a) >= Price
    /\ tokens' = [tokens EXCEPT ![a] = Refilled(a) - Price]
    /\ idle' = [idle EXCEPT ![a] = 0]
    /\ status' = [status EXCEPT ![r] = "served"]
    /\ UNCHANGED <<buckets, loopState, ip, origin>>

\* None left: refill it and answer 429.
Refuse(r) ==
    LET a == ip[r] IN
    /\ status[r] = "waiting" /\ a \in buckets
    /\ Refilled(a) < Price
    /\ tokens' = [tokens EXCEPT ![a] = AfterRefusal(a)]
    /\ idle' = [idle EXCEPT ![a] = 0]
    /\ status' = [status EXCEPT ![r] = "limited"]
    /\ UNCHANGED <<buckets, loopState, ip, origin>>

\* The response has been written.
Respond(r) ==
    /\ status[r] \in {"served", "limited", "exempt"}
    /\ status' = [status EXCEPT ![r] = "idle"]
    /\ UNCHANGED <<bucketState, loopState, ip, origin>>

-----------------------------------------------------------------------------
(* Time and cleanupLoop.                                                   *)

\* Time passes.  The ticker drops a tick nobody has received.
Tick ==
    /\ idle' = [a \in Clients |->
                  IF a \in buckets THEN Least(MaxIdle, idle[a] + 1) ELSE idle[a]]
    /\ ticker' = IF ticker = 1 THEN Cleanup ELSE ticker - 1
    /\ fired' = (fired \/ ticker = 1)
    /\ UNCHANGED <<buckets, tokens, stopChan, looping, requestState>>

\* Fault: the comparison with the threshold is the wrong way round.
StaleIfRecent(a) == idle[a] < Cleanup

\* b.lastUpdate.Before(threshold)
Stale(a) == idle[a] > Cleanup

\* cleanup_stale, on a tick received.
CleanupStale ==
    /\ looping /\ fired
    /\ buckets' = {a \in buckets : ~Stale(a)}
    /\ tokens' = [a \in Clients |-> IF a \in buckets' THEN tokens[a] ELSE 0]
    /\ idle' = [a \in Clients |-> IF a \in buckets' THEN idle[a] ELSE 0]
    /\ fired' = FALSE
    /\ UNCHANGED <<ticker, stopChan, looping, requestState>>

Stop ==
    /\ ~stopChan
    /\ stopChan' = TRUE
    /\ UNCHANGED <<bucketState, ticker, fired, looping, requestState>>

\* The loop sees the closed channel, now or after one more tick.
LoopEnds ==
    /\ stopChan /\ looping
    /\ looping' = FALSE
    /\ UNCHANGED <<bucketState, ticker, fired, stopChan, requestState>>

-----------------------------------------------------------------------------
RateNext ==
    \/ \E r \in Requests :
          Arrive(r) \/ AllowNew(r) \/ AllowKnown(r) \/ Refuse(r) \/ Respond(r)
    \/ Tick \/ CleanupStale \/ Stop \/ LoopEnds

RateSpec == NewRateLimiter /\ [][RateNext]_rateVars

\* Time goes on and the loop's goroutine is scheduled.
FairRateSpec == RateSpec /\ WF_rateVars(Tick) /\ WF_rateVars(CleanupStale)

-----------------------------------------------------------------------------
(* Properties.                                                             *)

\* What a client could spend now: what its bucket would hold once refilled.
Level(a) == IF a \in buckets THEN Most(0, Refilled(a)) ELSE Full

Buckets == INSTANCE TokenBucket WITH
              level <- [a \in Clients |-> Level(a)],
              quiet <- [a \in Clients |-> IF a \in buckets THEN idle[a] ELSE MaxIdle]

\* Lazy refill, racing requests, the sweep and the proxy headers come to this:
\* every client is served and limited exactly as by a token bucket of its own,
\* which can be filled up out of turn only once the client was quiet for
\* longer than the cleanup period (ratelimit.go, Allow and cleanup_stale).
ImplementsTokenBucket == Buckets!BucketSpec

\* The "Retry-After: 1" of a 429 answer is honest: a client that stays silent
\* for a second is served next (at one request per second or more, and a
\* burst of at least one).
RetryAfterHonoured ==
    Second * Rate >= Price /\ Burst >= 1 =>
        \A a \in buckets : idle[a] >= Second => Refilled(a) >= Price

\* The map does not grow for ever: a bucket not used for the cleanup period
\* is forgotten, unless it is used again or the limiter is stopped.
IdleBucketsForgotten ==
    \A a \in Clients :
        a \in buckets /\ idle[a] > Cleanup
            ~> a \notin buckets \/ idle[a] <= Cleanup \/ stopChan

=============================================================================
