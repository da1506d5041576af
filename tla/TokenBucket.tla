----------------------------- MODULE TokenBucket -----------------------------
(***************************************************************************)
(* What a rate limiter promises: every client has a bucket of its own that *)
(* starts full, gains Rate units per tick up to Capacity, and loses Price  *)
(* units with every request that is served.  A client that was quiet for   *)
(* longer than Cleanup may be taken for a new one and get a full bucket.   *)
(*                                                                         *)
(* A client that is never quiet for that long is therefore served at most  *)
(* (Capacity + t * Rate) / Price times in t ticks.  The others are too if  *)
(* Capacity <= Cleanup * Rate, for their buckets are full by then.         *)
(***************************************************************************)
EXTENDS Integers

CONSTANTS
    Clients, Requests, Price, Capacity, Rate, Cleanup,
    Full,       \* what a new client has: at least the price of a request
    MaxIdle     \* the time beyond which quiet is not counted, and the quiet
                \* of a client not heard of

VARIABLES
    level,    \* what each client's bucket holds
    quiet,    \* time since a request of the client was last decided
    status,   \* where each request is
    origin    \* the client that made it

bucketVars == <<level, quiet, status, origin>>

Least(m, n) == IF m < n THEN m ELSE n

BucketInit ==
    /\ level = [a \in Clients |-> Full]
    /\ quiet = [a \in Clients |-> MaxIdle]
    /\ status = [r \in Requests |-> "idle"]
    /\ origin \in [Requests -> Clients]

Ask(r) ==
    /\ status[r] = "idle"
    /\ \E a \in Clients : origin' = [origin EXCEPT ![r] = a]
    /\ status' \in {[status EXCEPT ![r] = s] : s \in {"waiting", "exempt"}}
    /\ UNCHANGED <<level, quiet>>

Serve(r) ==
    /\ status[r] = "waiting" /\ level[origin[r]] >= Price
    /\ status' = [status EXCEPT ![r] = "served"]
    /\ level'  = [level EXCEPT ![origin[r]] = @ - Price]
    /\ quiet'  = [quiet EXCEPT ![origin[r]] = 0]
    /\ UNCHANGED origin

Limit(r) ==
    /\ status[r] = "waiting" /\ level[origin[r]] < Price
    /\ status' = [status EXCEPT ![r] = "limited"]
    /\ quiet'  = [quiet EXCEPT ![origin[r]] = 0]
    /\ UNCHANGED <<level, origin>>

Leave(r) ==
    /\ status[r] \in {"served", "limited", "exempt"}
    /\ status' = [status EXCEPT ![r] = "idle"]
    /\ UNCHANGED <<level, quiet, origin>>

Gain ==
    /\ level' = [a \in Clients |-> IF level[a] >= Capacity THEN level[a]
                                   ELSE Least(Capacity, level[a] + Rate)]
    /\ quiet' = [a \in Clients |-> Least(MaxIdle, quiet[a] + 1)]
    /\ UNCHANGED <<status, origin>>

Forget ==
    /\ \E S \in SUBSET {a \in Clients : quiet[a] > Cleanup} :
          /\ level' = [a \in Clients |-> IF a \in S THEN Full ELSE level[a]]
          /\ quiet' = [a \in Clients |-> IF a \in S THEN MaxIdle ELSE quiet[a]]
    /\ UNCHANGED <<status, origin>>

BucketNext ==
    \/ \E r \in Requests : Ask(r) \/ Serve(r) \/ Limit(r) \/ Leave(r)
    \/ Gain \/ Forget

BucketSpec == BucketInit /\ [][BucketNext]_bucketVars

=============================================================================
