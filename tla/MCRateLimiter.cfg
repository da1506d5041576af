SPECIFICATION FairRateSpec
CONSTANTS
    Clients = {local, remote}
    Loopback = local
    Junk = junk
    Requests = {r1, r2}
    Rate = 1
    Price = 2
    Burst = 2
    Cleanup = 2
    Second = 2
    MaxIdle = 4
    MaxHeader = 1
INVARIANTS
    RateTypeOK
    RetryAfterHonoured
PROPERTIES
    ImplementsTokenBucket
    IdleBucketsForgotten
CHECK_DEADLOCK FALSE
