SPECIFICATION Spec
CONSTANTS
    MaxWebhooks = 1
    MaxSends = 2
    MaxRetries = 2
    DisableAfter = 1
    QueueLimit = 1
    MaxCrashes = 1
    MaxRedisErrors = 1
    MaxPending = 1
INVARIANTS
    TypeOK
    AttemptsBounded
    RetryingHasTimer
    StoreFollowsMemory
CHECK_DEADLOCK FALSE
