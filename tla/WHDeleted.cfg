SPECIFICATION Spec
CONSTANTS
    MaxWebhooks = 1
    MaxSends = 1
    MaxRetries = 2
    DisableAfter = 2
    QueueLimit = 1
    MaxCrashes = 1
    MaxRedisErrors = 0
    MaxPending = 1
INVARIANT
    DeletedStaysDeleted
CHECK_DEADLOCK FALSE
