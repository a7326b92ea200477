SPECIFICATION FairSpec
CONSTANTS
    Errors <- Both
    Retryable <- Both
    Network <- NetworkOnly
    Severe <- ServerOnly
    MaxRetries = 1
    FailureThreshold = 2
    Ticks = {t1, t2}
    MaxManual = 1
    MaxRedisErrors = 1
INVARIANTS RetryingIsQueued RetriesAreCounted
PROPERTIES RetryHappens NotificationsSent
