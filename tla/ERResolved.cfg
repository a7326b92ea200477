SPECIFICATION Spec
CONSTANTS
    Errors <- Both
    Retryable <- Both
    Network <- NetworkOnly
    Severe <- ServerOnly
    MaxRetries = 2
    FailureThreshold = 2
    Ticks = {t1}
    MaxManual = 0
    MaxRedisErrors = 0
PROPERTY ResolvedNotRetried
