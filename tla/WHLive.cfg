SPECIFICATION FairSpec
CONSTANTS
    MaxWebhooks = 2
    MaxSends = 1
    MaxRetries = 2
    DisableAfter = 2
    QueueLimit = 1
    MaxCrashes = 0
    MaxRedisErrors = 0
    MaxPending = 0
PROPERTIES
    DeliveriesSettle
    SendsFinish
CHECK_DEADLOCK FALSE
