SPECIFICATION Spec
CONSTANTS
    s1 = s1
    s2 = s2
    s3 = s3
    home = home
    other = other
    bad = bad
    None = None
    Sockets <- MCSockets2
    Urls <- MCTwoUrls
    BadUrls <- MCBadUrls
    ConfigUrl = home
    AutoReconnect = TRUE
    MaxReconnectAttempts = 1
    MessageQueueSize = 2
    MaxMissed = 1
    MaxMessages = 3
    MaxOrphans = 0
    ServerAnswers = FALSE
SYMMETRY MCSymmetry
INVARIANTS
    TypeOK
    NothingSendableWaits
    QueueBehindWire
    QueueBounded
PROPERTIES
    DestroyedIsFinal
    SendOrder
