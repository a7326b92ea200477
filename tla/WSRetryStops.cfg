SPECIFICATION SessionSpec
CONSTANTS
    s1 = s1
    s2 = s2
    s3 = s3
    home = home
    other = other
    bad = bad
    None = None
    AutoReconnect = TRUE
    MessageQueueSize = 1
    MaxMessages = 0
    ConfigUrl = home
    MaxReconnectAttempts = 2
    Sockets <- MCSockets3
    Urls <- MCHomeOnly
    BadUrls <- MCNoUrls
    MaxMissed = 3
    MaxOrphans = 0
    ServerAnswers = TRUE
PROPERTY
    RetriesUntilExhausted
CHECK_DEADLOCK FALSE
