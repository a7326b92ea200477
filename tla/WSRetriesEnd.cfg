SPECIFICATION FairSpec
CONSTANTS
    s1 = s1
    s2 = s2
    s3 = s3
    home = home
    other = other
    bad = bad
    None = None
    AutoReconnect = TRUE
    MessageQueueSize = 1
    MaxMessages = 0
    ConfigUrl = bad
    MaxReconnectAttempts = 2
    Sockets <- MCSockets2
    Urls <- MCUrls
    BadUrls <- MCBadUrls
    MaxMissed = 2
    MaxOrphans = 1
    ServerAnswers = TRUE
PROPERTY
    RetriesEnd
