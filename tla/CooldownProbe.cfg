SPECIFICATION Spec
CONSTANTS
    Parts = {"cooldown"}
    c1 = c1
    c2 = c2
    s1 = s1
    s2 = s2
    flash = flash
    sol = sol
    k1 = k1
    k2 = k2
    NKeys = 2
    Chats <- OneChat
    Streams <- OneStream
    Failover = FALSE
    EmptyRetry = TRUE
    PerKeySecs = 1
    AuthSecs = 2
    All429Secs = 2
    MaxRetryAfter = 3
    VendorRetryAfters <- OnlyLong
    NoWorker = NoWorker
    Workers <- TwoWorkers
    Flash = flash
    MultiKey <- OneMultiKey
    Calls <- TwoCalls
    ShortSecs = 1
    LongSecs = 4
    EmptySecs = 6
    WindowSecs = 3
    VendorWindows <- Windows
    ProbeWithin = 2
    GateChats <- TwoChats
    GateStreams <- TwoStreams
    Gate = 2
PROPERTIES
    LongCooldownsRunOn
