SPECIFICATION SessionSpec
CONSTANTS
    Heartbeat = 2
    ChildPoll = 1
    Reported = 2
    MaxSlept = 2
    MaxUnread = 1
    MaxCores = 2
    Stars <- SomeStars
    Levels = 2
    MaxMeddling = 1
    MaxRefused = 1
    Pids = {1, 2}
    QtHosts = {1}
    Ports = {1, 2}
    Opened <- HostAndOther
    QtPort = 1
    RETRIES = 1
    RETRY_GAP = 1
    QT_ENGINE_GRACE = 1
    UNREADABLE_SWEEPS = 2
    MaxLives = 2
    MaxPages = 2
CHECK_DEADLOCK FALSE
INVARIANTS PromptLoop EndToldInFull NothingUnsaid SoundBridge
PROPERTIES PromiseKept NothingIsOwedForGood OthersLeftAlone
