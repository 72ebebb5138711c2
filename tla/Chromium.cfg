SPECIFICATION ChromiumSpec
CONSTANTS
    RateMoves = {1}
    MaxMoves = 2
    MaxLoads = 1
    MaxSessions = 1
    MayBreak = TRUE
    MoveRates = {0, 3}
    MoveTargets = {1, 6}
    RATE_CHANGE_DELAY = 2
    DRIFT = 1
    WALL_MAX = 9
    Corrections <- BackAndForth
    LastInstant = 3
    MaxCommands = 2
    MaxShifts = 1
    INBOX = 1
    MAX_WS_PARTS = 2
    WireRoom = 1
    MaxMessages = 2
    MaxPings = 1
    MaxSends = 1
    MAX_QUEUED_EVENTS = 1
    CALL_TICKS = 1
    MaxTargets = 3
    MaxCalls = 2
    PORT_WAIT = 2
    GRACE = 1
    ATTEMPTS = 2
    HANDOFF_MARGIN = 1
CHECK_DEADLOCK FALSE
INVARIANTS SoundContext SoundPages SoundConnection SoundLaunch
PROPERTIES NothingPutBack ClockForward EveryWaitEnds
