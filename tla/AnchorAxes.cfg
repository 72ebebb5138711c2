SPECIFICATION FairSpec
CONSTANTS
    r1 = r1
    r2 = r2
    Readers <- OneReader
    Channels <- Duration
    Rates <- FrozenAndFast
    JumpTargets <- OneTarget
    JumpShifts <- NoJumps
    I64_MAX = 6
    FAKE_WALL_MAX = 6
    TICKS_PER_MS = 2
    WallStart = 3
    MaxNow = 2
    MaxSeq = 4
    WriterMayStall = FALSE
PROPERTIES DurationsAreTheSession EveryCallReturns
