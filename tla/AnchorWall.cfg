SPECIFICATION HookSpec
CONSTANTS
    r1 = r1
    r2 = r2
    Readers <- TwoReaders
    Channels <- WallOnly
    Rates <- FrozenAndFast
    JumpTargets <- MCJumpTargets
    JumpShifts <- MCJumpShifts
    I64_MAX = 13
    FAKE_WALL_MAX = 12
    TICKS_PER_MS = 2
    WallStart = 3
    MaxNow = 3
    MaxSeq = 4
    WriterMayStall = FALSE
    WaitRates = {0, 3}
    FakeNows = {8}
    Milliseconds = {7, 15}
    Delays <- TheDelays
    TimerArgs <- TheTimerArgs
    Elapses = {4, 40}
    INFINITE_MS = 15
    USER_TIMER_MINIMUM_MS = 3
    MaxNested = 2
SYMMETRY ReaderSymmetry
INVARIANTS TypeOK NeverRunsBack DetoursAreTransparent
