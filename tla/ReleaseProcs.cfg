SPECIFICATION Spec
CONSTANTS
    p1 = p1
    p2 = p2
    t1 = t1
    t2 = t2
    Procs <- TwoProcs
    Threads <- TwoThreads
    ProcOf <- OneEach
    Rates <- Fast
    Margin = 1
    Killed = FALSE
    ReclaimOvertakes = FALSE
    StartTries = 2
    MaxFailures = 0
    I64_MAX = 40
    FAKE_WALL_MAX = 12
    TICKS_PER_MS = 2
    MaxNow = 2
    MaxSeq = 2
SYMMETRY ProcessSymmetry
INVARIANTS OneLineAfterTheEnd
