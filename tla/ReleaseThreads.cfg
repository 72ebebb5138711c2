SPECIFICATION Spec
CONSTANTS
    p1 = p1
    p2 = p2
    t1 = t1
    t2 = t2
    Procs <- OneProc
    Threads <- TwoThreads
    ProcOf <- InOneProc
    Rates <- Fast
    Margin = 1
    Killed = TRUE
    ReclaimOvertakes = FALSE
    StartTries = 2
    MaxFailures = 0
    I64_MAX = 6
    FAKE_WALL_MAX = 6
    TICKS_PER_MS = 2
    MaxNow = 3
    MaxSeq = 2
SYMMETRY ThreadSymmetry
INVARIANTS DurationsGoOn
