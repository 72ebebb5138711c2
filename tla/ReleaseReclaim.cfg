SPECIFICATION FairSpec
CONSTANTS
    p1 = p1
    p2 = p2
    t1 = t1
    t2 = t2
    Procs <- OneProc
    Threads <- OneThread
    ProcOf <- AloneInProc
    Rates <- Fast
    Margin = 1
    Killed = TRUE
    ReclaimOvertakes = TRUE
    StartTries = 2
    MaxFailures = 2
    I64_MAX = 40
    FAKE_WALL_MAX = 12
    TICKS_PER_MS = 2
    MaxNow = 2
    MaxSeq = 4
INVARIANTS NeverAnothersTime
PROPERTIES NobodyIsHeld
