SPECIFICATION EvidenceSpec
CONSTANTS
    r = r
    a = a
    s = s
    n1 = n1
    n2 = n2
    n3 = n3
    k = k
    u1 = u1
    u2 = u2
    w = w
    c1 = c1
    c2 = c2
    Family <- Two
    Root = r
    Strangers <- OnlyS
    Pids <- Numbers
    Registries = {2}
    Timeless <- Nobody
    Adopted <- OnlyA
    Slow <- Nobody
    WaitOnly <- Nobody
    Closed <- Nobody
    Parents = 2
    RingSize = 2
    Threads = 2
    MaxChildren = 3
    Startup <- OneStartup
    Modules <- TwoModules
    EarlyWatcher = TRUE
    StartCores <- TwoCores
    Mortal <- OneCore
CHECK_DEADLOCK FALSE
INVARIANTS RingIsSound AuditIsHonest StartIsSound
PROPERTIES NothingStaysUndone
