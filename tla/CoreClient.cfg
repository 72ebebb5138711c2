SPECIFICATION ClientsSpec
CONSTANTS
    Lines = {"verdict", "start_error"}
    Callers = {"stop", "driver"}
    PipeRoom = 1
    ChannelRoom = 1
    IdleLimit = 1
    MaxEvents = 4
    MaxNoise = 1
    QueueRoom = 1
    Timeout = 2
    ScratchNames = 2
CHECK_DEADLOCK FALSE
INVARIANTS ClientIsSound RunIsHonest
PROPERTIES CutsAreJust ClientsGoOn
