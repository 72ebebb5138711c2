SPECIFICATION EndsSpec
CONSTANTS
    r = r
    a = a
    b = b
    s = s
    n1 = n1
    n2 = n2
    n3 = n3
    Family <- Three
    Root = r
    Strangers <- Nobody
    Pids <- Numbers
    Registries = {2, 3}
    Timeless <- OnlyB
    Adopted <- Nobody
    Slow <- OnlyA
    WaitOnly <- Nobody
    Closed <- OnlyA
    ROUNDS = 2
    KinRights = {"end"}
    OtherRights = {"end"}
    MaxKin = 3
    MaxOthers = 2
    MaxPeople = 4
    MaxNumbers = 3
SYMMETRY NumberSymmetry
CHECK_DEADLOCK FALSE
INVARIANTS CountsAreTrue NobodyIsForgotten SearchIsSound
