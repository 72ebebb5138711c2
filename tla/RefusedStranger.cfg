SPECIFICATION EndSpec
CONSTANTS
    ROUNDS = 2
    KinRights = {"end", "ask"}
    OtherRights = {"end"}
    MaxKin = 3
    MaxOthers = 2
    MaxPeople = 4
    MaxNumbers = 3
CHECK_DEADLOCK FALSE
INVARIANTS OnlyTheApplication
