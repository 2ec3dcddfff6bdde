SPECIFICATION MCSpec
CONSTANTS
    Procs = {"p", "q"}
    Offsets = {0}
    WordNum = 2
    Data <- MCData
    VersionMod = 16
    MaxOps = 2
    MaxCrash = 1
    LateInit = FALSE
    Nil = Nil
    Users = {"p", "q"}
    None = None
    Writer = "p"
    Sizes <- MCSizes
    Keys = {9, 20, 108}
    Values = {5, 7}
    MaxCalls = 2
CHECK_DEADLOCK FALSE
INVARIANTS TypeOK NoTornRead EmptyIsEmpty StoredOnce LookupAgrees WellPlaced WalkComplete
PROPERTIES OperationsEnd
