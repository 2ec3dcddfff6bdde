SPECIFICATION MCSpec
CONSTANTS
    Threads = {t, u}
    t = t
    u = u
    Servers = {"a", "b", "h"}
    Home = "h"
    IP <- MCIP
    Keys = {"l0", "l1", "t0", "t1", "junk"}
    Data = {"d", "e"}
    Label <- MCLabel
    Asked = {"t0"}
    GetNums = {2}
    Junk = "junk"
    Puts <- MCPuts
    InitStores <- MCStores
    Nil = Nil
    MaxMove = 1
    MaxFail = 1
    MaxPut = 2
CHECK_DEADLOCK FALSE
INVARIANTS TypeOK AnswerIsValue ColumnComplete PutKept
ACTION_CONSTRAINT MCStep
SYMMETRY ThreadSymmetry
