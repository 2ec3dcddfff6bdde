SPECIFICATION Spec
CONSTANTS
    WordMax = 99
    NodeNum = 2
    Clients = {"w", "r"}
    Writers = {"w"}
    Readers = {"r"}
    Keys = {1, 2, 3}
    Cols <- MCCols
    Values = {5, 7}
    FlagSets <- V1Only
    Calls = {"v1"}
    Nums = {}
    FirstWord <- MCWord
    XorWord <- MCWord
    Nil = Nil
    ErrorText = ErrorText
    MaxCtr = 3
    MaxFail = 1
    MaxRefuse = 0
    MaxRestart = 0
    Rewrite = FALSE
INVARIANTS SearchComplete
