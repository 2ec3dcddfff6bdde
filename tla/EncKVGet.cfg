SPECIFICATION Spec
CONSTANTS
    WordMax = 99
    NodeNum = 2
    Clients = {"w", "r"}
    Writers = {"w"}
    Readers = {"r"}
    Keys = {1, 2}
    Cols <- MCCols
    Values = {5, 7}
    FlagSets <- V1Only
    Calls = {"get"}
    Nums = {}
    FirstWord <- MCOtherWord
    XorWord <- MCWord
    Nil = Nil
    ErrorText = ErrorText
    MaxCtr = 3
    MaxFail = 0
    MaxRefuse = 0
    MaxRestart = 0
    Rewrite = FALSE
INVARIANTS GetFindsAcked
