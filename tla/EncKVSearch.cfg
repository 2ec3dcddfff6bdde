SPECIFICATION Spec
CONSTANTS
    WordMax = 99
    NodeNum = 2
    Clients = {"w", "r"}
    Writers = {"w"}
    Readers = {"r"}
    Keys = {1, 2, 3}
    Cols <- MCCols
    Values = {5, 7}
    FlagSets <- Pairs
    Calls = {"col", "v1", "v2", "ore", "get"}
    Nums = {2, 5}
    FirstWord <- MCWord
    XorWord <- MCWord
    Nil = Nil
    ErrorText = ErrorText
    MaxCtr = 3
    MaxFail = 0
    MaxRefuse = 0
    MaxRestart = 0
    Rewrite = TRUE
INVARIANTS TypeOK SearchComplete SearchSound HitsAreIndexed NoDoubleCount ColumnBounded GetFindsAcked
PROPERTIES ImplementsEncStore
ACTION_CONSTRAINT TwoSorts
