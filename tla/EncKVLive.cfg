SPECIFICATION FairSpec
CONSTANTS
    WordMax = 99
    NodeNum = 2
    Clients = {"w", "r"}
    Writers = {"w"}
    Readers = {"r"}
    Keys = {1, 2}
    Cols <- MCCols
    Values = {5}
    FlagSets <- Each
    Calls = {"col", "v1", "v2", "ore", "get"}
    Nums = {5}
    FirstWord <- MCWord
    XorWord <- MCWord
    Nil = Nil
    ErrorText = ErrorText
    MaxCtr = 2
    MaxFail = 1
    MaxRefuse = 2
    MaxRestart = 1
    Rewrite = FALSE
INVARIANTS EntriesWellPlaced
PROPERTIES QueryTerminates
ACTION_CONSTRAINTS OnlyGetsRefused OneDirection SecondPutsOne
CONSTRAINTS TwoFaults OneSortOfFault
