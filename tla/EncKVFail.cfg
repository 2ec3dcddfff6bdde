SPECIFICATION Spec
CONSTANTS
    WordMax = 99
    NodeNum = 2
    Clients = {"w", "r"}
    Writers = {"w"}
    Readers = {}
    Keys = {1, 3}
    Cols <- MCCols
    Values = {5, 7}
    FlagSets <- V2OrNone
    Calls = {}
    Nums = {}
    FirstWord <- MCWord
    XorWord <- MCWord
    Nil = Nil
    ErrorText = ErrorText
    MaxCtr = 2
    MaxFail = 2
    MaxRefuse = 2
    MaxRestart = 0
    Rewrite = TRUE
INVARIANTS CountersMatchIndex VisibleIsIndexed AckedStaysStored
PROPERTIES AppendOnly
CONSTRAINT TwoFaults
ACTION_CONSTRAINT OnePutOfThree
