SPECIFICATION Spec
CONSTANTS
    WordMax = 99
    NodeNum = 2
    Clients = {w1, w2, r1}
    Writers = {w1, w2}
    Keys = {"1", "2b", "3"}
    Cols = {"a", "b"}
    DigitFirst = {"1", "2b", "3"}
    DigitKeys = {"1", "3"}
    XorWord <- MCWord
    Bits = 3
    Values = {2, 6}
    Bounds = {1, 6}
    FlagSets <- MCFlags
    w1 = w1
    w2 = w2
    r1 = r1
    Nil = Nil
    MaxPut = 2
    MaxFail = 1
    MaxTurn = 2
INVARIANTS TypeOK PlainComplete PlainExact IndexedFirst
ACTION_CONSTRAINTS SearchOne PutOne
SYMMETRY WriterSymmetry
