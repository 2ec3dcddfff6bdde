SPECIFICATION MCSpec
CONSTANTS
    Width = 2
    HalfXor <- MCXor
    NBlocks = 2
    Weight <- MCWeight
    PrpKeys <- MCKeys
    OldKeys <- MCOldKeys
    MaskEnds <- MCWideMask
    PassedQueries <- MCQueries
    PassedEntries <- MCEntries
    Cols = {Age, Score}
    Rows = {0, 1}
    Nil = Nil
SYMMETRY ColSymmetry
INVARIANTS OnlyTheRelation
