SPECIFICATION QuerySpec
CONSTANTS
    a1 = a1  a2 = a2  a3 = a3  b1 = b1  b2 = b2  b3 = b3  c3 = c3
    NoBlock = NoBlock
    Block <- RivalsBlocks
    Height <- RivalsHeight
    Anc <- RivalsAnc
    MaxHeight = 2
    MaxMsgs = 3
    MaxNew = 1
    MaxDrop = 2
    Modes = {"window"}
    AsyncCommit = TRUE
    AckLoss = FALSE
    MaxFails = 0
    MaxCrashes = 0
    MaxRebalances = 1
    MaxRebuilds = 0
    BatchSize = 2
INVARIANTS
    QueryTypeOK
    OuterContiguous
    NoLostNotice
    LatestIsTip
    AnswersWereTrue
