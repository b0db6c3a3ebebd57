SPECIFICATION FairSpec
CONSTANTS
    a1 = a1  a2 = a2  a3 = a3  b1 = b1  b2 = b2  b3 = b3  c3 = c3
    NoBlock = NoBlock
    Block <- TwoBranchesBlocks
    Height <- TwoBranchesHeight
    Anc <- TwoBranchesAnc
    MaxHeight = 3
    MaxMsgs = 2
    MaxNew = 2
    MaxDrop = 1
    Modes = {"continuous"}
    AsyncCommit = FALSE
    AckLoss = FALSE
    MaxFails = 1
    MaxCrashes = 0
    MaxRebalances = 0
    MaxRebuilds = 0
    BatchSize = 2
PROPERTIES
    EveryNoticeCommitted
