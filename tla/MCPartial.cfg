SPECIFICATION Spec
CONSTANTS
    a1 = a1  a2 = a2  a3 = a3  b1 = b1  b2 = b2  b3 = b3  c3 = c3
    NoBlock = NoBlock
    Block <- TwoBranchesBlocks
    Height <- TwoBranchesHeight
    Anc <- TwoBranchesAnc
    MaxHeight = 3
    MaxMsgs = 3
    MaxNew = 2
    MaxDrop = 2
    Modes = {"continuous"}
    AsyncCommit = FALSE
    AckLoss = TRUE
    MaxFails = 1
    MaxCrashes = 1
    MaxRebalances = 0
    MaxRebuilds = 1
    BatchSize = 2
INVARIANTS
    OuterContiguous
    NoLostNotice
    Coverage
