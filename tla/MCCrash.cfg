SPECIFICATION FairSpec
CONSTANTS
    a1 = a1  a2 = a2  a3 = a3  b1 = b1  b2 = b2  b3 = b3  c3 = c3
    NoBlock = NoBlock
    Block <- TwoBranchesBlocks
    Height <- TwoBranchesHeight
    Anc <- TwoBranchesAnc
    MaxHeight = 3
    MaxMsgs = 4
    MaxNew = 1
    MaxDrop = 1
    Modes = {"continuous"}
    AsyncCommit = FALSE
    AckLoss = TRUE
    MaxFails = 1
    MaxCrashes = 1
    MaxRebalances = 0
    MaxRebuilds = 0
    BatchSize = 2
INVARIANTS
    TypeOK
    IndexFollowsOuter
    IndInv
    CheckpointBeforeCommit
    Coverage
PROPERTIES
    AcceptedScansAreFresh
    RipeBeforeScan
    ScannedIsPublished
    EveryNoticeCommitted
    BacklogDrains
