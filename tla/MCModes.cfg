SPECIFICATION Spec
CONSTANTS
    a1 = a1  a2 = a2  a3 = a3  b1 = b1  b2 = b2  b3 = b3  c3 = c3
    NoBlock = NoBlock
    Block <- RivalsBlocks
    Height <- RivalsHeight
    Anc <- RivalsAnc
    MaxHeight = 2
    MaxMsgs = 4
    MaxNew = 1
    MaxDrop = 2
    Modes = {"continuous", "window"}
    AsyncCommit = FALSE
    AckLoss = FALSE
    MaxFails = 0
    MaxCrashes = 2
    MaxRebalances = 1
    MaxRebuilds = 0
    BatchSize = 2
INVARIANTS
    NoLostNotice
PROPERTIES
    ScannedIsPublished
