SPECIFICATION Spec
CONSTANTS
    a1 = a1  a2 = a2  a3 = a3  b1 = b1  b2 = b2  b3 = b3  c3 = c3
    NoBlock = NoBlock
    Block <- ShortRivalBlocks
    Height <- ShortRivalHeight
    Anc <- ShortRivalAnc
    MaxHeight = 3
    MaxMsgs = 4
    MaxNew = 1
    MaxDrop = 3
    Modes = {"window"}
    AsyncCommit = FALSE
    AckLoss = FALSE
    MaxFails = 0
    MaxCrashes = 1
    MaxRebalances = 0
    MaxRebuilds = 1
    BatchSize = 2
INVARIANTS
    IndexFollowsOuter
