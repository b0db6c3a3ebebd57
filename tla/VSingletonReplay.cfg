SPECIFICATION FairSpec
CONSTANTS
    a1 = a1  a2 = a2  a3 = a3  b2 = b2  b3 = b3
    p1 = p1  p2 = p2  NoProc = NoProc
    NoBlock = NoBlock
    Proc = {p1, p2}
    Block <- Blocks
    Height <- HeightOf
    Anc <- AncOf
    MaxHeight = 3
    Root = a1
    Stored <- AllStored
    MaxNotices = 3
    MaxNew = 1
    MaxDrop = 1
    AsyncCommit = TRUE
    MaxTerms = 2
    MaxTroubles = 1
INVARIANTS
    ReplaySuccess
