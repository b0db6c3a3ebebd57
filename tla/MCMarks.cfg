SPECIFICATION FairSpec
CONSTANTS
    a1 = a1  a2 = a2  b2 = b2  a3 = a3
    NoBlock = NoBlock
    Block <- Blocks
    MaxHeight = 3
    Height <- BlockHeight
    Anc <- Ancestors
    Root = a1
    Lookback = 2
    MaxNotices = 3
    MaxNew = 2
    MaxDrop = 1
    MaxFaults = 2
INVARIANTS
    TypeOK
    KnownRightlyMarked
PROPERTIES
    ScanPutsAgree
    MarksSettle
