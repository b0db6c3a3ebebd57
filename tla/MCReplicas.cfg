SPECIFICATION FairSpec
CONSTANTS
    r1 = r1  r2 = r2
    NoNode = NoNode
    Replica = {r1, r2}
    Leased = {r1}
    MaxHeight = 1
    RatioNum = 1
    RatioDen = 2
    MaxCalls = 2
    MaxLag = 1
    MaxOutages = 1  MaxErrors = 1
INVARIANTS
    TypeOK
    ReadyWhenTrue
    LastBlockPublished
CHECK_DEADLOCK FALSE
PROPERTIES
    MapConverges
    NoticeGetsThrough
