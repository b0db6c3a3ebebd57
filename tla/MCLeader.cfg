SPECIFICATION FairSpec
CONSTANTS
    p1 = p1  p2 = p2  v1 = v1  v2 = v2
    NoLock = NoLock  NoProc = NoProc
    Proc = {p1, p2}
    Version = {v1, v2}
    VersionOf <- OneEach
    Lock = {l1, l2, l3}
    MaxFail = 2
    MaxErrors = 2
    MaxCrashes = 1
    MaxChanges = 2
INVARIANTS
    LeaderTypeOK
    OneLiveLeader
    AlignedInThisTerm
PROPERTIES
    LeaderElected
    AcquireEnds
    KeepsTerms
