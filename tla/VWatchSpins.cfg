SPECIFICATION Spec
CONSTANTS
    p1 = p1  p2 = p2  v1 = v1  v2 = v2
    NoLock = NoLock  NoProc = NoProc
    Proc = {p1, p2}
    Version = {v1, v2}
    VersionOf <- OneEach
    Lock = {l1, l2, l3}
    MaxFail = 2
    MaxErrors = 0
    MaxCrashes = 0
    MaxChanges = 1
PROPERTIES
    WaitsForRelease
