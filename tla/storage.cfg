SPECIFICATION MCSpec
CONSTANTS
    Repos <- MCRepos
    Order <- MCOrder
    NoRepo = NoRepo
    Changes <- Toggled
    IsManifest = FALSE
    CacheWhenOff = TRUE
    WalkKinds = {"dedupe", "restore"}
    FaultOps = {"upload", "check", "delete", "walk", "marker"}
    CacheLoss = TRUE
    MaxFaults = 1
    MaxRestarts = 1
    Off = Off
    None = None
    Dead = Dead
    c1 = c1
    c2 = c2
    p1 = p1
    p2 = p2
    p3 = p3
    a = a
    b = b
    ix = ix
    o = o
    ca = ca
    cb = cb
    la = la
    lb = lb
CONSTRAINT Unsevered
SYMMETRY MCSymmetry
CHECK_DEADLOCK FALSE
INVARIANT PromisesKept
INVARIANT LastCopyKept
PROPERTY CacheSound
INVARIANT ScrubSound
INVARIANT TrustSound
