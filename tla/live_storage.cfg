SPECIFICATION MCFairSpec
CONSTANTS
    Repos <- MCRepos
    Order <- MCOrder
    NoRepo = NoRepo
    Changes <- Toggled
    IsManifest = FALSE
    CacheWhenOff = TRUE
    WalkKinds = {"dedupe"}
    FaultOps = {"upload", "check", "delete", "walk"}
    CacheLoss = TRUE
    MaxFaults = 2
    MaxRestarts = 2
    Off = Off
    None = None
    NoTag = NoTag
CHECK_DEADLOCK FALSE
INVARIANT GateSound
INVARIANT StoredOnce
PROPERTY GarbageCollected
PROPERTY PassesEnd
