SPECIFICATION Spec
CONSTANTS
    Repos <- MCRepos
    Order <- MCOrder
    NoRepo = NoRepo
    Changes <- StaysOn
    IsManifest = FALSE
    CacheWhenOff = TRUE
    WalkKinds = {"dedupe"}
    FaultOps = {}
    CacheLoss = FALSE
    MaxFaults = 0
    MaxRestarts = 0
INVARIANT NoContentLoss

