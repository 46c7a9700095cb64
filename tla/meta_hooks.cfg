SPECIFICATION FairSpec
CONSTANTS
    Images <- MCImages
    Tags = {"t", "u"}
    Children <- MCChildren
    Subject <- MCSubject
    SigOf <- MCSubject
    CosignTags = {}
    None = None
    Repos = {"r1", "r2"}
    Reqs = {"q1", "q2"}
    TagLists <- PairList
    MaxRepos = 1
    FastRestart = FALSE
    MaxRequests = 2
    MaxFaults = 2
    MaxRestarts = 1
CHECK_DEADLOCK FALSE
INVARIANT RecordsSound
PROPERTY AgreementKept
PROPERTY WalkRepairs
PROPERTY RequestsEnd
