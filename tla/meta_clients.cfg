SPECIFICATION Spec
CONSTANTS
    Images <- MCImages
    Tags = {"t"}
    Children <- MCChildren
    Subject <- NoSubject
    SigOf <- MCSigOf
    CosignTags = {"s"}
    None = None
    Repos = {"r"}
    Users = {"u1", "u2"}
    Groups = {"dev"}
    Keys = {"k"}
    Owner <- MCOwner
    Clients = {c1, c2}
    Backends = {"bolt", "redis", "dynamo"}
    Workloads <- MCLoads
    MaxFaults = 1
SYMMETRY Symmetry
CHECK_DEADLOCK FALSE
INVARIANT ClientsSound
PROPERTY ImplementsAtomic
