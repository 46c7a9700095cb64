SPECIFICATION MCSpec
CONSTANTS
    Gens <- MCGens
    Level <- MCLevel
    Tasks <- FewTasks
    Periodic = {"gc"}
    Delayed = {"gc"}
    Workers = {w1, w2}
    QueueCap = 1
    External = External
    None = None
    MaxErrors = 0
    MaxRuns = 1
    MaxSubmits = 1
    Off = Off
    w1 = w1
    w2 = w2
    s1 = s1
    m1 = m1
    m2 = m2
    x = x
    cw = cw
    cc = cc
SYMMETRY MCSymmetry
CHECK_DEADLOCK FALSE
INVARIANT TasksConserved
INVARIANT NeverBlocks
INVARIANT ShutdownClean
PROPERTY GeneratorsTraced
INVARIANT RestoreSound
INVARIANT MetricsSound
INVARIANT ScansSound
