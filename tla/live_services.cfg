SPECIFICATION MCFairSpec
CONSTANTS
    Gens <- TwoGens
    Level <- TwoLevel
    Tasks <- TwoTasks
    Periodic = {"gc"}
    Delayed = {"gc"}
    Workers = {"w1"}
    QueueCap = 1
    External = External
    None = None
    MaxErrors = 1
    MaxRuns = 1
    MaxSubmits = 0
    Off = Off
    NoPath = NoPath
    q = q
    pth = pth
    m1 = m1
    m2 = m2
    x = x
CHECK_DEADLOCK FALSE
PROPERTY NobodyWaits
PROPERTY Settles
