SPECIFICATION SchedulerSpec
CONSTANTS
    Gens <- TwoGens
    Level <- TwoLevel
    Tasks <- TwoTasks
    Periodic = {"gc"}
    Delayed = {"gc"}
    Workers = {w1}
    QueueCap = 1
    External = External
    None = None
    MaxErrors = 0
    MaxRuns = 1
    MaxSubmits = 0
    Off = Off
    w1 = w1
    w2 = w2
    s1 = s1
    m1 = m1
    m2 = m2
    x = x
    cw = cw
    cc = cc
INVARIANT GeneratorsKept

