SPECIFICATION MCSpec
CONSTANTS
    Reqs = {q1, q2}
    Sessions = {s1, s2}
    Bytes = {x, y}
    Bodies <- MCBodies
    MaxSize = 2
    Dedupe = TRUE
    MaxRequests = 3
    None = None
    Off = Off
    q1 = q1
    q2 = q2
    s1 = s1
    s2 = s2
    x = x
    y = y
    i = i
    n = n
    ch = ch
    m = m
    kt = kt
    Periodic = Periodic
    Tag = Tag
SYMMETRY MCSymmetry
CHECK_DEADLOCK FALSE
INVARIANT BlobsSound
INVARIANT ResumeSound
PROPERTY SyncSound
