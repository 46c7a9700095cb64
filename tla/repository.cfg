SPECIFICATION MCSpec
CONSTANTS
    Blobs = {"b1"}
    Images <- SignedImages
    Indexes <- OneIndex
    Refs <- SignedRefs
    Children <- IndexChildren
    Subject <- SignedSubject
    Validated <- SignedImages
    Tags = {"v1", "v2"}
    NoTag = NoTag
    CosignSubject <- CosignTag
    None = None
    Uploads = {"u1"}
    Dedupe = TRUE
    Remote = FALSE
    Retained = {"v1"}
    KeepUntagged = {}
    DeleteReferrers = TRUE
    DeleteUntagged = TRUE
    GCDelay = 1
    RetentionDelay = 1
    MaxAge = 1
    MaxFailures = 1
    Off = Off
    main = main
    sub = sub
    t1 = t1
    t2 = t2
    d1 = d1
    d2 = d2
    d3 = d3
    r1 = r1
    r2 = r2
    ia = ia
    ib = ib
    ix = ix
    la = la
    lb = lb
    amd = amd
    arm = arm
CHECK_DEADLOCK FALSE
INVARIANT RowsBacked
INVARIANT LayoutSound
PROPERTY GCKeepsTags
PROPERTY GCKeepsChildren
PROPERTY GracePeriod
PROPERTY RetentionSound
INVARIANT AnswersSound
INVARIANT ConversionExact
