SPECIFICATION Spec
CONSTANTS
    Blobs <- OneBlob
    Images <- PlainImages
    Indexes <- PlainIndexes
    Refs <- PlainRefs
    Children <- PlainChildren
    Subject <- PlainSubject
    Validated <- PlainImages
    Tags <- OneTag
    NoTag = NoTag
    CosignSubject <- NoCosign
    None = None
    Uploads <- OneUpload
    Dedupe = FALSE
    Remote = FALSE
    Retained <- OneTag
    KeepUntagged = {}
    DeleteReferrers = TRUE
    DeleteUntagged = TRUE
    GCDelay = 1
    RetentionDelay = 1
    MaxAge = 1
    MaxFailures = 0
INVARIANT GCFixpoint

