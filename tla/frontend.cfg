SPECIFICATION MCSpec
CONSTANTS
    Holders = {r2}
    Repos = {r1, r2}
    Patterns = {pAll, p1, p2}
    PatternLen <- MCPatternLen
    PatternMatches <- MCPatternMatches
    CondTrue <- MCCondTrue
    CondFails <- MCCondFails
    Anonymous = Anonymous
    Slots = {q1, q2}
    Mixes <- MCMixes
    Users = {a, b, e}
    Tags = {t1, t2}
    Digest = Digest
    BadTag = BadTag
    HtUsers = {a, e}
    LdapUsers = {b}
    LdapGroups <- MCGroups
    OidcGroups <- MCGroups
    TokenScope <- MCScope
    Keys = {akey}
    KeyOwner <- MCKeyOwner
    Sids = {x1, x2}
    States = {st1}
    None = None
    MaxFaults = 1
    MaxRequests = 2
    Off = Off
    NoPath = NoPath
    a = a
    b = b
    e = e
    grp = grp
    r1 = r1
    r2 = r2
    pAll = pAll
    p1 = p1
    p2 = p2
    t1 = t1
    t2 = t2
    cond = cond
    akey = akey
    st1 = st1
    st2 = st2
    q1 = q1
    q2 = q2
    x1 = x1
    x2 = x2
SYMMETRY MCSymmetry
CHECK_DEADLOCK FALSE
INVARIANT AccessSound
INVARIANT WatchersSound
INVARIANT LifecycleSound
 
INVARIANT ClientSound
