SPECIFICATION Spec
CONSTANTS
    Requests = {r1, r2}
    Tokens = {t1, t2, t3, t4}
    CachedTokens = {t1}
    Subjects = {s1}
    Lifetime = 2
    AbsoluteLifetime = 4
    MaxTime = 3
    UncachedTime = 1
    CacheTTL = 2
    ExtendAfter = 1
    Extension = TRUE
    NoRecord = NoRecord
    NoToken = NoToken
SYMMETRY Symmetry
INVARIANT Consistent
INVARIANT AcceptedBeforeExpiry
INVARIANT RevokedNeverAccepted
PROPERTY RefusedOnlyIfInactive
PROPERTY StoreSpec
