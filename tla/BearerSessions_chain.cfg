SPECIFICATION Spec
CONSTANTS
    Requests = {r1, r2}
    SessionIDs = {a1}
    Tokens = {t1, t2, t3}
    Subjects = {s1}
    RefreshLifetime = 3
    AccessLifetime = 2
    Leeway = 1
    MaxTime = 3
    None = None
SYMMETRY Symmetry
INVARIANT Consistent
INVARIANT AccessTokenWithinSession
INVARIANT ReuseEndsSession
INVARIANT RevokedNeverServed
PROPERTY RotatesOnlyLiveSession
PROPERTY SignOutEndsSession
PROPERTY StoreSpec
