SPECIFICATION FairSpec
CONSTANTS
    Txs = {x1, x2}
    Requests = {r1, r2}
    SessionTokens = {c1, c2, c3}
    SessionSubjects = {s1}
    Tokens = {t1, t2, t3}
    SessionIDs = {a1}
    Emails = {u1, u2}
    Subjects = {g1, g2}
    Lifetime = 1
    Extension = TRUE
    AbsoluteLifetime = 2
    MaxTime = 1
    None = None
SYMMETRY Symmetry
INVARIANT Consistent
INVARIANT RevokedBeforeAnswer
PROPERTY SignInNeverLinks
PROPERTY TransactionsProceed
