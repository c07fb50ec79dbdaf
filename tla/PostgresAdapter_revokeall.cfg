SPECIFICATION Spec
CONSTANTS
    Txs = {x1, x2}
    Requests = {r1}
    SessionTokens = {c1, c2}
    SessionSubjects = {s1}
    Tokens = {t1}
    SessionIDs = {a1}
    Emails = {u1}
    Subjects = {g1}
    Lifetime = 1
    Extension = FALSE
    AbsoluteLifetime = 2
    MaxTime = 0
    None = None
PROPERTY RevokeAllComplete
