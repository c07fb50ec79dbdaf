SPECIFICATION SignInSpec
CONSTANTS
    Requests = {r1, r2}
    Passwords = {p1, p2}
    Providers = {g1}
    Keys = {k1}
    Tokens = {t1}
    Sessions = {s1, s2}
    TokenLifetime = 1
    MaxHashes = 3
    MaxTime = 1
    None = None
SYMMETRY Symmetry
INVARIANT SignInConsistent
INVARIANT NeverLockedOut
INVARIANT MailedTokenOnce
INVARIANT AnsweredRevocationComplete
PROPERTY RehashKeepsPassword
