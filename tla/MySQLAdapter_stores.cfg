SPECIFICATION Spec
CONSTANTS
    Requests = {r1, r2}
    Users = {u1, u2}
    Subjects = {s1}
    MaxTime = 1
    None = None
    SessionTokens = {t1, t2, t3}
    Tokens = {t1, t2, t3}
    SessionIDs = {h1, h2}
    Lifetime = 2
    Extension = TRUE
    AbsoluteLifetime = 3
    RefreshLifetime = 1
    Emails = {e1}
    Hashes = {x1, x2}
    Identities = {x1, x2}
    Credentials = {c1}
    MailTokens = {m1, m2}
    Ceremonies = {c1}
    Secrets = {x1, x2}
    RecoveryCodes = {t1, t2, t3}
    Challenges = {h1, h2}
    ChallengeLifetime = 1
    EnrollmentLifetime = 1
    States = {h1, h2}
SYMMETRY Symmetry
INVARIANT Consistent
PROPERTY DecisionsStillHold
PROPERTY PromisesKept
