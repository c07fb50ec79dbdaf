SPECIFICATION AdapterSpec
CONSTANTS
    Requests = {r1, r2}
    Users = {u1}
    Emails = {e1}
    Hashes = {x1, x2}
    Identities = {x1, x2}
    Credentials = {c1}
    MailTokens = {m1}
    WatchAttempts = 2
    None = None
    Tokens = {t1, t2, t3}
    SessionTokens = {x1, x2}
    SessionIDs = {a1}
    Lifetime = 2
    Extension = TRUE
    AbsoluteLifetime = 3
    RefreshLifetime = 1
    MaxTime = 1
    Secrets = {c1}
    RecoveryCodes = {x1, x2}
    Challenges = {c1}
    ChallengeLifetime = 1
    EnrollmentLifetime = 1
    States = {c1}
SYMMETRY Symmetry
INVARIANT AdapterConsistent
PROPERTY AdapterDecisionsStillHold
PROPERTY PromisesKept
