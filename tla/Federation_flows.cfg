SPECIFICATION FlowSpec
CONSTANTS
    Redirects = {r1, r2}
    States = {s1, s2}
    Nonces = {n1, n2}
    OIDC = {}
    SAML = {m1}
    Google = google
    Configurations = {open, strict}
    RequiringEmail = {strict}
    CertificateTimes = {0, 1}
    Lifetime = 2
    MaxFlowTime = 2
    Absent = Absent
SYMMETRY Symmetry
INVARIANT FlowsConsistent
INVARIANT AnswerSpent
INVARIANT TermsKept
