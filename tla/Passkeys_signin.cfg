SPECIFICATION Spec
CONSTANTS
    Requests = {r1, r2}
    Subjects = {u1}
    Tokens = {h1, h2, h3}
    Credentials = {c1}
    WithOtherMethod = {u1}
    BindsSubject = TRUE
    CeremonyLifetime = 1
    MaxCount = 1
    MaxTime = 2
    None = None
SYMMETRY Symmetry
PROPERTY OpenCeremonyAccepted
