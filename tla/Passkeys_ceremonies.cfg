SPECIFICATION Spec
CONSTANTS
    Requests = {r1, r2}
    Subjects = {u1, u2}
    Tokens = {h1, h2, h3}
    Credentials = {c1}
    WithOtherMethod = {u1}
    BindsSubject = FALSE
    CeremonyLifetime = 1
    MaxCount = 1
    MaxTime = 2
    None = None
SYMMETRY Symmetry
INVARIANT CeremoniesSound
INVARIANT CountersAdvance
INVARIANT RemovedProvesNothing
