SPECIFICATION TotpSpec
CONSTANTS
    Calls = {r1, r2}
    Secrets = {k1, k2}
    Challenges = {h1, h2}
    RecoveryCodeCount = 1
    EnrollmentLifetime = 2
    ChallengeLifetime = 1
    MaxPeriod = 3
    NoRow = NoRow
SYMMETRY Symmetry
INVARIANT Consistent
INVARIANT CodesOnce
INVARIANT AbandonedNeverEnabled
PROPERTY DisabledProvesNothing
