------------------------------ MODULE MySQLTotp ------------------------------
(***************************************************************************)
(* The MySQL adapter's TOTPStore, and the stores of the states that        *)
(* federated sign-ins leave behind and consume: GoogleStore, OIDCStore and *)
(* SAMLStore, which differ in the columns they keep (see                   *)
(* MySQLTransactions).  The secret is an opaque value, a code the counter  *)
(* it belongs to; totp.Manager, which compares codes with secrets, is in   *)
(* module Totp.                                                            *)
(***************************************************************************)
EXTENDS MySQLTransactions

CONSTANTS
    Secrets,         \* enrollment secrets
    RecoveryCodes,   \* hashes of recovery codes
    Challenges,      \* hashes of challenge tokens
    States,          \* hashes of the states of federated sign-ins
    ChallengeLifetime, EnrollmentLifetime

Enrollment(u) == <<"totp_enrollments", u>>
Totp(u) == <<"totp_credentials", u>>
Recovery(k) == <<"totp_recovery_codes", k>>
Challenge(h) == <<"totp_challenges", h>>
Flow(table, h) == <<table, h>>

FlowTables == {"google_challenges", "oidc_challenges", "saml_requests"}

RecoveryOf(u) == {Recovery(k) : k \in {x \in RecoveryCodes :
                     Exists(Recovery(x)) /\ rows[Recovery(x)].user = u}}

IsEnabled(u) == Exists(Totp(u)) /\ ~rows[Totp(u)].disabled

BeginEnrollment(c) ==
    Method({}, "ok",
        Statements(<<>>, Enrollment(c.user) :> [secret |-> c.secret,
                                                expires |-> c.at + EnrollmentLifetime]))

\* Enables the enrollment it finds, with one of the new recovery codes for all.
Enable(c) ==
    LET e == Row(Enrollment(c.user)) IN
    Method({Enrollment(c.user)},
        IF e = None THEN "not_found"
        ELSE IF c.at >= e.expires THEN "inactive_enrollment" ELSE "ok",
        Statements(<<>>,
            Totp(c.user) :> [secret |-> IF e = None THEN None ELSE e.secret, last |-> c.counter,
                             disabled |-> FALSE]
              @@ Recovery(c.code) :> [user |-> c.user, used |-> FALSE]
              @@ Erased(RecoveryOf(c.user) \cup {Enrollment(c.user)})))

\* A credential that is disabled already is not changed by the UPDATE: no row is affected.
Disable(c) ==
    Method({}, IF IsEnabled(c.user) THEN "ok" ELSE "not_found",
        Statements(<<>>, [d \in {e \in {Totp(c.user)} : Exists(e)} |->
                            [rows[d] EXCEPT !.disabled = TRUE]]
                           @@ Erased(RecoveryOf(c.user))))

CreateChallenge(c) ==
    Method({}, "ok",
        Statements(Challenge(c.token) :> [user |-> c.user, expires |-> c.at + ChallengeLifetime,
                                          consumed |-> FALSE], <<>>))

Usable(h, at) ==
    /\ Exists(Challenge(h))
    /\ ~rows[Challenge(h)].consumed /\ at < rows[Challenge(h)].expires

\* consumeTOTPChallenge
ConsumeChallenge(h) == Challenge(h) :> [rows[Challenge(h)] EXCEPT !.consumed = TRUE]

CompleteCode(c) ==
    LET u == rows[Challenge(c.token)].user
        fresh == IsEnabled(u) /\ rows[Totp(u)].last < c.counter
    IN
    Method({},
        IF ~Usable(c.token, c.at) THEN "inactive_challenge"
        ELSE IF ~fresh THEN "invalid_code" ELSE "ok",
        Statements(<<>>, ConsumeChallenge(c.token)
                           @@ [d \in {Totp(u)} |-> [rows[d] EXCEPT !.last = c.counter]]))

\* The credential is not looked at again: a disabled one has no recovery codes.
CompleteRecovery(c) ==
    LET u == rows[Challenge(c.token)].user IN
    Method({},
        IF ~Usable(c.token, c.at) THEN "inactive_challenge"
        ELSE IF Row(Recovery(c.code)) # [user |-> u, used |-> FALSE] THEN "invalid_code"
        ELSE "ok",
        Statements(<<>>, ConsumeChallenge(c.token)
                           @@ [d \in {e \in {Recovery(c.code)} : Exists(e)} |->
                                 [rows[d] EXCEPT !.used = TRUE]]))

-----------------------------------------------------------------------------
\* CreateChallenge and CreateRequest: a state that exists is ErrConflict.
CreateFlow(c) == Method({}, "ok", Statements(Flow(c.table, c.token) :> c.at, <<>>))

\* ConsumeChallenge and ConsumeRequest: the row is read, deleted, and its expiry looked at
\* after the commit.
ConsumeFlow(c) ==
    LET flow == Flow(c.table, c.token) IN
    Method({flow}, IF Exists(flow) THEN "ok" ELSE "not_found",
        Statements(<<>>, Erased({flow})))

-----------------------------------------------------------------------------
(***************************************************************************)
(* The calls.  totp.Manager has found the enrollment or the challenge and  *)
(* matched the code, whose counter is at most one period away.             *)
(***************************************************************************)

Counters == {n \in {now - 1, now, now + 1} : n >= 0}

FreshCode(k) ==
    /\ ~Exists(Recovery(k))
    /\ \A x \in Requests : req[x].call # None /\ "code" \in DOMAIN req[x].call
                             => req[x].call.code # k

\* FindEnrollment, and the manager's check of the expiry.
EnrollmentFound(u) == Exists(Enrollment(u)) /\ now < rows[Enrollment(u)].expires

\* FindChallenge: the challenge and the credential of its subject.
ChallengeFound(h) == Usable(h, now) /\ IsEnabled(rows[Challenge(h)].user)

TotpCalls(r) ==
    \/ \E u \in Subjects :
          \/ \E k \in Secrets :
                Call(r, [method |-> "beginEnrollment", user |-> u, secret |-> k, at |-> now])
          \/ \E n \in Counters, k \in RecoveryCodes :
                /\ EnrollmentFound(u)
                /\ FreshCode(k)
                /\ Call(r, [method |-> "enable", user |-> u, counter |-> n, code |-> k, at |-> now])
          \/ Call(r, [method |-> "disable", user |-> u])
          \/ \E h \in Challenges :
                /\ IsEnabled(u)
                /\ Call(r, [method |-> "createChallenge", token |-> h, user |-> u, at |-> now])
    \/ \E h \in Challenges : ChallengeFound(h) /\
          \/ \E n \in Counters :
                Call(r, [method |-> "completeCode", token |-> h, counter |-> n, at |-> now])
          \/ \E k \in RecoveryCodes :
                Call(r, [method |-> "completeRecovery", token |-> h, code |-> k, at |-> now])

FlowCalls(r) ==
    \E table \in FlowTables, h \in States :
        \/ Call(r, [method |-> "createFlow", table |-> table, token |-> h, at |-> now])
        \/ Call(r, [method |-> "consumeFlow", table |-> table, token |-> h])

-----------------------------------------------------------------------------
\* A second factor that is disabled, or was never enabled, has no recovery codes, however
\* Enable, Disable and the redemption of a code race: CompleteRecovery relies on it.
CodesOnlyWhileEnabled == \A u \in Subjects : RecoveryOf(u) # {} => IsEnabled(u)

=============================================================================
