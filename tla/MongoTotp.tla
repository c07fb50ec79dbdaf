------------------------------ MODULE MongoTotp ------------------------------
(***************************************************************************)
(* The MongoDB adapter's TOTPStore, and the stores of the states that      *)
(* federated sign-ins leave behind and consume: GoogleStore, OIDCStore and *)
(* SAMLStore, which differ in the fields they keep (see                    *)
(* MongoTransactions).  The secret is an opaque value, a code the counter  *)
(* it belongs to; totp.Manager, which compares codes with secrets, is in   *)
(* module Totp.                                                            *)
(***************************************************************************)
EXTENDS MongoTransactions

CONSTANTS
    Secrets,         \* enrollment secrets
    RecoveryCodes,   \* hashes of recovery codes
    Challenges,      \* hashes of challenge tokens
    States,          \* hashes of the states of federated sign-ins
    ChallengeLifetime, EnrollmentLifetime

Enrollment(u) == <<"totp_enrollments", u>>
Totp(u) == <<"totp_credentials", u>>
Recovery(k) == <<"totp_recovery_codes", k>>
Challenge(h) == <<"totp_challenges", h>>
Flow(collection, h) == <<collection, h>>

FlowCollections == {"google_challenges", "oidc_challenges", "saml_requests"}

RecoveryOf(u) == {Recovery(k) : k \in {x \in RecoveryCodes :
                     Exists(Recovery(x)) /\ docs[Recovery(x)].user = u}}

IsEnabled(u) == Exists(Totp(u)) /\ ~docs[Totp(u)].disabled

BeginEnrollment(c) ==
    Ok(Enrollment(c.user) :> [secret |-> c.secret, expires |-> c.at + EnrollmentLifetime])

\* Enables whatever enrollment it finds, with one of the new recovery codes for all.
Enable(c) ==
    IF ~Exists(Enrollment(c.user)) THEN Refuse("not_found")
    ELSE IF c.at >= docs[Enrollment(c.user)].expires THEN Refuse("inactive_enrollment")
    ELSE Ok(Totp(c.user) :> [secret |-> docs[Enrollment(c.user)].secret, last |-> c.counter,
                             disabled |-> FALSE]
              @@ Recovery(c.code) :> [user |-> c.user, used |-> FALSE]
              @@ Erased(RecoveryOf(c.user) \cup {Enrollment(c.user)}))

\* A credential that is disabled already is not written again.
Disable(c) ==
    IF ~Exists(Totp(c.user)) THEN Refuse("not_found")
    ELSE IF IsEnabled(c.user)
      THEN Ok(Totp(c.user) :> [docs[Totp(c.user)] EXCEPT !.disabled = TRUE]
                @@ Erased(RecoveryOf(c.user)))
      ELSE Ok(Erased(RecoveryOf(c.user)))

CreateChallenge(c) ==
    IF Exists(Challenge(c.token)) THEN Refuse("conflict")
    ELSE Ok(Challenge(c.token) :> [user |-> c.user, expires |-> c.at + ChallengeLifetime,
                                   consumed |-> FALSE])

Usable(h, at) ==
    /\ Exists(Challenge(h))
    /\ ~docs[Challenge(h)].consumed /\ at < docs[Challenge(h)].expires

ConsumeChallenge(h) == Challenge(h) :> [docs[Challenge(h)] EXCEPT !.consumed = TRUE]

CompleteCode(c) ==
    LET u == docs[Challenge(c.token)].user IN
    IF ~Usable(c.token, c.at) THEN Refuse("inactive_challenge")
    ELSE IF ~IsEnabled(u) \/ c.counter <= docs[Totp(u)].last THEN Refuse("invalid_code")
    ELSE Ok(ConsumeChallenge(c.token)
              @@ Totp(u) :> [docs[Totp(u)] EXCEPT !.last = c.counter])

\* The credential is not looked at again: a disabled one has no recovery codes.
CompleteRecovery(c) ==
    LET u == docs[Challenge(c.token)].user IN
    IF ~Usable(c.token, c.at) THEN Refuse("inactive_challenge")
    ELSE IF Doc(Recovery(c.code)) # [user |-> u, used |-> FALSE] THEN Refuse("invalid_code")
    ELSE Ok(ConsumeChallenge(c.token)
              @@ Recovery(c.code) :> [docs[Recovery(c.code)] EXCEPT !.used = TRUE])

-----------------------------------------------------------------------------
\* CreateChallenge and CreateRequest: a state that exists is ErrConflict.
CreateFlow(c) ==
    IF Exists(Flow(c.collection, c.token)) THEN Refuse("conflict")
    ELSE Ok(Flow(c.collection, c.token) :> c.at)

\* ConsumeChallenge and ConsumeRequest: FindOneAndDelete; the expiry is looked at after it.
ConsumeFlow(c) ==
    IF Exists(Flow(c.collection, c.token)) THEN Ok(Erased({Flow(c.collection, c.token)}))
    ELSE Refuse("not_found")

-----------------------------------------------------------------------------
(***************************************************************************)
(* The calls.  totp.Manager has found the enrollment or the challenge and  *)
(* matched the code, whose counter is at most one period away.             *)
(***************************************************************************)

Counters == {n \in {now - 1, now, now + 1} : n >= 0}

FreshCode(k) ==
    /\ ~Exists(Recovery(k))
    /\ \A x \in Requests : req[x].call # None /\ "code" \in DOMAIN req[x].call
                             => req[x].call.code # k

\* FindEnrollment, and the manager's check of the expiry.
EnrollmentFound(u) == Exists(Enrollment(u)) /\ now < docs[Enrollment(u)].expires

\* FindChallenge: the challenge and the credential of its subject.
ChallengeFound(h) == Usable(h, now) /\ IsEnabled(docs[Challenge(h)].user)

TotpCalls(r) ==
    \/ \E u \in Subjects :
          \/ \E k \in Secrets :
                Call(r, [method |-> "beginEnrollment", user |-> u, secret |-> k, at |-> now], {})
          \/ \E n \in Counters, k \in RecoveryCodes :
                /\ EnrollmentFound(u)
                /\ FreshCode(k)
                /\ Call(r, [method |-> "enable", user |-> u, counter |-> n, code |-> k,
                            at |-> now], {})
          \/ Call(r, [method |-> "disable", user |-> u], {})
          \/ \E h \in Challenges :
                /\ IsEnabled(u)
                /\ Call(r, [method |-> "createChallenge", token |-> h, user |-> u, at |-> now], {})
    \/ \E h \in Challenges : ChallengeFound(h) /\
          \/ \E n \in Counters :
                Call(r, [method |-> "completeCode", token |-> h, counter |-> n, at |-> now], {})
          \/ \E k \in RecoveryCodes :
                Call(r, [method |-> "completeRecovery", token |-> h, code |-> k, at |-> now], {})

FlowCalls(r) ==
    \E collection \in FlowCollections, h \in States :
        \/ Call(r, [method |-> "createFlow", collection |-> collection, token |-> h, at |-> now], {})
        \/ Call(r, [method |-> "consumeFlow", collection |-> collection, token |-> h], {})

-----------------------------------------------------------------------------
\* A second factor that is disabled, or was never enabled, has no recovery codes, however
\* Enable, Disable and the redemption of a code race: CompleteRecovery relies on it.
CodesOnlyWhileEnabled == \A u \in Subjects : RecoveryOf(u) # {} => IsEnabled(u)

=============================================================================
