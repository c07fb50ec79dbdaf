-------------------------------- MODULE Totp --------------------------------
(***************************************************************************)
(* totp.Manager and its store for one subject: enrolling an authenticator, *)
(* confirming it, and completing sign-in challenges with its codes or with *)
(* recovery codes.                                                         *)
(*                                                                         *)
(* Time advances in TOTP periods.  A six-digit code is modelled by the     *)
(* secret and the counter it was computed from; two different pairs are    *)
(* taken to give different codes.  Every store method is one transaction   *)
(* and one step; requests interleave between them, and a transaction may   *)
(* fail with or without having taken effect.  A request that is refused by *)
(* what it looks up first has no effect and is left out.                   *)
(***************************************************************************)
EXTENDS Integers

CONSTANTS
    Calls,
    Secrets,             \* enrollment secrets, each generated once
    Challenges,          \* challenge token hashes
    RecoveryCodeCount,   \* Config.RecoveryCodeCount
    EnrollmentLifetime,
    ChallengeLifetime,
    MaxPeriod,             \* bound: the last period of a modelled run
    NoRow

ASSUME TotpAssumption ==
    /\ RecoveryCodeCount \in Nat \ {0}
    /\ EnrollmentLifetime \in Nat \ {0} /\ ChallengeLifetime \in Nat \ {0}
    /\ MaxPeriod \in Nat
    /\ NoRow \notin Secrets \cup Challenges

VARIABLES
    period,         \* the current TOTP period
    enrollment,  \* the row of authlier_totp_enrollments
    credential,  \* the row of authlier_totp_credentials
    recovery,    \* unused rows of authlier_totp_recovery_codes
    challenges,  \* authlier_totp_challenges
    issued,      \* history: secrets shown to the user
    abandoned,   \* history: secrets whose enrollment another one replaced
    auths,       \* history: what was proven with which code
    call

TotpVars == <<period, enrollment, credential, recovery, challenges, issued, abandoned, auths, call>>

Times == 0..MaxPeriod

Code == [secret: Secrets, counter: 0..(MaxPeriod + 1)]

RecoveryCode == [secret: Secrets, number: 1..RecoveryCodeCount]

Enrollment == [secret: Secrets, expires: Nat]

Credential == [secret: Secrets, last: Nat, disabled: BOOLEAN]

Challenge == [expires: Nat, consumed: BOOLEAN]

ASSUME NoTotpRowAssumption ==
    NoRow \notin Enrollment \cup Credential \cup Challenge \cup Code \cup RecoveryCode

ChallengeAttempts == 3

Running == {"enable", "challenge", "complete", "redeem"}

CallState == [pc: {"idle"} \cup Running,
            code: Code \cup RecoveryCode \cup {NoRow},
            chal: Challenges \cup {NoRow}, at: Times, tries: 0..(ChallengeAttempts - 1)]

NoCall == [pc |-> "idle", code |-> NoRow, chal |-> NoRow, at |-> 0, tries |-> 0]

Uncalled(r) == call[r].pc = "idle"

\* The method returns.  What it answered is in the state it left behind.
Return(r) == call' = [call EXCEPT ![r] = NoCall]

Enabled == credential # NoRow /\ ~credential.disabled

stored == <<enrollment, credential, recovery, challenges, issued, abandoned, auths>>

\* matchCounter: the current period, the one before and the one after.
MatchCounter(secret, code) ==
    /\ code.secret = secret
    /\ period >= 1
    /\ code.counter \in {period, period - 1, period + 1}

-----------------------------------------------------------------------------
(***************************************************************************)
(* Enrollment.                                                             *)
(***************************************************************************)

\* BeginEnrollment replaces an enrollment under way, with a fresh secret.
BeginEnrollment(secret) ==
    /\ secret \notin issued
    /\ issued' = issued \cup {secret}
    /\ abandoned' = abandoned \cup (IF enrollment = NoRow THEN {} ELSE {enrollment.secret})
    /\ enrollment' = [secret |-> secret, expires |-> period + EnrollmentLifetime]
    /\ UNCHANGED <<period, credential, recovery, challenges, auths, call>>

\* ConfirmEnrollment matches the code against the enrollment it finds ...
FindEnrollment(r, code) ==
    /\ Uncalled(r)
    /\ enrollment # NoRow /\ period < enrollment.expires
    /\ MatchCounter(enrollment.secret, code)
    /\ call' = [call EXCEPT ![r] = [NoCall EXCEPT !.pc = "enable", !.code = code, !.at = period]]
    /\ UNCHANGED <<period, stored>>

RecoveryCodesOf(secret) == {code \in RecoveryCode : code.secret = secret}

Enableable(r) == enrollment # NoRow /\ call[r].at < enrollment.expires

\* Slip: the enrollment the code was matched against is enabled, replaced or not.
EnableApplyMatched(r) ==
    /\ Enableable(r)
    /\ credential' = [secret |-> call[r].code.secret, last |-> call[r].code.counter,
                      disabled |-> FALSE]
    /\ recovery' = RecoveryCodesOf(call[r].code.secret)
    /\ enrollment' = NoRow
    /\ auths' = auths \cup {[chal |-> NoRow, code |-> call[r].code]}
    /\ UNCHANGED <<challenges, issued, abandoned>>

\* ... and Enable enables the enrollment it finds, with new recovery codes.
EnableApply(r) ==
    /\ Enableable(r)
    /\ credential' = [secret |-> enrollment.secret, last |-> call[r].code.counter,
                      disabled |-> FALSE]
    /\ recovery' = RecoveryCodesOf(enrollment.secret)
    /\ enrollment' = NoRow
    /\ auths' = auths \cup {[chal |-> NoRow, code |-> call[r].code]}
    /\ UNCHANGED <<challenges, issued, abandoned>>

Enable(r) ==
    /\ call[r].pc = "enable"
    /\ EnableApply(r) \/ UNCHANGED stored
    /\ Return(r)
    /\ UNCHANGED period

\* Disable may be repeated; without a credential it answers ErrNotFound.
Disable ==
    /\ IF credential = NoRow
       THEN UNCHANGED <<credential, recovery>>
       ELSE /\ credential' = [credential EXCEPT !.disabled = TRUE]
            /\ recovery' = {}
    /\ UNCHANGED <<period, enrollment, challenges, issued, abandoned, auths, call>>

-----------------------------------------------------------------------------
(***************************************************************************)
(* Sign-in: the password has matched.                                      *)
(***************************************************************************)

\* IsEnabled: without a second factor the sign-in goes on at once.
CheckEnabled(r) ==
    /\ Uncalled(r)
    /\ Enabled
    /\ call' = [call EXCEPT ![r] = [NoCall EXCEPT !.pc = "challenge"]]
    /\ UNCHANGED <<period, stored>>

\* ErrConflict: another attempt with a new token, at most ChallengeAttempts.
Redraw(r) ==
    IF call[r].tries + 1 = ChallengeAttempts
    THEN Return(r)
    ELSE call' = [call EXCEPT ![r].tries = @ + 1]

\* BeginChallenge draws any token hash; a taken one is a conflict at the store.
CreateChallenge(r, h) ==
    LET Created == /\ challenges[h] = NoRow
                   /\ challenges' = [challenges EXCEPT ![h] =
                          [expires |-> period + ChallengeLifetime, consumed |-> FALSE]]
    IN
    /\ call[r].pc = "challenge"
    /\ \/ Created /\ Return(r)
       \/ challenges[h] # NoRow /\ Redraw(r) /\ UNCHANGED challenges
       \/ Return(r) /\ UNCHANGED challenges
    /\ UNCHANGED <<period, enrollment, credential, recovery, issued, abandoned, auths>>

-----------------------------------------------------------------------------
(***************************************************************************)
(* Verify and Recover.                                                     *)
(***************************************************************************)

\* FindChallenge joins the challenge with an enabled credential.
Open(h) ==
    /\ challenges[h] # NoRow /\ Enabled
    /\ ~challenges[h].consumed /\ period < challenges[h].expires

\* Verify, up to the transaction that completes the challenge.
FindForCode(r, h, code) ==
    /\ Uncalled(r)
    /\ Open(h)
    /\ MatchCounter(credential.secret, code)
    /\ credential.last < code.counter
    /\ call' = [call EXCEPT ![r] = [NoCall EXCEPT !.pc = "complete", !.chal = h,
                                              !.code = code, !.at = period]]
    /\ UNCHANGED <<period, stored>>

\* Recover, up to its transaction: the code itself is only looked at there.
FindForRecovery(r, h, code) ==
    /\ Uncalled(r)
    /\ Open(h)
    /\ code.secret \in issued
    /\ call' = [call EXCEPT ![r] = [NoCall EXCEPT !.pc = "redeem", !.chal = h,
                                              !.code = code, !.at = period]]
    /\ UNCHANGED <<period, stored>>

\* consumeTOTPChallenge
Consumable(r) ==
    /\ ~challenges[call[r].chal].consumed
    /\ call[r].at < challenges[call[r].chal].expires

Consumed(r) == [challenges EXCEPT ![call[r].chal].consumed = TRUE]

\* Slip: the counter checked by Verify is not compared again.
FreshCounterOnce(r) == Enabled

\* Slip: a disabled credential still completes.
FreshCounterDisabled(r) == credential.last < call[r].code.counter

FreshCounter(r) == Enabled /\ credential.last < call[r].code.counter

Proves(r) == auths' = auths \cup {[chal |-> call[r].chal, code |-> call[r].code]}

CompleteCodeApply(r) ==
    /\ Consumable(r) /\ FreshCounter(r)
    /\ challenges' = Consumed(r)
    /\ credential' = [credential EXCEPT !.last = call[r].code.counter]
    /\ Proves(r)
    /\ UNCHANGED <<enrollment, recovery, issued, abandoned>>

\* Slip: the transaction is committed although the code is refused.
RefusedConsuming(r) ==
    /\ challenges' = Consumed(r)
    /\ UNCHANGED <<enrollment, credential, recovery, issued, abandoned, auths>>

\* A refused completion rolls the consumption of the challenge back.
Refused(r) == UNCHANGED stored

CompleteCode(r) ==
    /\ call[r].pc = "complete"
    /\ \/ CompleteCodeApply(r)
       \/ ~(Consumable(r) /\ FreshCounter(r)) /\ Refused(r)
       \/ UNCHANGED stored             \* the transaction fails
    /\ Return(r)
    /\ UNCHANGED period

Redeemed(r) == recovery \ {call[r].code}

CompleteRecoveryApply(r) ==
    /\ Consumable(r) /\ call[r].code \in recovery
    /\ challenges' = Consumed(r)
    /\ recovery' = Redeemed(r)
    /\ Proves(r)
    /\ UNCHANGED <<enrollment, credential, issued, abandoned>>

CompleteRecovery(r) ==
    /\ call[r].pc = "redeem"
    /\ \/ CompleteRecoveryApply(r)
       \/ ~(Consumable(r) /\ call[r].code \in recovery) /\ Refused(r)
       \/ UNCHANGED stored             \* the transaction fails
    /\ Return(r)
    /\ UNCHANGED period

-----------------------------------------------------------------------------

NextPeriod ==
    /\ period < MaxPeriod
    /\ period' = period + 1
    /\ UNCHANGED <<stored, call>>

TotpInit ==
    /\ period = 0
    /\ enrollment = NoRow /\ credential = NoRow
    /\ recovery = {}
    /\ challenges = [h \in Challenges |-> NoRow]
    /\ issued = {} /\ abandoned = {} /\ auths = {}
    /\ call = [r \in Calls |-> NoCall]

Begin(r) ==
    \/ CheckEnabled(r)
    \/ \E code \in Code : FindEnrollment(r, code)
    \/ \E h \in Challenges, code \in Code : FindForCode(r, h, code)
    \/ \E h \in Challenges, code \in RecoveryCode : FindForRecovery(r, h, code)

TotpStep(r) ==
    \/ Enable(r) \/ \E h \in Challenges : CreateChallenge(r, h)
    \/ CompleteCode(r) \/ CompleteRecovery(r)

TotpNext ==
    \/ NextPeriod \/ Disable
    \/ \E secret \in Secrets : BeginEnrollment(secret)
    \/ \E r \in Calls : Begin(r) \/ TotpStep(r)

TotpSpec == TotpInit /\ [][TotpNext]_TotpVars

-----------------------------------------------------------------------------
(***************************************************************************)
(* Properties.                                                             *)
(***************************************************************************)

TotpTypeOK ==
    /\ period \in Times
    /\ enrollment \in Enrollment \cup {NoRow}
    /\ credential \in Credential \cup {NoRow}
    /\ recovery \subseteq RecoveryCode
    /\ challenges \in [Challenges -> Challenge \cup {NoRow}]
    /\ issued \subseteq Secrets /\ abandoned \subseteq issued
    /\ auths \subseteq [chal: Challenges \cup {NoRow}, code: Code \cup RecoveryCode]
    /\ call \in [Calls -> CallState]

\* A challenge authenticates one request, and a refused code leaves it usable: it
\* is consumed exactly by the code it accepted.
ChallengeConsumedByCode ==
    \A h \in Challenges :
        LET proofs == {a \in auths : a.chal = h} IN
        /\ \A a, b \in proofs : a = b
        /\ proofs # {} <=> challenges[h] # NoRow /\ challenges[h].consumed

\* While its secret is the enabled one, a code is good for one purpose: it confirms
\* the enrollment or completes one challenge, however many requests race with it.
CodeOnceWhileEnabled ==
    \A a, b \in auths :
        /\ a.code = b.code /\ a.code \in Code
        /\ credential # NoRow /\ a.code.secret = credential.secret
        => a = b

\* Each recovery code is good for one challenge.
RecoveryCodeOnce ==
    \A a, b \in auths : a.code = b.code /\ a.code \in RecoveryCode => a = b

\* What holds of challenges and what was proven with them together.
Consistent == TotpTypeOK /\ ChallengeConsumedByCode

\* No code of either kind serves twice.
CodesOnce == CodeOnceWhileEnabled /\ RecoveryCodeOnce

\* A secret that a later BeginEnrollment replaced never becomes the second factor, although
\* a confirmation may have matched its code before: what is enabled is the secret shown
\* last.  (That one is enabled without a code of its own having been shown.)
AbandonedNeverEnabled == credential # NoRow => credential.secret \notin abandoned

\* Nothing is proven against a credential that has been disabled since the
\* challenge was looked up.
DisabledProvesNothing ==
    [][\A a \in auths' \ auths : a.chal # NoRow => Enabled]_TotpVars

=============================================================================
