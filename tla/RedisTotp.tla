------------------------------ MODULE RedisTotp ------------------------------
(***************************************************************************)
(* The Redis adapter's TOTPStore, and the stores of the states that        *)
(* federated sign-ins leave behind and consume: GoogleStore, OIDCStore and *)
(* SAMLStore, which differ in the fields they keep.  Records are fields of *)
(* hashes; the recovery codes of a subject are listed in a set beside      *)
(* their hash.  A method is one command, or an optimistic transaction of   *)
(* Adapter.watch: WATCH, reads, and an EXEC that does nothing when a       *)
(* watched key was written since.                                          *)
(*                                                                         *)
(* The secret is an opaque value, a code the counter it belongs to;        *)
(* totp.Manager, which compares codes with secrets, is in module Totp.     *)
(***************************************************************************)
EXTENDS Integers

CONSTANTS
    Requests,
    Subjects,
    Secrets,         \* enrollment secrets
    RecoveryCodes,   \* hashes of recovery codes
    Challenges,      \* hashes of challenge tokens
    States,          \* hashes of the states of federated sign-ins
    ChallengeLifetime, EnrollmentLifetime,
    WatchAttempts,   \* 16 in Adapter.watch
    MaxTime,         \* bound: the last instant of a modelled run
    None

VARIABLES
    fields,   \* the fields there are, <<key, field>>, and their values
    req,      \* the call in each slot
    now

vars == <<fields, req, now>>

Enrollment(u) == <<"totp-enrollments", u>>
Totp(u) == <<"totp-credentials", u>>
Recovery(u, k) == <<"totp-recovery-codes", <<u, k>>>>
RecoverySet(u) == <<"totp:recovery", u>>
Challenge(h) == <<"totp-challenges", h>>
Flow(hash, h) == <<hash, h>>

FlowHashes == {"google-challenges", "oidc-challenges", "saml-requests"}

Hash(name) == <<name, None>>

\* The key a field belongs to: a hash, or the set of one subject.
KeyOf(f) == IF f[1] = "totp:recovery" THEN f ELSE Hash(f[1])

Exists(f) == f \in DOMAIN fields

\* What a method does: its answer, and the fields it writes; a deleted one gets None.
Ok(write) == [answer |-> "ok", write |-> write]

Refuse(answer) == [answer |-> answer, write |-> <<>>]

-----------------------------------------------------------------------------
(***************************************************************************)
(* TOTPStore.                                                              *)
(***************************************************************************)

\* The recovery codes of a subject that the set beside the hash lists.
Listed(u) == IF Exists(RecoverySet(u)) THEN fields[RecoverySet(u)] ELSE {}

RecoveryOf(u) == {Recovery(u, k) : k \in Listed(u)}

IsEnabled(u) == Exists(Totp(u)) /\ ~fields[Totp(u)].disabled

BeginEnrollment(c) ==
    Ok([f \in {Enrollment(c.user)} |->
          [secret |-> c.secret, expires |-> c.at + EnrollmentLifetime]])

\* Enables whatever enrollment it finds, with one of the new recovery codes for all.
Enable(c) ==
    IF ~Exists(Enrollment(c.user)) THEN Refuse("not_found")
    ELSE IF c.at >= fields[Enrollment(c.user)].expires THEN Refuse("inactive_enrollment")
    ELSE Ok([f \in {Totp(c.user), Recovery(c.user, c.code), RecoverySet(c.user)}
                     \cup RecoveryOf(c.user) \cup {Enrollment(c.user)} |->
               CASE f = Totp(c.user) -> [secret |-> fields[Enrollment(c.user)].secret,
                                         last |-> c.counter, disabled |-> FALSE]
                 [] f = Recovery(c.user, c.code) -> "unused"
                 [] f = RecoverySet(c.user) -> {c.code}
                 [] OTHER -> None])

\* The credential is written again even when it is disabled already.
Disable(c) ==
    IF ~Exists(Totp(c.user)) THEN Refuse("not_found")
    ELSE Ok([f \in {Totp(c.user)} \cup RecoveryOf(c.user)
                     \cup ({RecoverySet(c.user)} \cap DOMAIN fields) |->
               IF f = Totp(c.user) THEN [fields[f] EXCEPT !.disabled = TRUE] ELSE None])

\* HSETNX
CreateChallenge(c) ==
    IF Exists(Challenge(c.token)) THEN Refuse("conflict")
    ELSE Ok([f \in {Challenge(c.token)} |->
               [user |-> c.user, expires |-> c.at + ChallengeLifetime]])

Usable(h, at) == Exists(Challenge(h)) /\ at < fields[Challenge(h)].expires

CompleteCode(c) ==
    LET u == fields[Challenge(c.token)].user IN
    IF ~Usable(c.token, c.at) THEN Refuse("inactive_challenge")
    ELSE IF ~IsEnabled(u) \/ c.counter <= fields[Totp(u)].last THEN Refuse("invalid_code")
    ELSE Ok([f \in {Totp(u), Challenge(c.token)} |->
               IF f = Totp(u) THEN [fields[f] EXCEPT !.last = c.counter] ELSE None])

\* The credential is not looked at: a disabled one has no unused recovery codes.
CompleteRecovery(c) ==
    LET code == Recovery(fields[Challenge(c.token)].user, c.code) IN
    IF ~Usable(c.token, c.at) THEN Refuse("inactive_challenge")
    ELSE IF ~Exists(code) \/ fields[code] # "unused" THEN Refuse("invalid_code")
    ELSE Ok([f \in {code, Challenge(c.token)} |-> IF f = code THEN "used" ELSE None])

-----------------------------------------------------------------------------
(***************************************************************************)
(* States of federated sign-ins.                                           *)
(***************************************************************************)

\* HSETNX
CreateFlow(c) ==
    IF Exists(Flow(c.hash, c.token)) THEN Refuse("conflict")
    ELSE Ok([f \in {Flow(c.hash, c.token)} |-> c.at])

\* The expiry is looked at after the EXEC that deletes the field.
ConsumeFlow(c) ==
    IF Exists(Flow(c.hash, c.token)) THEN Ok([f \in {Flow(c.hash, c.token)} |-> None])
    ELSE Refuse("not_found")

Decision(c) ==
    CASE c.method = "beginEnrollment" -> BeginEnrollment(c)
      [] c.method = "enable" -> Enable(c)
      [] c.method = "disable" -> Disable(c)
      [] c.method = "createChallenge" -> CreateChallenge(c)
      [] c.method = "completeCode" -> CompleteCode(c)
      [] c.method = "completeRecovery" -> CompleteRecovery(c)
      [] c.method = "createFlow" -> CreateFlow(c)
      [] c.method = "consumeFlow" -> ConsumeFlow(c)

-----------------------------------------------------------------------------
(***************************************************************************)
(* Commands and transactions.                                              *)
(***************************************************************************)

Commands == {"beginEnrollment", "createChallenge", "createFlow"}

\* The keys each transaction watches.
Watches(c) ==
    CASE c.method = "enable" ->
            {Hash("totp-enrollments"), Hash("totp-credentials"), Hash("totp-recovery-codes"),
             RecoverySet(c.user)}
      [] c.method = "disable" ->
            {Hash("totp-credentials"), Hash("totp-recovery-codes"), RecoverySet(c.user)}
      [] c.method = "completeCode" -> {Hash("totp-challenges"), Hash("totp-credentials")}
      [] c.method = "completeRecovery" -> {Hash("totp-challenges"), Hash("totp-recovery-codes")}
      [] c.method = "consumeFlow" -> {Hash(c.hash)}

Idle == [pc |-> "idle", call |-> None, out |-> None, dirty |-> FALSE, tries |-> 0]

Free(r) == req[r].pc = "idle"

Call(r, call) ==
    /\ Free(r)
    /\ req' = [req EXCEPT ![r] =
                  [Idle EXCEPT !.pc = IF call.method \in Commands THEN "send" ELSE "watch",
                               !.call = call]]
    /\ UNCHANGED <<fields, now>>

\* The write takes effect and marks the transactions that watch one of its keys.
Effect(r, write) ==
    /\ fields' = [f \in {g \in DOMAIN fields \cup DOMAIN write :
                           g \in DOMAIN write => write[g] # None} |->
                     IF f \in DOMAIN write THEN write[f] ELSE fields[f]]
    /\ req' = [x \in Requests |->
                  IF x = r THEN Idle
                  ELSE IF /\ req[x].pc \in {"read", "exec"}
                          /\ Watches(req[x].call) \cap {KeyOf(f) : f \in DOMAIN write} # {}
                    THEN [req[x] EXCEPT !.dirty = TRUE] ELSE req[x]]
    /\ UNCHANGED now

Send(r) == req[r].pc = "send" /\ Effect(r, Decision(req[r].call).write)

Watch(r) ==
    /\ req[r].pc = "watch"
    /\ req' = [req EXCEPT ![r].pc = "read", ![r].dirty = FALSE]
    /\ UNCHANGED <<fields, now>>

\* A refusal ends the transaction without an EXEC.
Read(r) ==
    LET out == Decision(req[r].call) IN
    /\ req[r].pc = "read"
    /\ req' = [req EXCEPT ![r] = IF out.answer = "ok"
                                   THEN [req[r] EXCEPT !.pc = "exec", !.out = out] ELSE Idle]
    /\ UNCHANGED <<fields, now>>

\* The next attempt follows the spoilt EXEC at once: its WATCH is part of this step.
Retry(r) ==
    /\ req' = [req EXCEPT ![r] =
                  IF req[r].tries + 1 < WatchAttempts
                    THEN [req[r] EXCEPT !.pc = "read", !.dirty = FALSE, !.out = None,
                                        !.tries = req[r].tries + 1]
                    ELSE Idle]
    /\ UNCHANGED <<fields, now>>

Exec(r) ==
    /\ req[r].pc = "exec"
    /\ IF req[r].dirty THEN Retry(r) ELSE Effect(r, req[r].out.write)

\* A command fails before it has an effect.
Fail(r) ==
    /\ ~Free(r)
    /\ req' = [req EXCEPT ![r] = Idle]
    /\ UNCHANGED <<fields, now>>

Tick == now < MaxTime /\ now' = now + 1 /\ UNCHANGED <<fields, req>>

-----------------------------------------------------------------------------
(***************************************************************************)
(* The calls.  totp.Manager has found the enrollment or the challenge and  *)
(* matched the code, whose counter is at most one period away.             *)
(***************************************************************************)

Counters == {n \in {now - 1, now, now + 1} : n >= 0}

FreshCode(k) ==
    /\ \A u \in Subjects : ~Exists(Recovery(u, k))
    /\ \A x \in Requests : ~Free(x) /\ "code" \in DOMAIN req[x].call => req[x].call.code # k

\* FindEnrollment, and the manager's check of the expiry.
EnrollmentFound(u) == Exists(Enrollment(u)) /\ now < fields[Enrollment(u)].expires

\* FindChallenge: the challenge and the credential of its subject.
ChallengeFound(h) == Usable(h, now) /\ IsEnabled(fields[Challenge(h)].user)

TotpCalls(r) ==
    \/ \E u \in Subjects :
          \/ \E k \in Secrets :
                Call(r, [method |-> "beginEnrollment", user |-> u, secret |-> k, at |-> now])
          \/ \E n \in Counters, k \in RecoveryCodes :
                /\ EnrollmentFound(u)
                /\ FreshCode(k)
                /\ Call(r, [method |-> "enable", user |-> u, counter |-> n, code |-> k,
                            at |-> now])
          \/ Call(r, [method |-> "disable", user |-> u])
          \/ \E h \in Challenges :
                /\ IsEnabled(u)
                /\ Call(r, [method |-> "createChallenge", token |-> h, user |-> u, at |-> now])
    \/ \E h \in Challenges : ChallengeFound(h) /\
          \/ \E n \in Counters :
                Call(r, [method |-> "completeCode", token |-> h, counter |-> n, at |-> now])
          \/ \E k \in RecoveryCodes :
                Call(r, [method |-> "completeRecovery", token |-> h, code |-> k, at |-> now])

FlowCalls(r) ==
    \E hash \in FlowHashes, h \in States :
        \/ Call(r, [method |-> "createFlow", hash |-> hash, token |-> h, at |-> now])
        \/ Call(r, [method |-> "consumeFlow", hash |-> hash, token |-> h])

\* Bound: the fields and calls are those of one of the two groups, which share no key.
FlowsOnly ==
    /\ \A f \in DOMAIN fields : f[1] \in FlowHashes
    /\ \A x \in Requests : ~Free(x) => "hash" \in DOMAIN req[x].call

TotpOnly ==
    /\ \A f \in DOMAIN fields : f[1] \notin FlowHashes
    /\ \A x \in Requests : ~Free(x) => "hash" \notin DOMAIN req[x].call

Init == fields = <<>> /\ req = [r \in Requests |-> Idle] /\ now = 0

Next ==
    \/ TotpOnly /\ Tick
    \/ \E r \in Requests :
          \/ TotpOnly /\ TotpCalls(r)
          \/ FlowsOnly /\ now = 0 /\ FlowCalls(r)
          \/ Send(r) \/ Watch(r) \/ Read(r) \/ Exec(r) \/ Fail(r)

Spec == Init /\ [][Next]_vars

-----------------------------------------------------------------------------
\* The values the fields of a key may have.
Values(key) ==
    CASE key = "totp-enrollments" -> [secret: Secrets, expires: Nat]
      [] key = "totp-credentials" -> [secret: Secrets, last: Nat, disabled: BOOLEAN]
      [] key = "totp-recovery-codes" -> {"unused", "used"}
      [] key = "totp:recovery" -> (SUBSET RecoveryCodes) \ {{}}
      [] key = "totp-challenges" -> [user: Subjects, expires: Nat]
      [] key \in FlowHashes -> Nat

TypeOK ==
    /\ \A f \in DOMAIN fields : fields[f] \in Values(f[1])
    /\ \A r \in Requests : req[r].tries \in 0..(WatchAttempts - 1)
    /\ now \in 0..MaxTime

\* A second factor that is disabled, or was never enabled, has no recovery codes, however
\* Enable, Disable and the redemption of a code race; and the set beside the hash lists
\* every code there is: Disable and Enable delete what it lists, and CompleteRecovery relies
\* on it.
RecoverySound ==
    \A u \in Subjects :
        /\ {k \in RecoveryCodes : Exists(Recovery(u, k))} = Listed(u)
        /\ Listed(u) # {} => IsEnabled(u)

\* Whatever an EXEC writes is still what the method would decide from the state it writes
\* to.
DecisionsStillHold ==
    [][\A r \in Requests :
          req[r].pc = "exec" /\ fields' # fields /\ req'[r] = Idle
          => req[r].out = Decision(req[r].call)]_vars

=============================================================================
