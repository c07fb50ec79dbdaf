------------------------------ MODULE Passkeys ------------------------------
(***************************************************************************)
(* passkey.Manager, its handlers and its store: WebAuthn registration and  *)
(* sign-in ceremonies, the credential rows they write, and the removal of  *)
(* a credential.                                                           *)
(*                                                                         *)
(* A store method is one transaction and one step; requests interleave     *)
(* between the calls they make, and a transaction may fail with or without *)
(* having taken effect.  The authenticator and the WebAuthn library are    *)
(* external: a response carries the credential and the signature counter   *)
(* it was made with, any counter being possible for a copied key.          *)
(***************************************************************************)
EXTENDS Integers, Sequences, FiniteSets

CONSTANTS
    Requests,
    Subjects,
    Tokens,             \* ceremony token hashes
    Credentials,        \* credential identifiers
    WithOtherMethod,    \* the subjects who also have a password or a Google identity
    BindsSubject,       \* consuming a ceremony compares its subject with the one to complete it for
    CeremonyLifetime,
    MaxCount,           \* bound: the largest signature counter
    MaxTime,            \* bound: the last instant of a modelled run
    None

ASSUME PasskeysAssumption ==
    /\ WithOtherMethod \subseteq Subjects
    /\ BindsSubject \in BOOLEAN
    /\ CeremonyLifetime \in Nat \ {0} /\ MaxCount \in Nat /\ MaxTime \in Nat
    /\ None \notin Subjects \cup Tokens \cup Credentials \cup {"invalid_ceremony"}

VARIABLES
    now,
    ceremonies,   \* authlier_passkey_ceremonies
    credentials,  \* authlier_passkey_credentials
    log,          \* history: committed registrations, sign-ins and removals
    req

vars == <<now, ceremonies, credentials, log, req>>

Kinds == {"registration", "authentication"}

\* An authentication ceremony is stored with the empty subject, None.
Ceremony == [type: Kinds, subject: Subjects \cup {None}, expires: Nat, consumed: BOOLEAN]

Credential == [owner: Subjects, count: 0..MaxCount, clone: BOOLEAN]

ASSUME NoRowAssumption == None \notin Ceremony \cup Credential

CeremonyAttempts == 3

Entry == [kind: {"registered", "authenticated", "removed"}, subject: Subjects, at: 0..MaxTime,
          token: Tokens \cup {None}, cred: Credentials, count: 0..MaxCount, clone: BOOLEAN]

Answers == {None, "ok", "invalid_ceremony", "conflict", "refused", "error"}

Request == [pc: {"idle", "create", "register", "lookup", "authenticate"}, kind: Kinds,
            subject: Subjects \cup {None}, token: Tokens \cup {None},
            cred: Credentials \cup {None}, previous: Credential \cup {None},
            count: 0..MaxCount, tries: 0..(CeremonyAttempts - 1), answer: Answers]

Idle == [pc |-> "idle", kind |-> "registration", subject |-> None, token |-> None, cred |-> None,
         previous |-> None, count |-> 0, tries |-> 0, answer |-> None]

Free(r) == req[r].pc = "idle"

Start(r, with) == req' = [req EXCEPT ![r] = with]

Answer(r, answer) == req' = [req EXCEPT ![r] = [Idle EXCEPT !.answer = answer]]

-----------------------------------------------------------------------------
(***************************************************************************)
(* Beginning a ceremony.                                                   *)
(***************************************************************************)

\* A signed-in subject asks for registration options.
BeginRegistration(r, subject) ==
    /\ Free(r)
    /\ Start(r, [Idle EXCEPT !.pc = "create", !.subject = subject])
    /\ UNCHANGED <<now, ceremonies, credentials, log>>

\* Anyone may ask for sign-in options: the ceremony has no subject.
BeginAuthentication(r) ==
    /\ Free(r)
    /\ Start(r, [Idle EXCEPT !.pc = "create", !.kind = "authentication"])
    /\ UNCHANGED <<now, ceremonies, credentials, log>>

Redraw(r) ==
    IF req[r].tries < CeremonyAttempts - 1
      THEN req' = [req EXCEPT ![r].tries = @ + 1]
      ELSE Answer(r, "conflict")

\* storeCeremony: one drawn token and the insert; a token in use is drawn again.
CreateCeremony(r, token) ==
    /\ req[r].pc = "create"
    /\ \/ /\ ceremonies[token] = None
          /\ ceremonies' = [ceremonies EXCEPT ![token] =
                 [type |-> req[r].kind, subject |-> req[r].subject,
                  expires |-> now + CeremonyLifetime, consumed |-> FALSE]]
          /\ Answer(r, "ok")
       \/ /\ ceremonies[token] # None
          /\ Redraw(r)
          /\ UNCHANGED ceremonies
    /\ UNCHANGED <<now, credentials, log>>

-----------------------------------------------------------------------------
(***************************************************************************)
(* Completing a ceremony.                                                  *)
(***************************************************************************)

\* findCeremony: a row that is not consumed, of the expected type, before its expiry.
Found(token, kind) ==
    /\ ceremonies[token] # None
    /\ ~ceremonies[token].consumed
    /\ ceremonies[token].type = kind
    /\ now < ceremonies[token].expires

MayComplete(token, subject) == ceremonies[token].subject = subject

\* CompleteRegistration up to the verification of the authenticator's response.
VerifyRegistration(r, subject, token, cred, count) ==
    /\ Free(r)
    /\ Found(token, "registration")
    /\ MayComplete(token, subject)
    /\ Start(r, [Idle EXCEPT !.pc = "register", !.subject = subject, !.token = token,
                             !.cred = cred, !.count = count])
    /\ UNCHANGED <<now, ceremonies, credentials, log>>

\* Slip: a ceremony is consumed again.
ConsumableAgain(token, kind, subject) ==
    /\ ceremonies[token].type = kind
    /\ now < ceremonies[token].expires
    /\ BindsSubject => ceremonies[token].subject = subject

\* The WHERE clause of consumePasskeyCeremony.  The four adapters compare the subject;
\* the store of the package's own tests does not.
Consumable(token, kind, subject) ==
    /\ ceremonies[token].type = kind
    /\ ~ceremonies[token].consumed
    /\ now < ceremonies[token].expires
    /\ BindsSubject => ceremonies[token].subject = subject

Consume(token) == ceremonies' = [ceremonies EXCEPT ![token].consumed = TRUE]

Record(entry) == log' = Append(log, entry)

\* The transaction of the store's CompleteRegistration.  Its answer may be lost.
CompleteRegistration(r) ==
    LET q == req[r]
        owner == ceremonies[q.token].subject
    IN
    /\ q.pc = "register"
    /\ \/ /\ ~Consumable(q.token, "registration", owner)
          /\ Answer(r, "invalid_ceremony")
          /\ UNCHANGED <<ceremonies, credentials, log>>
       \/ /\ Consumable(q.token, "registration", owner)
          /\ credentials[q.cred] # None
          /\ Answer(r, "conflict")
          /\ UNCHANGED <<ceremonies, credentials, log>>
       \/ /\ Consumable(q.token, "registration", owner)
          /\ credentials[q.cred] = None
          /\ Consume(q.token)
          /\ credentials' = [credentials EXCEPT ![q.cred] =
                 [owner |-> owner, count |-> q.count, clone |-> FALSE]]
          /\ Record([kind |-> "registered", subject |-> q.subject, at |-> now,
                     token |-> q.token, cred |-> q.cred, count |-> q.count, clone |-> FALSE])
          /\ \E answer \in {"ok", "error"} : Answer(r, answer)
    /\ UNCHANGED now

\* CompleteAuthentication finds the ceremony ...
FindCeremony(r, token, cred, count) ==
    /\ Free(r)
    /\ Found(token, "authentication")
    /\ Start(r, [Idle EXCEPT !.pc = "lookup", !.kind = "authentication", !.token = token,
                             !.cred = cred, !.count = count])
    /\ UNCHANGED <<now, ceremonies, credentials, log>>

\* ... loads the owner of the credential with its row, and verifies the assertion.
FindUserByCredential(r) ==
    /\ req[r].pc = "lookup"
    /\ IF credentials[req[r].cred] = None
         THEN Answer(r, "refused")
         ELSE req' = [req EXCEPT ![r].pc = "authenticate",
                                 ![r].subject = credentials[req[r].cred].owner,
                                 ![r].previous = credentials[req[r].cred]]
    /\ UNCHANGED <<now, ceremonies, credentials, log>>

\* The library's UpdateCounter: a counter that does not advance flags a copied key.
Updated(previous, count) ==
    IF count <= previous.count /\ (count # 0 \/ previous.count # 0)
      THEN [previous EXCEPT !.clone = TRUE]
      ELSE [previous EXCEPT !.count = count]

\* Slips: the row is written without comparing it, or created when it is gone.
SwappableBlindly(r) == credentials[req[r].cred] # None

SwappableUpserting(r) == credentials[req[r].cred] \in {req[r].previous, None}

\* The UPDATE matches the row only while it holds what was loaded.
Swappable(r) == credentials[req[r].cred] = req[r].previous

\* The transaction of the store's CompleteAuthentication; on a conflict it is
\* rolled back and the ceremony stays open.
CompleteAuthentication(r) ==
    LET q == req[r]
        updated == Updated(q.previous, q.count)
    IN
    /\ q.pc = "authenticate"
    /\ \/ /\ ~Consumable(q.token, "authentication", q.subject)
          /\ Answer(r, "invalid_ceremony")
          /\ UNCHANGED <<ceremonies, credentials, log>>
       \/ /\ Consumable(q.token, "authentication", q.subject)
          /\ ~Swappable(r)
          /\ Answer(r, "conflict")
          /\ UNCHANGED <<ceremonies, credentials, log>>
       \/ /\ Consumable(q.token, "authentication", q.subject)
          /\ Swappable(r)
          /\ Consume(q.token)
          /\ credentials' = [credentials EXCEPT ![q.cred] = updated]
          /\ Record([kind |-> "authenticated", subject |-> q.subject, at |-> now,
                     token |-> q.token, cred |-> q.cred, count |-> q.count,
                     clone |-> updated.clone])
          /\ \E answer \in {"ok", "error"} : Answer(r, answer)
    /\ UNCHANGED now

-----------------------------------------------------------------------------
(***************************************************************************)
(* Removing a credential, failures and time.                               *)
(***************************************************************************)

Owns(subject) ==
    {c \in Credentials : credentials[c] # None /\ credentials[c].owner = subject}

\* DeleteCredential holds the user's lock while it counts and deletes.
Remove(r, subject, cred) ==
    /\ Free(r)
    /\ cred \in Owns(subject)
    /\ ~(Cardinality(Owns(subject)) = 1 /\ subject \notin WithOtherMethod)
    /\ credentials' = [credentials EXCEPT ![cred] = None]
    /\ Record([kind |-> "removed", subject |-> subject, at |-> now, token |-> None,
               cred |-> cred, count |-> 0, clone |-> FALSE])
    /\ UNCHANGED <<now, ceremonies, req>>

\* A call fails before it has an effect, the attempt guard refuses the request,
\* or the response of the authenticator does not verify.
Fail(r) ==
    /\ ~Free(r)
    /\ Answer(r, "error")
    /\ UNCHANGED <<now, ceremonies, credentials, log>>

Tick ==
    /\ now < MaxTime
    /\ now' = now + 1
    /\ UNCHANGED <<ceremonies, credentials, log, req>>

Init ==
    /\ now = 0
    /\ ceremonies = [t \in Tokens |-> None]
    /\ credentials = [c \in Credentials |-> None]
    /\ log = << >>
    /\ req = [r \in Requests |-> Idle]

Begin(r) ==
    \/ \E s \in Subjects : BeginRegistration(r, s)
    \/ BeginAuthentication(r)
    \/ \E s \in Subjects, c \in Credentials : Remove(r, s, c)
    \/ \E t \in Tokens, c \in Credentials, n \in 0..MaxCount :
           \/ FindCeremony(r, t, c, n)
           \/ \E s \in Subjects : VerifyRegistration(r, s, t, c, n)

Step(r) ==
    \/ \E t \in Tokens : CreateCeremony(r, t)
    \/ CompleteRegistration(r)
    \/ FindUserByCredential(r)
    \/ CompleteAuthentication(r)
    \/ Fail(r)

Next == Tick \/ \E r \in Requests : Begin(r) \/ Step(r)

Spec == Init /\ [][Next]_vars

-----------------------------------------------------------------------------
\* Every table, the history and every request in flight keep their shape: storeCeremony
\* draws at most CeremonyAttempts tokens.
TypeOK ==
    /\ now \in 0..MaxTime
    /\ ceremonies \in [Tokens -> Ceremony \cup {None}]
    /\ credentials \in [Credentials -> Credential \cup {None}]
    /\ log \in Seq(Entry)
    /\ req \in [Requests -> Request]

Registered(i, c) == log[i].kind = "registered" /\ log[i].cred = c

Removed(i, c) == log[i].kind = "removed" /\ log[i].cred = c

SignedIn(i) == log[i].kind = "authenticated"

\* A ceremony completes at most one registration or sign-in, however many requests
\* found it open before it was consumed.
CeremonySpentOnce ==
    \A i, j \in DOMAIN log :
        log[i].token = log[j].token /\ log[i].token # None => i = j

\* A ceremony that was found before its expiry completes nothing once it has expired.
ProvenInTime ==
    \A i \in DOMAIN log :
        log[i].kind # "removed" => log[i].at < ceremonies[log[i].token].expires

\* A credential is registered by the session of the subject who began the ceremony,
\* and for that subject.
RegisteredBySubject ==
    \A i \in DOMAIN log :
        log[i].kind = "registered" => log[i].subject = ceremonies[log[i].token].subject

\* What holds of ceremonies and of what was completed with them together.
CeremoniesSound == TypeOK /\ CeremonySpentOnce /\ ProvenInTime /\ RegisteredBySubject

\* Two sign-ins with one credential that raise no clone warning used counters that
\* advance, concurrent ones included: an authenticator and its copy are never both
\* accepted with the same counter unnoticed.
CountersAdvance ==
    \A i, j \in DOMAIN log :
        /\ i < j /\ SignedIn(i) /\ SignedIn(j)
        /\ log[i].cred = log[j].cred
        /\ \A k \in i..j : ~Registered(k, log[i].cred)
        /\ ~log[j].clone
        => log[i].count < log[j].count \/ (log[i].count = 0 /\ log[j].count = 0)

\* A sign-in completes only with a credential that is registered at that moment:
\* removing the credential while the sign-in is under way stops it, and the sign-in
\* does not bring the row back.
RemovedProvesNothing ==
    \A j \in DOMAIN log :
        SignedIn(j) =>
            \E i \in 1..(j - 1) :
                /\ Registered(i, log[j].cred)
                /\ \A k \in i..j : ~Removed(k, log[j].cred)

\* A verified sign-in is refused for its ceremony only if the ceremony was consumed
\* or has expired: "Successful verification identifies the Authlier user and creates
\* the configured session" (passkeys.md).
OpenCeremonyAccepted ==
    [][\A r \in Requests :
          req[r].pc = "authenticate" /\ req'[r].answer = "invalid_ceremony"
          => ~Found(req[r].token, "authentication")]_vars
=============================================================================
