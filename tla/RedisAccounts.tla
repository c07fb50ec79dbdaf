---------------------------- MODULE RedisAccounts ----------------------------
(***************************************************************************)
(* The Redis adapter's account stores.  An account is spread over hashes   *)
(* of the whole application and sets of its own, and nothing locks it: a   *)
(* method names the keys it will read, reads them, and its EXEC does       *)
(* nothing if one of those keys was written meanwhile (Adapter.watch).     *)
(* Whether an account keeps a way to sign in depends on every method       *)
(* watching every key its decision rests on.                               *)
(*                                                                         *)
(* The hash of WebAuthn handles is written and watched together with the   *)
(* hash of users and is folded into it; so are a hash of mailed tokens and *)
(* the hash of their records.  Passkey ceremonies and credential counters  *)
(* are in module Passkeys: here a ceremony is one the store accepts.  A    *)
(* mailed token that has expired is refused by Fail.                       *)
(***************************************************************************)
EXTENDS Integers

CONSTANTS
    Requests, Users, Emails, Hashes, Identities, Credentials, MailTokens,
    WatchAttempts,   \* 16 in Adapter.watch
    None

ASSUME WatchAssumption ==
    /\ WatchAttempts \in Nat \ {0}
    /\ None \notin Users \cup Emails \cup Hashes \cup Identities \cup Credentials \cup MailTokens

VARIABLES
    users,        \* users
    emails,       \* users:email
    passwords,    \* passwords
    identities,   \* google-identities
    google,       \* google:subject:*
    credentials,  \* passkeys
    passkeys,     \* passkeys:subject:*
    records,      \* email-verifications and password-resets, by user
    tokens,       \* email-verification-tokens and password-reset-tokens
    req

db == <<users, emails, passwords, identities, google, credentials, passkeys, records, tokens>>
vars == <<users, emails, passwords, identities, google, credentials, passkeys, records, tokens,
          req>>

Kinds == {"verify", "reset"}

User == [email: Emails, verified: BOOLEAN]

ASSUME NoUserAssumption == None \notin User

Methods == {"register", "add", "replace", "remove", "issue", "verify", "reset",
            "resolve", "unlink", "enrol", "delete", "use"}

\* What a transaction decided: the account it writes and the field it removes.
Plan == [do: {"apply", "create", "link", "touch"}, user: Users,
         old: MailTokens \cup Identities \cup {None}]

ASSUME NoPlanAssumption == None \notin Plan

Request == [method: Methods, pc: {"idle", "watch", "read", "exec"},
            user: Users \cup {None}, email: Emails \cup {None},
            hash: Hashes \cup {None}, current: Hashes \cup {None},
            identity: Identities \cup {None}, credential: Credentials \cup {None},
            kind: Kinds, token: MailTokens \cup {None},
            plan: Plan \cup {None}, dirty: BOOLEAN, tries: 0..(WatchAttempts - 1)]

Idle == [method |-> "register", pc |-> "idle", user |-> None, email |-> None, hash |-> None,
         current |-> None, identity |-> None, credential |-> None, kind |-> "verify",
         token |-> None, plan |-> None, dirty |-> FALSE, tries |-> 0]

Free(r) == req[r].pc = "idle"

\* These calls act on what was read before their WATCH; the others start with it.
Preread == {"replace", "remove", "use"}

Begin(r, call) ==
    /\ Free(r)
    /\ req' = [req EXCEPT ![r] =
                  [call EXCEPT !.pc = IF call.method \in Preread THEN "watch" ELSE "read"]]
    /\ UNCHANGED db

\* A user ID is a fresh UUID.
FreshFor(r, u) ==
    /\ users[u] = None
    /\ \A x \in Requests \ {r} :
          req[x].user # u /\ (req[x].plan # None => req[x].plan.user # u)

-----------------------------------------------------------------------------
(***************************************************************************)
(* The calls.  An account exists once a request has been authenticated as  *)
(* it.  `current` is the hash the manager verified the password against    *)
(* before it asked for a replacement or a removal.                         *)
(***************************************************************************)

Register(r, u, e, h) ==
    /\ FreshFor(r, u)
    /\ Begin(r, [Idle EXCEPT !.method = "register", !.user = u, !.email = e, !.hash = h])

AddPassword(r, u, h) ==
    /\ users[u] # None
    /\ Begin(r, [Idle EXCEPT !.method = "add", !.user = u, !.hash = h])

ReplacePasswordHash(r, u, h) ==
    /\ passwords[u] # None
    /\ Begin(r, [Idle EXCEPT !.method = "replace", !.user = u, !.hash = h,
                             !.current = passwords[u]])

RemovePassword(r, u) ==
    /\ passwords[u] # None
    /\ Begin(r, [Idle EXCEPT !.method = "remove", !.user = u, !.current = passwords[u]])

\* FindUserByEmail found u.
Issue(r, kind, u, t) ==
    /\ users[u] # None
    /\ Begin(r, [Idle EXCEPT !.method = "issue", !.kind = kind, !.user = u, !.token = t])

Verify(r, t) == Begin(r, [Idle EXCEPT !.method = "verify", !.kind = "verify", !.token = t])

ResetPassword(r, t, h) ==
    Begin(r, [Idle EXCEPT !.method = "reset", !.kind = "reset", !.token = t, !.hash = h])

\* u: the signed-in account a Google identity is to be linked to, None for a sign-in.
ResolveIdentity(r, p, u, e) ==
    /\ u # None => users[u] # None
    /\ Begin(r, [Idle EXCEPT !.method = "resolve", !.identity = p, !.user = u, !.email = e])

UnlinkIdentity(r, u) ==
    /\ users[u] # None
    /\ Begin(r, [Idle EXCEPT !.method = "unlink", !.user = u])

CompleteRegistration(r, u, c) ==
    /\ users[u] # None
    /\ Begin(r, [Idle EXCEPT !.method = "enrol", !.user = u, !.credential = c])

CompleteAuthentication(r, u, c) ==
    /\ credentials[c] = u
    /\ Begin(r, [Idle EXCEPT !.method = "use", !.user = u, !.credential = c])

DeleteCredential(r, u, c) ==
    /\ users[u] # None
    /\ Begin(r, [Idle EXCEPT !.method = "delete", !.user = u, !.credential = c])

-----------------------------------------------------------------------------
(***************************************************************************)
(* What each method decides from what it reads: no plan is a refusal.      *)
(***************************************************************************)

When(condition, plan) == IF condition THEN {plan} ELSE {}

Applying(u, old) == [do |-> "apply", user |-> u, old |-> old]

PlanRegister(q) == When(emails[q.email] = None, Applying(q.user, None))

PlanAdd(q) == When(users[q.user] # None /\ passwords[q.user] = None, Applying(q.user, None))

PlanReplace(q) == When(passwords[q.user] = q.current, Applying(q.user, None))

PlanRemove(q) ==
    When(/\ users[q.user] # None
         /\ passwords[q.user] = q.current
         /\ passkeys[q.user] # {} \/ google[q.user] # {}, Applying(q.user, None))

PlanIssue(q) ==
    When(tokens[q.kind][q.token] \in {q.user, None},
         Applying(q.user, records[q.kind][q.user]))

\* The user a token was mailed to, and the token of that user's record.
PlanMailed(q) ==
    LET u == tokens[q.kind][q.token] IN
    IF u = None THEN {}
    ELSE When(/\ records[q.kind][u] # None
              /\ users[u] # None
              /\ q.method = "verify" => ~users[u].verified,
              Applying(u, records[q.kind][u]))

PlanResolve(r, q) ==
    LET owner == identities[q.identity] IN
    IF owner # None
      THEN When(q.user \in {owner, None}, [do |-> "touch", user |-> owner, old |-> None])
    ELSE IF q.user # None
      THEN When(users[q.user] # None /\ google[q.user] = {},
                [do |-> "link", user |-> q.user, old |-> None])
    ELSE {[do |-> "create", user |-> u, old |-> None] :
              u \in {v \in Users : FreshFor(r, v) /\ emails[q.email] = None}}

\* Exactly one identity is linked, and another method is left.
PlanUnlink(q) ==
    {Applying(q.user, p) : p \in
        {x \in google[q.user] :
            /\ users[q.user] # None
            /\ google[q.user] = {x}
            /\ identities[x] = q.user
            /\ passwords[q.user] # None \/ passkeys[q.user] # {}}}

PlanEnrol(q) ==
    When(users[q.user] # None /\ credentials[q.credential] = None, Applying(q.user, None))

PlanUse(q) == When(credentials[q.credential] = q.user, Applying(q.user, None))

PlanDelete(q) ==
    When(/\ users[q.user] # None
         /\ credentials[q.credential] = q.user
         /\ \/ passkeys[q.user] # {q.credential}
            \/ passwords[q.user] # None
            \/ google[q.user] # {}, Applying(q.user, None))

Plans(r) ==
    LET q == req[r] IN
    CASE q.method = "register" -> PlanRegister(q)
      [] q.method = "add" -> PlanAdd(q)
      [] q.method = "replace" -> PlanReplace(q)
      [] q.method = "remove" -> PlanRemove(q)
      [] q.method = "issue" -> PlanIssue(q)
      [] q.method \in {"verify", "reset"} -> PlanMailed(q)
      [] q.method = "resolve" -> PlanResolve(r, q)
      [] q.method = "unlink" -> PlanUnlink(q)
      [] q.method = "enrol" -> PlanEnrol(q)
      [] q.method = "use" -> PlanUse(q)
      [] q.method = "delete" -> PlanDelete(q)

-----------------------------------------------------------------------------
(***************************************************************************)
(* The keys each method watches, and those its EXEC writes.                *)
(***************************************************************************)

Hash(name) == <<name, None>>
Google(u) == <<"google", u>>
Passkeys(u) == <<"passkeys", u>>

UsersKeys == {Hash("users"), Hash("emails")}

WatchesOf(method, u, kind) ==
    CASE method = "register" -> UsersKeys \cup {Hash("passwords")}
      [] method = "add" -> {Hash("users"), Hash("passwords")}
      [] method = "replace" -> {Hash("passwords")}
      [] method = "remove" -> {Hash("users"), Hash("passwords"), Google(u), Passkeys(u)}
      [] method = "issue" -> {Hash(kind)}
      [] method = "verify" -> {Hash(kind), Hash("users")}
      [] method = "reset" -> {Hash(kind), Hash("users"), Hash("passwords")}
      [] method = "resolve" -> UsersKeys \cup {Hash("identities")}
                                 \cup (IF u = None THEN {} ELSE {Google(u)})
      [] method = "unlink" -> {Hash("users"), Hash("identities"), Google(u),
                               Hash("passwords"), Passkeys(u)}
      [] method = "enrol" -> {Hash("credentials"), Hash("users"), Passkeys(u)}
      [] method = "use" -> {Hash("credentials")}
      [] method = "delete" -> {Hash("credentials"), Passkeys(u), Hash("users"),
                               Hash("passwords"), Google(u)}

\* Slips: the account's sets, or its password, are read without being watched.
WatchesHashes(q) == WatchesOf(q.method, q.user, q.kind) \ {Google(q.user), Passkeys(q.user)}

WatchesNoPassword(q) == WatchesOf(q.method, q.user, q.kind) \ {Hash("passwords")}

Watches(q) == WatchesOf(q.method, q.user, q.kind)

Writes(q) ==
    CASE q.method = "register" -> UsersKeys \cup {Hash("passwords")}
      [] q.method \in {"add", "replace", "remove"} -> {Hash("passwords")}
      [] q.method = "issue" -> {Hash(q.kind)}
      [] q.method = "verify" -> {Hash(q.kind), Hash("users")}
      [] q.method = "reset" -> {Hash(q.kind), Hash("passwords")}
      [] q.method = "resolve" ->
            {Hash("identities")}
              \cup (IF q.plan.do = "touch" THEN {} ELSE {Google(q.plan.user)})
              \cup (IF q.plan.do = "create" THEN UsersKeys ELSE {})
      [] q.method = "unlink" -> {Hash("identities"), Google(q.user)}
      [] q.method \in {"enrol", "delete"} -> {Hash("credentials"), Passkeys(q.user)}
      [] q.method = "use" -> {Hash("credentials")}

-----------------------------------------------------------------------------
(***************************************************************************)
(* The pipelines.                                                          *)
(***************************************************************************)

NewUser(q, verified) ==
    /\ users' = [users EXCEPT ![q.plan.user] = [email |-> q.email, verified |-> verified]]
    /\ emails' = [emails EXCEPT ![q.email] = q.plan.user]

DoRegister(q) ==
    /\ NewUser(q, FALSE)
    /\ passwords' = [passwords EXCEPT ![q.user] = q.hash]
    /\ UNCHANGED <<identities, google, credentials, passkeys, records, tokens>>

DoPassword(q) ==
    /\ passwords' = [passwords EXCEPT ![q.user] = q.hash]
    /\ UNCHANGED <<users, emails, identities, google, credentials, passkeys, records, tokens>>

DoIssue(q) ==
    LET kept == IF q.plan.old = None THEN tokens[q.kind]
                ELSE [tokens[q.kind] EXCEPT ![q.plan.old] = None] IN
    /\ tokens' = [tokens EXCEPT ![q.kind] = [kept EXCEPT ![q.token] = q.user]]
    /\ records' = [records EXCEPT ![q.kind][q.user] = q.token]
    /\ UNCHANGED <<users, emails, passwords, identities, google, credentials, passkeys>>

Spend(q) ==
    /\ records' = [records EXCEPT ![q.kind][q.plan.user] = None]
    /\ tokens' = [tokens EXCEPT ![q.kind][q.plan.old] = None]

DoVerify(q) ==
    /\ users' = [users EXCEPT ![q.plan.user].verified = TRUE]
    /\ Spend(q)
    /\ UNCHANGED <<emails, passwords, identities, google, credentials, passkeys>>

DoReset(q) ==
    /\ passwords' = [passwords EXCEPT ![q.plan.user] = q.hash]
    /\ Spend(q)
    /\ UNCHANGED <<users, emails, identities, google, credentials, passkeys>>

DoResolve(q) ==
    /\ identities' = [identities EXCEPT ![q.identity] = q.plan.user]
    /\ google' = IF q.plan.do = "touch" THEN google
                 ELSE [google EXCEPT ![q.plan.user] = @ \cup {q.identity}]
    /\ IF q.plan.do = "create" THEN NewUser(q, TRUE) ELSE UNCHANGED <<users, emails>>
    /\ UNCHANGED <<passwords, credentials, passkeys, records, tokens>>

DoUnlink(q) ==
    /\ identities' = [identities EXCEPT ![q.plan.old] = None]
    /\ google' = [google EXCEPT ![q.user] = @ \ {q.plan.old}]
    /\ UNCHANGED <<users, emails, passwords, credentials, passkeys, records, tokens>>

\* Registration and every authentication write the whole credential.
DoCredential(q) ==
    /\ credentials' = [credentials EXCEPT ![q.credential] = q.user]
    /\ passkeys' = IF q.method = "enrol" THEN [passkeys EXCEPT ![q.user] = @ \cup {q.credential}]
                   ELSE passkeys
    /\ UNCHANGED <<users, emails, passwords, identities, google, records, tokens>>

DoDelete(q) ==
    /\ credentials' = [credentials EXCEPT ![q.credential] = None]
    /\ passkeys' = [passkeys EXCEPT ![q.user] = @ \ {q.credential}]
    /\ UNCHANGED <<users, emails, passwords, identities, google, records, tokens>>

Pipeline(q) ==
    \/ q.method = "register" /\ DoRegister(q)
    \/ q.method \in {"add", "replace", "remove"} /\ DoPassword(q)
    \/ q.method = "issue" /\ DoIssue(q)
    \/ q.method = "verify" /\ DoVerify(q)
    \/ q.method = "reset" /\ DoReset(q)
    \/ q.method = "resolve" /\ DoResolve(q)
    \/ q.method = "unlink" /\ DoUnlink(q)
    \/ q.method \in {"enrol", "use"} /\ DoCredential(q)
    \/ q.method = "delete" /\ DoDelete(q)

-----------------------------------------------------------------------------
(***************************************************************************)
(* The transaction.                                                        *)
(***************************************************************************)

Watch(r) ==
    /\ req[r].pc = "watch"
    /\ req' = [req EXCEPT ![r].pc = "read", ![r].dirty = FALSE]
    /\ UNCHANGED db

Read(r) ==
    /\ req[r].pc = "read"
    /\ \/ \E plan \in Plans(r) : req' = [req EXCEPT ![r].pc = "exec", ![r].plan = plan]
       \/ Plans(r) = {} /\ req' = [req EXCEPT ![r] = Idle]
    /\ UNCHANGED db

\* The next attempt follows the spoilt EXEC at once: its WATCH is part of this step.
Retry(r) ==
    req' = [req EXCEPT ![r] =
               IF req[r].tries + 1 < WatchAttempts
                 THEN [req[r] EXCEPT !.pc = "read", !.dirty = FALSE, !.tries = req[r].tries + 1]
                 ELSE Idle]

\* A transaction that is marked keeps no plan: its own EXEC will not apply one.
Exec(r) ==
    /\ req[r].pc = "exec"
    /\ IF req[r].dirty
         THEN Retry(r) /\ UNCHANGED db
         ELSE /\ Pipeline(req[r])
              /\ req' = [x \in Requests |->
                    IF x = r THEN Idle
                    ELSE IF /\ req[x].pc \in {"read", "exec"}
                            /\ Watches(req[x]) \cap Writes(req[r]) # {}
                      THEN [req[x] EXCEPT !.dirty = TRUE, !.plan = None] ELSE req[x]]

\* A command fails before it has an effect, or an expired token is presented.
Fail(r) ==
    /\ ~Free(r)
    /\ req' = [req EXCEPT ![r] = Idle]
    /\ UNCHANGED db

Init ==
    /\ users = [u \in Users |-> None]
    /\ emails = [e \in Emails |-> None]
    /\ passwords = [u \in Users |-> None]
    /\ identities = [p \in Identities |-> None]
    /\ google = [u \in Users |-> {}]
    /\ credentials = [c \in Credentials |-> None]
    /\ passkeys = [u \in Users |-> {}]
    /\ records = [k \in Kinds |-> [u \in Users |-> None]]
    /\ tokens = [k \in Kinds |-> [t \in MailTokens |-> None]]
    /\ req = [r \in Requests |-> Idle]

PasswordCalls(r) ==
    \E u \in Users, h \in Hashes :
        \/ \E e \in Emails : Register(r, u, e, h)
        \/ AddPassword(r, u, h) \/ ReplacePasswordHash(r, u, h) \/ RemovePassword(r, u)

MailCalls(r) ==
    \E t \in MailTokens :
        \/ \E kind \in Kinds, u \in Users : Issue(r, kind, u, t)
        \/ Verify(r, t)
        \/ \E h \in Hashes : ResetPassword(r, t, h)

IdentityCalls(r) ==
    \/ \E p \in Identities, u \in Users \cup {None}, e \in Emails : ResolveIdentity(r, p, u, e)
    \/ \E u \in Users : UnlinkIdentity(r, u)
    \/ \E u \in Users, c \in Credentials :
          CompleteRegistration(r, u, c) \/ CompleteAuthentication(r, u, c)
          \/ DeleteCredential(r, u, c)

Next ==
    \E r \in Requests :
        \/ PasswordCalls(r) \/ MailCalls(r) \/ IdentityCalls(r)
        \/ Watch(r) \/ Read(r) \/ Exec(r) \/ Fail(r)

Spec == Init /\ [][Next]_vars

-----------------------------------------------------------------------------
\* Every hash, set and call keeps its shape, within the attempts of Adapter.watch.
TypeOK ==
    /\ users \in [Users -> User \cup {None}]
    /\ emails \in [Emails -> Users \cup {None}]
    /\ passwords \in [Users -> Hashes \cup {None}]
    /\ identities \in [Identities -> Users \cup {None}]
    /\ google \in [Users -> SUBSET Identities]
    /\ credentials \in [Credentials -> Users \cup {None}]
    /\ passkeys \in [Users -> SUBSET Credentials]
    /\ records \in [Kinds -> [Users -> MailTokens \cup {None}]]
    /\ tokens \in [Kinds -> [MailTokens -> Users \cup {None}]]
    /\ req \in [Requests -> Request]

\* However removals of an account's password, Google identity and passkeys race with
\* each other, one method to sign in is always left.
NeverLockedOut ==
    \A u \in Users : users[u] # None =>
        passwords[u] # None \/ google[u] # {} \/ passkeys[u] # {}

\* "Each user may have only one Google identity": two links of one account never both
\* succeed.
OneIdentityPerUser == \A u \in Users : \A p, q \in google[u] : p = q

\* The sets beside the hashes, which the counts of remaining methods trust, list exactly
\* the account's identities and passkeys; an address and a mailed token lead to the one
\* account that holds them.
IndexesAgree ==
    /\ \A u \in Users :
          /\ google[u] = {p \in Identities : identities[p] = u}
          /\ passkeys[u] = {c \in Credentials : credentials[c] = u}
          /\ \A k \in Kinds, t \in MailTokens : tokens[k][t] = u <=> records[k][u] = t
    /\ \A e \in Emails, u \in Users :
          emails[e] = u <=> (users[u] # None /\ users[u].email = e)

\* Whatever an EXEC writes is still what the method would decide from the state it
\* writes to: the keys watched cover the keys read.
DecisionsStillHold ==
    [][\A r \in Requests :
          req[r].pc = "exec" /\ db' # db /\ req'[r] = Idle => req[r].plan \in Plans(r)]_vars

=============================================================================
