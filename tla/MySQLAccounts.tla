---------------------------- MODULE MySQLAccounts ----------------------------
(***************************************************************************)
(* The MySQL adapter's stores of accounts: users, passwords, mailed        *)
(* tokens, Google identities and passkeys, each method by what it locks,   *)
(* decides and writes (see MySQLTransactions).                             *)
(*                                                                         *)
(* The methods that remove a way to sign in count the others with a plain  *)
(* SELECT.  That nobody removes those others meanwhile rests on lockUser,  *)
(* and that nobody adds one on the foreign keys, whose check waits for the *)
(* user's row.                                                             *)
(*                                                                         *)
(* Left out: the WebAuthn handle, whose unique index has random keys, and  *)
(* the content of a credential (module Passkeys has its counter).          *)
(***************************************************************************)
EXTENDS MySQLTransactions

CONSTANTS Emails, Hashes, Identities, Credentials, MailTokens, Ceremonies

User(u) == <<"users", u>>
Email(e) == <<"users.email", e>>                \* a unique index
Password(u) == <<"password_credentials", u>>
Identity(p) == <<"google_identities", p>>
IdentityUser(u) == <<"google_identities.user", u>>   \* a unique index
Passkey(k) == <<"passkey_credentials", k>>
Ceremony(h) == <<"passkey_ceremonies", h>>
Mail(kind, u) == <<kind, u>>

Kinds == {"email_verifications", "password_resets"}

IdentitiesOf(u) == {p \in Identities : Row(Identity(p)) = u}

PasskeysOf(u) == {k \in Credentials : Row(Passkey(k)) = u}

\* Slip: the user's row is read without FOR UPDATE.
LockUserMissing(u) == {}

LockUser(u) == {User(u)}

NewUser(u, e, verified) ==
    User(u) :> [email |-> e, verified |-> verified] @@ Email(e) :> u

NewIdentity(p, u) == Identity(p) :> u @@ IdentityUser(u) :> p

-----------------------------------------------------------------------------
(***************************************************************************)
(* Passwords.                                                              *)
(***************************************************************************)

Register(c) ==
    Method({}, "ok", Statements(NewUser(c.user, c.email, FALSE) @@ Password(c.user) :> c.hash, <<>>))

AddPassword(c) ==
    Method(LockUser(c.user), IF Exists(User(c.user)) THEN "ok" ELSE "not_found",
        Statements(Password(c.user) :> c.hash, <<>>))

ReplacePasswordHash(c) ==
    Method({}, IF Row(Password(c.user)) = c.current THEN "ok" ELSE "conflict",
        Statements(<<>>, Password(c.user) :> c.hash))

\* The hash is compared in the snapshot and not again by the DELETE.
RemovePassword(c) ==
    Method(LockUser(c.user),
        IF ~Exists(User(c.user)) \/ ~Exists(Password(c.user)) THEN "not_found"
        ELSE IF rows[Password(c.user)] # c.current THEN "conflict"
        ELSE IF IdentitiesOf(c.user) \cup PasskeysOf(c.user) = {} THEN "last_credential"
        ELSE "ok",
        Statements(<<>>, Erased({Password(c.user)})))

-----------------------------------------------------------------------------
(***************************************************************************)
(* Mailed tokens: one row per user and purpose, replaced by the next.      *)
(***************************************************************************)

Issue(c) == Method({}, "ok", Statements(<<>>, Mail(c.kind, c.user) :> c.token))

\* SELECT ... JOIN authlier_users ... FOR UPDATE locks the rows of both tables.
Mailed(kind, t) == {u \in Users : Row(Mail(kind, u)) = t /\ Exists(User(u))}

MailedRows(kind, t) == {Mail(kind, u) : u \in Mailed(kind, t)} \cup UNION {LockUser(u) : u \in Mailed(kind, t)}

Verify(c) ==
    LET found == Mailed("email_verifications", c.token) IN
    Method(MailedRows("email_verifications", c.token),
        IF found = {} THEN "not_found"
        ELSE IF \E u \in found : rows[User(u)].verified THEN "inactive_token" ELSE "ok",
        Statements(<<>>,
            [d \in {User(u) : u \in found} |-> [rows[d] EXCEPT !.verified = TRUE]]
              @@ Erased({Mail("email_verifications", u) : u \in found})))

ResetPassword(c) ==
    LET found == Mailed("password_resets", c.token) IN
    Method(MailedRows("password_resets", c.token),
        IF found = {} THEN "not_found" ELSE "ok",
        Statements(<<>>,
            [d \in {Password(u) : u \in found} |-> c.hash]
              @@ Erased({Mail("password_resets", u) : u \in found})))

-----------------------------------------------------------------------------
(***************************************************************************)
(* Google identities.                                                      *)
(***************************************************************************)

\* A known identity signs its owner in; only its email is written.
ResolveKnown(c) ==
    LET owner == rows[Identity(c.identity)] IN
    Method({Identity(c.identity)},
        IF c.user \in {None, owner} THEN "ok" ELSE "conflict",
        Statements(<<>>, Identity(c.identity) :> owner))

ResolveLink(c) ==
    Method({Identity(c.identity)} \cup LockUser(c.user),
        IF ~Exists(User(c.user)) THEN "not_found"
        ELSE IF IdentitiesOf(c.user) # {} THEN "conflict" ELSE "ok",
        Statements(NewIdentity(c.identity, c.user), <<>>))

ResolveCreate(c) ==
    Method({Identity(c.identity), Email(c.email)},
        IF Exists(Email(c.email)) THEN "link_required" ELSE "ok",
        Statements(NewUser(c.new, c.email, TRUE) @@ NewIdentity(c.identity, c.new), <<>>))

\* c.user: the signed-in account to link to, None for a sign-in.
ResolveIdentity(c) ==
    IF Exists(Identity(c.identity)) THEN ResolveKnown(c)
    ELSE IF c.user # None THEN ResolveLink(c)
    ELSE ResolveCreate(c)

UnlinkIdentity(c) ==
    LET identities == {Identity(p) : p \in IdentitiesOf(c.user)} IN
    Method(LockUser(c.user) \cup identities,
        IF ~Exists(User(c.user)) \/ identities = {} THEN "not_found"
        ELSE IF ~Exists(Password(c.user)) /\ PasskeysOf(c.user) = {} THEN "last_credential"
        ELSE "ok",
        Statements(<<>>, Erased(identities \cup {IdentityUser(c.user)})))

-----------------------------------------------------------------------------
(***************************************************************************)
(* Passkeys.  A sign-in ceremony is stored without a subject, None.        *)
(***************************************************************************)

CreateCeremony(c) ==
    Method({}, "ok",
        Statements(Ceremony(c.token) :> [type |-> c.type, user |-> c.user, consumed |-> FALSE], <<>>))

Consumable(h, u, type) == Row(Ceremony(h)) = [type |-> type, user |-> u, consumed |-> FALSE]

\* consumePasskeyCeremony
Consume(h) ==
    [d \in {e \in {Ceremony(h)} : Exists(e)} |-> [rows[d] EXCEPT !.consumed = TRUE]]

CompleteRegistration(c) ==
    Method({}, IF Consumable(c.token, c.user, "registration") THEN "ok" ELSE "inactive_ceremony",
        Statements(Passkey(c.credential) :> c.user, Consume(c.token)))

CompleteAuthentication(c) ==
    Method({},
        IF ~Consumable(c.token, c.user, "authentication") THEN "inactive_ceremony"
        ELSE IF Row(Passkey(c.credential)) # c.user THEN "conflict" ELSE "ok",
        Statements(<<>>, Consume(c.token) @@ Passkey(c.credential) :> c.user))

DeleteCredential(c) ==
    LET last == \E k \in Credentials : PasskeysOf(c.user) = {k}
        others == Exists(Password(c.user)) \/ IdentitiesOf(c.user) # {}
    IN
    Method(LockUser(c.user),
        IF ~Exists(User(c.user)) THEN "not_found"
        ELSE IF last /\ ~others THEN "last_credential"
        ELSE IF c.credential \notin PasskeysOf(c.user) THEN "not_found" ELSE "ok",
        Statements(<<>>, Erased({Passkey(c.credential)})))

-----------------------------------------------------------------------------
(***************************************************************************)
(* The calls.  An account exists once a request has been authenticated as  *)
(* it; `current` is the hash the manager verified the password against; a  *)
(* new user ID is a fresh UUID.                                            *)
(***************************************************************************)

Fresh(u) ==
    /\ ~Exists(User(u))
    /\ \A x \in Requests : req[x].call # None =>
          \A field \in {"user", "new"} \cap DOMAIN req[x].call : req[x].call[field] # u

PasswordCalls(r) ==
    \E u \in Users, h \in Hashes :
        \/ /\ Fresh(u)
           /\ \E e \in Emails : Call(r, [method |-> "register", user |-> u, email |-> e, hash |-> h])
        \/ /\ Exists(User(u))
           /\ Call(r, [method |-> "addPassword", user |-> u, hash |-> h])
        \/ /\ Exists(Password(u))
           /\ \/ Call(r, [method |-> "replaceHash", user |-> u, hash |-> h,
                          current |-> rows[Password(u)]])
              \/ Call(r, [method |-> "removePassword", user |-> u, current |-> rows[Password(u)]])

\* A token that is mailed is drawn at random: no one has it yet.
Unmailed(t) ==
    /\ \A kind \in Kinds, u \in Users : Row(Mail(kind, u)) # t
    /\ \A x \in Requests : req[x].call # None /\ "token" \in DOMAIN req[x].call
                             => req[x].call.token # t

MailCalls(r) ==
    \E t \in MailTokens :
        \/ \E kind \in Kinds, u \in Users :
              /\ Exists(User(u)) /\ Unmailed(t)
              /\ Call(r, [method |-> "issue", kind |-> kind, user |-> u, token |-> t])
        \/ Call(r, [method |-> "verify", token |-> t])
        \/ \E h \in Hashes : Call(r, [method |-> "reset", token |-> t, hash |-> h])

IdentityCalls(r) ==
    \E u \in Users, e \in Emails, p \in Identities :
        \/ /\ Exists(User(u))
           /\ Call(r, [method |-> "resolve", identity |-> p, user |-> u, email |-> e, new |-> None])
        \/ /\ Fresh(u)
           /\ Call(r, [method |-> "resolve", identity |-> p, user |-> None, email |-> e, new |-> u])
        \/ Exists(User(u)) /\ Call(r, [method |-> "unlink", user |-> u])

PasskeyCalls(r) ==
    \E h \in Ceremonies :
        \/ Call(r, [method |-> "createCeremony", token |-> h, type |-> "authentication",
                    user |-> None])
        \/ \E u \in Users : Exists(User(u)) /\
              \/ Call(r, [method |-> "createCeremony", token |-> h, type |-> "registration",
                          user |-> u])
              \/ \E k \in Credentials :
                    \/ /\ Exists(Ceremony(h))
                       /\ Call(r, [method |-> "completeRegistration", token |-> h, user |-> u,
                                   credential |-> k])
                    \/ /\ Exists(Ceremony(h)) /\ Row(Passkey(k)) = u
                       /\ Call(r, [method |-> "completeAuthentication", token |-> h, user |-> u,
                                   credential |-> k])
                    \/ Call(r, [method |-> "deleteCredential", user |-> u, credential |-> k])

AccountCalls(r) == PasswordCalls(r) \/ MailCalls(r) \/ IdentityCalls(r) \/ PasskeyCalls(r)

-----------------------------------------------------------------------------
\* However the removals of an account's password, Google identity and passkeys race,
\* one method to sign in is left, although they count with plain SELECTs.
NeverLockedOut ==
    \A u \in Users : Exists(User(u)) =>
        Exists(Password(u)) \/ IdentitiesOf(u) # {} \/ PasskeysOf(u) # {}

\* "one user cannot race two different Google identities into the account", and the
\* unique index agrees with the rows.
OneIdentityPerUser ==
    \A u \in Users : IdentitiesOf(u) = IF Exists(IdentityUser(u)) THEN {rows[IdentityUser(u)]} ELSE {}

\* An address leads to the one account that has it.
EmailsUnique ==
    \A u \in Users, e \in Emails :
        Row(Email(e)) = u <=> Exists(User(u)) /\ rows[User(u)].email = e

=============================================================================
