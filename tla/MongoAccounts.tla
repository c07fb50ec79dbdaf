---------------------------- MODULE MongoAccounts ----------------------------
(***************************************************************************)
(* The MongoDB adapter's stores of accounts: users, passwords, mailed      *)
(* tokens, Google identities and passkeys.  Each method is an operator     *)
(* that says what it decides from the documents it finds (see              *)
(* MongoTransactions).                                                     *)
(*                                                                         *)
(* No index makes an account's Google identity unique, and removing a      *)
(* method to sign in is decided by counting documents that the removal     *)
(* does not write.  Both rest on lockUser, which writes the user document  *)
(* for the sake of the conflict alone.                                     *)
(*                                                                         *)
(* Left out: the WebAuthn handle's unique index, which has random keys,    *)
(* and the content of a credential (module Passkeys has its counter).      *)
(***************************************************************************)
EXTENDS MongoTransactions

CONSTANTS Emails, Hashes, Identities, Credentials, MailTokens, Ceremonies

User(u) == <<"users", u>>
Email(e) == <<"users.email", e>>     \* the unique index
Password(u) == <<"password_credentials", u>>
Identity(p) == <<"google_identities", p>>
Passkey(k) == <<"passkey_credentials", k>>
Ceremony(h) == <<"passkey_ceremonies", h>>
Mail(kind, u) == <<kind, u>>

Kinds == {"email_verifications", "password_resets"}

IdentitiesOf(u) == {p \in Identities : Doc(Identity(p)) = u}

PasskeysOf(u) == {k \in Credentials : Doc(Passkey(k)) = u}

\* Slip: the user document is only read.
LockUserReading(u) == <<>>

\* $inc of credential_version, which nothing reads.
LockUser(u) == User(u) :> docs[User(u)]

NewUser(u, e, verified) ==
    User(u) :> [email |-> e, verified |-> verified] @@ Email(e) :> u

-----------------------------------------------------------------------------
(***************************************************************************)
(* Passwords.                                                              *)
(***************************************************************************)

Register(c) ==
    IF Exists(Email(c.email)) THEN Refuse("conflict")
    ELSE Ok(NewUser(c.user, c.email, FALSE) @@ Password(c.user) :> c.hash)

AddPassword(c) ==
    IF ~Exists(User(c.user)) THEN Refuse("not_found")
    ELSE IF Exists(Password(c.user)) THEN Refuse("conflict")
    ELSE Ok(LockUser(c.user) @@ Password(c.user) :> c.hash)

ReplacePasswordHash(c) ==
    IF Doc(Password(c.user)) = c.current THEN Ok(Password(c.user) :> c.hash)
    ELSE Refuse("conflict")

RemovePassword(c) ==
    IF ~Exists(User(c.user)) \/ ~Exists(Password(c.user)) THEN Refuse("not_found")
    ELSE IF docs[Password(c.user)] # c.current THEN Refuse("conflict")
    ELSE IF IdentitiesOf(c.user) \cup PasskeysOf(c.user) = {} THEN Refuse("last_credential")
    ELSE Ok(LockUser(c.user) @@ Erased({Password(c.user)}))

-----------------------------------------------------------------------------
(***************************************************************************)
(* Mailed tokens: one document per user and purpose, replaced by the next. *)
(***************************************************************************)

Issue(c) == Ok(Mail(c.kind, c.user) :> c.token)

MailedTo(kind, t) == {u \in Users : Doc(Mail(kind, u)) = t}

Verify(c) ==
    LET found == {u \in MailedTo("email_verifications", c.token) : Exists(User(u))}
        u == CHOOSE u \in found : TRUE
    IN IF found = {} THEN Refuse("not_found")
       ELSE IF docs[User(u)].verified THEN Refuse("inactive_token")
       ELSE Ok(User(u) :> [docs[User(u)] EXCEPT !.verified = TRUE]
                          @@ Erased({Mail("email_verifications", u)}))

\* ResetPassword does not lock the user: it only ever adds a method.
ResetPassword(c) ==
    LET found == {u \in MailedTo("password_resets", c.token) : Exists(User(u))}
        u == CHOOSE u \in found : TRUE
    IN IF found = {} THEN Refuse("not_found")
       ELSE Ok(Password(u) :> c.hash @@ Erased({Mail("password_resets", u)}))

-----------------------------------------------------------------------------
(***************************************************************************)
(* Google identities.                                                      *)
(***************************************************************************)

\* A known identity signs its owner in; its email is written, so the document is.
ResolveKnown(c) ==
    LET owner == docs[Identity(c.identity)] IN
    IF c.user \notin {None, owner} THEN Refuse("conflict")
    ELSE Ok(Identity(c.identity) :> owner)

ResolveLink(c) ==
    IF ~Exists(User(c.user)) THEN Refuse("not_found")
    ELSE IF IdentitiesOf(c.user) # {} THEN Refuse("conflict")
    ELSE Ok(LockUser(c.user) @@ Identity(c.identity) :> c.user)

ResolveCreate(c) ==
    IF Exists(Email(c.email)) THEN Refuse("link_required")
    ELSE Ok(NewUser(c.new, c.email, TRUE) @@ Identity(c.identity) :> c.new)

\* c.user: the signed-in account to link to, None for a sign-in.
ResolveIdentity(c) ==
    IF Exists(Identity(c.identity)) THEN ResolveKnown(c)
    ELSE IF c.user # None THEN ResolveLink(c)
    ELSE ResolveCreate(c)

UnlinkIdentity(c) ==
    IF ~Exists(User(c.user)) \/ IdentitiesOf(c.user) = {} THEN Refuse("not_found")
    ELSE IF ~Exists(Password(c.user)) /\ PasskeysOf(c.user) = {} THEN Refuse("last_credential")
    ELSE Ok(LockUser(c.user)
              @@ Erased({Identity(CHOOSE p \in IdentitiesOf(c.user) : TRUE)}))

-----------------------------------------------------------------------------
(***************************************************************************)
(* Passkeys.  A sign-in ceremony is stored without a subject, None.        *)
(***************************************************************************)

CreateCeremony(c) ==
    IF Exists(Ceremony(c.token)) THEN Refuse("conflict")
    ELSE Ok(Ceremony(c.token) :> [type |-> c.type, user |-> c.user, consumed |-> FALSE])

Consumable(h, u, type) == Doc(Ceremony(h)) = [type |-> type, user |-> u, consumed |-> FALSE]

ConsumeCeremony(h) == Ceremony(h) :> [docs[Ceremony(h)] EXCEPT !.consumed = TRUE]

CompleteRegistration(c) ==
    IF ~Consumable(c.token, c.user, "registration") THEN Refuse("inactive_ceremony")
    ELSE IF ~Exists(User(c.user)) THEN Refuse("not_found")
    ELSE IF Exists(Passkey(c.credential)) THEN Refuse("conflict")
    ELSE Ok(ConsumeCeremony(c.token) @@ LockUser(c.user)
              @@ Passkey(c.credential) :> c.user)

CompleteAuthentication(c) ==
    IF ~Consumable(c.token, c.user, "authentication") THEN Refuse("inactive_ceremony")
    ELSE IF Doc(Passkey(c.credential)) # c.user THEN Refuse("conflict")
    ELSE Ok(ConsumeCeremony(c.token) @@ Passkey(c.credential) :> c.user)

DeleteCredential(c) ==
    LET last == \E k \in Credentials : PasskeysOf(c.user) = {k}
        others == Exists(Password(c.user)) \/ IdentitiesOf(c.user) # {}
    IN IF ~Exists(User(c.user)) THEN Refuse("not_found")
    ELSE IF last /\ ~others THEN Refuse("last_credential")
    ELSE IF c.credential \notin PasskeysOf(c.user) THEN Refuse("not_found")
    ELSE Ok(LockUser(c.user) @@ Erased({Passkey(c.credential)}))

-----------------------------------------------------------------------------
(***************************************************************************)
(* The calls.  An account exists once a request has been authenticated as  *)
(* it; `current` is the hash the manager verified the password against; a  *)
(* new user ID is a fresh UUID.                                            *)
(***************************************************************************)

Fresh(u) ==
    /\ ~Exists(User(u))
    /\ \A x \in Requests : req[x].call # None =>
          \A field \in {"user", "new"} \cap DOMAIN req[x].call : req[x].call[field] # u

PasswordCalls(r) ==
    \E u \in Users, h \in Hashes :
        \/ /\ Fresh(u)
           /\ \E e \in Emails : Call(r, [method |-> "register", user |-> u, email |-> e, hash |-> h], {})
        \/ /\ Exists(User(u))
           /\ Call(r, [method |-> "addPassword", user |-> u, hash |-> h], {})
        \/ /\ Exists(Password(u))
           /\ \/ Call(r, [method |-> "replaceHash", user |-> u, hash |-> h,
                          current |-> docs[Password(u)]], {})
              \/ Call(r, [method |-> "removePassword", user |-> u,
                          current |-> docs[Password(u)]], {})

\* A token that is mailed is drawn at random: no one has it yet.
Unmailed(t) ==
    /\ \A kind \in Kinds, u \in Users : Doc(Mail(kind, u)) # t
    /\ \A x \in Requests : req[x].call # None /\ "token" \in DOMAIN req[x].call
                             => req[x].call.token # t

MailCalls(r) ==
    \E t \in MailTokens :
        \/ \E kind \in Kinds, u \in Users :
              /\ Exists(User(u)) /\ Unmailed(t)
              /\ Call(r, [method |-> "issue", kind |-> kind, user |-> u, token |-> t], {})
        \/ Call(r, [method |-> "verify", token |-> t], {})
        \/ \E h \in Hashes : Call(r, [method |-> "reset", token |-> t, hash |-> h], {})

IdentityCalls(r) ==
    \E u \in Users, e \in Emails, p \in Identities :
        \/ /\ Exists(User(u))
           /\ Call(r, [method |-> "resolve", identity |-> p, user |-> u, email |-> e,
                       new |-> None], {})
        \/ /\ Fresh(u)
           /\ Call(r, [method |-> "resolve", identity |-> p, user |-> None, email |-> e,
                       new |-> u], {})
        \/ Exists(User(u)) /\ Call(r, [method |-> "unlink", user |-> u], {})

PasskeyCalls(r) ==
    \E h \in Ceremonies :
        \/ Call(r, [method |-> "createCeremony", token |-> h, type |-> "authentication",
                    user |-> None], {})
        \/ \E u \in Users : Exists(User(u)) /\
              \/ Call(r, [method |-> "createCeremony", token |-> h, type |-> "registration",
                          user |-> u], {})
              \/ \E k \in Credentials :
                    \/ /\ Exists(Ceremony(h))
                       /\ Call(r, [method |-> "completeRegistration", token |-> h, user |-> u,
                                   credential |-> k], {})
                    \/ /\ Exists(Ceremony(h)) /\ Doc(Passkey(k)) = u
                       /\ Call(r, [method |-> "completeAuthentication", token |-> h,
                                   user |-> u, credential |-> k], {})
                    \/ Call(r, [method |-> "deleteCredential", user |-> u, credential |-> k], {})

AccountCalls(r) == PasswordCalls(r) \/ MailCalls(r) \/ IdentityCalls(r) \/ PasskeyCalls(r)

-----------------------------------------------------------------------------
\* However the removals of an account's password, Google identity and passkeys race,
\* one method to sign in is left: the removals count documents they do not write.
NeverLockedOut ==
    \A u \in Users : Exists(User(u)) =>
        Exists(Password(u)) \/ IdentitiesOf(u) # {} \/ PasskeysOf(u) # {}

\* "so the account keeps at most one Google identity": two links, or a link and a first
\* sign-in, never both succeed, although no index says so.
OneIdentityPerUser == \A u \in Users : \A p, q \in IdentitiesOf(u) : p = q

\* An address leads to the one account that has it.
EmailsUnique ==
    \A u \in Users, e \in Emails :
        Doc(Email(e)) = u <=> Exists(User(u)) /\ docs[User(u)].email = e

=============================================================================
