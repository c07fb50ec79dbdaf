------------------------------ MODULE Accounts ------------------------------
(***************************************************************************)
(* One account and everything that changes how its owner can sign in:      *)
(* emailpassword.Manager, passwordreset.Manager, emailverification.Manager *)
(* and the identity store of googleoauth, over the tables of the           *)
(* PostgreSQL adapter.                                                     *)
(*                                                                         *)
(* A manager first reads, then runs a transaction; requests interleave in  *)
(* between.  A transaction that removes a sign-in method locks the user's  *)
(* row, counts the other methods and deletes: two steps, the lock held in  *)
(* between.  The other transactions hold the lock over nothing that        *)
(* another transaction could disturb and are one step, enabled while the   *)
(* row is not locked; inserting a row that references the user also waits  *)
(* for the lock.  ReplacePasswordHash is the exception: it updates the     *)
(* password row alone and waits for nobody.                                *)
(*                                                                         *)
(* A password hash is salted, so hashing gives a new value every time.     *)
(***************************************************************************)
EXTENDS Integers, FiniteSets

CONSTANTS
    Requests,
    Passwords,
    Providers,       \* Google subjects
    Keys,            \* passkeys
    Tokens,          \* mailed tokens, each drawn once
    TokenLifetime,
    MaxHashes,       \* bound: passwords hashed in a modelled run
    MaxTime,         \* bound: the last instant of a modelled run
    None

ASSUME AccountsAssumption ==
    /\ TokenLifetime \in Nat \ {0}
    /\ MaxHashes \in Nat /\ MaxTime \in Nat
    /\ None \notin Requests \cup Providers

VARIABLES
    now,
    exists,        \* the row of authlier_users
    verified,      \* its email_verified
    password,      \* the row of authlier_password_credentials
    identity,      \* the row of authlier_google_identities
    passkeys,      \* authlier_passkey_credentials
    reset,         \* the row of authlier_password_resets
    verification,  \* the row of authlier_email_verifications
    lock,          \* the request whose transaction has the user's row locked
    hashes,        \* how many hashes have been computed
    drawn,         \* mailed tokens drawn so far
    uses,          \* history: how often a mailed token was accepted
    req

rows == <<exists, verified, password, identity, passkeys, reset, verification>>

vars == <<now, rows, lock, hashes, drawn, uses, req>>

Hash == [pw: Passwords, salt: 1..MaxHashes]

Mail == [tok: Tokens, expires: Nat]

ASSUME NoRowAssumption == None \notin Hash \cup Mail

Working == {"rehash", "replace", "remove", "removing", "unlink", "unlinking",
            "deletekey", "deleting", "link", "issuereset", "issueverification"}

Holding == {"removing", "unlinking", "deleting"}

\* What the manager reported to the handler.
Reported == {"authenticated", "changed", "reset", "verified", "done"}

Request == [pc: Working \cup Reported, old: Hash \cup {None}, new: Hash \cup {None},
            arg: Providers \cup Keys \cup {None}]

Idle == [pc |-> "done", old |-> None, new |-> None, arg |-> None]

Free(r) == req[r].pc \notin Working

Start(r, pc) == req' = [req EXCEPT ![r] = [Idle EXCEPT !.pc = pc]]

Report(r, result) == req' = [req EXCEPT ![r] = [Idle EXCEPT !.pc = result]]

\* Slip: SELECT without FOR UPDATE.
UnlockedAlways == TRUE

Unlocked == lock = None

\* A password in the clear is hashed with a new salt.
Hashed(pw) == [pw |-> pw, salt |-> hashes + 1]

HashOnce == hashes < MaxHashes /\ hashes' = hashes + 1

Matches(pw) == password # None /\ password.pw = pw

ledger == <<drawn, uses>>

-----------------------------------------------------------------------------
(***************************************************************************)
(* Accounts come into being by registration or by a first Google sign-in.  *)
(***************************************************************************)

Register(r, pw) ==
    /\ Free(r)
    /\ ~exists                              \* otherwise ErrRegistrationUnavailable
    /\ HashOnce
    /\ exists' = TRUE
    /\ password' = Hashed(pw)
    /\ Report(r, "done")
    /\ UNCHANGED <<now, verified, identity, passkeys, reset, verification, lock, ledger>>

\* ResolveIdentity without a subject: sign in, or sign up with a verified address;
\* an existing account with the address is ErrLinkRequired.
ResolveSignIn(r, p) ==
    /\ Free(r)
    /\ \/ identity = p /\ UNCHANGED rows
       \/ /\ identity # p /\ ~exists
          /\ exists' = TRUE /\ verified' = TRUE
          /\ identity' = p
          /\ UNCHANGED <<password, passkeys, reset, verification>>
    /\ Report(r, "authenticated")
    /\ UNCHANGED <<now, lock, hashes, ledger>>

-----------------------------------------------------------------------------
(***************************************************************************)
(* Passwords.                                                              *)
(***************************************************************************)

\* Login: the password matches what FindByEmail returned; an old hash is renewed.
Login(r, pw) ==
    /\ Free(r)
    /\ Matches(pw)
    /\ \/ Report(r, "authenticated") /\ UNCHANGED hashes
       \/ /\ HashOnce
          /\ req' = [req EXCEPT ![r] = [Idle EXCEPT !.pc = "rehash", !.old = password,
                                                    !.new = Hashed(pw)]]
    /\ UNCHANGED <<now, rows, lock, ledger>>

ChangePassword(r, current, new) ==
    /\ Free(r)
    /\ Matches(current) /\ new # current
    /\ HashOnce
    /\ req' = [req EXCEPT ![r] = [Idle EXCEPT !.pc = "replace", !.old = password,
                                              !.new = Hashed(new)]]
    /\ UNCHANGED <<now, rows, lock, ledger>>

\* Slip: the UPDATE does not compare the stored hash.
ReplaceableAlways(r) == password # None

\* UPDATE ... WHERE user_id = ... AND password_hash = ...
Replaceable(r) == password = req[r].old

\* A conflict is answered like a wrong password.
ReplacePasswordHash(r) ==
    /\ req[r].pc \in {"rehash", "replace"}
    /\ \/ /\ Replaceable(r)
          /\ password' = req[r].new
          /\ Report(r, IF req[r].pc = "rehash" THEN "authenticated" ELSE "changed")
       \/ ~Replaceable(r) /\ Report(r, "done") /\ UNCHANGED password
    /\ UNCHANGED <<now, exists, verified, identity, passkeys, reset, verification, lock,
                   hashes, ledger>>

AddPassword(r, pw) ==
    /\ Free(r)
    /\ Unlocked
    /\ exists /\ password = None            \* otherwise ErrNotFound, ErrConflict
    /\ HashOnce
    /\ password' = Hashed(pw)
    /\ Report(r, "done")
    /\ UNCHANGED <<now, exists, verified, identity, passkeys, reset, verification, lock,
                   ledger>>

RemovePassword(r, current) ==
    /\ Free(r)
    /\ Matches(current)
    /\ req' = [req EXCEPT ![r] = [Idle EXCEPT !.pc = "remove", !.old = password]]
    /\ UNCHANGED <<now, rows, lock, hashes, ledger>>

-----------------------------------------------------------------------------
(***************************************************************************)
(* Removing a sign-in method.                                              *)
(***************************************************************************)

UnlinkIdentity(r) ==
    /\ Free(r) /\ exists
    /\ Start(r, "unlink")
    /\ UNCHANGED <<now, rows, lock, hashes, ledger>>

DeletePasskey(r, k) ==
    /\ Free(r) /\ exists
    /\ req' = [req EXCEPT ![r] = [Idle EXCEPT !.pc = "deletekey", !.arg = k]]
    /\ UNCHANGED <<now, rows, lock, hashes, ledger>>

PasswordCount == IF password = None THEN 0 ELSE 1

IdentityCount == IF identity = None THEN 0 ELSE 1

OtherCredentialCount == IdentityCount + Cardinality(passkeys)

\* The checks of the three transactions once the user's row is locked.
MayRemove(r) ==
    CASE req[r].pc = "remove" ->
            password # None /\ password = req[r].old /\ OtherCredentialCount > 0
      [] req[r].pc = "unlink" -> identity # None /\ PasswordCount + Cardinality(passkeys) > 0
      [] req[r].pc = "deletekey" ->
            ~(Cardinality(passkeys) = 1 /\ PasswordCount + IdentityCount = 0)

\* lockUser and the checks; a refusal rolls back and unlocks at once.
LockAndCount(r) ==
    /\ req[r].pc \in {"remove", "unlink", "deletekey"}
    /\ Unlocked
    /\ IF MayRemove(r)
       THEN /\ lock' = r
            /\ req' = [req EXCEPT ![r].pc = CASE @ = "remove" -> "removing"
                                              [] @ = "unlink" -> "unlinking"
                                              [] @ = "deletekey" -> "deleting"]
       ELSE Report(r, "done") /\ UNCHANGED lock
    /\ UNCHANGED <<now, rows, hashes, ledger>>

\* The DELETE, which names the user and not the hash, and the commit.
DeleteAndCommit(r) ==
    /\ req[r].pc \in Holding
    /\ password' = IF req[r].pc = "removing" THEN None ELSE password
    /\ identity' = IF req[r].pc = "unlinking" THEN None ELSE identity
    /\ passkeys' = IF req[r].pc = "deleting" THEN passkeys \ {req[r].arg} ELSE passkeys
    /\ lock' = None
    /\ Report(r, "done")
    /\ UNCHANGED <<now, exists, verified, reset, verification, hashes, ledger>>

-----------------------------------------------------------------------------
(***************************************************************************)
(* Adding a Google identity or a passkey.                                  *)
(***************************************************************************)

\* ResolveIdentity with a subject looks the Google subject up first ...
FindIdentity(r, p) ==
    /\ Free(r)
    /\ exists /\ identity # p
    /\ req' = [req EXCEPT ![r] = [Idle EXCEPT !.pc = "link", !.arg = p]]
    /\ UNCHANGED <<now, rows, lock, hashes, ledger>>

\* ... and links it unless the account has an identity by now.
LinkIdentity(r) ==
    /\ req[r].pc = "link"
    /\ Unlocked
    /\ identity' = IF identity = None THEN req[r].arg ELSE identity
    /\ Report(r, "done")
    /\ UNCHANGED <<now, exists, verified, password, passkeys, reset, verification, lock,
                   hashes, ledger>>

\* CompleteRegistration: the foreign key makes the INSERT wait for the user's row.
CompleteRegistration(r, k) ==
    /\ Free(r)
    /\ exists /\ Unlocked
    /\ k \notin passkeys
    /\ passkeys' = passkeys \cup {k}
    /\ Report(r, "done")
    /\ UNCHANGED <<now, exists, verified, password, identity, reset, verification, lock,
                   hashes, ledger>>

-----------------------------------------------------------------------------
(***************************************************************************)
(* Mailed tokens: password reset and email verification.                   *)
(***************************************************************************)

\* FindUserByEmail, then Issue; an address that is verified needs no token.
RequestReset(r) ==
    /\ Free(r)
    /\ exists
    /\ Start(r, "issuereset")
    /\ UNCHANGED <<now, rows, lock, hashes, ledger>>

RequestVerification(r) ==
    /\ Free(r)
    /\ exists /\ ~verified
    /\ Start(r, "issueverification")
    /\ UNCHANGED <<now, rows, lock, hashes, ledger>>

NewMail(tok) == [tok |-> tok, expires |-> now + TokenLifetime]

\* Issue replaces the token sent before, whether or not the address has been
\* verified since FindUserByEmail.
IssueReset(r, tok) ==
    /\ req[r].pc = "issuereset"
    /\ tok \notin drawn
    /\ reset # None \/ Unlocked
    /\ reset' = NewMail(tok)
    /\ drawn' = drawn \cup {tok}
    /\ Report(r, "done")
    /\ UNCHANGED <<now, exists, verified, password, identity, passkeys, verification, lock,
                   hashes, uses>>

IssueVerification(r, tok) ==
    /\ req[r].pc = "issueverification"
    /\ tok \notin drawn
    /\ verification # None \/ Unlocked
    /\ verification' = NewMail(tok)
    /\ drawn' = drawn \cup {tok}
    /\ Report(r, "done")
    /\ UNCHANGED <<now, exists, verified, password, identity, passkeys, reset, lock,
                   hashes, uses>>

Usable(mail, tok) == mail # None /\ mail.tok = tok /\ now < mail.expires

Used(tok) == uses' = [uses EXCEPT ![tok] = @ + 1]

\* Slip: the row is left in place.
SpentNever(mail) == mail

Spent(mail) == None

\* ResetPassword locks both rows, writes the password and deletes the token.
ResetPassword(r, tok, pw) ==
    /\ Free(r)
    /\ Unlocked
    /\ Usable(reset, tok)
    /\ HashOnce
    /\ password' = Hashed(pw)
    /\ reset' = Spent(reset)
    /\ Used(tok)
    /\ Report(r, "reset")
    /\ UNCHANGED <<now, exists, verified, identity, passkeys, verification, lock, drawn>>

Verifiable(tok) == Usable(verification, tok) /\ ~verified

VerifyEmail(r, tok) ==
    /\ Free(r)
    /\ Unlocked
    /\ Verifiable(tok)
    /\ verified' = TRUE
    /\ verification' = None
    /\ Used(tok)
    /\ Report(r, "verified")
    /\ UNCHANGED <<now, exists, password, identity, passkeys, reset, lock, hashes, drawn>>

-----------------------------------------------------------------------------

\* defer tx.Rollback
RolledBack(r) == IF lock = r THEN None ELSE lock

\* A call to the store fails, or the server stops: an open transaction rolls back.
Abandon(r) ==
    /\ ~Free(r)
    /\ lock' = RolledBack(r)
    /\ Report(r, "done")
    /\ UNCHANGED <<now, rows, hashes, ledger>>

Tick ==
    /\ now < MaxTime
    /\ now' = now + 1
    /\ UNCHANGED <<rows, lock, hashes, ledger, req>>

Init ==
    /\ now = 0
    /\ exists = FALSE /\ verified = FALSE
    /\ password = None /\ identity = None /\ passkeys = {}
    /\ reset = None /\ verification = None
    /\ lock = None
    /\ hashes = 0 /\ drawn = {}
    /\ uses = [tok \in Tokens |-> 0]
    /\ req = [r \in Requests |-> Idle]

\* Requests that prove something themselves.
Public(r) ==
    \/ \E pw \in Passwords : Register(r, pw) \/ Login(r, pw)
    \/ \E p \in Providers : ResolveSignIn(r, p)
    \/ RequestReset(r) \/ RequestVerification(r)
    \/ \E tok \in Tokens, pw \in Passwords : ResetPassword(r, tok, pw)
    \/ \E tok \in Tokens : VerifyEmail(r, tok)

\* Requests of a signed-in owner.
Owned(r) ==
    \/ \E current, new \in Passwords : ChangePassword(r, current, new)
    \/ \E pw \in Passwords : AddPassword(r, pw) \/ RemovePassword(r, pw)
    \/ UnlinkIdentity(r)
    \/ \E k \in Keys : DeletePasskey(r, k) \/ CompleteRegistration(r, k)
    \/ \E p \in Providers : FindIdentity(r, p)

Step(r) ==
    \/ ReplacePasswordHash(r) \/ LockAndCount(r) \/ DeleteAndCommit(r) \/ LinkIdentity(r)
    \/ \E tok \in Tokens : IssueReset(r, tok) \/ IssueVerification(r, tok)

Next ==
    \/ Tick
    \/ \E r \in Requests : Public(r) \/ Owned(r) \/ Step(r) \/ Abandon(r)

Spec == Init /\ [][Next]_vars

-----------------------------------------------------------------------------
(***************************************************************************)
(* Properties.                                                             *)
(***************************************************************************)

TypeOK ==
    /\ now \in 0..MaxTime
    /\ exists \in BOOLEAN /\ verified \in BOOLEAN
    /\ password \in Hash \cup {None}
    /\ identity \in Providers \cup {None}
    /\ passkeys \subseteq Keys
    /\ reset \in Mail \cup {None} /\ verification \in Mail \cup {None}
    /\ lock \in Requests \cup {None}
    /\ \A r \in Requests : req[r].pc \in Holding <=> lock = r
    /\ hashes \in 0..MaxHashes
    /\ drawn \subseteq Tokens
    /\ uses \in [Tokens -> Nat]
    /\ req \in [Requests -> Request]

\* An account always keeps a way to sign in, whichever of its sign-in methods are
\* removed at the same time: RemovePassword, UnlinkIdentity and DeleteCredential
\* each count the methods the others may be about to delete.
NeverLockedOut ==
    exists => password # None \/ identity # None \/ passkeys # {}

\* A login that renews an old hash never brings a password back that has been
\* changed, reset or removed since the login verified it.
RehashKeepsPassword ==
    [][\A r \in Requests :
          req[r].pc = "rehash" /\ req'[r].pc = "authenticated" /\ password' # password
          => password # None /\ password'.pw = password.pw]_vars

\* A mailed token is good once: a reset token for one new password, a verification
\* token for one sign-in, however many requests present it.
MailedTokenOnce == \A tok \in Tokens : uses[tok] <= 1

=============================================================================
