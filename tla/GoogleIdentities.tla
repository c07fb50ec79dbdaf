-------------------------- MODULE GoogleIdentities --------------------------
(***************************************************************************)
(* GoogleStore.ResolveIdentity and UnlinkIdentity over several accounts,   *)
(* as PostgreSQL runs them under READ COMMITTED: each statement sees what  *)
(* is committed when it starts, and row locks are held to the end of the   *)
(* transaction.  A user is modelled by its email address, which is unique. *)
(* Registration with a password runs beside them.                          *)
(*                                                                         *)
(* authlier_google_identities is keyed by the Google subject, and has a    *)
(* unique index on the user: what the checks before the INSERT miss, these *)
(* refuse, and the whole transaction with it.                              *)
(***************************************************************************)
EXTENDS Integers

CONSTANTS
    Requests,
    Emails,     \* addresses, and the users registered with them
    Subjects,   \* Google subjects
    None

VARIABLES
    users,      \* authlier_users
    passwords,  \* the users with a row in authlier_password_credentials
    identity,   \* authlier_google_identities: the user of each Google subject
    lock,       \* the transaction that holds each user's row
    req

vars == <<users, passwords, identity, lock, req>>

\* Request: a flow for Google subject sub with address email; user is the
\* challenge's SubjectID, None for a sign-in.
Request == [pc: {"idle", "lock", "check", "insert", "byemail", "create", "unlink", "delete"},
            sub: Subjects \cup {None}, email: Emails \cup {None}, user: Emails \cup {None}]

Idle == [pc |-> "idle", sub |-> None, email |-> None, user |-> None]

Free(r) == req[r].pc = "idle"

Goto(r, pc) == req' = [req EXCEPT ![r].pc = pc]

\* Slip: an early return leaves the transaction open.
EndLeaking(r) ==
    /\ req' = [req EXCEPT ![r] = Idle]
    /\ UNCHANGED lock

\* Commit or rollback: the locks of the transaction are released.
End(r) ==
    /\ req' = [req EXCEPT ![r] = Idle]
    /\ lock' = [u \in Emails |-> IF lock[u] = r THEN None ELSE lock[u]]

IdentitiesOf(u) == {s \in Subjects : identity[s] = u}

-----------------------------------------------------------------------------
(***************************************************************************)
(* ResolveIdentity.                                                        *)
(***************************************************************************)

\* The Google subject is looked up: a known one ends the transaction, with its user
\* or, when another account asked to link it, with ErrConflict.
FindIdentity(r, sub, email, user) ==
    /\ Free(r)
    /\ user # None => user \in users
    /\ IF identity[sub] # None
         THEN UNCHANGED req
         ELSE req' = [req EXCEPT ![r] =
                  [pc |-> IF user = None THEN "byemail" ELSE "lock",
                   sub |-> sub, email |-> email, user |-> user]]
    /\ UNCHANGED <<users, passwords, identity, lock>>

\* SELECT ... FOR UPDATE waits for the row.
Acquire(r) ==
    /\ lock[req[r].user] = None
    /\ lock' = [lock EXCEPT ![req[r].user] = r]

LockUser(r) ==
    /\ req[r].pc = "lock"
    /\ Acquire(r)
    /\ Goto(r, "check")
    /\ UNCHANGED <<users, passwords, identity>>

\* A user who has an identity by now is ErrConflict.
CheckLinked(r) ==
    /\ req[r].pc = "check"
    /\ IF IdentitiesOf(req[r].user) # {} THEN End(r) ELSE Goto(r, "insert") /\ UNCHANGED lock
    /\ UNCHANGED <<users, passwords, identity>>

\* The primary key refuses a Google subject that has been linked meanwhile, the unique
\* index a second one of the user.
Linked(sub, user) ==
    IF identity[sub] = None /\ IdentitiesOf(user) = {} THEN [identity EXCEPT ![sub] = user]
    ELSE identity

InsertIdentity(r) ==
    /\ req[r].pc = "insert"
    /\ identity' = Linked(req[r].sub, req[r].user)
    /\ End(r)
    /\ UNCHANGED <<users, passwords>>

\* A sign-in with an address that has an account is ErrLinkRequired; the FOR UPDATE
\* waits for a transaction that holds that account.
FindByEmail(r) ==
    /\ req[r].pc = "byemail"
    /\ IF req[r].email \in users
         THEN lock[req[r].email] = None /\ End(r)
         ELSE Goto(r, "create") /\ UNCHANGED lock
    /\ UNCHANGED <<users, passwords, identity>>

\* Slip: an account that appeared meanwhile is used.
MayCreateOrAdopt(r) == identity[req[r].sub] = None

\* The unique address refuses an account that appeared meanwhile, the primary key a
\* Google subject that did; either rolls the whole transaction back.
MayCreate(r) == req[r].email \notin users /\ identity[req[r].sub] = None

\* insertUser and the identity, in one transaction.
CreateUser(r) ==
    LET q == req[r] IN
    /\ q.pc = "create"
    /\ IF MayCreate(r)
         THEN users' = users \cup {q.email} /\ identity' = Linked(q.sub, q.email)
         ELSE UNCHANGED <<users, identity>>
    /\ End(r)
    /\ UNCHANGED passwords

-----------------------------------------------------------------------------
(***************************************************************************)
(* UnlinkIdentity, registration and failures.                              *)
(***************************************************************************)

BeginUnlink(r, user) ==
    /\ Free(r)
    /\ user \in users
    /\ req' = [req EXCEPT ![r] = [Idle EXCEPT !.pc = "unlink", !.user = user]]
    /\ UNCHANGED <<users, passwords, identity, lock>>

\* The user's row is locked and its methods are counted.
CountMethods(r) ==
    LET user == req[r].user IN
    /\ req[r].pc = "unlink"
    /\ lock[user] = None
    /\ IF IdentitiesOf(user) # {} /\ user \in passwords
         THEN lock' = [lock EXCEPT ![user] = r] /\ Goto(r, "delete")
         ELSE End(r)
    /\ UNCHANGED <<users, passwords, identity>>

DeleteIdentity(r) ==
    /\ req[r].pc = "delete"
    /\ identity' = [s \in Subjects |-> IF identity[s] = req[r].user THEN None ELSE identity[s]]
    /\ End(r)
    /\ UNCHANGED <<users, passwords>>

\* CreateUserWithPassword: the unique address refuses a second account.
Register(email) ==
    /\ email \notin users
    /\ users' = users \cup {email}
    /\ passwords' = passwords \cup {email}
    /\ UNCHANGED <<identity, lock, req>>

\* A statement fails or the connection is lost: the transaction is rolled back.
Rollback(r) ==
    /\ ~Free(r)
    /\ End(r)
    /\ UNCHANGED <<users, passwords, identity>>

Init ==
    /\ users = {} /\ passwords = {}
    /\ identity = [s \in Subjects |-> None]
    /\ lock = [u \in Emails |-> None]
    /\ req = [r \in Requests |-> Idle]

Step(r) ==
    \/ LockUser(r) \/ CheckLinked(r) \/ InsertIdentity(r)
    \/ FindByEmail(r) \/ CreateUser(r)
    \/ CountMethods(r) \/ DeleteIdentity(r)

Next ==
    \/ \E e \in Emails : Register(e)
    \/ \E r \in Requests :
          \/ \E s \in Subjects, e \in Emails, u \in Emails \cup {None} : FindIdentity(r, s, e, u)
          \/ \E u \in Emails : BeginUnlink(r, u)
          \/ Step(r) \/ Rollback(r)

Spec == Init /\ [][Next]_vars

\* The database runs every statement it has accepted unless a lock keeps it waiting.
FairSpec == Spec /\ \A r \in Requests : SF_vars(Step(r))

-----------------------------------------------------------------------------
\* The tables and requests keep their shape, identities and passwords belong to users,
\* and a lock is held only by a transaction that is open.
TypeOK ==
    /\ users \subseteq Emails
    /\ passwords \subseteq users
    /\ identity \in [Subjects -> users \cup {None}]
    /\ lock \in [Emails -> Requests \cup {None}]
    /\ \A u \in Emails : lock[u] # None => ~Free(lock[u])
    /\ req \in [Requests -> Request]

\* "Each user may have only one Google identity" (googleoauth.go), however the links of
\* one account and its first sign-in race.
OneIdentityPerUser == \A u \in Emails : \A s, t \in IdentitiesOf(u) : s = t

\* Every account can be signed in to: one that a Google sign-in creates never remains
\* without its identity, whichever unique key the transaction runs into.
EveryUserHasAMethod == \A u \in users : u \in passwords \/ IdentitiesOf(u) # {}

\* What holds of accounts, identities and locks together, between any two statements.
Consistent == TypeOK /\ OneIdentityPerUser /\ EveryUserHasAMethod

\* A Google sign-in is never attached to an account that exists: an identity appears
\* only with a new account or in a link that the account's own session began.
SignInNeverLinks ==
    [][\A s \in Subjects :
          identity[s] = None /\ identity'[s] # None =>
              \/ identity'[s] \notin users
              \/ \E r \in Requests : req[r].pc = "insert" /\ req[r].user = identity'[s]]_vars

\* Every transaction ends: no request waits for a lock for ever.
TransactionsEnd == \A r \in Requests : ~Free(r) ~> Free(r)
=============================================================================
