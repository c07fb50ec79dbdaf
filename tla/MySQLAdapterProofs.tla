------------------------- MODULE MySQLAdapterProofs -------------------------
(***************************************************************************)
(* Proofs about MySQLAdapter, for any number of requests, users and rows,  *)
(* and any lifetimes.                                                      *)
(*                                                                         *)
(* A method decides after its locking reads, and its statements run later, *)
(* on rows that others may have changed.  The invariant says of a decided  *)
(* method that it would decide the same now (Standing): its locks keep the *)
(* rows it relies on as they were, since no statement passes a lock of     *)
(* another transaction (Apart), nor takes a way to sign in from a user     *)
(* whose row is locked (Undisturbed).  So its statements write what is     *)
(* safe for the rows as they are (Proper), and safe writes keep the rows   *)
(* sound.  The abstract stores of the two kinds of sessions follow: what   *)
(* is committed is what the method would write if it ran in one step.      *)
(***************************************************************************)
EXTENDS MySQLAdapter, TLAPS

-----------------------------------------------------------------------------
(***************************************************************************)
(* Keys of rows, and their values.                                         *)
(***************************************************************************)

\* The key of a row tells its table and what it is about.
LEMMA Keys ==
    /\ \A x : Session(x)[1] = "sessions" /\ Session(x)[2] = x
    /\ \A x : Access(x)[1] = "access_sessions" /\ Access(x)[2] = x
    /\ \A x : Refresh(x)[1] = "refresh_tokens" /\ Refresh(x)[2] = x
    /\ \A x : User(x)[1] = "users" /\ User(x)[2] = x
    /\ \A x : Email(x)[1] = "users.email" /\ Email(x)[2] = x
    /\ \A x : Password(x)[1] = "password_credentials" /\ Password(x)[2] = x
    /\ \A x : Identity(x)[1] = "google_identities" /\ Identity(x)[2] = x
    /\ \A x : IdentityUser(x)[1] = "google_identities.user" /\ IdentityUser(x)[2] = x
    /\ \A x : Passkey(x)[1] = "passkey_credentials" /\ Passkey(x)[2] = x
    /\ \A x : Ceremony(x)[1] = "passkey_ceremonies" /\ Ceremony(x)[2] = x
    /\ \A x : Enrollment(x)[1] = "totp_enrollments" /\ Enrollment(x)[2] = x
    /\ \A x : Totp(x)[1] = "totp_credentials" /\ Totp(x)[2] = x
    /\ \A x : Recovery(x)[1] = "totp_recovery_codes" /\ Recovery(x)[2] = x
    /\ \A x : Challenge(x)[1] = "totp_challenges" /\ Challenge(x)[2] = x
    /\ \A kind, x : Mail(kind, x)[1] = kind /\ Mail(kind, x)[2] = x
    /\ \A table, x : Flow(table, x)[1] = table /\ Flow(table, x)[2] = x
BY DEF Session, Access, Refresh, User, Email, Password, Identity, IdentityUser, Passkey, Ceremony,
       Enrollment, Totp, Recovery, Challenge, Mail, Flow

\* What the rows of each table hold.
LEMMA ValuesOf ==
    /\ Values("sessions") = Cookie!Record
    /\ Values("access_sessions") = Bearer!AccessSession
    /\ Values("refresh_tokens") = Bearer!RefreshToken
    /\ Values("users") = [email: Emails, verified: BOOLEAN]
    /\ Values("users.email") = Users
    /\ Values("password_credentials") = Hashes
    /\ Values("google_identities") = Users
    /\ Values("google_identities.user") = Identities
    /\ Values("passkey_credentials") = Users
    /\ \A kind \in Kinds : Values(kind) = MailTokens
    /\ Values("passkey_ceremonies") =
          [type: {"registration", "authentication"}, user: Users \cup {None}, consumed: BOOLEAN]
    /\ Values("totp_enrollments") = [secret: Secrets, expires: Nat]
    /\ Values("totp_credentials") = [secret: Secrets, last: Nat, disabled: BOOLEAN]
    /\ Values("totp_recovery_codes") = [user: Subjects, used: BOOLEAN]
    /\ Values("totp_challenges") = [user: Subjects, expires: Nat, consumed: BOOLEAN]
    /\ \A table \in FlowTables : Values(table) = Nat
<1>1. Values("sessions") = Cookie!Record
  BY DEF Values, Kinds, FlowTables
<1>2. Values("access_sessions") = Bearer!AccessSession
  BY DEF Values, Kinds, FlowTables
<1>3. Values("refresh_tokens") = Bearer!RefreshToken
  BY DEF Values, Kinds, FlowTables
<1>4. Values("users") = [email: Emails, verified: BOOLEAN]
  BY DEF Values, Kinds, FlowTables
<1>5. Values("users.email") = Users
  BY DEF Values, Kinds, FlowTables
<1>6. Values("password_credentials") = Hashes
  BY DEF Values, Kinds, FlowTables
<1>7. Values("google_identities") = Users
  BY DEF Values, Kinds, FlowTables
<1>16. Values("google_identities.user") = Identities
  BY DEF Values, Kinds, FlowTables
<1>8. Values("passkey_credentials") = Users
  BY DEF Values, Kinds, FlowTables
<1>9. \A kind \in Kinds : Values(kind) = MailTokens
  BY DEF Values, Kinds, FlowTables
<1>10. Values("passkey_ceremonies") =
          [type: {"registration", "authentication"}, user: Users \cup {None}, consumed: BOOLEAN]
  BY DEF Values, Kinds, FlowTables
<1>11. Values("totp_enrollments") = [secret: Secrets, expires: Nat]
  BY DEF Values, Kinds, FlowTables
<1>12. Values("totp_credentials") = [secret: Secrets, last: Nat, disabled: BOOLEAN]
  BY DEF Values, Kinds, FlowTables
<1>13. Values("totp_recovery_codes") = [user: Subjects, used: BOOLEAN]
  BY DEF Values, Kinds, FlowTables
<1>14. Values("totp_challenges") = [user: Subjects, expires: Nat, consumed: BOOLEAN]
  BY DEF Values, Kinds, FlowTables
<1>15. \A table \in FlowTables : Values(table) = Nat
  BY DEF Values, Kinds, FlowTables
<1> QED BY <1>1, <1>2, <1>3, <1>4, <1>5, <1>6, <1>7, <1>8, <1>9, <1>10, <1>11, <1>12, <1>13,
           <1>14, <1>15, <1>16

-----------------------------------------------------------------------------
(***************************************************************************)
(* Writes.                                                                 *)
(***************************************************************************)

IsFunction(f) == f = [d \in DOMAIN f |-> f[d]]

\* A write of rows of known tables, each to a value of its table or None.
WriteOK(w) ==
    /\ IsFunction(w)
    /\ \A d \in DOMAIN w : d[1] \in Tables /\ w[d] \in Values(d[1]) \cup {None}

RowsOK ==
    /\ IsFunction(rows)
    /\ \A d \in DOMAIN rows : d[1] \in Tables /\ rows[d] \in Values(d[1])

Sets(w, d) == d \in DOMAIN w /\ w[d] # None

Erases(w, d) == d \in DOMAIN w /\ w[d] = None

\* The users that a write inserts come with their address and a way to sign in; none is
\* deleted or given another address.
UsersSafe(w) ==
    \A u \in Users : User(u) \in DOMAIN w =>
        /\ w[User(u)] # None
        /\ \/ Exists(User(u)) /\ rows[User(u)].email = w[User(u)].email
           \/ /\ ~Exists(User(u))
              /\ Sets(w, Email(w[User(u)].email)) /\ w[Email(w[User(u)].email)] = u
              /\ \/ Sets(w, Password(u))
                 \/ \E p \in Identities : Sets(w, Identity(p)) /\ w[Identity(p)] = u

\* An address is written for a new account, and was nobody's.
EmailsSafe(w) ==
    \A e \in Emails : Email(e) \in DOMAIN w =>
        /\ w[Email(e)] # None /\ ~Exists(Email(e))
        /\ User(w[Email(e)]) \in DOMAIN w /\ ~Exists(User(w[Email(e)]))
        /\ w[User(w[Email(e)])].email = e

\* A new identity is inserted together with the entry of the unique index, which had none
\* of its owner; an old one keeps its owner, and they are deleted together.
IdentitiesSafe(w) ==
    /\ \A p \in Identities : Sets(w, Identity(p)) =>
          IF Exists(Identity(p)) THEN w[Identity(p)] = rows[Identity(p)]
          ELSE Sets(w, IdentityUser(w[Identity(p)])) /\ w[IdentityUser(w[Identity(p)])] = p
    /\ \A u \in Users : Sets(w, IdentityUser(u)) =>
          /\ ~Exists(IdentityUser(u))
          /\ Sets(w, Identity(w[IdentityUser(u)])) /\ w[Identity(w[IdentityUser(u)])] = u
          /\ \A p \in Identities : Sets(w, Identity(p)) /\ w[Identity(p)] = u => p = w[IdentityUser(u)]
    /\ \A u \in Users :
          Erases(w, IdentityUser(u)) <=> \E p \in IdentitiesOf(u) : Erases(w, Identity(p))

PasskeysSafe(w) ==
    \A k \in Credentials :
        Sets(w, Passkey(k)) /\ Exists(Passkey(k)) => w[Passkey(k)] = rows[Passkey(k)]

\* The write takes a way to sign in from u.
Removes(w, u) ==
    \/ Erases(w, Password(u))
    \/ \E p \in Identities : Row(Identity(p)) = u /\ Erases(w, Identity(p))
    \/ \E k \in Credentials : Row(Passkey(k)) = u /\ Erases(w, Passkey(k))

\* ... and leaves u another.
Leaves(w, u) ==
    \/ Exists(Password(u)) /\ ~Erases(w, Password(u))
    \/ \E p \in Identities : Row(Identity(p)) = u /\ ~Erases(w, Identity(p))
    \/ \E k \in Credentials : Row(Passkey(k)) = u /\ ~Erases(w, Passkey(k))

RemovalsSafe(w) == \A u \in Users : Removes(w, u) => Leaves(w, u)

\* A credential is written enabled, or disabled without a recovery code that stays.
CredentialsSafe(w) ==
    \A u \in Subjects : Totp(u) \in DOMAIN w =>
        /\ w[Totp(u)] # None
        /\ w[Totp(u)].disabled => \A d \in RecoveryOf(u) : Erases(w, d)

\* A recovery code is written with the credential it belongs to, or keeps its owner.
CodesSafe(w) ==
    \A k \in RecoveryCodes : Sets(w, Recovery(k)) =>
        LET u == w[Recovery(k)].user IN
        \/ Exists(Recovery(k)) /\ rows[Recovery(k)].user = u
        \/ Totp(u) \in DOMAIN w /\ ~w[Totp(u)].disabled

AccountsSafe(w) ==
    UsersSafe(w) /\ EmailsSafe(w) /\ IdentitiesSafe(w) /\ PasskeysSafe(w) /\ RemovalsSafe(w)

TotpSafe(w) == CredentialsSafe(w) /\ CodesSafe(w)

\* Sessions and tokens are never deleted, and keep what they were created with.
SessionsKept(w) ==
    /\ \A x : ~Erases(w, Session(x)) /\ ~Erases(w, Access(x)) /\ ~Erases(w, Refresh(x))
    /\ \A t : Sets(w, Session(t)) /\ Exists(Session(t)) =>
          /\ w[Session(t)].subject = rows[Session(t)].subject
          /\ w[Session(t)].created = rows[Session(t)].created

Safe(w) == WriteOK(w) /\ AccountsSafe(w) /\ TotpSafe(w) /\ SessionsKept(w)

\* What holds of the rows between two steps.
Sound ==
    /\ RowsOK
    /\ NeverLockedOut /\ OneIdentityPerUser /\ EmailsUnique /\ CodesOnlyWhileEnabled

\* The rows after a write, and after the statements that make it.
After(w) ==
    [d \in {e \in DOMAIN rows \cup DOMAIN w : e \in DOMAIN w => w[e] # None} |->
        IF d \in DOMAIN w THEN w[d] ELSE rows[d]]

\* What is there after a write, and what it is.
LEMMA WrittenRows ==
    ASSUME NEW w, rows' = After(w), RowsOK, WriteOK(w)
    PROVE  /\ \A d : Exists(d)' <=> Sets(w, d) \/ (d \notin DOMAIN w /\ Exists(d))
           /\ \A d : Sets(w, d) => rows'[d] = w[d]
           /\ \A d : d \notin DOMAIN w /\ Exists(d) => rows'[d] = rows[d]
           /\ \A d : Sets(w, d) => Row(d)' = w[d]
           /\ \A d : Erases(w, d) => Row(d)' = None
           /\ \A d : d \notin DOMAIN w => Row(d)' = Row(d)
           /\ RowsOK'
<1>1. /\ \A d : Exists(d)' <=> Sets(w, d) \/ (d \notin DOMAIN w /\ Exists(d))
      /\ \A d : Sets(w, d) => rows'[d] = w[d]
      /\ \A d : d \notin DOMAIN w /\ Exists(d) => rows'[d] = rows[d]
  BY DEF After, Exists, Sets
<1>2. /\ \A d : Sets(w, d) => Row(d)' = w[d]
      /\ \A d : Erases(w, d) => Row(d)' = None
      /\ \A d : d \notin DOMAIN w => Row(d)' = Row(d)
  BY <1>1 DEF Row, Sets, Erases
<1>3. IsFunction(rows)'
  BY DEF After, IsFunction
<1>4. ASSUME NEW d \in DOMAIN rows' PROVE d[1] \in Tables /\ rows'[d] \in Values(d[1])
  BY <1>1 DEF Exists, Sets, WriteOK, RowsOK
<1> QED BY <1>1, <1>2, <1>3, <1>4 DEF RowsOK, Values

\* What the rows of a table are, by name.
LEMMA Typed ==
    ASSUME RowsOK
    PROVE  /\ \A u : Exists(User(u)) => rows[User(u)] \in [email: Emails, verified: BOOLEAN]
           /\ \A p : Exists(Identity(p)) => rows[Identity(p)] \in Users
           /\ \A u : Exists(IdentityUser(u)) => rows[IdentityUser(u)] \in Identities
           /\ \A k : Exists(Passkey(k)) => rows[Passkey(k)] \in Users
           /\ \A e : Exists(Email(e)) => rows[Email(e)] \in Users
           /\ \A h : Exists(Recovery(h)) => rows[Recovery(h)] \in [user: Subjects, used: BOOLEAN]
           /\ \A u : Exists(Totp(u)) =>
                 rows[Totp(u)] \in [secret: Secrets, last: Nat, disabled: BOOLEAN]
           /\ \A d : Exists(d) => rows[d] # None /\ Row(d) # None
           /\ \A d : ~Exists(d) => Row(d) = None
<1>1. /\ \A d : Exists(d) => rows[d] # None /\ Row(d) # None
      /\ \A d : ~Exists(d) => Row(d) = None
  BY NoValueAssumption DEF RowsOK, Exists, Row
<1>2. \A d : Exists(d) => rows[d] \in Values(d[1])
  BY DEF RowsOK, Exists
<1>3. \A u : Exists(User(u)) => rows[User(u)] \in Values("users")
  BY <1>2, Keys
<1>4. \A p : Exists(Identity(p)) => rows[Identity(p)] \in Values("google_identities")
  BY <1>2, Keys
<1>9. \A u : Exists(IdentityUser(u)) => rows[IdentityUser(u)] \in Values("google_identities.user")
  BY <1>2, Keys
<1>5. \A k : Exists(Passkey(k)) => rows[Passkey(k)] \in Values("passkey_credentials")
  BY <1>2, Keys
<1>6. \A e : Exists(Email(e)) => rows[Email(e)] \in Values("users.email")
  BY <1>2, Keys
<1>7. \A k : Exists(Recovery(k)) => rows[Recovery(k)] \in Values("totp_recovery_codes")
  BY <1>2, Keys
<1>8. \A u : Exists(Totp(u)) => rows[Totp(u)] \in Values("totp_credentials")
  BY <1>2, Keys
<1> QED BY <1>1, <1>3, <1>4, <1>5, <1>6, <1>7, <1>8, <1>9, ValuesOf

\* What a write puts into a row, by its name.
LEMMA TypedWrite ==
    ASSUME NEW w, WriteOK(w)
    PROVE  /\ \A u : Sets(w, User(u)) => w[User(u)] \in [email: Emails, verified: BOOLEAN]
           /\ \A p : Sets(w, Identity(p)) => w[Identity(p)] \in Users
           /\ \A u : Sets(w, IdentityUser(u)) => w[IdentityUser(u)] \in Identities
           /\ \A k : Sets(w, Passkey(k)) => w[Passkey(k)] \in Users
           /\ \A e : Sets(w, Email(e)) => w[Email(e)] \in Users
           /\ \A h : Sets(w, Recovery(h)) => w[Recovery(h)] \in [user: Subjects, used: BOOLEAN]
           /\ \A u : Sets(w, Totp(u)) =>
                 w[Totp(u)] \in [secret: Secrets, last: Nat, disabled: BOOLEAN]
<1>2. \A d : Sets(w, d) => w[d] \in Values(d[1])
  BY DEF WriteOK, Sets
<1>3. \A u : Sets(w, User(u)) => w[User(u)] \in Values("users")
  BY <1>2, Keys
<1>4. \A p : Sets(w, Identity(p)) => w[Identity(p)] \in Values("google_identities")
  BY <1>2, Keys
<1>9. \A u : Sets(w, IdentityUser(u)) => w[IdentityUser(u)] \in Values("google_identities.user")
  BY <1>2, Keys
<1>5. \A k : Sets(w, Passkey(k)) => w[Passkey(k)] \in Values("passkey_credentials")
  BY <1>2, Keys
<1>6. \A e : Sets(w, Email(e)) => w[Email(e)] \in Values("users.email")
  BY <1>2, Keys
<1>7. \A k : Sets(w, Recovery(k)) => w[Recovery(k)] \in Values("totp_recovery_codes")
  BY <1>2, Keys
<1>8. \A u : Sets(w, Totp(u)) => w[Totp(u)] \in Values("totp_credentials")
  BY <1>2, Keys
<1> QED BY <1>3, <1>4, <1>5, <1>6, <1>7, <1>8, <1>9, ValuesOf

-----------------------------------------------------------------------------
(***************************************************************************)

-----------------------------------------------------------------------------
(***************************************************************************)
(* A safe write that takes effect keeps what holds of the rows.            *)
(***************************************************************************)

\* Addresses stay unique: an address is inserted with the account it is of.
LEMMA KeepsEmails ==
    ASSUME Sound, NEW w, Safe(w), rows' = After(w)
    PROVE  EmailsUnique'
<1> SUFFICES ASSUME NEW u \in Users, NEW e \in Emails
             PROVE  Row(Email(e))' = u <=> Exists(User(u))' /\ rows'[User(u)].email = e
  BY DEF EmailsUnique
<1>1. Row(Email(e)) = u <=> Exists(User(u)) /\ rows[User(u)].email = e
  BY DEF Sound, EmailsUnique
<1>2. u # None
  BY NoValueAssumption, ValuesOf DEF Tables
<1>3. CASE User(u) \in DOMAIN w /\ Exists(User(u))
  <2>1. Exists(User(u))' /\ rows'[User(u)].email = rows[User(u)].email
    BY <1>3, WrittenRows DEF Sound, Safe, AccountsSafe, UsersSafe, Sets
  <2>2. Row(Email(e)) = u => Row(Email(e))' = u
    BY <1>2, WrittenRows DEF Sound, Safe, AccountsSafe, EmailsSafe, Row
  <2>3. Row(Email(e))' = u => Row(Email(e)) = u
    BY <1>3, WrittenRows DEF Sound, Safe, AccountsSafe, EmailsSafe, Sets
  <2> QED BY <1>1, <1>3, <2>1, <2>2, <2>3
<1>4. CASE User(u) \in DOMAIN w /\ ~Exists(User(u))
  <2>1. Exists(User(u))' /\ rows'[User(u)] = w[User(u)]
    BY <1>4, WrittenRows DEF Sound, Safe, AccountsSafe, UsersSafe, Sets
  <2>2. w[User(u)].email = e => Row(Email(e))' = u
    BY <1>4, WrittenRows DEF Sound, Safe, AccountsSafe, UsersSafe
  <2>3. Row(Email(e))' = u => w[User(u)].email = e
    <3>1. CASE Email(e) \in DOMAIN w
      BY <3>1, WrittenRows DEF Sound, Safe, AccountsSafe, EmailsSafe, Sets
    <3>2. CASE Email(e) \notin DOMAIN w
      BY <1>1, <1>4, <3>2, WrittenRows DEF Sound, Safe
    <3> QED BY <3>1, <3>2
  <2> QED BY <2>1, <2>2, <2>3
<1>5. CASE User(u) \notin DOMAIN w
  <2>1. /\ Exists(User(u))' <=> Exists(User(u))
        /\ Exists(User(u)) => rows'[User(u)] = rows[User(u)]
    BY <1>5, WrittenRows DEF Sound, Safe, Sets
  <2>2. Row(Email(e)) = u => Row(Email(e))' = u
    BY <1>2, WrittenRows DEF Sound, Safe, AccountsSafe, EmailsSafe, Row
  <2>3. Row(Email(e))' = u => Row(Email(e)) = u
    BY <1>5, WrittenRows DEF Sound, Safe, AccountsSafe, EmailsSafe, Sets
  <2> QED BY <1>1, <2>1, <2>2, <2>3
<1> QED BY <1>3, <1>4, <1>5

\* An account still has one identity at most, which the index still names.
LEMMA KeepsOneIdentity ==
    ASSUME Sound, NEW w, Safe(w), rows' = After(w)
    PROVE  OneIdentityPerUser'
<1> SUFFICES ASSUME NEW u \in Users
             PROVE  IdentitiesOf(u)' = IF Exists(IdentityUser(u))' THEN {rows'[IdentityUser(u)]} ELSE {}
  BY DEF OneIdentityPerUser
<1>0. u # None
  BY NoValueAssumption, ValuesOf DEF Tables
<1>1. IdentitiesOf(u) = IF Exists(IdentityUser(u)) THEN {rows[IdentityUser(u)]} ELSE {}
  BY DEF Sound, OneIdentityPerUser
<1>2. ASSUME NEW p \in Identities, Row(Identity(p))' = u
      PROVE  \/ Sets(w, Identity(p)) /\ w[Identity(p)] = u /\ ~Exists(Identity(p))
             \/ Row(Identity(p)) = u /\ ~Erases(w, Identity(p))
  <2>1. CASE Sets(w, Identity(p))
    <3>1. w[Identity(p)] = u
      BY <1>2, <2>1, WrittenRows DEF Sound, Safe
    <3> QED BY <2>1, <3>1 DEF Safe, AccountsSafe, IdentitiesSafe, Row, Sets, Erases
  <2>2. CASE ~Sets(w, Identity(p))
    BY <1>0, <1>2, <2>2, WrittenRows DEF Sound, Safe, Sets, Erases
  <2> QED BY <2>1, <2>2
<1>3. ASSUME NEW p \in Identities, Row(Identity(p)) = u, ~Erases(w, Identity(p))
      PROVE  Row(Identity(p))' = u
  BY <1>0, <1>3, WrittenRows DEF Sound, Safe, AccountsSafe, IdentitiesSafe, Sets, Erases, Row
<1>4. CASE Sets(w, IdentityUser(u))
  <2> DEFINE q == w[IdentityUser(u)]
  <2>1. /\ ~Exists(IdentityUser(u))
        /\ Sets(w, Identity(q)) /\ w[Identity(q)] = u
        /\ \A p \in Identities : Sets(w, Identity(p)) /\ w[Identity(p)] = u => p = q
    BY <1>4 DEF Safe, AccountsSafe, IdentitiesSafe
  <2>2. q \in Identities
    BY <1>4, TypedWrite DEF Safe
  <2>3. Exists(IdentityUser(u))' /\ rows'[IdentityUser(u)] = q /\ Row(Identity(q))' = u
    BY <1>4, <2>1, WrittenRows DEF Sound, Safe
  <2> HIDE DEF q
  <2>4. \A p \in Identities : Row(Identity(p)) # u
    BY <1>1, <2>1 DEF IdentitiesOf
  <2>5. \A p \in Identities : Row(Identity(p))' = u => p = q
    BY <1>2, <2>1, <2>4
  <2> QED BY <2>2, <2>3, <2>5 DEF IdentitiesOf
<1>5. CASE Erases(w, IdentityUser(u))
  <2>1. PICK q \in IdentitiesOf(u) : Erases(w, Identity(q))
    BY <1>5 DEF Safe, AccountsSafe, IdentitiesSafe
  <2>2. IdentitiesOf(u) = {q}
    BY <1>1, <2>1
  <2>3. ~Exists(IdentityUser(u))'
    BY <1>5, WrittenRows DEF Sound, Safe, Sets, Erases
  <2>4. ASSUME NEW p \in Identities, Row(Identity(p))' = u PROVE FALSE
    <3>1. CASE Sets(w, Identity(p)) /\ w[Identity(p)] = u /\ ~Exists(Identity(p))
      BY <1>5, <3>1 DEF Safe, AccountsSafe, IdentitiesSafe, Sets, Erases
    <3>2. CASE Row(Identity(p)) = u /\ ~Erases(w, Identity(p))
      BY <2>1, <2>2, <3>2 DEF IdentitiesOf
    <3> QED BY <1>2, <2>4, <3>1, <3>2
  <2> QED BY <2>3, <2>4 DEF IdentitiesOf
<1>6. CASE IdentityUser(u) \notin DOMAIN w
  <2>1. /\ Exists(IdentityUser(u))' <=> Exists(IdentityUser(u))
        /\ Exists(IdentityUser(u)) => rows'[IdentityUser(u)] = rows[IdentityUser(u)]
    BY <1>6, WrittenRows DEF Sound, Safe, Sets
  <2>2. \A p \in Identities : Row(Identity(p))' = u => Row(Identity(p)) = u
    BY <1>2, <1>6 DEF Safe, AccountsSafe, IdentitiesSafe, Sets
  <2>3. \A p \in Identities : Row(Identity(p)) = u => ~Erases(w, Identity(p))
    BY <1>6 DEF Safe, AccountsSafe, IdentitiesSafe, IdentitiesOf, Erases
  <2>4. \A p \in Identities : Row(Identity(p)) = u => Row(Identity(p))' = u
    BY <1>3, <2>3
  <2>5. IdentitiesOf(u)' = IdentitiesOf(u)
    BY <2>2, <2>4 DEF IdentitiesOf
  <2> QED BY <1>1, <2>1, <2>5
<1> QED BY <1>4, <1>5, <1>6 DEF Sets, Erases

\* Every account still has a way in: what takes one away leaves another.
LEMMA KeepsAWayIn ==
    ASSUME Sound, NEW w, Safe(w), rows' = After(w)
    PROVE  NeverLockedOut'
<1> SUFFICES ASSUME NEW u \in Users, Exists(User(u))'
             PROVE  Exists(Password(u))' \/ IdentitiesOf(u)' # {} \/ PasskeysOf(u)' # {}
  BY DEF NeverLockedOut
<1>0. u # None
  BY NoValueAssumption, ValuesOf DEF Tables
\* A way to sign in that the write does not erase stays.
<1>1. ASSUME Leaves(w, u)
      PROVE  Exists(Password(u))' \/ IdentitiesOf(u)' # {} \/ PasskeysOf(u)' # {}
  <2>1. CASE Exists(Password(u)) /\ ~Erases(w, Password(u))
    BY <2>1, WrittenRows DEF Sound, Safe, Sets, Erases
  <2>2. CASE \E p \in Identities : Row(Identity(p)) = u /\ ~Erases(w, Identity(p))
    <3>1. PICK p \in Identities : Row(Identity(p)) = u /\ ~Erases(w, Identity(p))
      BY <2>2
    <3>2. Row(Identity(p))' = u
      BY <1>0, <3>1, WrittenRows DEF Sound, Safe, AccountsSafe, IdentitiesSafe, Sets, Erases, Row
    <3> QED BY <3>2 DEF IdentitiesOf
  <2>3. CASE \E k \in Credentials : Row(Passkey(k)) = u /\ ~Erases(w, Passkey(k))
    <3>1. PICK k \in Credentials : Row(Passkey(k)) = u /\ ~Erases(w, Passkey(k))
      BY <2>3
    <3>2. Row(Passkey(k))' = u
      BY <1>0, <3>1, WrittenRows DEF Sound, Safe, AccountsSafe, PasskeysSafe, Sets, Erases, Row
    <3> QED BY <3>2 DEF PasskeysOf
  <2> QED BY <1>1, <2>1, <2>2, <2>3 DEF Leaves
<1>2. CASE Exists(User(u))
  <2>1. CASE Removes(w, u)
    BY <1>1, <2>1 DEF Safe, AccountsSafe, RemovalsSafe
  <2>2. CASE ~Removes(w, u)
    <3>1. Exists(Password(u)) \/ IdentitiesOf(u) # {} \/ PasskeysOf(u) # {}
      BY <1>2 DEF Sound, NeverLockedOut
    <3>2. Leaves(w, u)
      BY <2>2, <3>1 DEF Removes, Leaves, IdentitiesOf, PasskeysOf
    <3> QED BY <1>1, <3>2
  <2> QED BY <2>1, <2>2
<1>3. CASE ~Exists(User(u))
  <2>1. User(u) \in DOMAIN w
    BY <1>3, WrittenRows DEF Sound, Safe, Sets
  <2>2. \/ Sets(w, Password(u))
        \/ \E p \in Identities : Sets(w, Identity(p)) /\ w[Identity(p)] = u
    BY <1>3, <2>1 DEF Safe, AccountsSafe, UsersSafe
  <2> QED BY <2>2, WrittenRows DEF Sound, Safe, IdentitiesOf
<1> QED BY <1>2, <1>3

\* A disabled factor still has no codes: they are deleted with it.
LEMMA KeepsCodes ==
    ASSUME Sound, NEW w, Safe(w), rows' = After(w)
    PROVE  CodesOnlyWhileEnabled'
<1> SUFFICES ASSUME NEW u \in Subjects, NEW k \in RecoveryCodes,
                    Exists(Recovery(k))', rows'[Recovery(k)].user = u
             PROVE  IsEnabled(u)'
  BY DEF CodesOnlyWhileEnabled, RecoveryOf
<1>0. /\ \A d : Exists(d)' <=> Sets(w, d) \/ (d \notin DOMAIN w /\ Exists(d))
      /\ \A d : Sets(w, d) => rows'[d] = w[d]
      /\ \A d : d \notin DOMAIN w /\ Exists(d) => rows'[d] = rows[d]
  BY WrittenRows DEF Sound, Safe
\* A credential that is enabled stays so, if the code is an old one that stays.
<1>1. ASSUME Exists(Recovery(k)), rows[Recovery(k)].user = u, ~Erases(w, Recovery(k))
      PROVE  IsEnabled(u)'
  <2>1. Recovery(k) \in RecoveryOf(u)
    BY <1>1 DEF RecoveryOf
  <2>2. IsEnabled(u)
    BY <2>1 DEF Sound, CodesOnlyWhileEnabled
  <2>3. CASE Totp(u) \in DOMAIN w
    <3>1. w[Totp(u)] # None /\ ~w[Totp(u)].disabled
      BY <1>1, <2>1, <2>3 DEF Safe, TotpSafe, CredentialsSafe
    <3> QED BY <1>0, <2>3, <3>1 DEF IsEnabled, Sets
  <2>4. CASE Totp(u) \notin DOMAIN w
    BY <1>0, <2>2, <2>4 DEF IsEnabled
  <2> QED BY <2>3, <2>4
<1>2. CASE Sets(w, Recovery(k))
  <2>1. w[Recovery(k)].user = u
    BY <1>0, <1>2
  <2>2. CASE Exists(Recovery(k)) /\ rows[Recovery(k)].user = u
    BY <1>1, <1>2, <2>2 DEF Sets, Erases
  <2>3. CASE Totp(u) \in DOMAIN w /\ ~w[Totp(u)].disabled
    <3>1. w[Totp(u)] # None
      BY <2>3 DEF Safe, TotpSafe, CredentialsSafe
    <3> QED BY <1>0, <2>3, <3>1 DEF IsEnabled, Sets
  <2> QED BY <1>2, <2>1, <2>2, <2>3 DEF Safe, TotpSafe, CodesSafe
<1>3. CASE ~Sets(w, Recovery(k))
  BY <1>0, <1>1, <1>3 DEF Erases
<1> QED BY <1>2, <1>3

\* Together: the effect of a safe write keeps the rows sound.
LEMMA SafeKeepsSound ==
    ASSUME Sound, NEW w, Safe(w), rows' = After(w)
    PROVE  Sound'
<1>1. RowsOK'
  BY WrittenRows DEF Sound, Safe
<1> QED BY <1>1, KeepsEmails, KeepsOneIdentity, KeepsAWayIn, KeepsCodes DEF Sound

-----------------------------------------------------------------------------
(***************************************************************************)
(* The calls, and the inductive invariant.                                 *)
(***************************************************************************)

Times == 0..MaxTime

SessionCall(c) ==
    \/ c \in [method: {"create"}, rec: Cookie!Record]
    \/ c \in [method: {"extend"}, token: SessionTokens, at: Times, expires: Nat]
    \/ c \in [method: {"rotate"}, token: SessionTokens, at: Times, rec: Cookie!Record]
    \/ c \in [method: {"revoke"}, token: SessionTokens]
    \/ c \in [method: {"revokeAll"}, user: Subjects]

BearerCall(c) ==
    \/ c \in [method: {"createSession"}, sid: SessionIDs, user: Subjects, new: Tokens, at: Times]
    \/ c \in [method: {"revokeAccess"}, sid: SessionIDs]
    \/ c \in [method: {"revokeAllAccess"}, user: Subjects]
    \/ c \in [method: {"rotateRefresh"}, token: Tokens, new: Tokens, at: Times]

PasswordCall(c) ==
    \/ c \in [method: {"register"}, user: Users, email: Emails, hash: Hashes]
    \/ c \in [method: {"addPassword"}, user: Users, hash: Hashes]
    \/ c \in [method: {"replaceHash"}, user: Users, hash: Hashes, current: Hashes]
    \/ c \in [method: {"removePassword"}, user: Users, current: Hashes]

MailCall(c) ==
    \/ c \in [method: {"issue"}, kind: Kinds, user: Users, token: MailTokens]
    \/ c \in [method: {"verify"}, token: MailTokens]
    \/ c \in [method: {"reset"}, token: MailTokens, hash: Hashes]

IdentityCall(c) ==
    \/ c \in [method: {"resolve"}, identity: Identities, user: Users, email: Emails, new: {None}]
    \/ c \in [method: {"resolve"}, identity: Identities, user: {None}, email: Emails, new: Users]
    \/ c \in [method: {"unlink"}, user: Users]

PasskeyCall(c) ==
    \/ c \in [method: {"createCeremony"}, token: Ceremonies,
              type: {"registration", "authentication"}, user: Users \cup {None}]
    \/ c \in [method: {"completeRegistration", "completeAuthentication"}, token: Ceremonies,
              user: Users, credential: Credentials]
    \/ c \in [method: {"deleteCredential"}, user: Users, credential: Credentials]

TotpCall(c) ==
    \/ c \in [method: {"beginEnrollment"}, user: Subjects, secret: Secrets, at: Times]
    \/ c \in [method: {"enable"}, user: Subjects, counter: Nat, code: RecoveryCodes, at: Times]
    \/ c \in [method: {"disable"}, user: Subjects]
    \/ c \in [method: {"createChallenge"}, token: Challenges, user: Subjects, at: Times]
    \/ c \in [method: {"completeCode"}, token: Challenges, counter: Nat, at: Times]
    \/ c \in [method: {"completeRecovery"}, token: Challenges, code: RecoveryCodes, at: Times]

FlowCall(c) ==
    \/ c \in [method: {"createFlow"}, table: FlowTables, token: States, at: Times]
    \/ c \in [method: {"consumeFlow"}, table: FlowTables, token: States]

CallOK(c) ==
    \/ SessionCall(c) \/ BearerCall(c) \/ PasswordCall(c) \/ MailCall(c) \/ IdentityCall(c)
    \/ PasskeyCall(c) \/ TotpCall(c) \/ FlowCall(c)

\* No user has been sent the token, for any purpose.
Unsent(t) == \A kind \in Kinds, u \in Users : Row(Mail(kind, u)) # t

\* What the managers looked up before they called is still so when the method runs: no
\* method deletes a session or a user, a session keeps its owner and its creation, and a
\* token is drawn for one mail.
Fits(c) ==
    /\ c.method = "create" =>
          \E t \in SessionTokens, s \in Subjects, at \in Times : c.rec = Cookie!NewRecord(t, s, at)
    /\ c.method = "extend" =>
          /\ Extension /\ Exists(Session(c.token))
          /\ c.expires = Cookie!ExtendedExpiry(rows[Session(c.token)], c.at)
    /\ c.method = "rotate" =>
          /\ Exists(Session(c.token))
          /\ \E t \in SessionTokens, at \in Times :
                c.rec = Cookie!NewRecord(t, rows[Session(c.token)].subject, at)
    /\ c.method = "rotateRefresh" => Exists(Refresh(c.token))
    /\ c.method = "issue" => Exists(User(c.user)) /\ Unsent(c.token)

\* What a decided method may rely on: it would decide the same now.  RemovePassword does
\* not look at the hash again.
Right(c, answer) ==
    IF c.method = "removePassword"
    THEN /\ answer = "ok"
         /\ Exists(User(c.user)) /\ Exists(Password(c.user))
         /\ IdentitiesOf(c.user) \cup PasskeysOf(c.user) # {}
    ELSE /\ MethodOf(c).answer = answer
         /\ answer \in DOMAIN MethodOf(c).write

\* What stands: the decision, and the locks it takes.
Stands(c, answer, H) == Right(c, answer) /\ MethodOf(c).locks \subseteq H

\* A decided method, which stands because it holds the locks that it would take, and of
\* RevokeAll those of the sessions it found.  v: the record of its request.
Standing(v) ==
    v.call # None /\ v.answer # None =>
        /\ v.call.method \in Selecting
        /\ Stands(v.call, v.answer, v.held)
        /\ v.call.method = "revokeAll" => v.found = SessionRows(v.call.user)

RequestOK(v) ==
    /\ v = [call |-> v.call, held |-> v.held, answer |-> v.answer, found |-> v.found]
    /\ v = Idle \/ CallOK(v.call)
    /\ v.call # None => Fits(v.call)
    /\ Standing(v)

LocksExclusive ==
    \A r, x \in Requests : \A d \in req[r].held \cap req[x].held : r # x => ~Exists(d)

\* Mail goes to users that exist ...
MailUsers == \A kind \in Kinds, u \in Users : Exists(Mail(kind, u)) => Exists(User(u))

Issues(v, t) == v.call # None /\ v.call.method = "issue" /\ v.call.token = t

\* ... each with a token of its own.
MailsDiffer ==
    \A r, x \in Requests : \A t : Issues(req[r], t) /\ Issues(req[x], t) => r = x

Inv ==
    /\ Sound /\ now \in Times
    /\ req = [r \in Requests |-> req[r]]
    /\ \A r \in Requests : RequestOK(req[r])
    /\ LocksExclusive /\ MailUsers /\ MailsDiffer

-----------------------------------------------------------------------------
(***************************************************************************)
(* What the statements of a method write: the helpers.                     *)
(***************************************************************************)

AccountTables ==
    {"users", "users.email", "password_credentials", "google_identities",
     "google_identities.user", "passkey_credentials"}

TotpTables == {"totp_credentials", "totp_recovery_codes"}

SessionTables == {"sessions", "access_sessions", "refresh_tokens"}

Within(w, tables) == \A d \in DOMAIN w : d[1] \in tables

\* Only three methods take a way to sign in from a user: from their caller.
OwnRemovals(c, w) ==
    \A u \in Users : Removes(w, u) =>
        c.method \in {"removePassword", "unlink", "deleteCredential"} /\ c.user = u

\* Only Issue stores a mailed token: its own.
OwnMail(c, w) ==
    \A kind \in Kinds, u \in Users : Sets(w, Mail(kind, u)) =>
        /\ c.method = "issue" /\ c.kind = kind /\ c.user = u
        /\ w[Mail(kind, u)] = c.token

\* What the statements of a call write may be committed on the rows as they are.
Proper(c, w) ==
    /\ Safe(w) /\ OwnRemovals(c, w) /\ OwnMail(c, w)
    /\ (\E d \in DOMAIN w : d[1] = "sessions") =>
          c.method \in {"create", "extend", "rotate", "revoke", "revokeAll"}
    /\ (\E d \in DOMAIN w : d[1] \in {"access_sessions", "refresh_tokens"}) =>
          c.method \in {"createSession", "revokeAccess", "revokeAllAccess", "rotateRefresh"}

\* f @@ g, by name.
Joined(w, f, g) ==
    /\ IsFunction(w)
    /\ DOMAIN w = DOMAIN f \cup DOMAIN g
    /\ \A d \in DOMAIN f : w[d] = f[d]
    /\ \A d \in DOMAIN g \ DOMAIN f : w[d] = g[d]

\* f @@ g writes what one of the two writes; where both write, f counts.
LEMMA Join ==
    ASSUME NEW f, NEW g
    PROVE  Joined(f @@ g, f, g)
BY DEF Joined, @@, IsFunction

\* One row is written.
LEMMA OneRow ==
    ASSUME NEW d, NEW v
    PROVE  IsFunction(d :> v) /\ DOMAIN (d :> v) = {d} /\ (d :> v)[d] = v
BY DEF :>, IsFunction

\* A DELETE deletes its rows and writes no other.
LEMMA ErasedRows ==
    ASSUME NEW D
    PROVE  IsFunction(Erased(D)) /\ DOMAIN Erased(D) = D /\ \A d \in D : Erased(D)[d] = None
BY DEF Erased, IsFunction

\* Statements that only insert, or only update.
LEMMA OneKind ==
    ASSUME NEW f, IsFunction(f)
    PROVE  All(Statements(f, <<>>)) = f /\ All(Statements(<<>>, f)) = f
BY DEF All, Statements, @@, IsFunction

\* Both: what is inserted counts.
LEMMA BothKinds ==
    ASSUME NEW f, NEW g
    PROVE  Joined(All(Statements(f, g)), f, g)
BY Join DEF All, Statements

\* Two writes of known rows are one.
LEMMA JoinedOK ==
    ASSUME NEW f, NEW g, WriteOK(f), WriteOK(g), NEW w, Joined(w, f, g)
    PROVE  WriteOK(w)
<1>1. ASSUME NEW d \in DOMAIN w
      PROVE  d[1] \in Tables /\ w[d] \in Values(d[1]) \cup {None}
  <2>1. CASE d \in DOMAIN f
    <3>1. w[d] = f[d]
      BY <2>1 DEF Joined
    <3> QED BY <2>1, <3>1 DEF WriteOK
  <2>2. CASE d \notin DOMAIN f
    <3>1. d \in DOMAIN g /\ w[d] = g[d]
      BY <2>2 DEF Joined
    <3> QED BY <3>1 DEF WriteOK
  <2> QED BY <2>1, <2>2
<1> QED BY <1>1 DEF WriteOK, Joined

\* One row is written to a value of its table.
LEMMA OneRowOK ==
    ASSUME NEW d, NEW v, d[1] \in Tables, v \in Values(d[1]) \cup {None}
    PROVE  WriteOK(d :> v)
BY DEF WriteOK, IsFunction, :>

\* Deletions are writes of known rows.
LEMMA ErasedOK ==
    ASSUME NEW D, \A d \in D : d[1] \in Tables
    PROVE  WriteOK(Erased(D))
BY DEF WriteOK, IsFunction, Erased

\* What writes no row of an account is safe for accounts.
LEMMA NoAccounts ==
    ASSUME NEW w, \A d \in DOMAIN w : d[1] \notin AccountTables
    PROVE  AccountsSafe(w) /\ \A c : OwnRemovals(c, w)
<1>1. \A x : /\ User(x) \notin DOMAIN w /\ Email(x) \notin DOMAIN w /\ Password(x) \notin DOMAIN w
             /\ Identity(x) \notin DOMAIN w /\ IdentityUser(x) \notin DOMAIN w
             /\ Passkey(x) \notin DOMAIN w
  BY Keys DEF AccountTables
<1> QED BY <1>1 DEF AccountsSafe, UsersSafe, EmailsSafe, IdentitiesSafe, PasskeysSafe,
                    RemovalsSafe, Removes, OwnRemovals, Sets, Erases

\* What writes no row of a second factor is safe for second factors.
LEMMA NoTotp ==
    ASSUME NEW w, \A d \in DOMAIN w : d[1] \notin TotpTables
    PROVE  TotpSafe(w)
<1>1. \A x : Totp(x) \notin DOMAIN w /\ Recovery(x) \notin DOMAIN w
  BY Keys DEF TotpTables
<1> QED BY <1>1 DEF TotpSafe, CredentialsSafe, CodesSafe, Sets

\* What writes no session or refresh token keeps them.
LEMMA NoSessions ==
    ASSUME NEW w, \A d \in DOMAIN w : d[1] \notin SessionTables
    PROVE  SessionsKept(w)
<1>1. \A x : Session(x) \notin DOMAIN w /\ Access(x) \notin DOMAIN w /\ Refresh(x) \notin DOMAIN w
  BY Keys DEF SessionTables
<1> QED BY <1>1 DEF SessionsKept, Sets, Erases

\* What writes no mailed token stores none.
LEMMA NoMail ==
    ASSUME NEW w, \A d \in DOMAIN w : d[1] \notin Kinds
    PROVE  \A c : OwnMail(c, w)
<1>1. \A kind \in Kinds, u \in Users : Mail(kind, u) \notin DOMAIN w
  BY Keys
<1> QED BY <1>1 DEF OwnMail, Sets

\* A write of none of these.
LEMMA Elsewhere ==
    ASSUME NEW w, WriteOK(w),
           \A d \in DOMAIN w :
              d[1] \notin AccountTables \cup TotpTables \cup SessionTables \cup Kinds,
           NEW c
    PROVE  Proper(c, w)
<1>1. AccountsSafe(w) /\ OwnRemovals(c, w)
  BY NoAccounts
<1>2. TotpSafe(w) /\ SessionsKept(w) /\ OwnMail(c, w)
  BY NoTotp, NoSessions, NoMail
<1> QED BY <1>1, <1>2 DEF Proper, Safe, SessionTables

-----------------------------------------------------------------------------
(***************************************************************************)
(* The methods of sessions.                                                *)
(***************************************************************************)

\* What the statements of a call write when it answers `answer`.
Writes(c, answer) == MethodOf(c).write[answer]

\* The call may decide so, and its statements meet no duplicate.
May(c, answer) == Right(c, answer) /\ ~Duplicate(Writes(c, answer))

\* A write of session tables alone that keeps what sessions were created with.
LEMMA OnlySessions ==
    ASSUME NEW w, WriteOK(w), SessionsKept(w), NEW c,
           \/ Within(w, {"sessions"}) /\ c.method \in {"create", "extend", "rotate", "revoke", "revokeAll"}
           \/ /\ Within(w, {"access_sessions", "refresh_tokens"})
              /\ c.method \in {"createSession", "revokeAccess", "revokeAllAccess", "rotateRefresh"}
    PROVE  Proper(c, w)
<1>1. \A d \in DOMAIN w : d[1] \notin AccountTables \cup TotpTables \cup Kinds
  BY DEF Within, AccountTables, TotpTables, Kinds
<1>2. AccountsSafe(w) /\ OwnRemovals(c, w)
  BY <1>1, NoAccounts
<1>3. TotpSafe(w) /\ OwnMail(c, w)
  BY <1>1, NoTotp, NoMail
<1> QED BY <1>2, <1>3 DEF Proper, Safe, Within

\* UPDATE ... SET revoked_at.
LEMMA RevokingOK ==
    ASSUME RowsOK, NEW D, Within([d \in D |-> d], SessionTables)
    PROVE  /\ WriteOK(Revoking(D)) /\ DOMAIN Revoking(D) = {d \in D : Exists(d)}
           /\ SessionsKept(Revoking(D))
           /\ \A d \in DOMAIN Revoking(D) : Revoking(D)[d] = [rows[d] EXCEPT !.revoked = TRUE]
<1> DEFINE w == Revoking(D)
<1>1. IsFunction(w) /\ DOMAIN w = {d \in D : Exists(d)}
  BY DEF Revoking, IsFunction
<1>0. \A d \in D : d[1] \in SessionTables
  BY DEF Within
<1>2. \A d \in DOMAIN w : Exists(d) /\ d \in D /\ w[d] = [rows[d] EXCEPT !.revoked = TRUE]
  BY DEF Revoking
<1> HIDE DEF w
<1>3. ASSUME NEW d \in DOMAIN w
      PROVE  /\ d[1] \in Tables /\ w[d] \in Values(d[1])
             /\ d[1] = "sessions" => w[d].subject = rows[d].subject /\ w[d].created = rows[d].created
  <2>1. Exists(d) /\ d \in D /\ w[d] = [rows[d] EXCEPT !.revoked = TRUE]
    BY <1>2
  <2>2. rows[d] \in Values(d[1])
    BY <2>1 DEF RowsOK, Exists
  <2>3. d[1] \in Tables
    BY <1>0, <2>1 DEF Tables, SessionTables
  <2>4. ASSUME rows[d] \in Cookie!Record
        PROVE  /\ w[d] \in Cookie!Record
               /\ w[d].subject = rows[d].subject /\ w[d].created = rows[d].created
    BY <2>1, <2>4 DEF Cookie!Record
  <2>5. ASSUME rows[d] \in Bearer!AccessSession PROVE w[d] \in Bearer!AccessSession
    BY <2>1, <2>5 DEF Bearer!AccessSession
  <2>6. ASSUME rows[d] \in Bearer!RefreshToken PROVE w[d] \in Bearer!RefreshToken
    BY <2>1, <2>6 DEF Bearer!RefreshToken
  <2> QED BY <1>0, <2>1, <2>2, <2>3, <2>4, <2>5, <2>6, ValuesOf DEF SessionTables
<1>4. WriteOK(w)
  BY <1>1, <1>3 DEF WriteOK
<1>5. \A d \in DOMAIN w : w[d] # None
  BY <1>3, NoValueAssumption
<1>6. SessionsKept(w)
  BY <1>3, <1>5, Keys DEF SessionsKept, Sets, Erases
<1> QED BY <1>1, <1>2, <1>4, <1>6 DEF w

\* A row that exists has a value of its table.
LEMMA TypedRow ==
    ASSUME RowsOK, NEW d, Exists(d)
    PROVE  d[1] \in Tables /\ rows[d] \in Values(d[1]) /\ rows[d] # None
BY NoValueAssumption DEF RowsOK, Exists

\* A record is written to its own key.
LEMMA RecordRow ==
    ASSUME NEW t, NEW rec \in Cookie!Record
    PROVE  /\ WriteOK(Session(t) :> rec)
           /\ DOMAIN (Session(t) :> rec) = {Session(t)} /\ (Session(t) :> rec)[Session(t)] = rec
           /\ Session(t)[1] = "sessions" /\ rec # None
<1>1. Session(t)[1] = "sessions" /\ "sessions" \in Tables
  BY Keys DEF Tables
<1>2. WriteOK(Session(t) :> rec)
  BY <1>1, ValuesOf, OneRowOK
<1>3. rec # None
  BY <1>1, ValuesOf, NoValueAssumption
<1> QED BY <1>1, <1>2, <1>3, OneRow

\* What the statements of a call write, together.
Write(c, answer) == All(Writes(c, answer))

\* The outcome of a method with one, in the terms of its definition.
LEMMA OnlyOutcome ==
    ASSUME NEW c, NEW answer, Right(c, answer),
           NEW locks, NEW decision, NEW s, MethodOf(c) = Method(locks, decision, s)
    PROVE  /\ answer = "ok" /\ Writes(c, answer) = s
           /\ c.method # "removePassword" => decision = "ok"
BY DEF Right, Writes, Method

\* SessionStore writes sessions only, and keeps them.
LEMMA SessionProper ==
    ASSUME Sound, NEW c, SessionCall(c), NEW answer, May(c, answer)
    PROVE  Proper(c, Write(c, answer))
<1> DEFINE w == Write(c, answer)
           s == Writes(c, answer)
<1>1. CASE c \in [method: {"create"}, rec: Cookie!Record]
  <2> DEFINE one == Session(c.rec.hash) :> c.rec
  <2>1. MethodOf(c) = Create(c)
    BY <1>1 DEF MethodOf
  <2>2. s = Statements(one, <<>>)
    BY <2>1, OnlyOutcome DEF Create, May
  <2>3. /\ WriteOK(one) /\ DOMAIN one = {Session(c.rec.hash)} /\ Session(c.rec.hash)[1] = "sessions"
        /\ one[Session(c.rec.hash)] = c.rec /\ c.rec # None
    BY <1>1, RecordRow
  <2>4. w = one
    BY <2>2, <2>3, OneKind DEF Write, WriteOK
  <2>5. ~Exists(Session(c.rec.hash))
    BY <2>2, <2>3 DEF May, Duplicate, Statements
  <2> HIDE DEF one
  <2>6. SessionsKept(one)
    BY <2>3, <2>5, Keys DEF SessionsKept, Sets, Erases
  <2> QED BY <1>1, <2>3, <2>4, <2>6, OnlySessions DEF Within
<1>2. CASE c \in [method: {"extend"}, token: SessionTokens, at: Times, expires: Nat]
  <2> DEFINE d == Session(c.token)
             found == {t \in {c.token} : Cookie!Extendable(t, c.at, c.expires)}
             f == [e \in {Session(t) : t \in found} |-> [rows[e] EXCEPT !.last = c.at, !.expires = c.expires]]
             rec == [rows[d] EXCEPT !.last = c.at, !.expires = c.expires]
  <2>1. MethodOf(c) = Extend(c)
    BY <1>2 DEF MethodOf
  <2>2. MethodOf(c) = Method({}, IF found = {} THEN "inactive" ELSE "ok", Statements(<<>>, f))
    BY <2>1, Zenon DEF Extend
  <2>3. s = Statements(<<>>, f) /\ found # {}
    <3> HIDE DEF found, f
    <3> QED BY <1>2, <2>2, OnlyOutcome DEF May
  <2>12. found = {c.token} /\ Exists(d)
    BY <1>2, <2>3 DEF Cookie!Extendable, Cookie!Exists, Row
  <2>4. IsFunction(f) /\ DOMAIN f = {d} /\ f[d] = rec
    BY <2>12 DEF IsFunction
  <2>5. w = f
    BY <2>3, <2>4, OneKind DEF Write
  <2> HIDE DEF found, f
  <2>6. rows[d] \in Cookie!Record
    <3>1. rows[d] \in Values(d[1])
      BY <2>12, TypedRow DEF Sound
    <3>2. d[1] = "sessions"
      BY Keys
    <3> QED BY <3>1, <3>2, ValuesOf
  <2>7. /\ rec \in Cookie!Record /\ rec.subject = rows[d].subject
        /\ rec.created = rows[d].created
    <3>1. c.at \in Nat /\ c.expires \in Nat
      BY <1>2 DEF Times
    <3> HIDE DEF d
    <3> QED BY <2>6, <3>1 DEF Cookie!Record
  <2>8. d[1] = "sessions" /\ "sessions" \in Tables
    BY Keys DEF Tables
  <2> HIDE DEF rec
  <2>9. WriteOK(f)
    BY <2>4, <2>7, <2>8, ValuesOf DEF WriteOK
  <2>10. rec # None
    BY <2>7, <2>8, ValuesOf, NoValueAssumption
  <2>11. SessionsKept(f)
    BY <2>4, <2>7, <2>10, Keys DEF SessionsKept, Sets, Erases
  <2> QED BY <1>2, <2>4, <2>5, <2>8, <2>9, <2>11, OnlySessions DEF Within
<1>3. CASE c \in [method: {"rotate"}, token: SessionTokens, at: Times, rec: Cookie!Record]
  <2> DEFINE one == Session(c.rec.hash) :> c.rec
             old == Revoking({Session(c.token)})
  <2>1. MethodOf(c) = Rotate(c)
    BY <1>3 DEF MethodOf
  <2>2. s = Statements(one, old)
    BY <2>1, OnlyOutcome DEF Rotate, May
  <2>3. /\ WriteOK(one) /\ DOMAIN one = {Session(c.rec.hash)} /\ Session(c.rec.hash)[1] = "sessions"
        /\ one[Session(c.rec.hash)] = c.rec /\ c.rec # None
    BY <1>3, RecordRow
  <2>4. Session(c.token)[1] = "sessions"
    BY Keys
  <2>5. /\ WriteOK(old) /\ DOMAIN old \subseteq {Session(c.token)} /\ SessionsKept(old)
    BY <2>4, RevokingOK DEF Sound, Within, SessionTables
  <2>6. Joined(w, one, old)
    BY <2>2, BothKinds DEF Write
  <2>7. ~Exists(Session(c.rec.hash))
    BY <2>2, <2>3 DEF May, Duplicate, Statements
  <2> HIDE DEF one, old, w
  <2>8. WriteOK(w)
    BY <2>3, <2>5, <2>6, JoinedOK
  <2>9. Within(w, {"sessions"})
    BY <2>3, <2>4, <2>5, <2>6 DEF Within, Joined
  <2>10. SessionsKept(w)
    BY <2>3, <2>5, <2>6, <2>7, Keys DEF SessionsKept, Sets, Erases, Joined
  <2> QED BY <1>3, <2>8, <2>9, <2>10, OnlySessions DEF w
<1>4. CASE c \in [method: {"revoke"}, token: SessionTokens]
  <2> DEFINE old == Revoking({Session(c.token)})
  <2>1. MethodOf(c) = Revoke(c)
    BY <1>4 DEF MethodOf
  <2>2. s = Statements(<<>>, old)
    BY <2>1, OnlyOutcome DEF Revoke, May
  <2>3. Session(c.token)[1] = "sessions"
    BY Keys
  <2>4. /\ WriteOK(old) /\ DOMAIN old \subseteq {Session(c.token)} /\ SessionsKept(old)
    BY <2>3, RevokingOK DEF Sound, Within, SessionTables
  <2>5. w = old
    BY <2>2, <2>4, OneKind DEF Write, WriteOK
  <2> HIDE DEF old
  <2> QED BY <1>4, <2>3, <2>4, <2>5, OnlySessions DEF Within
<1>5. CASE c \in [method: {"revokeAll"}, user: Subjects]
  <2> DEFINE old == Revoking(SessionRows(c.user))
  <2>1. MethodOf(c) = RevokeAll(c)
    BY <1>5 DEF MethodOf
  <2>2. s = Statements(<<>>, old)
    BY <2>1, OnlyOutcome DEF RevokeAll, May
  <2>3. \A d \in SessionRows(c.user) : d[1] = "sessions"
    BY Keys DEF SessionRows
  <2>4. /\ WriteOK(old) /\ DOMAIN old \subseteq SessionRows(c.user) /\ SessionsKept(old)
    BY <2>3, RevokingOK DEF Sound, Within, SessionTables
  <2>5. w = old
    BY <2>2, <2>4, OneKind DEF Write, WriteOK
  <2> HIDE DEF old
  <2> QED BY <1>5, <2>3, <2>4, <2>5, OnlySessions DEF Within
<1> QED BY <1>1, <1>2, <1>3, <1>4, <1>5 DEF SessionCall

\* Revoking sessions with their tokens writes these tables only.
LEMMA RevokeSessionsOK ==
    ASSUME RowsOK, NEW sids
    PROVE  LET w == All(RevokeSessions(sids)) IN
           WriteOK(w) /\ SessionsKept(w) /\ Within(w, {"access_sessions", "refresh_tokens"})
<1> DEFINE D == {Access(sid) : sid \in sids} \cup {Refresh(t) : t \in TokensOf(sids)}
           old == Revoking(D)
<1>1. \A d \in D : d[1] \in {"access_sessions", "refresh_tokens"}
  BY Keys
<1>2. RevokeSessions(sids) = Statements(<<>>, old)
  BY DEF RevokeSessions
<1> HIDE DEF D
<1>3. WriteOK(old) /\ SessionsKept(old) /\ DOMAIN old \subseteq D
  BY <1>1, RevokingOK DEF Within, SessionTables
<1>4. All(Statements(<<>>, old)) = old
  BY <1>3, OneKind DEF WriteOK
<1> QED BY <1>1, <1>2, <1>3, <1>4 DEF Within

\* A refresh token is written to its own key.
LEMMA TokenRow ==
    ASSUME NEW t, NEW token \in Bearer!RefreshToken
    PROVE  /\ WriteOK(Refresh(t) :> token)
           /\ DOMAIN (Refresh(t) :> token) = {Refresh(t)} /\ (Refresh(t) :> token)[Refresh(t)] = token
           /\ Refresh(t)[1] = "refresh_tokens" /\ token # None
<1>1. Refresh(t)[1] = "refresh_tokens" /\ "refresh_tokens" \in Tables
  BY Keys DEF Tables
<1>2. WriteOK(Refresh(t) :> token)
  BY <1>1, ValuesOf, OneRowOK
<1>3. token # None
  BY <1>1, ValuesOf, NoValueAssumption
<1> QED BY <1>1, <1>2, <1>3, OneRow

\* AccessSessionStore and RefreshTokenStore write bearer sessions only, and keep them.
LEMMA BearerProper ==
    ASSUME Sound, NEW c, BearerCall(c), Fits(c), NEW answer, May(c, answer)
    PROVE  Proper(c, Write(c, answer))
<1> DEFINE w == Write(c, answer)
           s == Writes(c, answer)
<1>0. ASSUME NEW sids, s = RevokeSessions(sids),
             c.method \in {"createSession", "revokeAccess", "revokeAllAccess", "rotateRefresh"}
      PROVE  Proper(c, w)
  BY <1>0, RevokeSessionsOK, OnlySessions DEF Sound, Write
<1>1. CASE c \in [method: {"createSession"}, sid: SessionIDs, user: Subjects, new: Tokens, at: Times]
  <2> DEFINE session == Bearer!NewSession(c.user, c.at)
             token == Bearer!NewToken(c.sid, c.at + RefreshLifetime)
             f == Access(c.sid) :> session
             g == Refresh(c.new) :> token
             x == f @@ g
  <2>1. MethodOf(c) = CreateSession(c)
    BY <1>1 DEF MethodOf
  <2>2. s = Statements(x, <<>>)
    <3>1. MethodOf(c) = Method({}, "ok", Statements(x, <<>>))
      BY <2>1, Zenon DEF CreateSession
    <3> HIDE DEF x
    <3> QED BY <3>1, OnlyOutcome DEF May
  <2>3. c.at + RefreshLifetime \in Nat
    BY <1>1, MySQLAssumption DEF Times
  <2>4. session \in Bearer!AccessSession
    BY <1>1, <2>3 DEF Bearer!NewSession, Bearer!AccessSession
  <2>5. token \in Bearer!RefreshToken
    BY <1>1, <2>3 DEF Bearer!NewToken, Bearer!RefreshToken
  <2> HIDE DEF session, token
  <2>6. Access(c.sid)[1] = "access_sessions" /\ "access_sessions" \in Tables
    BY Keys DEF Tables
  <2>7. WriteOK(f) /\ DOMAIN f = {Access(c.sid)} /\ f[Access(c.sid)] = session
    BY <2>4, <2>6, ValuesOf, OneRowOK, OneRow
  <2>8. session # None
    BY <2>4, <2>6, ValuesOf, NoValueAssumption
  <2>9. /\ WriteOK(g) /\ DOMAIN g = {Refresh(c.new)} /\ g[Refresh(c.new)] = token
        /\ Refresh(c.new)[1] = "refresh_tokens" /\ token # None
    BY <2>5, TokenRow
  <2>10. Joined(x, f, g)
    BY Join
  <2> HIDE DEF f, g, x
  <2>11. WriteOK(x)
    BY <2>7, <2>9, <2>10, JoinedOK
  <2>12. w = x
    BY <2>2, <2>11, OneKind DEF Write, WriteOK
  <2>13. SessionsKept(x)
    BY <2>6, <2>7, <2>8, <2>9, <2>10, Keys DEF SessionsKept, Sets, Erases, Joined
  <2>14. Within(x, {"access_sessions", "refresh_tokens"})
    BY <2>6, <2>7, <2>9, <2>10 DEF Within, Joined
  <2> QED BY <1>1, <2>11, <2>12, <2>13, <2>14, OnlySessions
<1>2. CASE c \in [method: {"revokeAccess"}, sid: SessionIDs]
  <2>1. MethodOf(c) = RevokeAccess(c)
    BY <1>2 DEF MethodOf
  <2>2. s = RevokeSessions({c.sid})
    BY <2>1, OnlyOutcome DEF RevokeAccess, May
  <2> QED BY <1>0, <1>2, <2>2
<1>3. CASE c \in [method: {"revokeAllAccess"}, user: Subjects]
  <2>1. MethodOf(c) = RevokeAllAccess(c)
    BY <1>3 DEF MethodOf
  <2>2. s = RevokeSessions(Bearer!SessionsOf(c.user))
    BY <2>1, OnlyOutcome DEF RevokeAllAccess, May
  <2> QED BY <1>0, <1>3, <2>2
<1>4. CASE c \in [method: {"rotateRefresh"}, token: Tokens, new: Tokens, at: Times]
  <2> DEFINE token == rows[Refresh(c.token)]
             new == Bearer!NewToken(token.session, token.expires)
             spent == [token EXCEPT !.rotated = TRUE]
             f == Refresh(c.new) :> new
             g == Refresh(c.token) :> spent
  <2>1. MethodOf(c) = RotateRefresh(c)
    BY <1>4 DEF MethodOf
  <2>2. s = RevokeSessions({token.session}) \/ s = Statements(f, g)
    <3>1. answer \in {"ok", "reuse"}
      BY <1>4, <2>1 DEF May, Right, RotateRefresh
    <3>2. /\ RotateRefresh(c).write.ok = Statements(f, g)
          /\ RotateRefresh(c).write.reuse = RevokeSessions({token.session})
      BY DEF RotateRefresh
    <3> QED BY <2>1, <3>1, <3>2 DEF Writes
  <2>3. CASE s = Statements(f, g)
    <3>1. token \in Bearer!RefreshToken
      <4>1. Exists(Refresh(c.token))
        BY <1>4 DEF Fits
      <4>2. token \in Values(Refresh(c.token)[1])
        BY <4>1, TypedRow DEF Sound
      <4> QED BY <4>2, Keys, ValuesOf
    <3> HIDE DEF token
    <3>2. new \in Bearer!RefreshToken /\ spent \in Bearer!RefreshToken
      BY <3>1 DEF Bearer!NewToken, Bearer!RefreshToken
    <3> HIDE DEF new, spent
    <3>3. /\ WriteOK(f) /\ DOMAIN f = {Refresh(c.new)} /\ f[Refresh(c.new)] = new
          /\ Refresh(c.new)[1] = "refresh_tokens" /\ new # None
      BY <3>2, TokenRow
    <3>4. /\ WriteOK(g) /\ DOMAIN g = {Refresh(c.token)} /\ g[Refresh(c.token)] = spent
          /\ Refresh(c.token)[1] = "refresh_tokens" /\ spent # None
      BY <3>2, TokenRow
    <3>5. Joined(w, f, g)
      BY <2>3, BothKinds DEF Write
    <3> HIDE DEF f, g, w, s
    <3>6. WriteOK(w)
      BY <3>3, <3>4, <3>5, JoinedOK
    <3>7. Within(w, {"access_sessions", "refresh_tokens"})
      BY <3>3, <3>4, <3>5 DEF Within, Joined
    <3>8. SessionsKept(w)
      BY <3>3, <3>4, <3>5, Keys DEF SessionsKept, Sets, Erases, Joined
    <3> QED BY <1>4, <3>6, <3>7, <3>8, OnlySessions DEF w
  <2> QED BY <1>0, <1>4, <2>2, <2>3
<1> QED BY <1>1, <1>2, <1>3, <1>4 DEF BearerCall

\* The stores of redirect flows write their own tables.
LEMMA FlowProper ==
    ASSUME Sound, NEW c, FlowCall(c), NEW answer, May(c, answer)
    PROVE  Proper(c, Write(c, answer))
<1> DEFINE w == Write(c, answer)
           s == Writes(c, answer)
           d == Flow(c.table, c.token)
<1>0. d[1] \in FlowTables
  BY Keys DEF FlowCall
<1>1. ASSUME NEW f, WriteOK(f), DOMAIN f = {d}, s = Statements(<<>>, f) \/ s = Statements(f, <<>>)
      PROVE  Proper(c, w)
  <2>1. w = f
    BY <1>1, OneKind DEF Write, WriteOK
  <2>2. d[1] \notin AccountTables \cup TotpTables \cup SessionTables \cup Kinds
    BY <1>0 DEF FlowTables, AccountTables, TotpTables, SessionTables, Kinds
  <2> QED BY <1>1, <2>1, <2>2, Elsewhere
<1>2. CASE c \in [method: {"createFlow"}, table: FlowTables, token: States, at: Times]
  <2>1. MethodOf(c) = CreateFlow(c)
    BY <1>2 DEF MethodOf
  <2>2. s = Statements(d :> c.at, <<>>)
    BY <2>1, OnlyOutcome DEF CreateFlow, May
  <2>3. c.at \in Values(d[1]) /\ d[1] \in Tables
    <3>1. c.at \in Nat
      BY <1>2, MySQLAssumption DEF Times
    <3>2. Values(d[1]) = Nat
      BY <1>0, ValuesOf
    <3> HIDE DEF d
    <3> QED BY <1>0, <3>1, <3>2 DEF Tables
  <2> HIDE DEF d
  <2> QED BY <1>1, <2>2, <2>3, OneRowOK, OneRow
<1>3. CASE c \in [method: {"consumeFlow"}, table: FlowTables, token: States]
  <2>1. MethodOf(c) = ConsumeFlow(c)
    BY <1>3 DEF MethodOf
  <2>2. s = Statements(<<>>, Erased({d}))
    BY <2>1, OnlyOutcome DEF ConsumeFlow, May
  <2>3. d[1] \in Tables
    BY <1>0 DEF Tables
  <2> HIDE DEF d
  <2> QED BY <1>1, <2>2, <2>3, ErasedOK, ErasedRows
<1> QED BY <1>2, <1>3 DEF FlowCall

-----------------------------------------------------------------------------
(***************************************************************************)
(* The methods of accounts.                                                *)
(***************************************************************************)

\* No value that is written is mistaken for a deletion.
LEMMA SomeValue ==
    /\ \A u \in Users : u # None
    /\ \A h \in Hashes : h # None
    /\ \A p \in Identities : p # None
    /\ \A t \in MailTokens : t # None
    /\ \A row \in [email: Emails, verified: BOOLEAN] : row # None
    /\ \A row \in [secret: Secrets, last: Nat, disabled: BOOLEAN] : row # None
    /\ \A row \in [user: Subjects, used: BOOLEAN] : row # None
<1>1. {"users", "users.email", "password_credentials", "google_identities.user",
       "totp_credentials", "totp_recovery_codes", "password_resets"} \subseteq Tables
  BY DEF Tables, Kinds
<1>2. Values("password_resets") = MailTokens
  BY ValuesOf DEF Kinds
<1> QED BY <1>1, <1>2, ValuesOf, NoValueAssumption

\* A row of an account that a write neither inserts nor takes a way to sign in with.
QuietRow(w, d) ==
    \/ d[1] = "users" /\ Exists(d) /\ w[d] # None /\ w[d].email = rows[d].email
    \/ d[1] = "password_credentials" /\ w[d] # None
    \/ d[1] = "google_identities" /\ Exists(d) /\ w[d] = rows[d]
    \/ d[1] = "passkey_credentials" /\ w[d] # None /\ (Exists(d) => w[d] = rows[d])
    \/ d[1] \in Kinds /\ w[d] = None
    \/ d[1] = "passkey_ceremonies"

\* A write of such rows alone is safe.
LEMMA Quiet ==
    ASSUME Sound, NEW w, WriteOK(w), \A d \in DOMAIN w : QuietRow(w, d), NEW c
    PROVE  Proper(c, w)
<1>1. \A u : User(u) \in DOMAIN w =>
          Exists(User(u)) /\ w[User(u)] # None /\ rows[User(u)].email = w[User(u)].email
  BY Keys DEF QuietRow, Kinds
<1>2. \A x : Email(x) \notin DOMAIN w /\ IdentityUser(x) \notin DOMAIN w
  BY Keys DEF QuietRow, Kinds
<1>3. \A u : ~Erases(w, Password(u))
  BY Keys DEF QuietRow, Kinds, Erases
<1>4. ASSUME NEW p, Identity(p) \in DOMAIN w
      PROVE  Exists(Identity(p)) /\ w[Identity(p)] = rows[Identity(p)] /\ w[Identity(p)] # None
  <2>1. Exists(Identity(p)) /\ w[Identity(p)] = rows[Identity(p)]
    BY <1>4, Keys DEF QuietRow, Kinds
  <2> QED BY <2>1, TypedRow DEF Sound
<1>5. \A k : Passkey(k) \in DOMAIN w =>
          w[Passkey(k)] # None /\ (Exists(Passkey(k)) => w[Passkey(k)] = rows[Passkey(k)])
  BY Keys DEF QuietRow, Kinds
<1>6. UsersSafe(w) /\ EmailsSafe(w)
  BY <1>1, <1>2 DEF UsersSafe, EmailsSafe
<1>7. IdentitiesSafe(w)
  BY <1>2, <1>4 DEF IdentitiesSafe, Sets, Erases
<1>8. PasskeysSafe(w)
  BY <1>5 DEF PasskeysSafe, Sets
<1>9. \A u : ~Removes(w, u)
  BY <1>3, <1>4, <1>5 DEF Removes, Erases
<1>10. \A d \in DOMAIN w : d[1] \notin TotpTables \cup SessionTables
  BY DEF QuietRow, Kinds, TotpTables, SessionTables
<1>11. TotpSafe(w) /\ SessionsKept(w)
  BY <1>10, NoTotp, NoSessions
<1>12. OwnMail(c, w)
  BY Keys DEF OwnMail, Sets, QuietRow, Kinds
<1>13. RemovalsSafe(w) /\ OwnRemovals(c, w)
  BY <1>9 DEF RemovalsSafe, OwnRemovals
<1> QED BY <1>6, <1>7, <1>8, <1>10, <1>11, <1>12, <1>13 DEF Proper, Safe, AccountsSafe, SessionTables

\* A write of accounts alone that is safe, and mails nothing.
LEMMA OnlyAccounts ==
    ASSUME NEW w, WriteOK(w), AccountsSafe(w), NEW c, OwnRemovals(c, w), Within(w, AccountTables)
    PROVE  Proper(c, w)
<1>1. \A d \in DOMAIN w : d[1] \notin TotpTables \cup SessionTables \cup Kinds
  BY DEF Within, AccountTables, TotpTables, SessionTables, Kinds
<1>2. TotpSafe(w) /\ SessionsKept(w) /\ OwnMail(c, w)
  BY <1>1, NoTotp, NoSessions, NoMail
<1> QED BY <1>1, <1>2 DEF Proper, Safe, SessionTables

\* A new account, with a first way to sign in.
LEMMA NewAccount ==
    ASSUME NEW w, NEW u \in Users, NEW e \in Emails, NEW verified \in BOOLEAN,
           ~Exists(User(u)), ~Exists(Email(e)),
           Sets(w, User(u)), w[User(u)] = [email |-> e, verified |-> verified],
           Sets(w, Email(e)), w[Email(e)] = u,
           \A v : User(v) \in DOMAIN w => v = u,
           \A a : Email(a) \in DOMAIN w => a = e,
           \/ Sets(w, Password(u))
           \/ \E p \in Identities : Sets(w, Identity(p)) /\ w[Identity(p)] = u
    PROVE  UsersSafe(w) /\ EmailsSafe(w)
BY DEF UsersSafe, EmailsSafe, Sets

\* A new identity, of a user that the unique index has no entry for.
LEMMA NewLink ==
    ASSUME NEW w, NEW u \in Users, NEW p \in Identities,
           ~Exists(Identity(p)), ~Exists(IdentityUser(u)),
           Sets(w, Identity(p)), w[Identity(p)] = u,
           Sets(w, IdentityUser(u)), w[IdentityUser(u)] = p,
           \A q : Identity(q) \in DOMAIN w => q = p,
           \A v : IdentityUser(v) \in DOMAIN w => v = u
    PROVE  IdentitiesSafe(w)
<1>1. \A q \in Identities : Sets(w, Identity(q)) => q = p
  BY DEF Sets
<1>2. \A v \in Users : Sets(w, IdentityUser(v)) => v = u
  BY DEF Sets
<1>3. \A q \in Identities : ~Erases(w, Identity(q))
  BY DEF Sets, Erases
<1>4. \A v \in Users : ~Erases(w, IdentityUser(v))
  BY DEF Sets, Erases
<1>5. \A v \in Users :
          Erases(w, IdentityUser(v)) <=> \E q \in IdentitiesOf(v) : Erases(w, Identity(q))
  BY <1>3, <1>4 DEF IdentitiesOf
<1> QED BY <1>1, <1>2, <1>5 DEF IdentitiesSafe

\* The two rows of a new user.
LEMMA NewUserRows ==
    ASSUME NEW u \in Users, NEW e \in Emails, NEW verified \in BOOLEAN, NEW w,
           w = NewUser(u, e, verified)
    PROVE  /\ WriteOK(w) /\ DOMAIN w = {User(u), Email(e)}
           /\ w[User(u)] = [email |-> e, verified |-> verified] /\ w[User(u)] # None
           /\ w[Email(e)] = u /\ w[Email(e)] # None
<1> DEFINE row == [email |-> e, verified |-> verified]
           f == User(u) :> row
           g == Email(e) :> u
<1>1. /\ User(u)[1] = "users" /\ "users" \in Tables
      /\ Email(e)[1] = "users.email" /\ "users.email" \in Tables
  BY Keys DEF Tables
<1>2. row \in [email: Emails, verified: BOOLEAN]
  OBVIOUS
<1>3. row # None /\ u # None
  BY <1>2, SomeValue
<1>4. w = f @@ g
  BY Zenon DEF NewUser
<1>5. Joined(w, f, g)
  BY <1>4, Join
<1> HIDE DEF row
<1>6. WriteOK(f) /\ DOMAIN f = {User(u)} /\ f[User(u)] = row
  BY <1>1, <1>2, ValuesOf, OneRowOK, OneRow
<1>7. WriteOK(g) /\ DOMAIN g = {Email(e)} /\ g[Email(e)] = u
  BY <1>1, ValuesOf, OneRowOK, OneRow
<1> HIDE DEF f, g
<1>8. WriteOK(w)
  BY <1>5, <1>6, <1>7, JoinedOK
<1> QED BY <1>1, <1>3, <1>5, <1>6, <1>7, <1>8 DEF Joined, row

\* The two rows of a new identity.
LEMMA NewIdentityRows ==
    ASSUME NEW p \in Identities, NEW u \in Users, NEW w, w = NewIdentity(p, u)
    PROVE  /\ WriteOK(w) /\ DOMAIN w = {Identity(p), IdentityUser(u)}
           /\ w[Identity(p)] = u /\ w[Identity(p)] # None
           /\ w[IdentityUser(u)] = p /\ w[IdentityUser(u)] # None
<1> DEFINE f == Identity(p) :> u
           g == IdentityUser(u) :> p
<1>1. /\ Identity(p)[1] = "google_identities" /\ "google_identities" \in Tables
      /\ IdentityUser(u)[1] = "google_identities.user" /\ "google_identities.user" \in Tables
  BY Keys DEF Tables
<1>2. u # None /\ p # None
  BY SomeValue
<1>3. Joined(w, f, g)
  BY Join DEF NewIdentity
<1>4. WriteOK(f) /\ DOMAIN f = {Identity(p)} /\ f[Identity(p)] = u
  BY <1>1, ValuesOf, OneRowOK, OneRow
<1>5. WriteOK(g) /\ DOMAIN g = {IdentityUser(u)} /\ g[IdentityUser(u)] = p
  BY <1>1, ValuesOf, OneRowOK, OneRow
<1> HIDE DEF f, g
<1>6. WriteOK(w)
  BY <1>3, <1>4, <1>5, JoinedOK
<1> QED BY <1>1, <1>2, <1>3, <1>4, <1>5, <1>6 DEF Joined

\* The row of a password.
LEMMA PasswordRow ==
    ASSUME NEW u, NEW h \in Hashes
    PROVE  /\ WriteOK(Password(u) :> h)
           /\ DOMAIN (Password(u) :> h) = {Password(u)} /\ (Password(u) :> h)[Password(u)] = h
           /\ Password(u)[1] = "password_credentials" /\ h # None
<1>1. Password(u)[1] = "password_credentials" /\ "password_credentials" \in Tables
  BY Keys DEF Tables
<1>2. WriteOK(Password(u) :> h)
  BY <1>1, ValuesOf, OneRowOK
<1> QED BY <1>1, <1>2, OneRow, SomeValue

\* Nobody loses a way to sign in by a write that erases none.
LEMMA NoRemovals ==
    ASSUME NEW w,
           \A x : ~Erases(w, Password(x)) /\ ~Erases(w, Identity(x)) /\ ~Erases(w, Passkey(x))
    PROVE  RemovalsSafe(w) /\ \A c : OwnRemovals(c, w)
BY DEF RemovalsSafe, OwnRemovals, Removes

\* PasswordStore and UserStore: Register writes a new account, RemovePassword leaves its
\* caller another way to sign in.
LEMMA PasswordProper ==
    ASSUME Sound, NEW c, PasswordCall(c), NEW answer, May(c, answer)
    PROVE  Proper(c, Write(c, answer))
<1> DEFINE w == Write(c, answer)
           s == Writes(c, answer)
           u == c.user
           f == Password(u) :> c.hash
<1>1. CASE c \in [method: {"register"}, user: Users, email: Emails, hash: Hashes]
  <2> DEFINE verified == FALSE
             new == NewUser(u, c.email, verified)
             x == new @@ f
  <2>1. verified \in BOOLEAN
    OBVIOUS
  <2>2. MethodOf(c) = Register(c)
    BY <1>1 DEF MethodOf
  <2>3. MethodOf(c) = Method({}, "ok", Statements(x, <<>>))
    BY <2>2, Zenon DEF Register
  <2> HIDE DEF verified, x
  <2>4. s = Statements(x, <<>>)
    BY <2>3, OnlyOutcome DEF May
  <2>5. /\ WriteOK(f) /\ DOMAIN f = {Password(u)} /\ f[Password(u)] = c.hash
        /\ Password(u)[1] = "password_credentials" /\ c.hash # None
    BY <1>1, PasswordRow
  <2> HIDE DEF f
  <2>6. /\ WriteOK(new) /\ DOMAIN new = {User(u), Email(c.email)}
        /\ new[User(u)] = [email |-> c.email, verified |-> verified] /\ new[User(u)] # None
        /\ new[Email(c.email)] = u /\ new[Email(c.email)] # None
    BY <1>1, <2>1, NewUserRows
  <2> HIDE DEF new
  <2>7. Joined(x, new, f)
    BY Join DEF x
  <2>8. WriteOK(x)
    BY <2>5, <2>6, <2>7, JoinedOK
  <2>9. w = x
    BY <2>4, <2>8, OneKind DEF Write, WriteOK
  <2>10. User(u)[1] = "users" /\ Email(c.email)[1] = "users.email"
    BY Keys
  <2>11. /\ DOMAIN x = {User(u), Email(c.email), Password(u)}
         /\ x[User(u)] = new[User(u)] /\ x[Email(c.email)] = new[Email(c.email)]
         /\ x[Password(u)] = c.hash
    BY <2>5, <2>6, <2>7, <2>10 DEF Joined
  <2>12. ~Exists(User(u)) /\ ~Exists(Email(c.email))
    BY <2>4, <2>11 DEF May, Duplicate, Statements
  <2>13. /\ \A v : User(v) \in DOMAIN x => v = u
         /\ \A a : Email(a) \in DOMAIN x => a = c.email
    BY <2>11, Keys
  <2>14. Sets(x, User(u)) /\ Sets(x, Email(c.email)) /\ Sets(x, Password(u))
    BY <2>5, <2>6, <2>11 DEF Sets
  <2>15. UsersSafe(x) /\ EmailsSafe(x)
    <3>1. u \in Users /\ c.email \in Emails
      BY <1>1
    <3> QED BY <3>1, <2>1, <2>6, <2>11, <2>12, <2>13, <2>14, NewAccount
  <2>16. /\ \A p : Identity(p) \notin DOMAIN x /\ Passkey(p) \notin DOMAIN x
         /\ \A v : IdentityUser(v) \notin DOMAIN x
    BY <2>11, Keys
  <2>17. IdentitiesSafe(x) /\ PasskeysSafe(x)
    BY <2>16 DEF IdentitiesSafe, PasskeysSafe, Sets, Erases
  <2>18. RemovalsSafe(x) /\ OwnRemovals(c, x)
    <3>1. \A v : ~Erases(x, Password(v))
      BY <2>5, <2>11, Keys DEF Erases
    <3> QED BY <3>1, <2>16, NoRemovals DEF Erases
  <2>19. Within(x, AccountTables)
    BY <2>5, <2>10, <2>11 DEF Within, AccountTables
  <2> QED BY <2>8, <2>9, <2>15, <2>17, <2>18, <2>19, OnlyAccounts DEF AccountsSafe
<1>2. ASSUME c.hash \in Hashes, s = Statements(f, <<>>) \/ s = Statements(<<>>, f)
      PROVE  Proper(c, w)
  <2>1. /\ WriteOK(f) /\ DOMAIN f = {Password(u)} /\ f[Password(u)] = c.hash
        /\ Password(u)[1] = "password_credentials" /\ c.hash # None
    BY <1>2, PasswordRow
  <2> HIDE DEF f
  <2>2. w = f
    BY <1>2, <2>1, OneKind DEF Write, WriteOK
  <2> QED BY <2>1, <2>2, Quiet DEF QuietRow
<1>3. CASE c \in [method: {"addPassword"}, user: Users, hash: Hashes]
  <2>1. MethodOf(c) = AddPassword(c)
    BY <1>3 DEF MethodOf
  <2>2. s = Statements(f, <<>>)
    BY <2>1, OnlyOutcome DEF AddPassword, May
  <2> QED BY <1>2, <1>3, <2>2
<1>4. CASE c \in [method: {"replaceHash"}, user: Users, hash: Hashes, current: Hashes]
  <2>1. MethodOf(c) = ReplacePasswordHash(c)
    BY <1>4 DEF MethodOf
  <2>2. s = Statements(<<>>, f)
    BY <2>1, OnlyOutcome DEF ReplacePasswordHash, May
  <2> QED BY <1>2, <1>4, <2>2
<1>5. CASE c \in [method: {"removePassword"}, user: Users, current: Hashes]
  <2> DEFINE x == Erased({Password(u)})
  <2>1. MethodOf(c) = RemovePassword(c)
    BY <1>5 DEF MethodOf
  <2>2. s = Statements(<<>>, x)
    BY <2>1, OnlyOutcome DEF RemovePassword, May
  <2>3. /\ Exists(User(u)) /\ Exists(Password(u))
        /\ IdentitiesOf(u) \cup PasskeysOf(u) # {}
    BY <1>5 DEF May, Right
  <2>4. Password(u)[1] = "password_credentials" /\ "password_credentials" \in Tables
    BY Keys DEF Tables
  <2>5. WriteOK(x) /\ DOMAIN x = {Password(u)} /\ x[Password(u)] = None
    BY <2>4, ErasedOK, ErasedRows
  <2> HIDE DEF x
  <2>6. w = x
    BY <2>2, <2>5, OneKind DEF Write, WriteOK
  <2>7. /\ \A p : Identity(p) \notin DOMAIN x /\ Passkey(p) \notin DOMAIN x
        /\ \A v : User(v) \notin DOMAIN x /\ Email(v) \notin DOMAIN x /\ IdentityUser(v) \notin DOMAIN x
    BY <2>5, Keys
  <2>8. UsersSafe(x) /\ EmailsSafe(x) /\ IdentitiesSafe(x) /\ PasskeysSafe(x)
    BY <2>7 DEF UsersSafe, EmailsSafe, IdentitiesSafe, PasskeysSafe, Sets, Erases
  <2>9. \A v : Removes(x, v) => v = u
    BY <2>5, <2>7, Keys DEF Removes, Erases
  <2>10. Leaves(x, u)
    BY <2>3, <2>7 DEF Leaves, Erases, IdentitiesOf, PasskeysOf
  <2>11. RemovalsSafe(x) /\ OwnRemovals(c, x)
    BY <1>5, <2>9, <2>10 DEF RemovalsSafe, OwnRemovals
  <2>12. Within(x, AccountTables)
    BY <2>4, <2>5 DEF Within, AccountTables
  <2> QED BY <2>5, <2>6, <2>8, <2>11, <2>12, OnlyAccounts DEF AccountsSafe
<1> QED BY <1>1, <1>3, <1>4, <1>5 DEF PasswordCall

\* The stores of mailed tokens: Issue stores its own, the others delete what they spend.
LEMMA MailProper ==
    ASSUME Sound, NEW c, MailCall(c), NEW answer, May(c, answer)
    PROVE  Proper(c, Write(c, answer))
<1> DEFINE w == Write(c, answer)
           s == Writes(c, answer)
<1>1. CASE c \in [method: {"issue"}, kind: Kinds, user: Users, token: MailTokens]
  <2> DEFINE d == Mail(c.kind, c.user)
             f == d :> c.token
  <2>1. MethodOf(c) = Issue(c)
    BY <1>1 DEF MethodOf
  <2>2. s = Statements(<<>>, f)
    BY <2>1, OnlyOutcome DEF Issue, May
  <2>3. d[1] = c.kind /\ c.kind \in Kinds /\ c.kind \in Tables
    BY <1>1, Keys DEF Tables
  <2>4. WriteOK(f) /\ DOMAIN f = {d} /\ f[d] = c.token
    <3>1. Values(d[1]) = MailTokens /\ c.token \in MailTokens
      BY <1>1, <2>3, ValuesOf
    <3> HIDE DEF d
    <3> QED BY <2>3, <3>1, OneRowOK, OneRow
  <2> HIDE DEF f
  <2>5. w = f
    BY <2>2, <2>4, OneKind DEF Write, WriteOK
  <2>6. d[1] \notin AccountTables \cup TotpTables \cup SessionTables
    BY <2>3 DEF Kinds, AccountTables, TotpTables, SessionTables
  <2>7. AccountsSafe(f) /\ OwnRemovals(c, f) /\ TotpSafe(f) /\ SessionsKept(f)
    BY <2>4, <2>6, NoAccounts, NoTotp, NoSessions
  <2>8. OwnMail(c, f)
    BY <1>1, <2>4, Keys DEF OwnMail, Sets
  <2> QED BY <2>4, <2>5, <2>6, <2>7, <2>8 DEF Proper, Safe, SessionTables
<1>2. CASE c \in [method: {"verify"}, token: MailTokens]
  <2> DEFINE kind == "email_verifications"
             found == Mailed(kind, c.token)
             D == {User(u) : u \in found}
             E == {Mail(kind, u) : u \in found}
             f == [d \in D |-> [rows[d] EXCEPT !.verified = TRUE]]
             g == Erased(E)
             x == f @@ g
  <2>1. MethodOf(c) = Verify(c)
    BY <1>2 DEF MethodOf
  <2>2. s = Statements(<<>>, x)
    <3>1. s = MethodOf(c).write.ok /\ answer = "ok"
      BY <1>2, <2>1 DEF May, Right, Verify, Method, Writes
    <3>2. Verify(c).write.ok = Statements(<<>>, x)
      BY DEF Verify, Method
    <3> QED BY <2>1, <3>1, <3>2
  <2>3. Joined(x, f, g)
    BY Join
  <2>4. /\ IsFunction(f) /\ DOMAIN f = D
        /\ \A d \in D : f[d] = [rows[d] EXCEPT !.verified = TRUE]
    BY DEF IsFunction
  <2>5. DOMAIN g = E /\ \A d \in E : g[d] = None
    BY ErasedRows
  <2>6. \A d \in D : d[1] = "users" /\ Exists(d)
    BY Keys DEF Mailed
  <2>7. \A d \in E : d[1] = kind
    BY Keys
  <2>8. kind \in Kinds /\ kind \in Tables /\ "users" \in Tables
    BY DEF Kinds, Tables
  <2> HIDE DEF kind, found, D, E
  <2>9. WriteOK(g)
    BY <2>7, <2>8, ErasedOK
  <2> HIDE DEF f, g, x
  <2>10. ASSUME NEW d \in D
         PROVE  /\ f[d] \in [email: Emails, verified: BOOLEAN]
                /\ f[d].email = rows[d].email /\ f[d] # None
    <3>1. rows[d] \in [email: Emails, verified: BOOLEAN]
      BY <2>6, TypedRow, ValuesOf DEF Sound
    <3>2. f[d] = [rows[d] EXCEPT !.verified = TRUE]
      BY <2>4
    <3> QED BY <3>1, <3>2, SomeValue
  <2>11. WriteOK(f)
    BY <2>4, <2>6, <2>8, <2>10, ValuesOf DEF WriteOK
  <2>12. WriteOK(x)
    BY <2>3, <2>9, <2>11, JoinedOK
  <2>13. w = x
    BY <2>2, <2>12, OneKind DEF Write, WriteOK
  <2>14. \A d \in DOMAIN x : QuietRow(x, d)
    BY <2>3, <2>4, <2>5, <2>6, <2>7, <2>8, <2>10 DEF QuietRow, Joined
  <2> QED BY <2>12, <2>13, <2>14, Quiet
<1>3. CASE c \in [method: {"reset"}, token: MailTokens, hash: Hashes]
  <2> DEFINE kind == "password_resets"
             found == Mailed(kind, c.token)
             D == {Password(u) : u \in found}
             E == {Mail(kind, u) : u \in found}
             f == [d \in D |-> c.hash]
             g == Erased(E)
             x == f @@ g
  <2>1. MethodOf(c) = ResetPassword(c)
    BY <1>3 DEF MethodOf
  <2>2. s = Statements(<<>>, x)
    <3>1. s = MethodOf(c).write.ok /\ answer = "ok"
      BY <1>3, <2>1 DEF May, Right, ResetPassword, Method, Writes
    <3>2. ResetPassword(c).write.ok = Statements(<<>>, x)
      BY DEF ResetPassword, Method
    <3> QED BY <2>1, <3>1, <3>2
  <2>3. Joined(x, f, g)
    BY Join
  <2>4. IsFunction(f) /\ DOMAIN f = D /\ \A d \in D : f[d] = c.hash
    BY DEF IsFunction
  <2>5. DOMAIN g = E /\ \A d \in E : g[d] = None
    BY ErasedRows
  <2>6. \A d \in D : d[1] = "password_credentials"
    BY Keys
  <2>7. \A d \in E : d[1] = kind
    BY Keys
  <2>8. kind \in Kinds /\ kind \in Tables /\ "password_credentials" \in Tables
    BY DEF Kinds, Tables
  <2> HIDE DEF kind, found, D, E
  <2>9. WriteOK(g)
    BY <2>7, <2>8, ErasedOK
  <2> HIDE DEF f, g, x
  <2>10. c.hash \in Hashes /\ c.hash # None
    BY <1>3, SomeValue
  <2>11. WriteOK(f)
    BY <2>4, <2>6, <2>8, <2>10, ValuesOf DEF WriteOK
  <2>12. WriteOK(x)
    BY <2>3, <2>9, <2>11, JoinedOK
  <2>13. w = x
    BY <2>2, <2>12, OneKind DEF Write, WriteOK
  <2>14. \A d \in DOMAIN x : QuietRow(x, d)
    BY <2>3, <2>4, <2>5, <2>6, <2>7, <2>8, <2>10 DEF QuietRow, Joined
  <2> QED BY <2>12, <2>13, <2>14, Quiet
<1> QED BY <1>1, <1>2, <1>3 DEF MailCall

\* GoogleStore: an identity is inserted with the entry of the unique index and for an owner
\* who has none, and Unlink leaves its caller another way to sign in.
LEMMA IdentityProper ==
    ASSUME Sound, NEW c, IdentityCall(c), NEW answer, May(c, answer)
    PROVE  Proper(c, Write(c, answer))
<1> DEFINE w == Write(c, answer)
           s == Writes(c, answer)
           p == c.identity
           d == Identity(p)
<1>1. CASE Exists(d) /\ c.method = "resolve"
  <2> DEFINE owner == rows[d]
             f == d :> owner
  <2>1. MethodOf(c) = ResolveKnown(c)
    BY <1>1 DEF MethodOf, ResolveIdentity
  <2>2. s = Statements(<<>>, f)
    <3>1. s = MethodOf(c).write.ok
      BY <1>1, <2>1 DEF May, Right, ResolveKnown, Method, Writes
    <3>2. ResolveKnown(c).write.ok = Statements(<<>>, f)
      BY DEF ResolveKnown, Method
    <3> QED BY <2>1, <3>1, <3>2
  <2>3. d[1] = "google_identities" /\ "google_identities" \in Tables
    BY Keys DEF Tables
  <2>4. owner \in Values(d[1])
    BY <1>1, TypedRow DEF Sound
  <2> HIDE DEF owner, d
  <2>5. WriteOK(f) /\ DOMAIN f = {d} /\ f[d] = owner
    BY <2>3, <2>4, OneRowOK, OneRow
  <2> HIDE DEF f
  <2>6. w = f
    BY <2>2, <2>5, OneKind DEF Write, WriteOK
  <2>7. QuietRow(f, d)
    BY <1>1, <2>3, <2>5 DEF QuietRow, owner
  <2> QED BY <2>5, <2>6, <2>7, Quiet
<1>2. CASE /\ ~Exists(d)
           /\ c \in [method: {"resolve"}, identity: Identities, user: Users, email: Emails, new: {None}]
  <2> DEFINE u == c.user
             x == NewIdentity(p, u)
  <2>1. c.user # None /\ MethodOf(c) = ResolveLink(c)
    BY <1>2, SomeValue DEF MethodOf, ResolveIdentity
  <2>2. s = Statements(x, <<>>)
    <3>1. s = MethodOf(c).write.ok
      BY <1>2, <2>1 DEF May, Right, ResolveLink, Method, Writes
    <3>2. ResolveLink(c).write.ok = Statements(x, <<>>)
      BY DEF ResolveLink, Method
    <3> QED BY <2>1, <3>1, <3>2
  <2>3. /\ WriteOK(x) /\ DOMAIN x = {Identity(p), IdentityUser(u)}
        /\ x[Identity(p)] = u /\ x[Identity(p)] # None
        /\ x[IdentityUser(u)] = p /\ x[IdentityUser(u)] # None
    BY <1>2, NewIdentityRows
  <2> HIDE DEF x
  <2>4. w = x
    BY <2>2, <2>3, OneKind DEF Write, WriteOK
  <2>5. ~Exists(Identity(p)) /\ ~Exists(IdentityUser(u))
    BY <2>2, <2>3 DEF May, Duplicate, Statements
  <2>6. /\ \A q : Identity(q) \in DOMAIN x => q = p
        /\ \A v : IdentityUser(v) \in DOMAIN x => v = u
    BY <2>3, Keys
  <2>7. /\ \A v : User(v) \notin DOMAIN x /\ Email(v) \notin DOMAIN x
        /\ \A v : Password(v) \notin DOMAIN x /\ Passkey(v) \notin DOMAIN x
    BY <2>3, Keys
  <2>8. UsersSafe(x) /\ EmailsSafe(x) /\ PasskeysSafe(x)
    BY <2>7 DEF UsersSafe, EmailsSafe, PasskeysSafe, Sets
  <2>9. IdentitiesSafe(x)
    <3>1. u \in Users /\ p \in Identities
      BY <1>2
    <3> QED BY <2>3, <2>5, <2>6, <3>1, NewLink DEF Sets
  <2>10. RemovalsSafe(x) /\ OwnRemovals(c, x)
    <3>1. \A q : ~Erases(x, Identity(q))
      BY <2>3, <2>6 DEF Erases
    <3> QED BY <2>7, <3>1, NoRemovals DEF Erases
  <2>11. Within(x, AccountTables)
    BY <2>3, Keys DEF Within, AccountTables
  <2> QED BY <2>3, <2>4, <2>8, <2>9, <2>10, <2>11, OnlyAccounts DEF AccountsSafe
<1>3. CASE /\ ~Exists(d)
           /\ c \in [method: {"resolve"}, identity: Identities, user: {None}, email: Emails, new: Users]
  <2> DEFINE verified == TRUE
             u == c.new
             new == NewUser(u, c.email, verified)
             link == NewIdentity(p, u)
             x == new @@ link
  <2>0. verified \in BOOLEAN /\ u \in Users /\ p \in Identities /\ c.email \in Emails
    BY <1>3
  <2>1. MethodOf(c) = ResolveCreate(c)
    BY <1>3 DEF MethodOf, ResolveIdentity
  <2>2. s = Statements(x, <<>>)
    <3>1. s = MethodOf(c).write.ok
      BY <1>3, <2>1 DEF May, Right, ResolveCreate, Method, Writes
    <3>2. ResolveCreate(c).write.ok = Statements(x, <<>>)
      <4>1. ResolveCreate(c) =
                Method({Identity(p), Email(c.email)},
                       IF Exists(Email(c.email)) THEN "link_required" ELSE "ok",
                       Statements(x, <<>>))
        BY Zenon DEF ResolveCreate
      <4> HIDE DEF x
      <4> QED BY <4>1 DEF Method
    <3> QED BY <2>1, <3>1, <3>2
  <2> HIDE DEF verified, x
  <2>3. /\ WriteOK(link) /\ DOMAIN link = {Identity(p), IdentityUser(u)}
        /\ link[Identity(p)] = u /\ link[Identity(p)] # None
        /\ link[IdentityUser(u)] = p /\ link[IdentityUser(u)] # None
    BY <2>0, NewIdentityRows
  <2>4. /\ WriteOK(new) /\ DOMAIN new = {User(u), Email(c.email)}
        /\ new[User(u)] = [email |-> c.email, verified |-> verified] /\ new[User(u)] # None
        /\ new[Email(c.email)] = u /\ new[Email(c.email)] # None
    BY <2>0, NewUserRows
  <2>5. Joined(x, new, link)
    BY Join DEF x
  <2> HIDE DEF new, link
  <2>6. WriteOK(x)
    BY <2>3, <2>4, <2>5, JoinedOK
  <2>7. w = x
    BY <2>2, <2>6, OneKind DEF Write, WriteOK
  <2>8. /\ User(u)[1] = "users" /\ Email(c.email)[1] = "users.email"
        /\ Identity(p)[1] = "google_identities" /\ IdentityUser(u)[1] = "google_identities.user"
    BY Keys
  <2>9. /\ DOMAIN x = {User(u), Email(c.email), Identity(p), IdentityUser(u)}
        /\ x[User(u)] = new[User(u)] /\ x[Email(c.email)] = new[Email(c.email)]
        /\ x[Identity(p)] = link[Identity(p)] /\ x[IdentityUser(u)] = link[IdentityUser(u)]
    BY <2>3, <2>4, <2>5, <2>8 DEF Joined
  <2>10. /\ ~Exists(User(u)) /\ ~Exists(Email(c.email))
         /\ ~Exists(Identity(p)) /\ ~Exists(IdentityUser(u))
    BY <2>2, <2>9 DEF May, Duplicate, Statements
  <2>11. /\ \A v : User(v) \in DOMAIN x => v = u
         /\ \A a : Email(a) \in DOMAIN x => a = c.email
         /\ \A q : Identity(q) \in DOMAIN x => q = p
         /\ \A v : IdentityUser(v) \in DOMAIN x => v = u
    BY <2>9, Keys
  <2>12. Sets(x, User(u)) /\ Sets(x, Email(c.email)) /\ Sets(x, Identity(p)) /\ Sets(x, IdentityUser(u))
    BY <2>3, <2>4, <2>9 DEF Sets
  <2>13. UsersSafe(x) /\ EmailsSafe(x)
    BY <2>0, <2>3, <2>4, <2>9, <2>10, <2>11, <2>12, NewAccount
  <2>14. IdentitiesSafe(x)
    BY <2>0, <2>3, <2>9, <2>10, <2>11, <2>12, NewLink
  <2>15. \A v : Password(v) \notin DOMAIN x /\ Passkey(v) \notin DOMAIN x
    BY <2>9, Keys
  <2>16. PasskeysSafe(x)
    BY <2>15 DEF PasskeysSafe, Sets
  <2>17. RemovalsSafe(x) /\ OwnRemovals(c, x)
    <3>1. \A q : ~Erases(x, Identity(q))
      BY <2>3, <2>9, <2>11 DEF Erases
    <3> QED BY <2>15, <3>1, NoRemovals DEF Erases
  <2>18. Within(x, AccountTables)
    BY <2>8, <2>9 DEF Within, AccountTables
  <2> QED BY <2>6, <2>7, <2>13, <2>14, <2>16, <2>17, <2>18, OnlyAccounts DEF AccountsSafe
<1>4. CASE c \in [method: {"unlink"}, user: Users]
  <2> DEFINE u == c.user
             identities == {Identity(q) : q \in IdentitiesOf(u)}
             D == identities \cup {IdentityUser(u)}
             x == Erased(D)
  <2>1. MethodOf(c) = UnlinkIdentity(c)
    BY <1>4 DEF MethodOf
  <2>2. MethodOf(c) =
            Method(LockUser(u) \cup identities,
                IF ~Exists(User(u)) \/ identities = {} THEN "not_found"
                ELSE IF ~Exists(Password(u)) /\ PasskeysOf(u) = {} THEN "last_credential"
                ELSE "ok",
                Statements(<<>>, x))
    BY <2>1, Zenon DEF UnlinkIdentity
  <2>3. /\ s = Statements(<<>>, x)
        /\ identities # {} /\ (Exists(Password(u)) \/ PasskeysOf(u) # {})
    <3> HIDE DEF identities, x
    <3>1. c.method # "removePassword"
      BY <1>4
    <3> QED BY <2>2, <3>1, OnlyOutcome DEF May
  <2>4. \A e \in D : e[1] \in {"google_identities", "google_identities.user"}
    BY Keys
  <2>5. {"google_identities", "google_identities.user"} \subseteq Tables \cap AccountTables
    BY DEF Tables, AccountTables
  <2>6. /\ \A q : Identity(q) \in D <=> q \in IdentitiesOf(u)
        /\ \A v : IdentityUser(v) \in D <=> v = u
    BY Keys
  <2>7. IdentitiesOf(u) # {}
    BY <2>3
  <2> HIDE DEF D, identities
  <2>8. WriteOK(x) /\ DOMAIN x = D /\ \A e \in D : x[e] = None
    BY <2>4, <2>5, ErasedOK, ErasedRows
  <2> HIDE DEF x
  <2>9. w = x
    BY <2>3, <2>8, OneKind DEF Write, WriteOK
  <2>10. \A v : /\ User(v) \notin DOMAIN x /\ Email(v) \notin DOMAIN x
                /\ Password(v) \notin DOMAIN x /\ Passkey(v) \notin DOMAIN x
    BY <2>4, <2>8, Keys
  <2>11. UsersSafe(x) /\ EmailsSafe(x) /\ PasskeysSafe(x)
    BY <2>10 DEF UsersSafe, EmailsSafe, PasskeysSafe, Sets
  <2>12. IdentitiesSafe(x)
    <3>1. \A e : ~Sets(x, e)
      BY <2>8 DEF Sets
    <3>2. \A v \in Users : Erases(x, IdentityUser(v)) <=> v = u
      BY <2>6, <2>8 DEF Erases
    <3>3. \A v \in Users : (\E q \in IdentitiesOf(v) : Erases(x, Identity(q))) <=> v = u
      BY <2>6, <2>7, <2>8 DEF Erases, IdentitiesOf
    <3> QED BY <3>1, <3>2, <3>3 DEF IdentitiesSafe
  <2>13. \A v : Removes(x, v) => v = u
    BY <2>6, <2>8, <2>10 DEF Removes, Erases, IdentitiesOf
  <2>14. Leaves(x, u)
    BY <2>3, <2>10 DEF Leaves, Erases, PasskeysOf
  <2>15. RemovalsSafe(x) /\ OwnRemovals(c, x)
    BY <1>4, <2>13, <2>14 DEF RemovalsSafe, OwnRemovals
  <2>16. Within(x, AccountTables)
    BY <2>4, <2>5, <2>8 DEF Within
  <2> QED BY <2>8, <2>9, <2>11, <2>12, <2>15, <2>16, OnlyAccounts DEF AccountsSafe
<1> QED BY <1>1, <1>2, <1>3, <1>4 DEF IdentityCall

CeremonyRow == [type: {"registration", "authentication"}, user: Users \cup {None}, consumed: BOOLEAN]

\* Consuming a ceremony writes its row again.
LEMMA Consumed ==
    ASSUME RowsOK, NEW h
    PROVE  /\ WriteOK(Consume(h))
           /\ \A d \in DOMAIN Consume(h) : d[1] = "passkey_ceremonies"
<1> DEFINE f == Consume(h)
<1>1. /\ IsFunction(f)
      /\ \A d \in DOMAIN f : Exists(d) /\ d = Ceremony(h) /\ f[d] = [rows[d] EXCEPT !.consumed = TRUE]
  BY DEF Consume, IsFunction
<1> HIDE DEF f
<1>2. ASSUME NEW d \in DOMAIN f
      PROVE  d[1] = "passkey_ceremonies" /\ f[d] \in CeremonyRow
  <2>1. d[1] = "passkey_ceremonies"
    BY <1>1, Keys
  <2>2. rows[d] \in CeremonyRow
    BY <1>1, <2>1, TypedRow, ValuesOf DEF CeremonyRow
  <2>3. f[d] = [rows[d] EXCEPT !.consumed = TRUE]
    BY <1>1
  <2> QED BY <2>1, <2>2, <2>3 DEF CeremonyRow
<1>3. "passkey_ceremonies" \in Tables /\ Values("passkey_ceremonies") = CeremonyRow
  BY ValuesOf DEF Tables, CeremonyRow
<1>4. WriteOK(f)
  BY <1>1, <1>2, <1>3 DEF WriteOK
<1> QED BY <1>2, <1>4 DEF f

\* PasskeyStore: a passkey keeps its owner, and DeleteCredential leaves its caller another
\* way to sign in.
LEMMA PasskeyProper ==
    ASSUME Sound, NEW c, PasskeyCall(c), NEW answer, May(c, answer)
    PROVE  Proper(c, Write(c, answer))
<1> DEFINE w == Write(c, answer)
           s == Writes(c, answer)
           u == c.user
           k == c.credential
           f == Consume(c.token)
           g == Passkey(k) :> u
<1>1. CASE c \in [method: {"createCeremony"}, token: Ceremonies,
                  type: {"registration", "authentication"}, user: Users \cup {None}]
  <2> DEFINE row == [type |-> c.type, user |-> c.user, consumed |-> FALSE]
             x == Ceremony(c.token) :> row
  <2>1. MethodOf(c) = CreateCeremony(c)
    BY <1>1 DEF MethodOf
  <2>2. s = Statements(x, <<>>)
    BY <2>1, OnlyOutcome DEF CreateCeremony, May
  <2>3. row \in CeremonyRow
    BY <1>1 DEF CeremonyRow
  <2>4. Ceremony(c.token)[1] = "passkey_ceremonies" /\ "passkey_ceremonies" \in Tables
    BY Keys DEF Tables
  <2> HIDE DEF row
  <2>5. WriteOK(x) /\ DOMAIN x = {Ceremony(c.token)}
    BY <2>3, <2>4, ValuesOf, OneRowOK, OneRow DEF CeremonyRow
  <2> HIDE DEF x
  <2>6. w = x
    BY <2>2, <2>5, OneKind DEF Write, WriteOK
  <2> QED BY <2>4, <2>5, <2>6, Quiet DEF QuietRow
<1>2. ASSUME u \in Users
      PROVE  /\ WriteOK(g) /\ DOMAIN g = {Passkey(k)} /\ g[Passkey(k)] = u /\ u # None
             /\ Passkey(k)[1] = "passkey_credentials"
  <2>1. Passkey(k)[1] = "passkey_credentials" /\ "passkey_credentials" \in Tables
    BY Keys DEF Tables
  <2>2. WriteOK(g)
    BY <1>2, <2>1, ValuesOf, OneRowOK
  <2> QED BY <1>2, <2>1, <2>2, OneRow, SomeValue
<1>3. WriteOK(f) /\ \A d \in DOMAIN f : d[1] = "passkey_ceremonies"
  BY Consumed DEF Sound
<1>4. CASE c \in [method: {"completeRegistration"}, token: Ceremonies, user: Users,
                  credential: Credentials]
  <2>1. MethodOf(c) = CompleteRegistration(c)
    BY <1>4 DEF MethodOf
  <2>2. s = Statements(g, f)
    BY <2>1, OnlyOutcome DEF CompleteRegistration, May
  <2>3. /\ WriteOK(g) /\ DOMAIN g = {Passkey(k)} /\ g[Passkey(k)] = u /\ u # None
        /\ Passkey(k)[1] = "passkey_credentials"
    BY <1>2, <1>4
  <2>4. Joined(w, g, f)
    BY <2>2, BothKinds DEF Write
  <2>5. ~Exists(Passkey(k))
    BY <2>2, <2>3 DEF May, Duplicate, Statements
  <2> HIDE DEF f, g, w
  <2>6. WriteOK(w)
    BY <1>3, <2>3, <2>4, JoinedOK
  <2>7. \A d \in DOMAIN w : QuietRow(w, d)
    BY <1>3, <2>3, <2>4, <2>5 DEF QuietRow, Joined
  <2> QED BY <2>6, <2>7, Quiet DEF w
<1>5. CASE c \in [method: {"completeAuthentication"}, token: Ceremonies, user: Users,
                  credential: Credentials]
  <2> DEFINE x == f @@ g
  <2>1. MethodOf(c) = CompleteAuthentication(c)
    BY <1>5 DEF MethodOf
  <2>2. MethodOf(c) =
            Method({},
                IF ~Consumable(c.token, c.user, "authentication") THEN "inactive_ceremony"
                ELSE IF Row(Passkey(k)) # u THEN "conflict" ELSE "ok",
                Statements(<<>>, x))
    BY <2>1, Zenon DEF CompleteAuthentication
  <2>3. s = Statements(<<>>, x) /\ Row(Passkey(k)) = u
    <3> HIDE DEF x
    <3>1. c.method # "removePassword"
      BY <1>5
    <3> QED BY <2>2, <3>1, OnlyOutcome DEF May
  <2>4. /\ WriteOK(g) /\ DOMAIN g = {Passkey(k)} /\ g[Passkey(k)] = u /\ u # None
        /\ Passkey(k)[1] = "passkey_credentials"
    BY <1>2, <1>5
  <2>5. Joined(x, f, g)
    BY Join
  <2> HIDE DEF f, g, x
  <2>6. WriteOK(x)
    BY <1>3, <2>4, <2>5, JoinedOK
  <2>7. \A d \in DOMAIN x : QuietRow(x, d)
    BY <1>3, <2>3, <2>4, <2>5 DEF QuietRow, Joined, Row
  <2>8. w = x
    BY <2>3, <2>6, OneKind DEF Write, WriteOK
  <2> QED BY <2>6, <2>7, <2>8, Quiet
<1>6. CASE c \in [method: {"deleteCredential"}, user: Users, credential: Credentials]
  <2> DEFINE x == Erased({Passkey(k)})
             last == \E q \in Credentials : PasskeysOf(u) = {q}
             others == Exists(Password(u)) \/ IdentitiesOf(u) # {}
  <2>1. MethodOf(c) = DeleteCredential(c)
    BY <1>6 DEF MethodOf
  <2>2. MethodOf(c) =
            Method(LockUser(u),
                IF ~Exists(User(u)) THEN "not_found"
                ELSE IF last /\ ~others THEN "last_credential"
                ELSE IF k \notin PasskeysOf(u) THEN "not_found" ELSE "ok",
                Statements(<<>>, x))
    BY <2>1, Zenon DEF DeleteCredential
  <2>3. s = Statements(<<>>, x) /\ k \in PasskeysOf(u) /\ (~last \/ others)
    <3> HIDE DEF x, last, others
    <3>1. c.method # "removePassword"
      BY <1>6
    <3> QED BY <2>2, <3>1, OnlyOutcome DEF May
  <2>4. Passkey(k)[1] = "passkey_credentials" /\ "passkey_credentials" \in Tables \cap AccountTables
    BY Keys DEF Tables, AccountTables
  <2>5. WriteOK(x) /\ DOMAIN x = {Passkey(k)} /\ x[Passkey(k)] = None
    BY <2>4, ErasedOK, ErasedRows
  <2> HIDE DEF x
  <2>6. w = x
    BY <2>3, <2>5, OneKind DEF Write, WriteOK
  <2>7. /\ \A v : User(v) \notin DOMAIN x /\ Email(v) \notin DOMAIN x /\ Password(v) \notin DOMAIN x
        /\ \A v : Identity(v) \notin DOMAIN x /\ IdentityUser(v) \notin DOMAIN x
        /\ \A q : Passkey(q) \in DOMAIN x <=> q = k
    BY <2>5, Keys
  <2>8. UsersSafe(x) /\ EmailsSafe(x) /\ IdentitiesSafe(x) /\ PasskeysSafe(x)
    BY <2>5, <2>7 DEF UsersSafe, EmailsSafe, IdentitiesSafe, PasskeysSafe, Sets, Erases
  <2>9. \A v : Removes(x, v) => v = u
    BY <2>3, <2>7 DEF Removes, Erases, PasskeysOf
  <2>10. Leaves(x, u)
    <3>1. CASE others
      BY <2>7, <3>1 DEF Leaves, Erases, IdentitiesOf
    <3>2. CASE ~last
      <4>1. PICK q \in PasskeysOf(u) : q # k
        BY <2>3, <3>2 DEF PasskeysOf
      <4> QED BY <2>7, <4>1 DEF Leaves, Erases, PasskeysOf
    <3> QED BY <2>3, <3>1, <3>2
  <2>11. RemovalsSafe(x) /\ OwnRemovals(c, x)
    BY <1>6, <2>9, <2>10 DEF RemovalsSafe, OwnRemovals
  <2>12. Within(x, AccountTables)
    BY <2>4, <2>5 DEF Within
  <2> QED BY <2>5, <2>6, <2>8, <2>11, <2>12, OnlyAccounts DEF AccountsSafe
<1>7. c \in [method: {"completeRegistration", "completeAuthentication"}, token: Ceremonies,
             user: Users, credential: Credentials]
        => \/ c \in [method: {"completeRegistration"}, token: Ceremonies, user: Users,
                     credential: Credentials]
           \/ c \in [method: {"completeAuthentication"}, token: Ceremonies, user: Users,
                     credential: Credentials]
  OBVIOUS
<1> QED BY <1>1, <1>4, <1>5, <1>6, <1>7 DEF PasskeyCall

-----------------------------------------------------------------------------
(***************************************************************************)
(* The methods of second factors.                                          *)
(***************************************************************************)

\* A write of second factors alone that is safe.
LEMMA OnlyTotp ==
    ASSUME NEW w, WriteOK(w), TotpSafe(w),
           Within(w, TotpTables \cup {"totp_enrollments", "totp_challenges"}), NEW c
    PROVE  Proper(c, w)
<1>1. \A d \in DOMAIN w : d[1] \notin AccountTables \cup SessionTables \cup Kinds
  BY DEF Within, TotpTables, AccountTables, SessionTables, Kinds
<1>2. AccountsSafe(w) /\ OwnRemovals(c, w) /\ SessionsKept(w) /\ OwnMail(c, w)
  BY <1>1, NoAccounts, NoSessions, NoMail
<1> QED BY <1>1, <1>2 DEF Proper, Safe, SessionTables

\* A challenge that is usable belongs to a subject, and is written again as consumed.
LEMMA UsedChallenge ==
    ASSUME RowsOK, NEW h, NEW at, Usable(h, at)
    PROVE  /\ rows[Challenge(h)].user \in Subjects
           /\ WriteOK(ConsumeChallenge(h)) /\ DOMAIN ConsumeChallenge(h) = {Challenge(h)}
           /\ Challenge(h)[1] = "totp_challenges"
<1> DEFINE row == rows[Challenge(h)]
           used == [row EXCEPT !.consumed = TRUE]
           f == Challenge(h) :> used
<1>1. Challenge(h)[1] = "totp_challenges" /\ "totp_challenges" \in Tables
  BY Keys DEF Tables
<1>2. row \in Values(Challenge(h)[1])
  BY TypedRow DEF Usable
<1>3. row \in [user: Subjects, expires: Nat, consumed: BOOLEAN]
  BY <1>1, <1>2, ValuesOf
<1> HIDE DEF row
<1>4. used \in [user: Subjects, expires: Nat, consumed: BOOLEAN] /\ row.user \in Subjects
  BY <1>3
<1> HIDE DEF used
<1>5. WriteOK(f) /\ DOMAIN f = {Challenge(h)}
  BY <1>1, <1>4, ValuesOf, OneRowOK, OneRow
<1> QED BY <1>1, <1>4, <1>5 DEF ConsumeChallenge, row, used

\* TOTPStore: recovery codes are written for an enabled credential, and deleted with it.
LEMMA TotpProper ==
    ASSUME Sound, NEW c, TotpCall(c), NEW answer, May(c, answer)
    PROVE  Proper(c, Write(c, answer))
<1> DEFINE w == Write(c, answer)
           s == Writes(c, answer)
           tables == TotpTables \cup {"totp_enrollments", "totp_challenges"}
<1>0. /\ \A x : Totp(x)[1] = "totp_credentials" /\ Recovery(x)[1] = "totp_recovery_codes"
      /\ \A x : Enrollment(x)[1] = "totp_enrollments" /\ Challenge(x)[1] = "totp_challenges"
      /\ tables \subseteq Tables
  BY Keys DEF TotpTables, Tables
<1>1. CASE c \in [method: {"beginEnrollment"}, user: Subjects, secret: Secrets, at: Times]
  <2> DEFINE d == Enrollment(c.user)
             row == [secret |-> c.secret, expires |-> c.at + EnrollmentLifetime]
             f == d :> row
  <2>1. MethodOf(c) = BeginEnrollment(c)
    BY <1>1 DEF MethodOf
  <2>2. s = Statements(<<>>, f)
    BY <2>1, OnlyOutcome DEF BeginEnrollment, May
  <2>3. c.at + EnrollmentLifetime \in Nat
    BY <1>1, MySQLAssumption DEF Times
  <2>4. row \in [secret: Secrets, expires: Nat]
    BY <1>1, <2>3
  <2> HIDE DEF row
  <2>5. d[1] = "totp_enrollments" /\ d[1] \in Tables
    BY <1>0
  <2>6. WriteOK(f) /\ DOMAIN f = {d}
    <3>1. row \in Values(d[1])
      BY <2>4, <2>5, ValuesOf
    <3> HIDE DEF d
    <3> QED BY <2>5, <3>1, OneRowOK, OneRow
  <2> HIDE DEF f
  <2>7. w = f
    BY <2>2, <2>6, OneKind DEF Write, WriteOK
  <2>8. TotpSafe(f)
    BY <2>5, <2>6, NoTotp DEF TotpTables
  <2> QED BY <2>5, <2>6, <2>7, <2>8, OnlyTotp DEF Within
<1>2. CASE c \in [method: {"createChallenge"}, token: Challenges, user: Subjects, at: Times]
  <2> DEFINE d == Challenge(c.token)
             row == [user |-> c.user, expires |-> c.at + ChallengeLifetime, consumed |-> FALSE]
             f == d :> row
  <2>1. MethodOf(c) = CreateChallenge(c)
    BY <1>2 DEF MethodOf
  <2>2. s = Statements(f, <<>>)
    BY <2>1, OnlyOutcome DEF CreateChallenge, May
  <2>3. c.at + ChallengeLifetime \in Nat
    BY <1>2, MySQLAssumption DEF Times
  <2>4. row \in [user: Subjects, expires: Nat, consumed: BOOLEAN]
    BY <1>2, <2>3
  <2> HIDE DEF row
  <2>5. d[1] = "totp_challenges" /\ d[1] \in Tables
    BY <1>0
  <2>6. WriteOK(f) /\ DOMAIN f = {d}
    <3>1. row \in Values(d[1])
      BY <2>4, <2>5, ValuesOf
    <3> HIDE DEF d
    <3> QED BY <2>5, <3>1, OneRowOK, OneRow
  <2> HIDE DEF f
  <2>7. w = f
    BY <2>2, <2>6, OneKind DEF Write, WriteOK
  <2>8. TotpSafe(f)
    BY <2>5, <2>6, NoTotp DEF TotpTables
  <2> QED BY <2>5, <2>6, <2>7, <2>8, OnlyTotp DEF Within
<1>3. CASE c \in [method: {"enable"}, user: Subjects, counter: Nat, code: RecoveryCodes, at: Times]
  <2> DEFINE u == c.user
             e == Row(Enrollment(u))
             row == [secret |-> IF e = None THEN None ELSE e.secret, last |-> c.counter,
                     disabled |-> FALSE]
             code == [user |-> u, used |-> FALSE]
             D == RecoveryOf(u) \cup {Enrollment(u)}
             f == Totp(u) :> row
             g == Recovery(c.code) :> code
             both == f @@ g
             x == both @@ Erased(D)
  <2>1. MethodOf(c) = Enable(c)
    BY <1>3 DEF MethodOf
  <2>2. MethodOf(c) =
            Method({Enrollment(u)},
                IF e = None THEN "not_found"
                ELSE IF c.at >= e.expires THEN "inactive_enrollment" ELSE "ok",
                Statements(<<>>, x))
    BY <2>1, Zenon DEF Enable
  <2>3. s = Statements(<<>>, x) /\ e # None
    <3> HIDE DEF e, x
    <3>1. c.method # "removePassword"
      BY <1>3
    <3> QED BY <2>2, <3>1, OnlyOutcome DEF May
  <2>4. row \in [secret: Secrets, last: Nat, disabled: BOOLEAN] /\ ~row.disabled
    <3>1. Exists(Enrollment(u)) /\ e = rows[Enrollment(u)]
      BY <2>3 DEF Row
    <3>2. e \in Values(Enrollment(u)[1])
      BY <3>1, TypedRow DEF Sound
    <3>3. e \in [secret: Secrets, expires: Nat]
      BY <1>0, <3>2, ValuesOf
    <3> HIDE DEF e
    <3> QED BY <1>3, <2>3, <3>3
  <2>5. code \in [user: Subjects, used: BOOLEAN] /\ code.user = u
    BY <1>3
  <2> HIDE DEF row, code
  <2>6. WriteOK(f) /\ DOMAIN f = {Totp(u)} /\ f[Totp(u)] = row /\ row # None
    <3>1. Totp(u)[1] \in Tables /\ row \in Values(Totp(u)[1])
      BY <1>0, <2>4, ValuesOf DEF TotpTables
    <3>2. row # None
      BY <2>4, SomeValue
    <3> QED BY <3>1, <3>2, OneRowOK, OneRow
  <2>7. WriteOK(g) /\ DOMAIN g = {Recovery(c.code)} /\ g[Recovery(c.code)] = code /\ code # None
    <3>1. Recovery(c.code)[1] \in Tables /\ code \in Values(Recovery(c.code)[1])
      BY <1>0, <2>5, ValuesOf DEF TotpTables
    <3>2. code # None
      BY <2>5, SomeValue
    <3> QED BY <3>1, <3>2, OneRowOK, OneRow
  <2>8. \A d \in D : d[1] \in tables
    BY <1>0 DEF RecoveryOf, TotpTables
  <2>9. WriteOK(Erased(D)) /\ DOMAIN Erased(D) = D /\ \A d \in D : Erased(D)[d] = None
    BY <1>0, <2>8, ErasedOK, ErasedRows
  <2>10. Joined(both, f, g) /\ Joined(x, both, Erased(D))
    BY Join
  <2>11. \A d \in D : d[1] \in {"totp_recovery_codes", "totp_enrollments"}
    BY <1>0 DEF RecoveryOf
  <2> HIDE DEF f, g, both, x, D, e
  <2>12. WriteOK(both)
    BY <2>6, <2>7, <2>10, JoinedOK
  <2>13. WriteOK(x)
    BY <2>9, <2>10, <2>12, JoinedOK
  <2>14. DOMAIN both = {Totp(u), Recovery(c.code)} /\ both[Totp(u)] = row /\ both[Recovery(c.code)] = code
    BY <1>0, <2>6, <2>7, <2>10 DEF Joined
  <2>15. /\ DOMAIN x = {Totp(u), Recovery(c.code)} \cup D
         /\ x[Totp(u)] = row /\ x[Recovery(c.code)] = code
         /\ \A d \in D : d # Totp(u) /\ d # Recovery(c.code) => x[d] = None
    BY <2>9, <2>10, <2>14 DEF Joined
  <2>16. w = x
    BY <2>3, <2>13, OneKind DEF Write, WriteOK
  <2>17. CredentialsSafe(x)
    <3>1. \A v : Totp(v) \in DOMAIN x => Totp(v) = Totp(u)
      BY <1>0, <2>11, <2>15
    <3> QED BY <2>4, <2>6, <2>15, <3>1 DEF CredentialsSafe
  <2>18. CodesSafe(x)
    <3>1. \A k : Sets(x, Recovery(k)) => Recovery(k) = Recovery(c.code)
      BY <1>0, <2>15 DEF Sets
    <3> QED BY <2>4, <2>5, <2>15, <3>1 DEF CodesSafe
  <2>19. Within(x, tables)
    BY <1>0, <2>8, <2>15 DEF Within, TotpTables
  <2> QED BY <2>13, <2>16, <2>17, <2>18, <2>19, OnlyTotp DEF TotpSafe
<1>4. CASE c \in [method: {"disable"}, user: Subjects]
  <2> DEFINE u == c.user
             f == [d \in {e \in {Totp(u)} : Exists(e)} |-> [rows[d] EXCEPT !.disabled = TRUE]]
             D == RecoveryOf(u)
             x == f @@ Erased(D)
  <2>1. MethodOf(c) = Disable(c)
    BY <1>4 DEF MethodOf
  <2>2. s = Statements(<<>>, x)
    <3>1. MethodOf(c) = Method({}, IF IsEnabled(u) THEN "ok" ELSE "not_found", Statements(<<>>, x))
      BY <2>1, Zenon DEF Disable
    <3> HIDE DEF x
    <3> QED BY <3>1, OnlyOutcome DEF May
  <2>3. /\ IsFunction(f)
        /\ \A d \in DOMAIN f : d = Totp(u) /\ Exists(d) /\ f[d] = [rows[d] EXCEPT !.disabled = TRUE]
    BY DEF IsFunction
  <2> HIDE DEF f
  <2>4. ASSUME NEW d \in DOMAIN f
        PROVE  /\ f[d] \in [secret: Secrets, last: Nat, disabled: BOOLEAN]
               /\ f[d] # None
    <3>1. d = Totp(u) /\ Exists(d) /\ f[d] = [rows[d] EXCEPT !.disabled = TRUE]
      BY <2>3
    <3>2. rows[d] \in [secret: Secrets, last: Nat, disabled: BOOLEAN]
      BY <3>1, Typed DEF Sound
    <3> QED BY <3>1, <3>2, SomeValue
  <2>5. WriteOK(f)
    BY <1>0, <2>3, <2>4, ValuesOf DEF WriteOK, TotpTables
  <2>6. \A d \in D : d[1] = "totp_recovery_codes"
    BY <1>0 DEF RecoveryOf
  <2> HIDE DEF D
  <2>7. WriteOK(Erased(D)) /\ DOMAIN Erased(D) = D /\ \A d \in D : Erased(D)[d] = None
    BY <1>0, <2>6, ErasedOK, ErasedRows DEF TotpTables
  <2>8. Joined(x, f, Erased(D))
    BY Join
  <2> HIDE DEF x
  <2>9. WriteOK(x)
    BY <2>5, <2>7, <2>8, JoinedOK
  <2>10. w = x
    BY <2>2, <2>9, OneKind DEF Write, WriteOK
  <2>11. \A d \in D : Erases(x, d)
    BY <1>0, <2>3, <2>6, <2>7, <2>8 DEF Joined, Erases
  <2>12. CredentialsSafe(x)
    <3>1. ASSUME NEW v, Totp(v) \in DOMAIN x
          PROVE  v = u /\ x[Totp(v)] # None
      <4>1. Totp(v) \in DOMAIN f
        BY <1>0, <2>6, <2>7, <2>8, <3>1 DEF Joined
      <4> QED BY <2>3, <2>4, <2>8, <4>1, Keys DEF Joined
    <3> QED BY <2>11, <3>1 DEF CredentialsSafe, D
  <2>13. CodesSafe(x)
    <3>1. \A k : ~Sets(x, Recovery(k))
      BY <1>0, <2>3, <2>7, <2>8 DEF Joined, Sets
    <3> QED BY <3>1 DEF CodesSafe
  <2>14. Within(x, tables)
    BY <1>0, <2>3, <2>6, <2>7, <2>8 DEF Joined, Within, TotpTables
  <2> QED BY <2>9, <2>10, <2>12, <2>13, <2>14, OnlyTotp DEF TotpSafe
<1>5. CASE c \in [method: {"completeCode"}, token: Challenges, counter: Nat, at: Times]
  <2> DEFINE u == rows[Challenge(c.token)].user
             fresh == IsEnabled(u) /\ rows[Totp(u)].last < c.counter
             f == ConsumeChallenge(c.token)
             g == [d \in {Totp(u)} |-> [rows[d] EXCEPT !.last = c.counter]]
             x == f @@ g
  <2>1. MethodOf(c) = CompleteCode(c)
    BY <1>5 DEF MethodOf
  <2>2. MethodOf(c) =
            Method({}, IF ~Usable(c.token, c.at) THEN "inactive_challenge"
                       ELSE IF ~fresh THEN "invalid_code" ELSE "ok",
                   Statements(<<>>, x))
    BY <2>1, Zenon DEF CompleteCode
  <2>3. s = Statements(<<>>, x) /\ Usable(c.token, c.at) /\ IsEnabled(u)
    <3>1. c.method # "removePassword"
      BY <1>5
    <3>2. s = Statements(<<>>, x) /\ Usable(c.token, c.at) /\ fresh
      <4> HIDE DEF fresh, x
      <4> QED BY <2>2, <3>1, OnlyOutcome DEF May
    <3> QED BY <3>2
  <2>4. WriteOK(f) /\ DOMAIN f = {Challenge(c.token)}
    BY <2>3, UsedChallenge DEF Sound
  <2>5. IsFunction(g) /\ DOMAIN g = {Totp(u)} /\ g[Totp(u)] = [rows[Totp(u)] EXCEPT !.last = c.counter]
    BY DEF IsFunction
  <2>6. Joined(x, f, g)
    BY Join
  <2> HIDE DEF f, g, x, u
  <2>7. rows[Totp(u)] \in [secret: Secrets, last: Nat, disabled: BOOLEAN] /\ ~rows[Totp(u)].disabled
    BY <2>3, Typed DEF Sound, IsEnabled
  <2>8. /\ g[Totp(u)] \in [secret: Secrets, last: Nat, disabled: BOOLEAN] /\ ~g[Totp(u)].disabled
        /\ g[Totp(u)] # None
    <3>1. c.counter \in Nat
      BY <1>5
    <3>2. [rows[Totp(u)] EXCEPT !.last = c.counter] \in [secret: Secrets, last: Nat, disabled: BOOLEAN]
      BY <2>7, <3>1
    <3> QED BY <2>5, <2>7, <3>2, SomeValue
  <2>9. WriteOK(g)
    BY <1>0, <2>5, <2>8, ValuesOf DEF WriteOK, TotpTables
  <2>10. WriteOK(x)
    BY <2>4, <2>6, <2>9, JoinedOK
  <2>11. w = x
    BY <2>3, <2>10, OneKind DEF Write, WriteOK
  <2>12. CredentialsSafe(x)
    <3>1. \A v : Totp(v) \in DOMAIN x => x[Totp(v)] = g[Totp(u)]
      BY <1>0, <2>4, <2>5, <2>6 DEF Joined
    <3> QED BY <2>8, <3>1 DEF CredentialsSafe
  <2>13. CodesSafe(x)
    BY <1>0, <2>4, <2>5, <2>6 DEF Joined, CodesSafe, Sets
  <2>14. Within(x, tables)
    BY <1>0, <2>4, <2>5, <2>6 DEF Joined, Within, TotpTables
  <2> QED BY <2>10, <2>11, <2>12, <2>13, <2>14, OnlyTotp DEF TotpSafe
<1>6. CASE c \in [method: {"completeRecovery"}, token: Challenges, code: RecoveryCodes, at: Times]
  <2> DEFINE u == rows[Challenge(c.token)].user
             f == ConsumeChallenge(c.token)
             g == [d \in {e \in {Recovery(c.code)} : Exists(e)} |-> [rows[d] EXCEPT !.used = TRUE]]
             x == f @@ g
  <2>1. MethodOf(c) = CompleteRecovery(c)
    BY <1>6 DEF MethodOf
  <2>2. MethodOf(c) =
            Method({}, IF ~Usable(c.token, c.at) THEN "inactive_challenge"
                       ELSE IF Row(Recovery(c.code)) # [user |-> u, used |-> FALSE] THEN "invalid_code"
                       ELSE "ok",
                   Statements(<<>>, x))
    BY <2>1, Zenon DEF CompleteRecovery
  <2>3. s = Statements(<<>>, x) /\ Usable(c.token, c.at)
    <3> HIDE DEF x
    <3>1. c.method # "removePassword"
      BY <1>6
    <3> QED BY <2>2, <3>1, OnlyOutcome DEF May
  <2>4. WriteOK(f) /\ DOMAIN f = {Challenge(c.token)}
    BY <2>3, UsedChallenge DEF Sound
  <2>5. /\ IsFunction(g)
        /\ \A d \in DOMAIN g : d = Recovery(c.code) /\ Exists(d) /\ g[d] = [rows[d] EXCEPT !.used = TRUE]
    BY DEF IsFunction
  <2>6. Joined(x, f, g)
    BY Join
  <2> HIDE DEF f, g, x, u
  <2>7. ASSUME NEW d \in DOMAIN g
        PROVE  /\ g[d] \in [user: Subjects, used: BOOLEAN] /\ g[d].user = rows[d].user
               /\ Exists(d)
    <3>1. d = Recovery(c.code) /\ Exists(d) /\ g[d] = [rows[d] EXCEPT !.used = TRUE]
      BY <2>5
    <3>2. rows[d] \in [user: Subjects, used: BOOLEAN]
      BY <3>1, Typed DEF Sound
    <3> QED BY <3>1, <3>2
  <2>8. WriteOK(g)
    BY <1>0, <2>5, <2>7, ValuesOf DEF WriteOK, TotpTables
  <2>9. WriteOK(x)
    BY <2>4, <2>6, <2>8, JoinedOK
  <2>10. w = x
    BY <2>3, <2>9, OneKind DEF Write, WriteOK
  <2>11. CredentialsSafe(x)
    BY <1>0, <2>4, <2>5, <2>6 DEF Joined, CredentialsSafe
  <2>12. CodesSafe(x)
    <3>1. ASSUME NEW k, Recovery(k) \in DOMAIN x
          PROVE  Exists(Recovery(k)) /\ x[Recovery(k)].user = rows[Recovery(k)].user
      <4>1. Recovery(k) \in DOMAIN g /\ Recovery(k) \notin DOMAIN f
        BY <1>0, <2>4, <2>6, <3>1 DEF Joined
      <4> QED BY <2>6, <2>7, <4>1 DEF Joined
    <3> QED BY <3>1 DEF CodesSafe, Sets
  <2>13. Within(x, tables)
    BY <1>0, <2>4, <2>5, <2>6 DEF Joined, Within, TotpTables
  <2> QED BY <2>9, <2>10, <2>11, <2>12, <2>13, OnlyTotp DEF TotpSafe
<1> QED BY <1>1, <1>2, <1>3, <1>4, <1>5, <1>6 DEF TotpCall

\* What any call writes may be committed, if it may decide so on the rows as they are.
LEMMA AlwaysProper ==
    ASSUME Sound, NEW c, CallOK(c), Fits(c), NEW answer, May(c, answer)
    PROVE  Proper(c, Write(c, answer))
BY SessionProper, BearerProper, PasswordProper, MailProper, IdentityProper, PasskeyProper,
   TotpProper, FlowProper DEF CallOK

-----------------------------------------------------------------------------
(***************************************************************************)
(* What a decided method relies on, while others commit.                   *)
(***************************************************************************)

\* The write meets no lock of the set.
Apart(w, H) ==
    /\ \A d \in H : d \notin DOMAIN w
    /\ \A d \in DOMAIN w : ~Exists(d) /\ w[d] # None => Guard(d, w[d]) \notin H

\* ... and takes no way to sign in from a user whose row is locked.
Undisturbed(w, H) ==
    /\ Apart(w, H)
    /\ \A u \in Users : User(u) \in H /\ Exists(User(u)) => ~Removes(w, u)

\* A token that is stored has not been sent before.
FreshMail(w) ==
    \A kind \in Kinds, u \in Users : Sets(w, Mail(kind, u)) => Unsent(w[Mail(kind, u)])

\* InnoDB lets no statement past the locks of another transaction.
LEMMA WritableApart ==
    ASSUME NEW r \in Requests, NEW x \in Requests, x # r, NEW s, Writable(r, s)
    PROVE  Apart(All(s), req[x].held)
BY DEF Writable, Touched, Apart

\* A locked row or gap is as it was.
LEMMA Held ==
    ASSUME RowsOK, NEW w, WriteOK(w), rows' = After(w), NEW H, Apart(w, H), NEW d \in H
    PROVE  /\ Exists(d)' <=> Exists(d)
           /\ Exists(d) => rows'[d] = rows[d]
           /\ Row(d)' = Row(d)
BY WrittenRows DEF Apart, Sets

\* A locked user keeps every way to sign in, and is given no Google identity: the foreign
\* key waits for the lock.
LEMMA LockedUser ==
    ASSUME Sound, NEW w, Safe(w), rows' = After(w), NEW H, Undisturbed(w, H),
           NEW u \in Users, User(u) \in H, Exists(User(u))
    PROVE  /\ Exists(User(u))'
           /\ Exists(Password(u)) => Exists(Password(u))'
           /\ IdentitiesOf(u)' = IdentitiesOf(u)
           /\ PasskeysOf(u) \subseteq PasskeysOf(u)'
<1>0. u # None
  BY SomeValue
<1>1. ~Removes(w, u) /\ Apart(w, H)
  BY DEF Undisturbed
<1>2. Exists(User(u))'
  BY <1>1, Held DEF Sound, Safe
<1>3. Exists(Password(u)) => Exists(Password(u))'
  BY <1>1, WrittenRows DEF Sound, Safe, Removes, Sets, Erases
<1>4. ASSUME NEW p \in Identities, Row(Identity(p)) = u PROVE Row(Identity(p))' = u
  <2>1. ~Erases(w, Identity(p))
    BY <1>1, <1>4 DEF Removes
  <2> QED BY <1>0, <1>4, <2>1, WrittenRows
          DEF Sound, Safe, AccountsSafe, IdentitiesSafe, Sets, Erases, Row
<1>5. ASSUME NEW p \in Identities, Row(Identity(p))' = u PROVE Row(Identity(p)) = u
  <2>1. CASE Identity(p) \in DOMAIN w
    <3>1. Sets(w, Identity(p)) /\ w[Identity(p)] = u
      BY <1>0, <1>5, <2>1, WrittenRows DEF Sound, Safe, Sets, Erases
    <3>2. CASE Exists(Identity(p))
      BY <3>1, <3>2 DEF Safe, AccountsSafe, IdentitiesSafe, Row
    <3>3. CASE ~Exists(Identity(p))
      <4>1. Identity(p)[1] = "google_identities"
        BY Keys
      <4>2. Guard(Identity(p), u) = User(u)
        BY <4>1 DEF Guard, User
      <4> QED BY <1>1, <3>1, <3>3, <4>2 DEF Apart, Sets
    <3> QED BY <3>2, <3>3
  <2>2. CASE Identity(p) \notin DOMAIN w
    BY <1>5, <2>2, WrittenRows DEF Sound, Safe
  <2> QED BY <2>1, <2>2
<1>6. IdentitiesOf(u)' = IdentitiesOf(u)
  BY <1>4, <1>5 DEF IdentitiesOf
<1>7. ASSUME NEW k \in Credentials, Row(Passkey(k)) = u PROVE Row(Passkey(k))' = u
  <2>1. ~Erases(w, Passkey(k))
    BY <1>1, <1>7 DEF Removes
  <2> QED BY <1>0, <1>7, <2>1, WrittenRows
          DEF Sound, Safe, AccountsSafe, PasskeysSafe, Sets, Erases, Row
<1>8. PasskeysOf(u) \subseteq PasskeysOf(u)'
  BY <1>7 DEF PasskeysOf
<1> QED BY <1>2, <1>3, <1>6, <1>8

\* The subject whose range is locked keeps its sessions, and gets no other.
LEMMA LockedSubject ==
    ASSUME Sound, NEW w, Safe(w), rows' = After(w), NEW H, Apart(w, H), NEW s,
           SubjectRange(s) \subseteq H
    PROVE  SessionRows(s)' = SessionRows(s) /\ SubjectRange(s)' = SubjectRange(s)
<1> DEFINE Of(t) == Row(Session(t)) # None /\ Row(Session(t)).subject = s
<1>1. SessionRows(s) = {Session(t) : t \in {y \in SessionTokens : Of(y)}}
  BY DEF SessionRows, Cookie!BelongTo, Cookie!Exists
<1>2. SessionRows(s)' = {Session(t) : t \in {y \in SessionTokens : Of(y)'}}
  BY DEF SessionRows, Cookie!BelongTo, Cookie!Exists
<1>3. ASSUME NEW t \in SessionTokens PROVE Of(t)' <=> Of(t)
  <2> DEFINE d == Session(t)
  <2>0. d[1] = "sessions"
    BY Keys
  <2>1. CASE Of(t)
    <3>1. d \in H
      BY <1>1, <2>1 DEF SubjectRange
    <3>2. Row(d)' = Row(d)
      BY <3>1, Held DEF Sound, Safe
    <3> QED BY <2>1, <3>2
  <2>2. CASE ~Of(t) /\ d \notin DOMAIN w
    <3>1. Row(d)' = Row(d)
      BY <2>2, WrittenRows DEF Sound, Safe
    <3> QED BY <2>2, <3>1
  <2>3. CASE ~Of(t) /\ d \in DOMAIN w
    <3>1. Sets(w, d)
      BY <2>3 DEF Safe, SessionsKept, Sets, Erases
    <3>2. Row(d)' = w[d]
      BY <3>1, WrittenRows DEF Sound, Safe
    <3>3. w[d].subject # s
      <4>1. CASE Exists(d)
        <5>1. w[d].subject = rows[d].subject /\ Row(d) = rows[d] /\ rows[d] # None
          BY <3>1, <4>1, TypedRow DEF Sound, Safe, SessionsKept, Row
        <5> QED BY <2>3, <5>1
      <4>2. CASE ~Exists(d)
        <5>1. Guard(d, w[d]) = <<"sessions.subject", w[d].subject>>
          BY <2>0 DEF Guard
        <5>2. Guard(d, w[d]) \notin H
          BY <3>1, <4>2 DEF Apart, Sets
        <5> QED BY <5>1, <5>2 DEF SubjectRange, SubjectIndex
      <4> QED BY <4>1, <4>2
    <3> QED BY <2>3, <3>2, <3>3
  <2> QED BY <2>1, <2>2, <2>3
<1> HIDE DEF Of
<1>4. SessionRows(s)' = SessionRows(s)
  BY <1>1, <1>2, <1>3
<1> QED BY <1>4 DEF SubjectRange, SubjectIndex

\* The users whose mailed token is locked with them still have it, and no other gets it.
LEMMA LockedMail ==
    ASSUME Sound, MailUsers, NEW w, Safe(w), rows' = After(w), NEW H, Apart(w, H), FreshMail(w),
           NEW kind \in Kinds, NEW t \in MailTokens,
           Mailed(kind, t) # {}, MailedRows(kind, t) \subseteq H
    PROVE  /\ Mailed(kind, t)' = Mailed(kind, t)
           /\ MailedRows(kind, t)' = MailedRows(kind, t)
           /\ \A u \in Mailed(kind, t) : User(u) \in H
<1>0. t # None
  BY SomeValue
<1>1. ~Unsent(t)
  BY DEF Unsent, Mailed
<1>2. ASSUME NEW u \in Mailed(kind, t) PROVE Mail(kind, u) \in H /\ User(u) \in H
  BY DEF MailedRows, LockUser
<1>3. ASSUME NEW u \in Mailed(kind, t) PROVE Row(Mail(kind, u))' = t /\ Exists(User(u))'
  BY <1>2, Held DEF Sound, Safe, Mailed
<1>4. ASSUME NEW u \in Users, Row(Mail(kind, u))' = t
      PROVE  Row(Mail(kind, u)) = t /\ Exists(User(u))
  <2>1. ~Sets(w, Mail(kind, u))
    <3>1. ASSUME Sets(w, Mail(kind, u)) PROVE FALSE
      <4>1. w[Mail(kind, u)] = t
        BY <1>4, <3>1, WrittenRows DEF Sound, Safe
      <4> QED BY <1>1, <3>1, <4>1 DEF FreshMail
    <3> QED BY <3>1
  <2>2. Mail(kind, u) \notin DOMAIN w
    BY <1>0, <1>4, <2>1, WrittenRows DEF Sound, Safe, Sets, Erases
  <2>3. Row(Mail(kind, u)) = t
    BY <1>4, <2>2, WrittenRows DEF Sound, Safe
  <2> QED BY <1>0, <2>3 DEF MailUsers, Row
<1>5. Mailed(kind, t)' = Mailed(kind, t)
  BY <1>3, <1>4 DEF Mailed
<1> QED BY <1>2, <1>5 DEF MailedRows, LockUser

-----------------------------------------------------------------------------
(***************************************************************************)
(* ... and so stands.                                                      *)
(***************************************************************************)

\* The methods of sessions: the row or the subject that they lock is as it was.
LEMMA SessionStays ==
    ASSUME Sound, NEW c, SessionCall(c) \/ BearerCall(c), c.method \in Selecting, NEW answer,
           NEW H, Stands(c, answer, H), NEW w, Safe(w), Undisturbed(w, H), rows' = After(w)
    PROVE  /\ Stands(c, answer, H)'
           /\ c.method = "revokeAll" => SessionRows(c.user)' = SessionRows(c.user)
<1>0. RowsOK /\ WriteOK(w) /\ Apart(w, H)
  BY DEF Sound, Safe, Undisturbed
<1>1. CASE c \in [method: {"rotate"}, token: SessionTokens, at: Times, rec: Cookie!Record]
  <2> DEFINE d == Session(c.token)
             Live(row) == row # None /\ Cookie!ActiveAt(row, c.at)
  <2>0. c.method = "rotate" /\ c.token \in SessionTokens
    BY <1>1
  <2>1. MethodOf(c) = Rotate(c) /\ MethodOf(c)' = Rotate(c)'
    BY <2>0 DEF MethodOf
  <2>2. /\ Cookie!Rotatable(c.token, c.at) <=> Live(Row(d))
        /\ Cookie!Rotatable(c.token, c.at)' <=> Live(Row(d)')
    BY <2>0 DEF Cookie!Rotatable, Cookie!Exists, Cookie!ActiveAt
  <2> HIDE DEF Live, d
  <2>3. /\ MethodOf(c).locks = {d}
        /\ Right(c, answer) <=> answer = "ok" /\ Exists(d) /\ Live(Row(d))
    BY <2>0, <2>1, <2>2 DEF Right, Rotate, Method, ForUpdate, d
  <2>4. /\ MethodOf(c).locks' = {d}
        /\ Right(c, answer)' <=> answer = "ok" /\ Exists(d)' /\ Live(Row(d)')
    BY <2>0, <2>1, <2>2 DEF Right, Rotate, Method, ForUpdate, d
  <2>5. d \in H
    BY <2>3 DEF Stands
  <2>6. (Exists(d)' <=> Exists(d)) /\ Row(d)' = Row(d)
    BY <1>0, <2>5, Held
  <2> QED BY <2>0, <2>3, <2>4, <2>5, <2>6 DEF Stands
<1>2. CASE c \in [method: {"revokeAll"}, user: Subjects]
  <2>0. c.method = "revokeAll"
    BY <1>2
  <2>1. MethodOf(c) = RevokeAll(c) /\ MethodOf(c)' = RevokeAll(c)'
    BY <2>0 DEF MethodOf
  <2>2. MethodOf(c).locks = SubjectRange(c.user) /\ (Right(c, answer) <=> answer = "ok")
    BY <2>0, <2>1 DEF Right, RevokeAll, Method
  <2>3. MethodOf(c).locks' = SubjectRange(c.user)' /\ (Right(c, answer)' <=> answer = "ok")
    BY <2>0, <2>1 DEF Right, RevokeAll, Method
  <2>4. SubjectRange(c.user) \subseteq H
    BY <2>2 DEF Stands
  <2>5. SessionRows(c.user)' = SessionRows(c.user) /\ SubjectRange(c.user)' = SubjectRange(c.user)
    BY <1>0, <2>4, LockedSubject
  <2> QED BY <2>2, <2>3, <2>4, <2>5 DEF Stands
<1>3. CASE c \in [method: {"rotateRefresh"}, token: Tokens, new: Tokens, at: Times]
  <2> DEFINE d == Refresh(c.token)
             Live(row) == row # None /\ ~row.rotated /\ ~row.revoked /\ c.at < row.expires
             Answer(row) == IF Live(row) THEN "ok" ELSE "reuse"
  <2>0. c.method = "rotateRefresh" /\ c.token \in Tokens
    BY <1>3
  <2>1. MethodOf(c) = RotateRefresh(c) /\ MethodOf(c)' = RotateRefresh(c)'
    BY <2>0 DEF MethodOf
  <2>2. /\ Bearer!RefreshActive(c.token, c.at) <=> Live(Row(d))
        /\ Bearer!RefreshActive(c.token, c.at)' <=> Live(Row(d)')
    BY <2>0 DEF Bearer!RefreshActive
  <2> HIDE DEF Live, d
  <2>3. /\ MethodOf(c).locks = {d}
        /\ Right(c, answer) <=> answer = Answer(Row(d))
    BY <2>0, <2>1, <2>2 DEF Right, RotateRefresh, ForUpdate, d
  <2>4. /\ MethodOf(c).locks' = {d}
        /\ Right(c, answer)' <=> answer = Answer(Row(d)')
    BY <2>0, <2>1, <2>2 DEF Right, RotateRefresh, ForUpdate, d
  <2>5. d \in H
    BY <2>3 DEF Stands
  <2>6. Row(d)' = Row(d)
    BY <1>0, <2>5, Held
  <2> QED BY <2>0, <2>3, <2>4, <2>5, <2>6 DEF Stands
<1> QED BY <1>1, <1>2, <1>3 DEF SessionCall, BearerCall, Selecting

\* The methods of passwords: the user's row is locked, and RemovePassword's user keeps its
\* other ways to sign in.
LEMMA PasswordStays ==
    ASSUME Sound, NEW c, PasswordCall(c), c.method \in Selecting, NEW answer,
           NEW H, Stands(c, answer, H), NEW w, Safe(w), Undisturbed(w, H), rows' = After(w)
    PROVE  Stands(c, answer, H)'
<1>0. RowsOK /\ WriteOK(w) /\ Apart(w, H)
  BY DEF Sound, Safe, Undisturbed
<1>1. CASE c \in [method: {"addPassword"}, user: Users, hash: Hashes]
  <2> DEFINE d == User(c.user)
  <2>0. c.method = "addPassword"
    BY <1>1
  <2>1. MethodOf(c) = AddPassword(c) /\ MethodOf(c)' = AddPassword(c)'
    BY <2>0 DEF MethodOf
  <2>2. /\ MethodOf(c).locks = {d}
        /\ Right(c, answer) <=> answer = "ok" /\ Exists(d)
    BY <2>0, <2>1 DEF Right, AddPassword, Method, LockUser
  <2>3. /\ MethodOf(c).locks' = {d}
        /\ Right(c, answer)' <=> answer = "ok" /\ Exists(d)'
    BY <2>0, <2>1 DEF Right, AddPassword, Method, LockUser
  <2> HIDE DEF d
  <2>4. d \in H
    BY <2>2 DEF Stands
  <2>5. Exists(d)' <=> Exists(d)
    BY <1>0, <2>4, Held
  <2> QED BY <2>2, <2>3, <2>4, <2>5 DEF Stands
<1>2. CASE c \in [method: {"removePassword"}, user: Users, current: Hashes]
  <2> DEFINE u == c.user
  <2>0. c.method = "removePassword" /\ u \in Users
    BY <1>2
  <2>1. MethodOf(c) = RemovePassword(c) /\ MethodOf(c)' = RemovePassword(c)'
    BY <2>0 DEF MethodOf
  <2>2. MethodOf(c).locks = {User(u)} /\ MethodOf(c).locks' = {User(u)}
    BY <2>1 DEF RemovePassword, Method, LockUser
  <2>3. /\ User(u) \in H /\ answer = "ok" /\ Exists(User(u)) /\ Exists(Password(u))
        /\ IdentitiesOf(u) \cup PasskeysOf(u) # {}
    BY <2>0, <2>2 DEF Stands, Right
  <2>4. /\ Exists(User(u))' /\ Exists(Password(u))'
        /\ IdentitiesOf(u)' = IdentitiesOf(u) /\ PasskeysOf(u) \subseteq PasskeysOf(u)'
    BY <2>0, <2>3, LockedUser
  <2>5. (IdentitiesOf(u) \cup PasskeysOf(u))' # {}
    BY <2>3, <2>4
  <2> QED BY <2>0, <2>2, <2>3, <2>4, <2>5 DEF Stands, Right
<1> QED BY <1>1, <1>2 DEF PasswordCall, Selecting

\* Verify and ResetPassword: the token and the account it was mailed to are locked, and
\* the token is sent to nobody else.
LEMMA MailStays ==
    ASSUME Sound, MailUsers, NEW c, MailCall(c), c.method \in Selecting, NEW answer,
           NEW H, Stands(c, answer, H),
           NEW w, Safe(w), Undisturbed(w, H), FreshMail(w), rows' = After(w)
    PROVE  Stands(c, answer, H)'
<1>0. RowsOK /\ WriteOK(w) /\ Apart(w, H)
  BY DEF Sound, Safe, Undisturbed
<1>1. CASE c \in [method: {"verify"}, token: MailTokens]
  <2> DEFINE kind == "email_verifications"
             t == c.token
  <2>0. c.method = "verify" /\ t \in MailTokens /\ kind \in Kinds
    BY <1>1 DEF Kinds
  <2>1. MethodOf(c) = Verify(c) /\ MethodOf(c)' = Verify(c)'
    BY <2>0 DEF MethodOf
  <2>2. /\ MethodOf(c).locks = MailedRows(kind, t)
        /\ Right(c, answer) <=> answer = "ok" /\ Mailed(kind, t) # {}
                                  /\ \A u \in Mailed(kind, t) : ~rows[User(u)].verified
    BY <2>0, <2>1 DEF Right, Verify, Method
  <2>3. /\ MethodOf(c).locks' = MailedRows(kind, t)'
        /\ Right(c, answer)' <=> answer = "ok" /\ Mailed(kind, t)' # {}
                                  /\ \A u \in Mailed(kind, t)' : ~rows'[User(u)].verified
    BY <2>0, <2>1 DEF Right, Verify, Method
  <2>4. Mailed(kind, t) # {} /\ MailedRows(kind, t) \subseteq H
    BY <2>2 DEF Stands
  <2>5. /\ Mailed(kind, t)' = Mailed(kind, t)
        /\ MailedRows(kind, t)' = MailedRows(kind, t)
        /\ \A u \in Mailed(kind, t) : User(u) \in H
    BY <1>0, <2>0, <2>4, LockedMail
  <2>6. \A u \in Mailed(kind, t) : rows'[User(u)] = rows[User(u)]
    BY <1>0, <2>5, Held DEF Mailed
  <2> QED BY <2>2, <2>3, <2>4, <2>5, <2>6 DEF Stands
<1>2. CASE c \in [method: {"reset"}, token: MailTokens, hash: Hashes]
  <2> DEFINE kind == "password_resets"
             t == c.token
  <2>0. c.method = "reset" /\ t \in MailTokens /\ kind \in Kinds
    BY <1>2 DEF Kinds
  <2>1. MethodOf(c) = ResetPassword(c) /\ MethodOf(c)' = ResetPassword(c)'
    BY <2>0 DEF MethodOf
  <2>2. /\ MethodOf(c).locks = MailedRows(kind, t)
        /\ Right(c, answer) <=> answer = "ok" /\ Mailed(kind, t) # {}
    BY <2>0, <2>1 DEF Right, ResetPassword, Method
  <2>3. /\ MethodOf(c).locks' = MailedRows(kind, t)'
        /\ Right(c, answer)' <=> answer = "ok" /\ Mailed(kind, t)' # {}
    BY <2>0, <2>1 DEF Right, ResetPassword, Method
  <2>4. Mailed(kind, t) # {} /\ MailedRows(kind, t) \subseteq H
    BY <2>2 DEF Stands
  <2>5. Mailed(kind, t)' = Mailed(kind, t) /\ MailedRows(kind, t)' = MailedRows(kind, t)
    BY <1>0, <2>0, <2>4, LockedMail
  <2> QED BY <2>2, <2>3, <2>4, <2>5 DEF Stands
<1> QED BY <1>1, <1>2 DEF MailCall, Selecting

\* ResolveIdentity: whether the identity is known is locked, and with it what decides the
\* case it is in.  UnlinkIdentity: the user keeps its identities, password and passkeys.
LEMMA IdentityStays ==
    ASSUME Sound, NEW c, IdentityCall(c), c.method \in Selecting, NEW answer,
           NEW H, Stands(c, answer, H), NEW w, Safe(w), Undisturbed(w, H), rows' = After(w)
    PROVE  Stands(c, answer, H)'
<1>0. RowsOK /\ WriteOK(w) /\ Apart(w, H)
  BY DEF Sound, Safe, Undisturbed
<1>1. CASE c.method = "resolve" /\ c.user \in Users \cup {None}
  <2> DEFINE d == Identity(c.identity)
             u == c.user
  <2>1. MethodOf(c) = ResolveIdentity(c) /\ MethodOf(c)' = ResolveIdentity(c)'
    BY <1>1 DEF MethodOf
  <2>2. d \in MethodOf(c).locks
    BY <2>1 DEF ResolveIdentity, ResolveKnown, ResolveLink, ResolveCreate, Method
  <2>3. d \in H
    BY <2>2 DEF Stands
  <2>4. (Exists(d)' <=> Exists(d)) /\ (Exists(d) => rows'[d] = rows[d])
    BY <1>0, <2>3, Held
  <2>5. CASE Exists(d)
    <3>1. MethodOf(c) = ResolveKnown(c) /\ MethodOf(c)' = ResolveKnown(c)'
      BY <2>1, <2>4, <2>5 DEF ResolveIdentity
    <3>2. /\ MethodOf(c).locks = {d}
          /\ Right(c, answer) <=> answer = "ok" /\ u \in {None, rows[d]}
      BY <1>1, <3>1 DEF Right, ResolveKnown, Method
    <3>3. /\ MethodOf(c).locks' = {d}
          /\ Right(c, answer)' <=> answer = "ok" /\ u \in {None, rows'[d]}
      BY <1>1, <3>1 DEF Right, ResolveKnown, Method
    <3> QED BY <2>3, <2>4, <2>5, <3>2, <3>3 DEF Stands
  <2>6. CASE ~Exists(d) /\ u # None
    <3>1. MethodOf(c) = ResolveLink(c) /\ MethodOf(c)' = ResolveLink(c)'
      BY <2>1, <2>4, <2>6 DEF ResolveIdentity
    <3>2. /\ MethodOf(c).locks = {d, User(u)}
          /\ Right(c, answer) <=> answer = "ok" /\ Exists(User(u)) /\ IdentitiesOf(u) = {}
      BY <1>1, <3>1 DEF Right, ResolveLink, Method, LockUser
    <3>3. /\ MethodOf(c).locks' = {d, User(u)}
          /\ Right(c, answer)' <=> answer = "ok" /\ Exists(User(u))' /\ IdentitiesOf(u)' = {}
      BY <1>1, <3>1 DEF Right, ResolveLink, Method, LockUser
    <3>4. User(u) \in H /\ Exists(User(u)) /\ u \in Users
      BY <1>1, <2>6, <3>2 DEF Stands
    <3>5. Exists(User(u))' /\ IdentitiesOf(u)' = IdentitiesOf(u)
      BY <3>4, LockedUser
    <3> QED BY <2>3, <3>2, <3>3, <3>4, <3>5 DEF Stands
  <2>7. CASE ~Exists(d) /\ u = None
    <3> DEFINE e == Email(c.email)
    <3>1. MethodOf(c) = ResolveCreate(c) /\ MethodOf(c)' = ResolveCreate(c)'
      BY <2>1, <2>4, <2>7 DEF ResolveIdentity
    <3>2. /\ MethodOf(c).locks = {d, e}
          /\ Right(c, answer) <=> answer = "ok" /\ ~Exists(e)
      BY <1>1, <3>1 DEF Right, ResolveCreate, Method
    <3>3. /\ MethodOf(c).locks' = {d, e}
          /\ Right(c, answer)' <=> answer = "ok" /\ ~Exists(e)'
      BY <1>1, <3>1 DEF Right, ResolveCreate, Method
    <3> HIDE DEF e
    <3>4. e \in H
      BY <3>2 DEF Stands
    <3>5. Exists(e)' <=> Exists(e)
      BY <1>0, <3>4, Held
    <3> QED BY <2>3, <3>2, <3>3, <3>4, <3>5 DEF Stands
  <2> QED BY <2>5, <2>6, <2>7
<1>2. CASE c \in [method: {"unlink"}, user: Users]
  <2> DEFINE u == c.user
             rowsOf == {Identity(p) : p \in IdentitiesOf(u)}
  <2>0. c.method = "unlink" /\ u \in Users
    BY <1>2
  <2>1. MethodOf(c) = UnlinkIdentity(c) /\ MethodOf(c)' = UnlinkIdentity(c)'
    BY <2>0 DEF MethodOf
  <2>2. /\ MethodOf(c).locks = {User(u)} \cup rowsOf
        /\ Right(c, answer) <=> /\ answer = "ok" /\ Exists(User(u)) /\ rowsOf # {}
                                /\ Exists(Password(u)) \/ PasskeysOf(u) # {}
    BY <2>0, <2>1 DEF Right, UnlinkIdentity, Method, LockUser
  <2>3. /\ MethodOf(c).locks' = {User(u)} \cup rowsOf'
        /\ Right(c, answer)' <=> /\ answer = "ok" /\ Exists(User(u))' /\ rowsOf' # {}
                                 /\ Exists(Password(u))' \/ PasskeysOf(u)' # {}
    BY <2>0, <2>1 DEF Right, UnlinkIdentity, Method, LockUser
  <2>4. User(u) \in H /\ Exists(User(u))
    BY <2>2 DEF Stands
  <2>5. /\ Exists(User(u))' /\ (Exists(Password(u)) => Exists(Password(u))')
        /\ IdentitiesOf(u)' = IdentitiesOf(u) /\ PasskeysOf(u) \subseteq PasskeysOf(u)'
    BY <2>0, <2>4, LockedUser
  <2>6. rowsOf' = rowsOf
    BY <2>5
  <2>7. PasskeysOf(u) # {} => PasskeysOf(u)' # {}
    BY <2>5
  <2> HIDE DEF rowsOf
  <2> QED BY <2>2, <2>3, <2>5, <2>6, <2>7 DEF Stands
<1> QED BY <1>1, <1>2 DEF IdentityCall, Selecting

\* DeleteCredential: the user keeps the passkey and what else there was.
LEMMA PasskeyStays ==
    ASSUME Sound, NEW c, PasskeyCall(c), c.method \in Selecting, NEW answer,
           NEW H, Stands(c, answer, H), NEW w, Safe(w), Undisturbed(w, H), rows' = After(w)
    PROVE  Stands(c, answer, H)'
<1>1. c \in [method: {"deleteCredential"}, user: Users, credential: Credentials]
  BY DEF PasskeyCall, Selecting
<1> DEFINE u == c.user
           last == \E k \in Credentials : PasskeysOf(u) = {k}
           others == Exists(Password(u)) \/ IdentitiesOf(u) # {}
<1>2. c.method = "deleteCredential" /\ u \in Users
  BY <1>1
<1>3. MethodOf(c) = DeleteCredential(c) /\ MethodOf(c)' = DeleteCredential(c)'
  BY <1>2 DEF MethodOf
<1>4. /\ MethodOf(c).locks = {User(u)}
      /\ Right(c, answer) <=> /\ answer = "ok" /\ Exists(User(u)) /\ (last => others)
                              /\ c.credential \in PasskeysOf(u)
  BY <1>2, <1>3 DEF Right, DeleteCredential, Method, LockUser
<1>5. /\ MethodOf(c).locks' = {User(u)}
      /\ Right(c, answer)' <=> /\ answer = "ok" /\ Exists(User(u))' /\ (last' => others')
                               /\ c.credential \in PasskeysOf(u)'
  BY <1>2, <1>3 DEF Right, DeleteCredential, Method, LockUser
<1>6. User(u) \in H /\ Exists(User(u)) /\ c.credential \in PasskeysOf(u)
  BY <1>4 DEF Stands
<1>7. /\ Exists(User(u))' /\ (Exists(Password(u)) => Exists(Password(u))')
      /\ IdentitiesOf(u)' = IdentitiesOf(u) /\ PasskeysOf(u) \subseteq PasskeysOf(u)'
  BY <1>2, <1>6, LockedUser
<1>8. last' => last
  BY <1>6, <1>7
<1>9. others => others'
  BY <1>7
<1>10. c.credential \in PasskeysOf(u)'
  BY <1>6, <1>7
<1> HIDE DEF last, others
<1> QED BY <1>4, <1>5, <1>6, <1>7, <1>8, <1>9, <1>10 DEF Stands

\* Enable and ConsumeFlow: the one row that they read is locked.
LEMMA RowStays ==
    ASSUME Sound, NEW c, TotpCall(c) \/ FlowCall(c), c.method \in Selecting, NEW answer,
           NEW H, Stands(c, answer, H), NEW w, Safe(w), Undisturbed(w, H), rows' = After(w)
    PROVE  Stands(c, answer, H)'
<1>0. RowsOK /\ WriteOK(w) /\ Apart(w, H)
  BY DEF Sound, Safe, Undisturbed
<1>1. CASE c.method = "enable"
  <2> DEFINE d == Enrollment(c.user)
             Live(e) == e # None /\ ~(c.at >= e.expires)
  <2>1. MethodOf(c) = Enable(c) /\ MethodOf(c)' = Enable(c)'
    BY <1>1 DEF MethodOf
  <2>2. /\ MethodOf(c).locks = {d}
        /\ Right(c, answer) <=> answer = "ok" /\ Live(Row(d))
    BY <1>1, <2>1 DEF Right, Enable, Method
  <2>3. /\ MethodOf(c).locks' = {d}
        /\ Right(c, answer)' <=> answer = "ok" /\ Live(Row(d)')
    BY <1>1, <2>1 DEF Right, Enable, Method
  <2> HIDE DEF d
  <2>4. d \in H
    BY <2>2 DEF Stands
  <2>5. Row(d)' = Row(d)
    BY <1>0, <2>4, Held
  <2> QED BY <2>2, <2>3, <2>4, <2>5 DEF Stands
<1>2. CASE c.method = "consumeFlow"
  <2> DEFINE d == Flow(c.table, c.token)
  <2>1. MethodOf(c) = ConsumeFlow(c) /\ MethodOf(c)' = ConsumeFlow(c)'
    BY <1>2 DEF MethodOf
  <2>2. /\ MethodOf(c).locks = {d}
        /\ Right(c, answer) <=> answer = "ok" /\ Exists(d)
    BY <1>2, <2>1 DEF Right, ConsumeFlow, Method
  <2>3. /\ MethodOf(c).locks' = {d}
        /\ Right(c, answer)' <=> answer = "ok" /\ Exists(d)'
    BY <1>2, <2>1 DEF Right, ConsumeFlow, Method
  <2> HIDE DEF d
  <2>4. d \in H
    BY <2>2 DEF Stands
  <2>5. Exists(d)' <=> Exists(d)
    BY <1>0, <2>4, Held
  <2> QED BY <2>2, <2>3, <2>4, <2>5 DEF Stands
<1> QED BY <1>1, <1>2 DEF TotpCall, FlowCall, Selecting

\* Together: what a method has decided stands, whatever others commit past its locks.
LEMMA DecisionStays ==
    ASSUME Sound, MailUsers, NEW c, CallOK(c), c.method \in Selecting, NEW answer,
           NEW H, Stands(c, answer, H),
           NEW w, Safe(w), Undisturbed(w, H), FreshMail(w), rows' = After(w)
    PROVE  /\ Stands(c, answer, H)'
           /\ c.method = "revokeAll" => SessionRows(c.user)' = SessionRows(c.user)
<1>1. c.method = "revokeAll" => SessionCall(c)
  BY DEF CallOK, SessionCall, BearerCall, PasswordCall, MailCall, IdentityCall, PasskeyCall,
         TotpCall, FlowCall
<1> QED BY <1>1, SessionStays, PasswordStays, MailStays, IdentityStays, PasskeyStays, RowStays
        DEF CallOK

\* What a caller looked up is still so.
LEMMA FitsStays ==
    ASSUME Sound, NEW c, CallOK(c), Fits(c), NEW w, Safe(w), rows' = After(w),
           c.method = "issue" =>
              \A kind \in Kinds, u \in Users : Sets(w, Mail(kind, u)) => w[Mail(kind, u)] # c.token
    PROVE  Fits(c)'
<1>0. RowsOK /\ WriteOK(w) /\ SessionsKept(w)
  BY DEF Sound, Safe
<1>1. ASSUME NEW t, Exists(Session(t))
      PROVE  /\ Exists(Session(t))'
             /\ rows'[Session(t)].subject = rows[Session(t)].subject
             /\ rows'[Session(t)].created = rows[Session(t)].created
  <2>1. CASE Session(t) \in DOMAIN w
    BY <1>0, <1>1, <2>1, WrittenRows DEF SessionsKept, Sets, Erases
  <2>2. CASE Session(t) \notin DOMAIN w
    BY <1>0, <1>1, <2>2, WrittenRows
  <2> QED BY <2>1, <2>2
<1>2. c.method = "create" =>
          (\E t \in SessionTokens, s \in Subjects, at \in Times : c.rec = Cookie!NewRecord(t, s, at))'
  BY DEF Fits, Cookie!NewRecord
<1>3. c.method = "extend" =>
          /\ Extension /\ Exists(Session(c.token))'
          /\ c.expires = Cookie!ExtendedExpiry(rows[Session(c.token)], c.at)'
  BY <1>1 DEF Fits, Cookie!ExtendedExpiry, Cookie!Earlier
<1>4. c.method = "rotate" =>
          /\ Exists(Session(c.token))'
          /\ \E t \in SessionTokens, at \in Times :
                c.rec = Cookie!NewRecord(t, rows[Session(c.token)].subject, at)'
  BY <1>1 DEF Fits, Cookie!NewRecord
<1>5. c.method = "rotateRefresh" => Exists(Refresh(c.token))'
  BY <1>0, WrittenRows DEF Fits, SessionsKept, Sets, Erases
<1>6. ASSUME c.method = "issue" PROVE Exists(User(c.user))' /\ Unsent(c.token)'
  <2>1. Exists(User(c.user)) /\ Unsent(c.token) /\ c.user \in Users /\ c.token \in MailTokens
    BY <1>6 DEF Fits, CallOK, SessionCall, BearerCall, PasswordCall, MailCall, IdentityCall,
                PasskeyCall, TotpCall, FlowCall
  <2>2. Exists(User(c.user))'
    BY <1>0, <2>1, WrittenRows DEF Safe, AccountsSafe, UsersSafe, Sets
  <2>3. ASSUME NEW kind \in Kinds, NEW u \in Users PROVE Row(Mail(kind, u))' # c.token
    <3>1. CASE Sets(w, Mail(kind, u))
      BY <1>0, <1>6, <3>1, WrittenRows
    <3>2. CASE Erases(w, Mail(kind, u))
      BY <1>0, <2>1, <3>2, WrittenRows, SomeValue
    <3>3. CASE Mail(kind, u) \notin DOMAIN w
      BY <1>0, <2>1, <3>3, WrittenRows DEF Unsent
    <3> QED BY <3>1, <3>2, <3>3 DEF Sets, Erases
  <2> QED BY <2>2, <2>3 DEF Unsent
<1> QED BY <1>2, <1>3, <1>4, <1>5, <1>6 DEF Fits

\* What a call is does not depend on the rows.
LEMMA CallStays ==
    ASSUME NEW c, CallOK(c)
    PROVE  CallOK(c)'
BY DEF CallOK, SessionCall, BearerCall, PasswordCall, MailCall, IdentityCall, PasskeyCall,
       TotpCall, FlowCall

\* What stands of a request stands when another commits.
LEMMA RequestStays ==
    ASSUME Sound, MailUsers, NEW v, RequestOK(v),
           NEW w, Safe(w), Undisturbed(w, v.held), FreshMail(w), rows' = After(w),
           \A kind \in Kinds, u \in Users : Sets(w, Mail(kind, u)) => ~Issues(v, w[Mail(kind, u)])
    PROVE  RequestOK(v)'
<1>1. v = Idle \/ CallOK(v.call)'
  BY CallStays DEF RequestOK
<1>2. CASE v.call = None
  BY <1>1, <1>2 DEF RequestOK, Standing, Idle
<1>3. CASE v.call # None
  <2> DEFINE c == v.call
  <2>0. CallOK(c) /\ Fits(c)
    BY <1>3 DEF RequestOK, Idle
  <2>1. Fits(c)'
    BY <1>3, <2>0, FitsStays DEF Issues
  <2>2. Standing(v)'
    <3> SUFFICES ASSUME v.answer # None PROVE Standing(v)'
      BY DEF Standing
    <3>1. /\ c.method \in Selecting /\ Stands(c, v.answer, v.held)
          /\ c.method = "revokeAll" => v.found = SessionRows(c.user)
      BY <1>3 DEF RequestOK, Standing
    <3>2. /\ Stands(c, v.answer, v.held)'
          /\ c.method = "revokeAll" => SessionRows(c.user)' = SessionRows(c.user)
      BY <1>3, <2>0, <3>1, DecisionStays
    <3> QED BY <3>1, <3>2 DEF Standing, Selecting
  <2> QED BY <1>1, <2>1, <2>2 DEF RequestOK
<1> QED BY <1>2, <1>3

NoWrite == [d \in {} |-> None]

\* To write nothing is safe, and changes nothing.
LEMMA NothingWritten ==
    ASSUME Sound
    PROVE  /\ Safe(NoWrite) /\ FreshMail(NoWrite) /\ \A H : Undisturbed(NoWrite, H)
           /\ UNCHANGED rows => rows' = After(NoWrite)
           /\ \A d : ~Sets(NoWrite, d)
<1> DEFINE w == NoWrite
<1>1. IsFunction(w) /\ DOMAIN w = {}
  BY DEF NoWrite, IsFunction
<1>2. After(w) = rows
  BY <1>1 DEF After, Sound, RowsOK, IsFunction
<1> HIDE DEF w
<1>3. AccountsSafe(w) /\ TotpSafe(w) /\ SessionsKept(w)
  BY <1>1, NoAccounts, NoTotp, NoSessions
<1>4. Safe(w)
  BY <1>1, <1>3 DEF Safe, WriteOK
<1>5. \A d : ~Sets(w, d) /\ ~Erases(w, d)
  BY <1>1 DEF Sets, Erases
<1>6. FreshMail(w) /\ \A H : Undisturbed(w, H)
  BY <1>1, <1>5 DEF FreshMail, Undisturbed, Apart, Removes
<1> QED BY <1>2, <1>4, <1>5, <1>6 DEF w

-----------------------------------------------------------------------------
(***************************************************************************)
(* The steps.                                                              *)
(***************************************************************************)

\* One request changes its record, and commits what the others' locks let pass.
LEMMA StepInv ==
    ASSUME Inv, NEW r \in Requests, NEW w, Safe(w), FreshMail(w), rows' = After(w),
           now' \in Times, req' = [req EXCEPT ![r] = req'[r]], RequestOK(req[r])',
           \A kind \in Kinds, u \in Users : Sets(w, Mail(kind, u)) => Exists(User(u)),
           \A x \in Requests : x # r =>
              /\ Undisturbed(w, req[x].held)
              /\ \A kind \in Kinds, u \in Users :
                    Sets(w, Mail(kind, u)) => ~Issues(req[x], w[Mail(kind, u)])
              /\ \A d \in req'[r].held \cap req[x].held : ~Exists(d)
              /\ \A t : ~(Issues(req[r], t)' /\ Issues(req[x], t))
    PROVE  Inv'
<1>0. Sound /\ RowsOK /\ WriteOK(w) /\ MailUsers
  BY DEF Inv, Sound, Safe
<1>1. req' = [x \in Requests |-> req'[x]] /\ \A x \in Requests : x # r => req'[x] = req[x]
  BY DEF Inv
<1>2. Sound'
  BY <1>0, SafeKeepsSound
<1>3. ASSUME NEW x \in Requests PROVE RequestOK(req[x])'
  <2>1. CASE x # r
    <3>1. PICK v : v = req[x]
      OBVIOUS
    <3>2. RequestOK(v) /\ Undisturbed(w, v.held)
      BY <2>1, <3>1 DEF Inv
    <3>3. \A kind \in Kinds, u \in Users : Sets(w, Mail(kind, u)) => ~Issues(v, w[Mail(kind, u)])
      BY <2>1, <3>1
    <3>4. RequestOK(v)'
      BY <1>0, <3>2, <3>3, RequestStays
    <3>5. v = req'[x]
      BY <1>1, <2>1, <3>1
    <3> QED BY <3>4, <3>5
  <2> QED BY <2>1
<1>4. ASSUME NEW x \in Requests, x # r, NEW d \in req[x].held
      PROVE  Exists(d)' <=> Exists(d)
  <2>1. Apart(w, req[x].held)
    BY <1>4 DEF Undisturbed
  <2> QED BY <1>0, <1>4, <2>1, WrittenRows DEF Apart, Sets
<1>5. LocksExclusive'
  <2> SUFFICES ASSUME NEW x \in Requests, NEW y \in Requests, x # y,
                      NEW d \in req'[x].held \cap req'[y].held
               PROVE  ~Exists(d)'
    BY DEF LocksExclusive
  <2>1. CASE x # r /\ y # r
    BY <1>1, <1>4, <2>1 DEF Inv, LocksExclusive
  <2>2. CASE x = r
    BY <1>1, <1>4, <2>2
  <2>3. CASE y = r
    BY <1>1, <1>4, <2>3
  <2> QED BY <2>1, <2>2, <2>3
<1>6. MailUsers'
  <2> SUFFICES ASSUME NEW kind \in Kinds, NEW u \in Users, Exists(Mail(kind, u))'
               PROVE  Exists(User(u))'
    BY DEF MailUsers
  <2>1. Exists(User(u))
    <3>1. CASE Sets(w, Mail(kind, u))
      BY <3>1
    <3>2. CASE Exists(Mail(kind, u))
      BY <1>0, <3>2 DEF MailUsers
    <3> QED BY <1>0, <3>1, <3>2, WrittenRows
  <2> QED BY <1>0, <2>1, WrittenRows DEF Safe, AccountsSafe, UsersSafe, Sets
<1>7. MailsDiffer'
  <2> SUFFICES ASSUME NEW x \in Requests, NEW y \in Requests, NEW t,
                      Issues(req[x], t)', Issues(req[y], t)', x # y
               PROVE  FALSE
    BY DEF MailsDiffer
  <2>1. CASE x # r /\ y # r
    BY <1>1, <2>1 DEF Inv, MailsDiffer, Issues
  <2>2. CASE x = r
    BY <1>1, <2>2 DEF Issues
  <2>3. CASE y = r
    BY <1>1, <2>3 DEF Issues
  <2> QED BY <2>1, <2>2, <2>3
<1> QED BY <1>1, <1>2, <1>3, <1>5, <1>6, <1>7 DEF Inv

\* One request changes its record, and no row changes.
LEMMA RecordInv ==
    ASSUME Inv, NEW r \in Requests, UNCHANGED <<rows, now>>,
           req' = [req EXCEPT ![r] = req'[r]], RequestOK(req[r])',
           \A x \in Requests : x # r =>
              /\ \A d \in req'[r].held \cap req[x].held : ~Exists(d)
              /\ \A t : ~(Issues(req[r], t)' /\ Issues(req[x], t))
    PROVE  Inv'
<1>1. PICK w : w = NoWrite
  OBVIOUS
<1>2. /\ Safe(w) /\ FreshMail(w) /\ rows' = After(w) /\ \A d : ~Sets(w, d)
      /\ \A H : Undisturbed(w, H)
  BY <1>1, NothingWritten DEF Inv
<1>3. now' \in Times
  BY DEF Inv
<1> QED BY <1>2, <1>3, StepInv

\* A request that ends leaves nothing behind.
LEMMA EndedOK ==
    ASSUME Inv, NEW r \in Requests, req' = [req EXCEPT ![r] = Idle]
    PROVE  /\ req' = [req EXCEPT ![r] = req'[r]] /\ RequestOK(req[r])'
           /\ req'[r].held = {} /\ \A t : ~Issues(req[r], t)'
<1>1. req'[r] = Idle
  BY DEF Inv
<1>2. req' = [req EXCEPT ![r] = req'[r]]
  BY <1>1
<1>3. req'[r] = [call |-> None, held |-> {}, answer |-> None, found |-> {}]
  BY <1>1 DEF Idle
<1>4. /\ req'[r].call = None /\ req'[r].held = {}
      /\ req'[r] = [call |-> req'[r].call, held |-> req'[r].held, answer |-> req'[r].answer,
                    found |-> req'[r].found]
  BY <1>3
<1>5. RequestOK(req[r])'
  BY <1>1, <1>4 DEF RequestOK, Standing
<1>6. \A t : ~Issues(req[r], t)'
  BY <1>4 DEF Issues
<1> QED BY <1>2, <1>4, <1>5, <1>6

\* A transaction that is rolled back changes no row.
LEMMA FailInv ==
    ASSUME Inv, NEW r \in Requests, req' = [req EXCEPT ![r] = Idle], UNCHANGED <<rows, now>>
    PROVE  Inv'
BY EndedOK, RecordInv

\* The methods that take a way to sign in away decide, holding the lock of the user's row.
LEMMA RemoversLock ==
    ASSUME NEW c, c.method \in {"removePassword", "unlink", "deleteCredential"}
    PROVE  c.method \in Selecting /\ User(c.user) \in MethodOf(c).locks
<1>1. c.method \in Selecting
  BY DEF Selecting
<1>2. CASE c.method = "removePassword"
  <2>1. MethodOf(c) = RemovePassword(c)
    BY <1>2 DEF MethodOf
  <2> QED BY <1>1, <2>1 DEF RemovePassword, Method, LockUser
<1>3. CASE c.method = "unlink"
  <2>1. MethodOf(c) = UnlinkIdentity(c)
    BY <1>3 DEF MethodOf
  <2> QED BY <1>1, <2>1 DEF UnlinkIdentity, Method, LockUser
<1>4. CASE c.method = "deleteCredential"
  <2>1. MethodOf(c) = DeleteCredential(c)
    BY <1>4 DEF MethodOf
  <2> QED BY <1>1, <2>1 DEF DeleteCredential, Method, LockUser
<1> QED BY <1>1, <1>2, <1>3, <1>4

\* The statements of a method that may decide so keep the invariant: they pass no lock of
\* another, and are proper.
LEMMA EffectInv ==
    ASSUME Inv, NEW r \in Requests, NEW c, c = req[r].call, c # None,
           NEW answer, Right(c, answer), Effect(r, MethodOf(c).write[answer]),
           c.method \in Selecting => MethodOf(c).locks \subseteq req[r].held
    PROVE  Inv'
<1> DEFINE s == Writes(c, answer)
<1>1. /\ Writable(r, s) /\ now' = now /\ req' = [req EXCEPT ![r] = Idle]
      /\ rows' = IF Duplicate(s) THEN rows ELSE Written(s)
  BY DEF Effect, Writes
<1>2. Sound /\ CallOK(c) /\ Fits(c) /\ now' \in Times
  BY <1>1 DEF Inv, RequestOK, Idle
<1>3. CASE Duplicate(s)
  BY <1>1, <1>3, FailInv
<1>4. CASE ~Duplicate(s)
  <2>1. PICK w : w = Write(c, answer)
    OBVIOUS
  <2>2. Safe(w) /\ OwnRemovals(c, w) /\ OwnMail(c, w)
    BY <1>2, <1>4, <2>1, AlwaysProper DEF May, Proper
  <2>3. rows' = After(w)
    BY <1>1, <1>4, <2>1 DEF Written, After, Write
  <2>4. ASSUME NEW x \in Requests, x # r PROVE Undisturbed(w, req[x].held)
    <3>1. Apart(w, req[x].held)
      BY <1>1, <2>1, <2>4, WritableApart DEF Write
    <3>2. ASSUME NEW u \in Users, User(u) \in req[x].held, Exists(User(u)), Removes(w, u)
          PROVE  FALSE
      <4>1. User(u) \in req[r].held
        BY <2>2, <3>2, RemoversLock DEF OwnRemovals
      <4> QED BY <2>4, <3>2, <4>1 DEF Inv, LocksExclusive
    <3> QED BY <3>1, <3>2 DEF Undisturbed
  <2>5. ASSUME NEW kind \in Kinds, NEW u \in Users, Sets(w, Mail(kind, u))
        PROVE  /\ Exists(User(u)) /\ Unsent(w[Mail(kind, u)])
               /\ \A x \in Requests : x # r => ~Issues(req[x], w[Mail(kind, u)])
    <3>1. c.method = "issue" /\ c.user = u /\ w[Mail(kind, u)] = c.token
      BY <2>2, <2>5 DEF OwnMail
    <3>2. Exists(User(u)) /\ Unsent(c.token)
      BY <1>2, <3>1 DEF Fits
    <3>3. Issues(req[r], c.token)
      BY <3>1 DEF Issues
    <3> QED BY <3>1, <3>2, <3>3 DEF Inv, MailsDiffer
  <2>6. FreshMail(w)
    BY <2>5 DEF FreshMail
  <2>7. /\ req' = [req EXCEPT ![r] = req'[r]] /\ RequestOK(req[r])'
        /\ req'[r].held = {} /\ \A t : ~Issues(req[r], t)'
    BY <1>1, EndedOK
  <2> QED BY <1>2, <2>2, <2>3, <2>4, <2>5, <2>6, <2>7, StepInv
<1> QED BY <1>3, <1>4

\* While no row changes, what is said of a request holds.
LEMMA SameRows ==
    ASSUME Inv, UNCHANGED rows, NEW v, RequestOK(v)
    PROVE  RequestOK(v)'
<1>1. PICK w : w = NoWrite
  OBVIOUS
<1>2. /\ Safe(w) /\ FreshMail(w) /\ rows' = After(w) /\ \A d : ~Sets(w, d)
      /\ \A H : Undisturbed(w, H)
  BY <1>1, NothingWritten DEF Inv
<1> QED BY <1>2, RequestStays DEF Inv

\* What a method decides may be relied on.
LEMMA DecidesRight ==
    ASSUME NEW c, MethodOf(c).answer \in DOMAIN MethodOf(c).write
    PROVE  Right(c, MethodOf(c).answer)
<1>1. CASE c.method = "removePassword"
  <2>1. MethodOf(c) = RemovePassword(c)
    BY <1>1 DEF MethodOf
  <2> QED BY <1>1, <2>1 DEF Right, RemovePassword, Method
<1>2. CASE c.method # "removePassword"
  BY <1>2 DEF Right
<1> QED BY <1>1, <1>2

\* The locking reads: the decision stands on the locks that are taken.
LEMMA BeginInv ==
    ASSUME Inv, NEW r \in Requests, Open(r), NEW c, c = req[r].call, c.method \in Selecting,
           Begin(r, MethodOf(c), IF c.method = "revokeAll" THEN SessionRows(c.user) ELSE {})
    PROVE  Inv'
<1>1. PICK a, H, F : /\ a = MethodOf(c).answer /\ H = MethodOf(c).locks
                     /\ F = IF c.method = "revokeAll" THEN SessionRows(c.user) ELSE {}
  OBVIOUS
<1>2. CASE Refused(r, MethodOf(c))
  BY <1>2, FailInv DEF Refused
<1>3. CASE /\ a \in DOMAIN MethodOf(c).write /\ UNCHANGED <<rows, now>>
           /\ req' = [req EXCEPT ![r].held = H, ![r].answer = a, ![r].found = F]
  <2> DEFINE v == [call |-> c, held |-> H, answer |-> a, found |-> F]
  <2>1. /\ req[r] = [call |-> c, held |-> req[r].held, answer |-> req[r].answer,
                     found |-> req[r].found]
        /\ c # None /\ CallOK(c) /\ Fits(c)
    BY DEF Inv, RequestOK, Open, Free, Idle
  <2>2. req' = [req EXCEPT ![r] = [req[r] EXCEPT !.held = H, !.answer = a, !.found = F]]
    BY <1>3
  <2>3. req' = [req EXCEPT ![r] = v] /\ req'[r] = v
    <3>1. [req[r] EXCEPT !.held = H, !.answer = a, !.found = F] = v
      <4>1. PICK old : old = req[r]
        OBVIOUS
      <4>2. PICK held, answer, found :
               old = [call |-> c, held |-> held, answer |-> answer, found |-> found]
        BY <2>1, <4>1
      <4> DEFINE one == [old EXCEPT !.held = H]
                 two == [one EXCEPT !.answer = a]
      <4>3. one = [call |-> c, held |-> H, answer |-> answer, found |-> found]
        BY <4>2
      <4>4. [old EXCEPT !.held = H, !.answer = a, !.found = F] = [two EXCEPT !.found = F]
        OBVIOUS
      <4> HIDE DEF one
      <4>5. two = [call |-> c, held |-> H, answer |-> a, found |-> found]
        BY <4>3
      <4> HIDE DEF two
      <4>6. [two EXCEPT !.found = F] = v
        BY <4>5
      <4> QED BY <4>1, <4>4, <4>6
    <3> HIDE DEF v
    <3>2. req' = [req EXCEPT ![r] = v]
      BY <2>2, <3>1
    <3> QED BY <3>2 DEF Inv
  <2>4. Right(c, a)
    BY <1>1, <1>3, DecidesRight
  <2>5. v.call = c /\ v.held = H /\ v.answer = a /\ v.found = F
    OBVIOUS
  <2> HIDE DEF v
  <2>6. RequestOK(v)
    <3>1. Standing(v)
      BY <1>1, <2>4, <2>5 DEF Standing, Stands
    <3>2. v = [call |-> v.call, held |-> v.held, answer |-> v.answer, found |-> v.found]
      BY DEF v
    <3> QED BY <2>1, <2>5, <3>1, <3>2 DEF RequestOK
  <2>7. RequestOK(req[r])'
    <3>1. PICK y : y = v
      OBVIOUS
    <3>2. RequestOK(y)'
      BY <1>3, <2>6, <3>1, SameRows
    <3> QED BY <2>3, <3>1, <3>2
  <2>8. ASSUME NEW x \in Requests, x # r
        PROVE  /\ \A d \in req'[r].held \cap req[x].held : ~Exists(d)
               /\ \A t : ~(Issues(req[r], t)' /\ Issues(req[x], t))
    <3>1. \A d \in H \cap req[x].held : ~Exists(d)
      BY <1>1, <2>8 DEF Begin, Lockable
    <3>2. \A t : Issues(req[r], t)' => Issues(req[r], t)
      BY <2>1, <2>3, <2>5 DEF Issues
    <3> QED BY <2>3, <2>5, <2>8, <3>1, <3>2 DEF Inv, MailsDiffer
  <2>9. req' = [req EXCEPT ![r] = req'[r]]
    BY <2>3
  <2> QED BY <1>3, <2>7, <2>8, <2>9, RecordInv
<1> QED BY <1>1, <1>2, <1>3 DEF Begin

\* A method without a SELECT, or the locking reads of one with.
LEMMA RunInv ==
    ASSUME Inv, NEW r \in Requests, Run(r)
    PROVE  Inv'
<1>1. PICK c : c = req[r].call
  OBVIOUS
<1>2. Open(r) /\ c # None
  BY <1>1 DEF Run, Open, Free
<1>3. CASE c.method \notin Selecting /\ Put(r, MethodOf(c))
  <2>1. CASE Refused(r, MethodOf(c))
    BY <2>1, FailInv DEF Refused
  <2>2. CASE /\ MethodOf(c).answer \in DOMAIN MethodOf(c).write
             /\ Effect(r, MethodOf(c).write[MethodOf(c).answer])
    <3>1. PICK a : a = MethodOf(c).answer
      OBVIOUS
    <3>2. Right(c, a)
      BY <2>2, <3>1, DecidesRight
    <3> QED BY <1>1, <1>2, <1>3, <2>2, <3>1, <3>2, EffectInv
  <2> QED BY <1>3, <2>1, <2>2 DEF Put
<1>4. CASE /\ c.method \in Selecting
           /\ Begin(r, MethodOf(c), IF c.method = "revokeAll" THEN SessionRows(c.user) ELSE {})
  BY <1>1, <1>2, <1>4, BeginInv
<1> QED BY <1>1, <1>3, <1>4 DEF Run

\* The statements that follow from a decision.
LEMMA FinishInv ==
    ASSUME Inv, NEW r \in Requests, Finish(r)
    PROVE  Inv'
<1>1. PICK c, a : c = req[r].call /\ a = req[r].answer
  OBVIOUS
<1>2. c # None /\ a # None /\ Effect(r, MethodOf(c).write[a])
  BY <1>1 DEF Finish, Commit, Decided, Free
<1>3. Stands(c, a, req[r].held)
  BY <1>1, <1>2 DEF Inv, RequestOK, Standing
<1> QED BY <1>1, <1>2, <1>3, EffectInv DEF Stands

\* Time passes: nothing that is said depends on it.
LEMMA TimeInv ==
    ASSUME Inv, UNCHANGED <<rows, req>>, now' \in Times
    PROVE  Inv'
<1>1. PICK w : w = NoWrite
  OBVIOUS
<1>2. Safe(w) /\ rows' = After(w)
  BY <1>1, NothingWritten DEF Inv
<1>3. Sound'
  BY <1>2, SafeKeepsSound DEF Inv
<1>4. ASSUME NEW r \in Requests PROVE RequestOK(req[r])'
  <2>1. PICK v : v = req[r]
    OBVIOUS
  <2>2. RequestOK(v)'
    BY <2>1, SameRows DEF Inv
  <2> QED BY <2>1, <2>2
<1>5. \A d : Exists(d)' <=> Exists(d)
  BY DEF Exists
<1>6. LocksExclusive' /\ MailUsers' /\ MailsDiffer'
  BY <1>5 DEF Inv, LocksExclusive, MailUsers, MailsDiffer, Issues
<1> QED BY <1>3, <1>4, <1>6 DEF Inv

\* A call is free to begin, with what its caller has looked up.
LEMMA CallInv ==
    ASSUME Inv, NEW r \in Requests, NEW c, Call(r, c), CallOK(c), Fits(c),
           c.method = "issue" => \A x \in Requests : ~Issues(req[x], c.token)
    PROVE  Inv'
<1> DEFINE v == [Idle EXCEPT !.call = c]
<1>1. req' = [req EXCEPT ![r] = v] /\ UNCHANGED <<rows, now>> /\ req'[r] = v
  BY DEF Call, Inv
<1>2. v = [call |-> c, held |-> {}, answer |-> None, found |-> {}]
  BY DEF Idle
<1>3. v.call = c /\ v.held = {} /\ v.answer = None /\ v.found = {}
  BY <1>2
<1>4. v = [call |-> v.call, held |-> v.held, answer |-> v.answer, found |-> v.found]
  BY <1>2, <1>3
<1> HIDE DEF v
<1>5. RequestOK(v)
  BY <1>3, <1>4 DEF RequestOK, Standing
<1>6. RequestOK(req[r])'
  <2>1. PICK y : y = v
    OBVIOUS
  <2>2. RequestOK(y)'
    BY <1>1, <1>5, <2>1, SameRows
  <2> QED BY <1>1, <2>1, <2>2
<1>7. \A x \in Requests : \A t : ~(Issues(req[r], t)' /\ Issues(req[x], t))
  BY <1>1, <1>3 DEF Issues
<1>8. req' = [req EXCEPT ![r] = req'[r]] /\ req'[r].held = {}
  BY <1>1, <1>3
<1> QED BY <1>1, <1>6, <1>7, <1>8, RecordInv

\* The invariant holds of an empty database.
LEMMA InitInv == Init => Inv
<1> SUFFICES ASSUME Init PROVE Inv
  OBVIOUS
<1>1. rows = <<>> /\ DOMAIN rows = {} /\ \A d : ~Exists(d) /\ Row(d) = None
  BY DEF Init, Exists, Row
<1>2. RowsOK
  BY <1>1 DEF RowsOK, IsFunction
<1>3. NeverLockedOut /\ CodesOnlyWhileEnabled /\ MailUsers
  BY <1>1 DEF NeverLockedOut, CodesOnlyWhileEnabled, RecoveryOf, MailUsers
<1>4. OneIdentityPerUser /\ EmailsUnique
  BY <1>1, SomeValue DEF OneIdentityPerUser, EmailsUnique, IdentitiesOf
<1>5. req = [r \in Requests |-> Idle]
  BY DEF Init
<1>6. Idle = [call |-> None, held |-> {}, answer |-> None, found |-> {}]
  BY DEF Idle
<1>7. RequestOK(Idle)
  BY <1>6 DEF RequestOK, Standing
<1>8. LocksExclusive /\ MailsDiffer
  BY <1>5, <1>6 DEF LocksExclusive, MailsDiffer, Issues
<1>9. now \in Times
  BY MySQLAssumption DEF Init, Times
<1> QED BY <1>2, <1>3, <1>4, <1>5, <1>7, <1>8, <1>9 DEF Inv, Sound

-----------------------------------------------------------------------------
(***************************************************************************)
(* The calls.                                                              *)
(***************************************************************************)

\* A call whose caller has looked up nothing that it relies on.
LEMMA PlainCall ==
    ASSUME Inv, NEW r \in Requests, NEW c, Call(r, c), CallOK(c),
           c.method \notin {"create", "extend", "rotate", "rotateRefresh", "issue"}
    PROVE  Inv'
BY CallInv DEF Fits

\* A call to SessionStore brings a record that the manager has drawn, or the expiry that
\* it has computed from one ...
LEMMA SessionCallsInv ==
    ASSUME Inv, NEW r \in Requests, SessionCalls(r)
    PROVE  Inv'
<1>0. now \in Nat /\ now \in Times
  BY MySQLAssumption DEF Inv, Times
<1>1. ASSUME NEW t \in SessionTokens, NEW s \in Subjects
      PROVE  Cookie!NewRecord(t, s, now) \in Cookie!Record
  BY <1>0, MySQLAssumption DEF Cookie!NewRecord, Cookie!Record
<1>2. ASSUME NEW t \in SessionTokens, Exists(Session(t))
      PROVE  rows[Session(t)] \in Cookie!Record
  <2>1. rows[Session(t)] \in Values(Session(t)[1])
    BY <1>2 DEF Inv, Sound, RowsOK, Exists
  <2> QED BY <2>1, Keys, ValuesOf
<1>3. ASSUME NEW t \in SessionTokens, NEW s \in Subjects,
             Call(r, [method |-> "create", rec |-> Cookie!NewRecord(t, s, now)])
      PROVE  Inv'
  <2>1. PICK rec : rec = Cookie!NewRecord(t, s, now)
    OBVIOUS
  <2> DEFINE c == [method |-> "create", rec |-> rec]
  <2>2. rec \in Cookie!Record
    BY <1>1, <2>1
  <2>3. CallOK(c)
    BY <2>2 DEF CallOK, SessionCall
  <2>4. Fits(c)
    BY <1>0, <2>1 DEF Fits
  <2> QED BY <1>3, <2>1, <2>3, <2>4, CallInv
<1>4. ASSUME NEW t \in SessionTokens, NEW u \in SessionTokens, Exists(Session(t)),
             Call(r, [method |-> "rotate", token |-> t, at |-> now,
                      rec |-> Cookie!NewRecord(u, rows[Session(t)].subject, now)])
      PROVE  Inv'
  <2>1. PICK rec, at : rec = Cookie!NewRecord(u, rows[Session(t)].subject, now) /\ at = now
    OBVIOUS
  <2> DEFINE c == [method |-> "rotate", token |-> t, at |-> at, rec |-> rec]
  <2>2. rows[Session(t)].subject \in Subjects
    BY <1>2, <1>4 DEF Cookie!Record
  <2>3. rec \in Cookie!Record
    BY <1>1, <2>1, <2>2
  <2>4. CallOK(c)
    BY <1>0, <2>1, <2>3 DEF CallOK, SessionCall
  <2>5. Fits(c)
    BY <1>0, <1>4, <2>1 DEF Fits
  <2> QED BY <1>4, <2>1, <2>4, <2>5, CallInv
<1>5. ASSUME NEW t \in SessionTokens, Exists(Session(t)), Extension,
             Call(r, [method |-> "extend", token |-> t, at |-> now,
                      expires |-> Cookie!ExtendedExpiry(rows[Session(t)], now)])
      PROVE  Inv'
  <2>1. PICK expires, at : expires = Cookie!ExtendedExpiry(rows[Session(t)], now) /\ at = now
    OBVIOUS
  <2> DEFINE c == [method |-> "extend", token |-> t, at |-> at, expires |-> expires]
  <2>2. rows[Session(t)].created \in Nat
    BY <1>2, <1>5 DEF Cookie!Record
  <2>3. expires \in Nat
    BY <1>0, <2>1, <2>2, MySQLAssumption DEF Cookie!ExtendedExpiry, Cookie!Earlier
  <2>4. CallOK(c)
    BY <1>0, <2>1, <2>3 DEF CallOK, SessionCall
  <2>5. Fits(c)
    BY <1>5, <2>1 DEF Fits
  <2> QED BY <1>5, <2>1, <2>4, <2>5, CallInv
<1>6. ASSUME NEW t \in SessionTokens, Call(r, [method |-> "revoke", token |-> t]) PROVE Inv'
  <2> DEFINE c == [method |-> "revoke", token |-> t]
  <2>1. CallOK(c)
    BY DEF CallOK, SessionCall
  <2> QED BY <1>6, <2>1, PlainCall
<1>7. ASSUME NEW s \in Subjects, Call(r, [method |-> "revokeAll", user |-> s]) PROVE Inv'
  <2> DEFINE c == [method |-> "revokeAll", user |-> s]
  <2>1. CallOK(c)
    BY DEF CallOK, SessionCall
  <2> QED BY <1>7, <2>1, PlainCall
<1> QED BY <1>3, <1>4, <1>5, <1>6, <1>7 DEF SessionCalls

\* ... one to AccessSessionStore or RefreshTokenStore a token that is stored, if any,
LEMMA BearerCallsInv ==
    ASSUME Inv, NEW r \in Requests, BearerCalls(r)
    PROVE  Inv'
<1>0. PICK at : at = now /\ at \in Times
  BY DEF Inv
<1>1. ASSUME NEW sid \in SessionIDs, NEW s \in Subjects, NEW t \in Tokens,
             Call(r, [method |-> "createSession", sid |-> sid, user |-> s, new |-> t, at |-> now])
      PROVE  Inv'
  <2> DEFINE c == [method |-> "createSession", sid |-> sid, user |-> s, new |-> t, at |-> at]
  <2>1. CallOK(c)
    BY <1>0 DEF CallOK, BearerCall
  <2> QED BY <1>0, <1>1, <2>1, PlainCall
<1>2. ASSUME NEW sid \in SessionIDs, Call(r, [method |-> "revokeAccess", sid |-> sid]) PROVE Inv'
  <2> DEFINE c == [method |-> "revokeAccess", sid |-> sid]
  <2>1. CallOK(c)
    BY DEF CallOK, BearerCall
  <2> QED BY <1>2, <2>1, PlainCall
<1>3. ASSUME NEW s \in Subjects, Call(r, [method |-> "revokeAllAccess", user |-> s]) PROVE Inv'
  <2> DEFINE c == [method |-> "revokeAllAccess", user |-> s]
  <2>1. CallOK(c)
    BY DEF CallOK, BearerCall
  <2> QED BY <1>3, <2>1, PlainCall
<1>4. ASSUME NEW t \in Tokens, NEW u \in Tokens, Exists(Refresh(t)),
             Call(r, [method |-> "rotateRefresh", token |-> t, new |-> u, at |-> now])
      PROVE  Inv'
  <2> DEFINE c == [method |-> "rotateRefresh", token |-> t, new |-> u, at |-> at]
  <2>1. CallOK(c)
    BY <1>0 DEF CallOK, BearerCall
  <2>2. Fits(c)
    BY <1>4 DEF Fits
  <2> QED BY <1>0, <1>4, <2>1, <2>2, CallInv
<1> QED BY <1>1, <1>2, <1>3, <1>4 DEF BearerCalls

\* A stored password is one of the hashes.
LEMMA StoredHash ==
    ASSUME Sound, NEW u, Exists(Password(u))
    PROVE  rows[Password(u)] \in Hashes
<1>1. rows[Password(u)] \in Values(Password(u)[1])
  BY DEF Sound, RowsOK, Exists
<1>2. Password(u)[1] = "password_credentials"
  BY Keys
<1>3. Values("password_credentials") = Hashes
  BY ValuesOf
<1> QED BY <1>1, <1>2, <1>3

\* ... one to the password store the hash that the manager has verified,
LEMMA PasswordCallsInv ==
    ASSUME Inv, NEW r \in Requests, PasswordCalls(r)
    PROVE  Inv'
<1>1. ASSUME NEW u \in Users, NEW h \in Hashes, NEW e \in Emails,
             Call(r, [method |-> "register", user |-> u, email |-> e, hash |-> h])
      PROVE  Inv'
  <2> DEFINE c == [method |-> "register", user |-> u, email |-> e, hash |-> h]
  <2>1. CallOK(c)
    BY DEF CallOK, PasswordCall
  <2> QED BY <1>1, <2>1, PlainCall
<1>2. ASSUME NEW u \in Users, NEW h \in Hashes,
             Call(r, [method |-> "addPassword", user |-> u, hash |-> h])
      PROVE  Inv'
  <2> DEFINE c == [method |-> "addPassword", user |-> u, hash |-> h]
  <2>1. CallOK(c)
    BY DEF CallOK, PasswordCall
  <2> QED BY <1>2, <2>1, PlainCall
<1>3. ASSUME NEW u \in Users, NEW h \in Hashes, Exists(Password(u)),
             Call(r, [method |-> "replaceHash", user |-> u, hash |-> h,
                      current |-> rows[Password(u)]])
      PROVE  Inv'
  <2>1. PICK old \in Hashes : old = rows[Password(u)]
    BY <1>3, StoredHash DEF Inv
  <2> DEFINE c == [method |-> "replaceHash", user |-> u, hash |-> h, current |-> old]
  <2>2. CallOK(c)
    BY DEF CallOK, PasswordCall
  <2> QED BY <1>3, <2>1, <2>2, PlainCall
<1>4. ASSUME NEW u \in Users, Exists(Password(u)),
             Call(r, [method |-> "removePassword", user |-> u, current |-> rows[Password(u)]])
      PROVE  Inv'
  <2>1. PICK old \in Hashes : old = rows[Password(u)]
    BY <1>4, StoredHash DEF Inv
  <2> DEFINE c == [method |-> "removePassword", user |-> u, current |-> old]
  <2>2. CallOK(c)
    BY DEF CallOK, PasswordCall
  <2> QED BY <1>4, <2>1, <2>2, PlainCall
<1> QED BY <1>1, <1>2, <1>3, <1>4 DEF PasswordCalls

\* ... one to the stores of mailed tokens a token that nobody has, or any,
LEMMA MailCallsInv ==
    ASSUME Inv, NEW r \in Requests, MailCalls(r)
    PROVE  Inv'
<1>1. ASSUME NEW t \in MailTokens, NEW kind \in Kinds, NEW u \in Users,
             Exists(User(u)), Unmailed(t),
             Call(r, [method |-> "issue", kind |-> kind, user |-> u, token |-> t])
      PROVE  Inv'
  <2> DEFINE c == [method |-> "issue", kind |-> kind, user |-> u, token |-> t]
  <2>1. CallOK(c)
    BY DEF CallOK, MailCall
  <2>2. Fits(c)
    BY <1>1 DEF Fits, Unsent, Unmailed
  <2>3. ASSUME NEW x \in Requests, Issues(req[x], t) PROVE FALSE
    <3>1. PICK y : y = req[x].call
      OBVIOUS
    <3>2. y # None /\ y.method = "issue" /\ y.token = t
      BY <2>3, <3>1 DEF Issues
    <3>3. CallOK(y)
      BY <3>1, <3>2 DEF Inv, RequestOK, Idle
    <3>4. y \in [method: {"issue"}, kind: Kinds, user: Users, token: MailTokens]
      BY <3>2, <3>3 DEF CallOK, SessionCall, BearerCall, PasswordCall, MailCall, IdentityCall,
                        PasskeyCall, TotpCall, FlowCall
    <3>5. "token" \in DOMAIN y
      BY <3>4
    <3> QED BY <1>1, <3>1, <3>2, <3>5 DEF Unmailed
  <2> QED BY <1>1, <2>1, <2>2, <2>3, CallInv
<1>2. ASSUME NEW t \in MailTokens, Call(r, [method |-> "verify", token |-> t]) PROVE Inv'
  <2> DEFINE c == [method |-> "verify", token |-> t]
  <2>1. CallOK(c)
    BY DEF CallOK, MailCall
  <2> QED BY <1>2, <2>1, PlainCall
<1>3. ASSUME NEW t \in MailTokens, NEW h \in Hashes,
             Call(r, [method |-> "reset", token |-> t, hash |-> h])
      PROVE  Inv'
  <2> DEFINE c == [method |-> "reset", token |-> t, hash |-> h]
  <2>1. CallOK(c)
    BY DEF CallOK, MailCall
  <2> QED BY <1>3, <2>1, PlainCall
<1> QED BY <1>1, <1>2, <1>3 DEF MailCalls

\* ... one to the Google store an account, or an identifier for a new one,
LEMMA IdentityCallsInv ==
    ASSUME Inv, NEW r \in Requests, IdentityCalls(r)
    PROVE  Inv'
<1>1. ASSUME NEW u \in Users, NEW e \in Emails, NEW p \in Identities,
             Call(r, [method |-> "resolve", identity |-> p, user |-> u, email |-> e,
                      new |-> None])
      PROVE  Inv'
  <2> DEFINE c == [method |-> "resolve", identity |-> p, user |-> u, email |-> e, new |-> None]
  <2>1. CallOK(c)
    BY DEF CallOK, IdentityCall
  <2> QED BY <1>1, <2>1, PlainCall
<1>2. ASSUME NEW u \in Users, NEW e \in Emails, NEW p \in Identities,
             Call(r, [method |-> "resolve", identity |-> p, user |-> None, email |-> e,
                      new |-> u])
      PROVE  Inv'
  <2> DEFINE c == [method |-> "resolve", identity |-> p, user |-> None, email |-> e, new |-> u]
  <2>1. CallOK(c)
    BY DEF CallOK, IdentityCall
  <2> QED BY <1>2, <2>1, PlainCall
<1>3. ASSUME NEW u \in Users, Call(r, [method |-> "unlink", user |-> u]) PROVE Inv'
  <2> DEFINE c == [method |-> "unlink", user |-> u]
  <2>1. CallOK(c)
    BY DEF CallOK, IdentityCall
  <2> QED BY <1>3, <2>1, PlainCall
<1> QED BY <1>1, <1>2, <1>3 DEF IdentityCalls

\* ... one to the passkey store a ceremony,
LEMMA PasskeyCallsInv ==
    ASSUME Inv, NEW r \in Requests, PasskeyCalls(r)
    PROVE  Inv'
<1>1. ASSUME NEW h \in Ceremonies, NEW type \in {"registration", "authentication"},
             NEW u \in Users \cup {None},
             Call(r, [method |-> "createCeremony", token |-> h, type |-> type, user |-> u])
      PROVE  Inv'
  <2> DEFINE c == [method |-> "createCeremony", token |-> h, type |-> type, user |-> u]
  <2>1. CallOK(c)
    BY DEF CallOK, PasskeyCall
  <2> QED BY <1>1, <2>1, PlainCall
<1>2. ASSUME NEW h \in Ceremonies, NEW u \in Users, NEW k \in Credentials,
             NEW method \in {"completeRegistration", "completeAuthentication"},
             Call(r, [method |-> method, token |-> h, user |-> u, credential |-> k])
      PROVE  Inv'
  <2> DEFINE c == [method |-> method, token |-> h, user |-> u, credential |-> k]
  <2>1. CallOK(c)
    BY DEF CallOK, PasskeyCall
  <2> QED BY <1>2, <2>1, PlainCall
<1>3. ASSUME NEW u \in Users, NEW k \in Credentials,
             Call(r, [method |-> "deleteCredential", user |-> u, credential |-> k])
      PROVE  Inv'
  <2> DEFINE c == [method |-> "deleteCredential", user |-> u, credential |-> k]
  <2>1. CallOK(c)
    BY DEF CallOK, PasskeyCall
  <2> QED BY <1>3, <2>1, PlainCall
<1> QED BY <1>1, <1>2, <1>3 DEF PasskeyCalls

\* ... one to TOTPStore the counter of a code,
LEMMA TotpCallsInv ==
    ASSUME Inv, NEW r \in Requests, TotpCalls(r)
    PROVE  Inv'
<1>0. PICK at : at = now /\ at \in Times
  BY DEF Inv
<1>1. \A n \in Counters : n \in Nat
  BY <1>0, MySQLAssumption DEF Counters, Times
<1>2. ASSUME NEW u \in Subjects, NEW k \in Secrets,
             Call(r, [method |-> "beginEnrollment", user |-> u, secret |-> k, at |-> now])
      PROVE  Inv'
  <2> DEFINE c == [method |-> "beginEnrollment", user |-> u, secret |-> k, at |-> at]
  <2>1. CallOK(c)
    BY <1>0 DEF CallOK, TotpCall
  <2> QED BY <1>0, <1>2, <2>1, PlainCall
<1>3. ASSUME NEW u \in Subjects, NEW n \in Nat, NEW k \in RecoveryCodes,
             Call(r, [method |-> "enable", user |-> u, counter |-> n, code |-> k, at |-> now])
      PROVE  Inv'
  <2> DEFINE c == [method |-> "enable", user |-> u, counter |-> n, code |-> k, at |-> at]
  <2>1. CallOK(c)
    BY <1>0 DEF CallOK, TotpCall
  <2> QED BY <1>0, <1>3, <2>1, PlainCall
<1>4. ASSUME NEW u \in Subjects, Call(r, [method |-> "disable", user |-> u]) PROVE Inv'
  <2> DEFINE c == [method |-> "disable", user |-> u]
  <2>1. CallOK(c)
    BY DEF CallOK, TotpCall
  <2> QED BY <1>4, <2>1, PlainCall
<1>5. ASSUME NEW u \in Subjects, NEW h \in Challenges,
             Call(r, [method |-> "createChallenge", token |-> h, user |-> u, at |-> now])
      PROVE  Inv'
  <2> DEFINE c == [method |-> "createChallenge", token |-> h, user |-> u, at |-> at]
  <2>1. CallOK(c)
    BY <1>0 DEF CallOK, TotpCall
  <2> QED BY <1>0, <1>5, <2>1, PlainCall
<1>6. ASSUME NEW h \in Challenges, NEW n \in Nat,
             Call(r, [method |-> "completeCode", token |-> h, counter |-> n, at |-> now])
      PROVE  Inv'
  <2> DEFINE c == [method |-> "completeCode", token |-> h, counter |-> n, at |-> at]
  <2>1. CallOK(c)
    BY <1>0 DEF CallOK, TotpCall
  <2> QED BY <1>0, <1>6, <2>1, PlainCall
<1>7. ASSUME NEW h \in Challenges, NEW k \in RecoveryCodes,
             Call(r, [method |-> "completeRecovery", token |-> h, code |-> k, at |-> now])
      PROVE  Inv'
  <2> DEFINE c == [method |-> "completeRecovery", token |-> h, code |-> k, at |-> at]
  <2>1. CallOK(c)
    BY <1>0 DEF CallOK, TotpCall
  <2> QED BY <1>0, <1>7, <2>1, PlainCall
<1> QED BY <1>1, <1>2, <1>3, <1>4, <1>5, <1>6, <1>7 DEF TotpCalls

\* ... and one to the stores of redirect flows a state.
LEMMA FlowCallsInv ==
    ASSUME Inv, NEW r \in Requests, FlowCalls(r)
    PROVE  Inv'
<1>0. PICK at : at = now /\ at \in Times
  BY DEF Inv
<1>1. ASSUME NEW table \in FlowTables, NEW h \in States,
             Call(r, [method |-> "createFlow", table |-> table, token |-> h, at |-> now])
      PROVE  Inv'
  <2> DEFINE c == [method |-> "createFlow", table |-> table, token |-> h, at |-> at]
  <2>1. CallOK(c)
    BY <1>0 DEF CallOK, FlowCall
  <2> QED BY <1>0, <1>1, <2>1, PlainCall
<1>2. ASSUME NEW table \in FlowTables, NEW h \in States,
             Call(r, [method |-> "consumeFlow", table |-> table, token |-> h])
      PROVE  Inv'
  <2> DEFINE c == [method |-> "consumeFlow", table |-> table, token |-> h]
  <2>1. CallOK(c)
    BY DEF CallOK, FlowCall
  <2> QED BY <1>2, <2>1, PlainCall
<1> QED BY <1>1, <1>2 DEF FlowCalls

-----------------------------------------------------------------------------
(***************************************************************************)
(* The theorems.                                                           *)
(***************************************************************************)

\* Every step keeps the invariant.
LEMMA NextInv == Inv /\ [Next]_vars => Inv'
<1> SUFFICES ASSUME Inv, [Next]_vars PROVE Inv'
  OBVIOUS
<1>1. CASE UNCHANGED vars
  <2>1. UNCHANGED <<rows, req>> /\ now' \in Times
    BY <1>1 DEF vars, Inv
  <2> QED BY <2>1, TimeInv
<1>2. CASE Tick
  <2>1. UNCHANGED <<rows, req>> /\ now' \in Times
    BY <1>2, MySQLAssumption DEF Tick, Inv, Times
  <2> QED BY <2>1, TimeInv
<1>3. ASSUME NEW r \in Requests, Calls(r) PROVE Inv'
  BY <1>3, SessionCallsInv, BearerCallsInv, PasswordCallsInv, MailCallsInv, IdentityCallsInv,
     PasskeyCallsInv, TotpCallsInv, FlowCallsInv DEF Calls, AccountCalls
<1>4. ASSUME NEW r \in Requests, Fail(r) PROVE Inv'
  BY <1>4, FailInv DEF Fail
<1>5. ASSUME NEW r \in Requests, Run(r) \/ Finish(r) PROVE Inv'
  BY <1>5, RunInv, FinishInv
<1> QED BY <1>1, <1>2, <1>3, <1>4, <1>5 DEF Next

\* Whichever calls race, the rows keep their shape, a row that exists is locked by one
\* transaction, every account has a way to sign in and at most one Google identity, an
\* address belongs to one account, and a disabled second factor has no recovery codes
\* (lockUser, the locking reads and the foreign keys).
THEOREM AlwaysConsistent == Spec => []Consistent
<1>1. Inv => Consistent
  BY DEF Inv, Sound, RowsOK, LocksExclusive, Consistent, TypeOK, Times
<1> QED BY InitInv, NextInv, <1>1, PTL DEF Spec

\* A method that decided to remove a password would still, but for a hash replaced since.
LEMMA RemovalRight ==
    ASSUME NEW c, c.method = "removePassword", NEW answer, Right(c, answer)
    PROVE  MethodOf(c).answer = answer \/ HashReplaced(c)
<1>1. MethodOf(c) = RemovePassword(c)
  BY DEF MethodOf
<1> QED BY <1>1 DEF Right, RemovePassword, Method, HashReplaced

\* DecisionsStillHold: when the statements of a decided method run, the method would decide
\* the same from the rows they work on.  RemovePassword would too, but for the hash it
\* compared, which no lock protects: a rehash may have replaced it, or a ChangePassword by
\* that of a new password.
THEOREM DecisionsHold == Spec => DecisionsStillHold
<1> DEFINE Today(r) ==
      MethodOf(req[r].call).answer = req[r].answer \/ HashReplaced(req[r].call)
<1>1. ASSUME Inv, NEW r \in Requests, Decided(r) PROVE Today(r)
  <2>1. PICK c, a : c = req[r].call /\ a = req[r].answer
    OBVIOUS
  <2>2. Right(c, a)
    BY <1>1, <2>1 DEF Decided, Free, Inv, RequestOK, Standing, Stands
  <2>3. CASE c.method = "removePassword"
    BY <2>1, <2>2, <2>3, RemovalRight
  <2>4. CASE c.method # "removePassword"
    BY <2>1, <2>2, <2>4 DEF Right
  <2> QED BY <2>3, <2>4
<1>2. Inv => \A r \in Requests : Decided(r) /\ Finish(r) => Today(r)
  BY <1>1
<1>3. Inv => [\A r \in Requests : Decided(r) /\ Finish(r) => Today(r)]_vars
  BY <1>2
<1> QED BY InitInv, NextInv, <1>3, PTL DEF Spec, DecisionsStillHold

\* The rows of a subject's sessions are there, and are records.
LEMMA SubjectRows ==
    ASSUME Sound, NEW s
    PROVE  \A d \in SessionRows(s) : Exists(d) /\ d[1] = "sessions" /\ rows[d] \in Cookie!Record
<1> SUFFICES ASSUME NEW t \in Cookie!BelongTo(s)
             PROVE  /\ Exists(Session(t)) /\ Session(t)[1] = "sessions"
                    /\ rows[Session(t)] \in Cookie!Record
  BY DEF SessionRows
<1>1. Exists(Session(t))
  BY DEF Cookie!BelongTo, Cookie!Exists, Row
<1>2. Session(t)[1] = "sessions"
  BY Keys
<1>3. rows[Session(t)] \in Values(Session(t)[1])
  BY <1>1, TypedRow DEF Sound
<1> QED BY <1>1, <1>2, <1>3, ValuesOf

\* The UPDATE that revokes sessions leaves every one of them revoked.
LEMMA RevokingEffect ==
    ASSUME Sound, NEW r \in Requests, NEW D, \A d \in D : d[1] = "sessions",
           Effect(r, Statements(<<>>, Revoking(D)))
    PROVE  \A d \in D \cap DOMAIN rows' : rows'[d].revoked
<1> DEFINE s == Statements(<<>>, Revoking(D))
<1>0. RowsOK /\ Within([d \in D |-> d], SessionTables)
  BY DEF Sound, Within, SessionTables
<1>1. /\ WriteOK(Revoking(D)) /\ DOMAIN Revoking(D) = {d \in D : Exists(d)}
      /\ \A d \in DOMAIN Revoking(D) : Revoking(D)[d] = [rows[d] EXCEPT !.revoked = TRUE]
  BY <1>0, RevokingOK
<1>2. All(s) = Revoking(D)
  BY <1>1, OneKind DEF WriteOK
<1>3. ~Duplicate(s)
  BY DEF Duplicate, Statements
<1>4. rows' = After(Revoking(D))
  BY <1>2, <1>3 DEF Effect, Written, After
<1>5. PICK w : w = Revoking(D)
  OBVIOUS
<1>6. \A d : Exists(d)' <=> Sets(w, d) \/ (d \notin DOMAIN w /\ Exists(d))
  BY <1>0, <1>1, <1>4, <1>5, WrittenRows
<1> SUFFICES ASSUME NEW d \in D, d \in DOMAIN rows' PROVE rows'[d].revoked
  OBVIOUS
<1>7. Exists(d) /\ Sets(w, d)
  BY <1>1, <1>5, <1>6 DEF Exists, Sets
<1>8. rows'[d] = [rows[d] EXCEPT !.revoked = TRUE]
  BY <1>0, <1>1, <1>4, <1>5, <1>7, WrittenRows DEF Sets
<1>9. rows[d] \in Cookie!Record
  <2>1. rows[d] \in Values(d[1])
    BY <1>0, <1>7, TypedRow
  <2> QED BY <2>1, ValuesOf
<1> QED BY <1>8, <1>9 DEF Cookie!Record

\* RevokeAll answers with every session of the subject, all of them revoked; Revoke has the
\* session revoked (RevokedBeforeAnswer).
THEOREM RevocationsComplete == Spec => RevokedBeforeAnswer
<1> DEFINE Complete(r) ==
      /\ Finish(r) /\ req[r].call.method = "revokeAll" =>
            /\ SessionRows(req[r].call.user) = req[r].found
            /\ \A d \in DOMAIN rows' : d \in req[r].found => rows'[d].revoked
      /\ Open(r) /\ Run(r) /\ req[r].call.method = "revoke" =>
            \A d \in {Session(req[r].call.token)} \cap DOMAIN rows' : rows'[d].revoked
<1>1. ASSUME Inv, NEW r \in Requests PROVE Complete(r)
  <2>0. PICK c, a : c = req[r].call /\ a = req[r].answer
    OBVIOUS
  <2>1. ASSUME Finish(r), c.method = "revokeAll"
        PROVE  /\ SessionRows(c.user) = req[r].found
               /\ \A d \in DOMAIN rows' : d \in req[r].found => rows'[d].revoked
    <3>1. c # None /\ a # None /\ Effect(r, MethodOf(c).write[a])
      BY <2>0, <2>1 DEF Finish, Commit, Decided, Free
    <3>2. Right(c, a) /\ SessionRows(c.user) = req[r].found
      BY <1>1, <2>0, <2>1, <3>1 DEF Inv, RequestOK, Standing, Stands
    <3>3. MethodOf(c) = RevokeAll(c)
      BY <2>1 DEF MethodOf
    <3>4. Writes(c, a) = Statements(<<>>, Revoking(SessionRows(c.user)))
      BY <3>2, <3>3, OnlyOutcome DEF RevokeAll
    <3>5. PICK D : D = SessionRows(c.user)
      OBVIOUS
    <3>6. Effect(r, Statements(<<>>, Revoking(D)))
      BY <3>1, <3>4, <3>5 DEF Writes
    <3>7. \A d \in D : d[1] = "sessions"
      BY <1>1, <3>5, SubjectRows DEF Inv
    <3>8. \A d \in D \cap DOMAIN rows' : rows'[d].revoked
      BY <1>1, <3>6, <3>7, RevokingEffect DEF Inv
    <3> QED BY <3>2, <3>5, <3>8
  <2>2. ASSUME Run(r), c.method = "revoke"
        PROVE  \A d \in {Session(c.token)} \cap DOMAIN rows' : rows'[d].revoked
    <3>1. Put(r, MethodOf(c))
      BY <2>0, <2>2 DEF Run, Selecting
    <3>2. MethodOf(c) = Revoke(c)
      BY <2>2 DEF MethodOf
    <3>3. CASE Refused(r, MethodOf(c))
      <4>1. ~(Exists(Session(c.token)) /\ ~rows[Session(c.token)].revoked) /\ rows' = rows
        BY <3>2, <3>3 DEF Refused, Revoke, Method
      <4> QED BY <4>1 DEF Exists
    <3>4. CASE /\ MethodOf(c).answer \in DOMAIN MethodOf(c).write
               /\ Effect(r, MethodOf(c).write[MethodOf(c).answer])
      <4>1. PICK b : b = MethodOf(c).answer
        OBVIOUS
      <4>2. Right(c, b)
        BY <3>4, <4>1, DecidesRight
      <4>3. Writes(c, b) = Statements(<<>>, Revoking({Session(c.token)}))
        BY <3>2, <4>2, OnlyOutcome DEF Revoke
      <4>4. PICK D : D = {Session(c.token)}
        OBVIOUS
      <4>5. Effect(r, Statements(<<>>, Revoking(D)))
        BY <3>4, <4>1, <4>3, <4>4 DEF Writes
      <4>6. \A d \in D : d[1] = "sessions"
        BY <4>4, Keys
      <4>7. \A d \in D \cap DOMAIN rows' : rows'[d].revoked
        BY <1>1, <4>5, <4>6, RevokingEffect DEF Inv
      <4> QED BY <4>4, <4>7
    <3> QED BY <3>1, <3>3, <3>4 DEF Put
  <2> QED BY <2>0, <2>1, <2>2
<1>2. Inv => [\A r \in Requests : Complete(r)]_vars
  BY <1>1
<1> QED BY InitInv, NextInv, <1>2, PTL DEF Spec, RevokedBeforeAnswer

-----------------------------------------------------------------------------
(***************************************************************************)
(* The sessions implement the abstract stores.                             *)
(***************************************************************************)

\* The row of any key after a write.
LEMMA RowAfter ==
    ASSUME RowsOK, NEW w, WriteOK(w), rows' = After(w), NEW d
    PROVE  Row(d)' = IF d \in DOMAIN w THEN w[d] ELSE Row(d)
BY WrittenRows DEF Sets, Erases

\* ... and of a session.
LEMMA SessionAfter ==
    ASSUME RowsOK, NEW w, WriteOK(w), rows' = After(w)
    PROVE  [t \in SessionTokens |-> Row(Session(t))]' =
              [t \in SessionTokens |-> IF Session(t) \in DOMAIN w THEN w[Session(t)]
                                       ELSE Row(Session(t))]
<1>1. ASSUME NEW t \in SessionTokens
      PROVE  Row(Session(t))' = IF Session(t) \in DOMAIN w THEN w[Session(t)] ELSE Row(Session(t))
  <2>1. PICK d : d = Session(t)
    OBVIOUS
  <2>2. Row(d)' = IF d \in DOMAIN w THEN w[d] ELSE Row(d)
    BY RowAfter
  <2> QED BY <2>1, <2>2 DEF Row, Exists, Session
<1> QED BY <1>1

\* The sessions after a write that is a method's: the steps of the abstract store.
LEMMA CookieEffect ==
    ASSUME Sound, NEW c, SessionCall(c), Fits(c), NEW answer, May(c, answer),
           rows' = After(Write(c, answer))
    PROVE  [Cookie!StoreNext]_[t \in SessionTokens |-> Row(Session(t))]
<1> DEFINE s == Writes(c, answer)
           w == Write(c, answer)
           old == [t \in SessionTokens |-> Row(Session(t))]
           new == [t \in SessionTokens |-> IF Session(t) \in DOMAIN w THEN w[Session(t)]
                                           ELSE Row(Session(t))]
<1>0. WriteOK(w)
  BY SessionProper DEF Proper, Safe
<1>1. [t \in SessionTokens |-> Row(Session(t))]' = new
  BY <1>0, SessionAfter DEF Sound
<1>2. \A t, u : Session(t) = Session(u) => t = u
  BY Keys
<1>3. \A t : Exists(Session(t)) => rows[Session(t)] \in Cookie!Record /\ rows[Session(t)] # None
  <2>1. \A d : Exists(d) => rows[d] \in Values(d[1]) /\ rows[d] # None
    BY TypedRow DEF Sound
  <2> QED BY <2>1, Keys, ValuesOf
<1>4. \A t : /\ Exists(Session(t)) => Row(Session(t)) = rows[Session(t)]
             /\ ~Exists(Session(t)) <=> Row(Session(t)) = None
  BY <1>3 DEF Row
<1>5. \A t \in SessionTokens : old[t] = Row(Session(t))
  OBVIOUS
<1>6. CASE c \in [method: {"create"}, rec: Cookie!Record]
  <2> DEFINE one == Session(c.rec.hash) :> c.rec
  <2>1. MethodOf(c) = Create(c)
    BY <1>6 DEF MethodOf
  <2>2. s = Statements(one, <<>>)
    BY <2>1, OnlyOutcome DEF Create, May
  <2>3. /\ WriteOK(one) /\ DOMAIN one = {Session(c.rec.hash)}
        /\ one[Session(c.rec.hash)] = c.rec
    BY <1>6, RecordRow
  <2>4. w = one
    BY <2>2, <2>3, OneKind DEF Write, WriteOK
  <2>5. ~Exists(Session(c.rec.hash))
    BY <2>2, <2>3 DEF May, Duplicate, Statements
  <2>6. PICK t \in SessionTokens, u \in Subjects, at \in Times : c.rec = Cookie!NewRecord(t, u, at)
    BY <1>6 DEF Fits
  <2>7. c.rec.hash = t
    BY <2>6 DEF Cookie!NewRecord
  <2> HIDE DEF one, w
  <2>8. new = [old EXCEPT ![t] = c.rec]
    BY <1>2, <2>3, <2>4, <2>7
  <2>9. old[t] = None
    BY <1>4, <2>5, <2>7
  <2> HIDE DEF old, new
  <2>10. Cookie!StoreCreate(Cookie!NewRecord(t, u, at))
    BY <1>1, <2>6, <2>7, <2>8, <2>9 DEF Cookie!StoreCreate, Cookie!Exists, old
  <2> QED BY <2>10 DEF Cookie!StoreNext, Times, Cookie!Times
<1>7. CASE c \in [method: {"extend"}, token: SessionTokens, at: Times, expires: Nat]
  <2> DEFINE t == c.token
             d == Session(t)
             found == {x \in {t} : Cookie!Extendable(x, c.at, c.expires)}
             f == [e \in {Session(x) : x \in found} |-> [rows[e] EXCEPT !.last = c.at, !.expires = c.expires]]
             rec == [rows[d] EXCEPT !.last = c.at, !.expires = c.expires]
  <2>1. MethodOf(c) = Extend(c)
    BY <1>7 DEF MethodOf
  <2>2. MethodOf(c) = Method({}, IF found = {} THEN "inactive" ELSE "ok", Statements(<<>>, f))
    BY <2>1, Zenon DEF Extend
  <2>3. s = Statements(<<>>, f) /\ found # {}
    <3> HIDE DEF found, f
    <3> QED BY <1>7, <2>2, OnlyOutcome DEF May
  <2>4. found = {t} /\ Cookie!Extendable(t, c.at, c.expires)
    BY <2>3
  <2>5. IsFunction(f) /\ DOMAIN f = {d} /\ f[d] = rec
    BY <2>4 DEF IsFunction
  <2>6. w = f
    BY <2>3, <2>5, OneKind DEF Write
  <2>7. t \in SessionTokens /\ c.at \in Times
    BY <1>7
  <2>8. Extension /\ Exists(d) /\ c.expires = Cookie!ExtendedExpiry(rows[d], c.at)
    BY <1>7 DEF Fits
  <2> HIDE DEF found, f, w, rec
  <2>9. old[t] = rows[d]
    BY <1>4, <2>7, <2>8
  <2>10. new = [old EXCEPT ![t] = rec]
    BY <1>2, <2>5, <2>6, <2>7
  <2>11. rec = [[old[t] EXCEPT !.last = c.at] EXCEPT !.expires = c.expires]
    BY <2>9 DEF rec
  <2> HIDE DEF old, new, t, d
  <2>12. new = [old EXCEPT ![t].last = c.at, ![t].expires = c.expires]
    <3>1. [old EXCEPT ![t].last = c.at, ![t].expires = c.expires] =
             [old EXCEPT ![t] = [[old[t] EXCEPT !.last = c.at] EXCEPT !.expires = c.expires]]
      OBVIOUS
    <3> QED BY <2>10, <2>11, <3>1
  <2>13. c.expires = Cookie!ExtendedExpiry(old[t], c.at)
    BY <2>8, <2>9
  <2>14. Cookie!StoreExtend(t, c.at, Cookie!ExtendedExpiry(old[t], c.at))
    BY <1>1, <2>4, <2>12, <2>13 DEF Cookie!StoreExtend, old
  <2> QED BY <2>7, <2>8, <2>14 DEF Cookie!StoreNext, Times, Cookie!Times, old
<1>8. CASE c \in [method: {"rotate"}, token: SessionTokens, at: Times, rec: Cookie!Record]
  <2> DEFINE one == Session(c.rec.hash) :> c.rec
             gone == Revoking({Session(c.token)})
             t == c.token
  <2>1. MethodOf(c) = Rotate(c)
    BY <1>8 DEF MethodOf
  <2>2. s = Statements(one, gone) /\ Cookie!Rotatable(t, c.at) /\ Exists(Session(t))
    BY <1>8, <2>1, OnlyOutcome DEF Rotate, May
  <2>3. /\ WriteOK(one) /\ DOMAIN one = {Session(c.rec.hash)}
        /\ one[Session(c.rec.hash)] = c.rec
    BY <1>8, RecordRow
  <2>4. Session(t)[1] = "sessions"
    BY Keys
  <2>5. /\ DOMAIN gone = {d \in {Session(t)} : Exists(d)}
        /\ \A d \in DOMAIN gone : gone[d] = [rows[d] EXCEPT !.revoked = TRUE]
    BY <2>4, RevokingOK DEF Sound, Within, SessionTables
  <2>6. Joined(w, one, gone)
    BY <2>2, BothKinds DEF Write
  <2>7. ~Exists(Session(c.rec.hash))
    BY <2>2, <2>3 DEF May, Duplicate, Statements
  <2>8. t \in SessionTokens /\ c.at \in Times
    BY <1>8
  <2>9. PICK u \in SessionTokens, born \in Times :
           c.rec = Cookie!NewRecord(u, rows[Session(t)].subject, born)
    BY <1>8 DEF Fits
  <2>10. c.rec.hash = u
    BY <2>9 DEF Cookie!NewRecord
  <2> HIDE DEF one, gone, w, t
  <2>11. old[t] = rows[Session(t)] /\ old[u] = None /\ u # t
    BY <1>4, <2>2, <2>7, <2>8, <2>10
  <2>12. DOMAIN gone = {Session(t)} /\ gone[Session(t)] = [old[t] EXCEPT !.revoked = TRUE]
    BY <2>2, <2>5, <2>11
  <2>13. new = [[old EXCEPT ![t] = [old[t] EXCEPT !.revoked = TRUE]] EXCEPT ![u] = c.rec]
    <3>1. PICK spent : spent = [old[t] EXCEPT !.revoked = TRUE]
      OBVIOUS
    <3>2. Session(u) \in DOMAIN w /\ w[Session(u)] = c.rec
      BY <2>3, <2>6, <2>10 DEF Joined
    <3>3. Session(t) \in DOMAIN w /\ w[Session(t)] = spent
      BY <1>2, <2>3, <2>6, <2>10, <2>11, <2>12, <3>1 DEF Joined
    <3>4. \A x : Session(x) \in DOMAIN w => x = t \/ x = u
      BY <1>2, <2>3, <2>6, <2>10, <2>12 DEF Joined
    <3>5. new = [[old EXCEPT ![t] = spent] EXCEPT ![u] = c.rec]
      BY <2>8, <2>11, <3>2, <3>3, <3>4
    <3> QED BY <3>1, <3>5
  <2> HIDE DEF old, new
  <2>14. new = [old EXCEPT ![t].revoked = TRUE, ![u] = c.rec]
    BY <2>13
  <2>15. c.rec = Cookie!NewRecord(u, old[t].subject, born)
    BY <2>9, <2>11
  <2>16. Cookie!NewRecord(u, old[t].subject, born).hash = u
    BY DEF Cookie!NewRecord
  <2>17. Cookie!StoreRotate(t, Cookie!NewRecord(u, old[t].subject, born), c.at)
    BY <1>1, <2>2, <2>11, <2>14, <2>15, <2>16 DEF Cookie!StoreRotate, Cookie!Exists, old
  <2> QED BY <2>8, <2>9, <2>17 DEF Cookie!StoreNext, Times, Cookie!Times, old
<1>9. CASE c \in [method: {"revoke"}, token: SessionTokens]
  <2> DEFINE gone == Revoking({Session(c.token)})
             t == c.token
  <2>1. MethodOf(c) = Revoke(c)
    BY <1>9 DEF MethodOf
  <2>2. s = Statements(<<>>, gone) /\ Exists(Session(t))
    BY <1>9, <2>1, OnlyOutcome DEF Revoke, May
  <2>3. Session(t)[1] = "sessions"
    BY Keys
  <2>4. /\ WriteOK(gone) /\ DOMAIN gone = {d \in {Session(t)} : Exists(d)}
        /\ \A d \in DOMAIN gone : gone[d] = [rows[d] EXCEPT !.revoked = TRUE]
    BY <2>3, RevokingOK DEF Sound, Within, SessionTables
  <2>5. w = gone
    BY <2>2, <2>4, OneKind DEF Write, WriteOK
  <2>6. t \in SessionTokens
    BY <1>9
  <2> HIDE DEF gone, w, t
  <2>7. old[t] = rows[Session(t)] /\ old[t] # None
    BY <1>4, <2>2, <2>6
  <2>8. new = [old EXCEPT ![t] = Cookie!Revoked(old[t])]
    BY <1>2, <2>2, <2>4, <2>5, <2>6, <2>7 DEF Cookie!Revoked
  <2> HIDE DEF old, new
  <2>9. Cookie!StoreRevoke(t)
    BY <1>1, <2>7, <2>8 DEF Cookie!StoreRevoke, Cookie!Exists, old
  <2> QED BY <2>6, <2>9 DEF Cookie!StoreNext
<1>10. CASE c \in [method: {"revokeAll"}, user: Subjects]
  <2> DEFINE gone == Revoking(SessionRows(c.user))
             S == Cookie!BelongTo(c.user)
  <2>1. MethodOf(c) = RevokeAll(c)
    BY <1>10 DEF MethodOf
  <2>2. s = Statements(<<>>, gone)
    BY <2>1, OnlyOutcome DEF RevokeAll, May
  <2>3. \A d \in SessionRows(c.user) : d[1] = "sessions" /\ Exists(d)
    BY SubjectRows
  <2>4. /\ WriteOK(gone) /\ DOMAIN gone = {d \in SessionRows(c.user) : Exists(d)}
        /\ \A d \in DOMAIN gone : gone[d] = [rows[d] EXCEPT !.revoked = TRUE]
    BY <2>3, RevokingOK DEF Sound, Within, SessionTables
  <2>5. w = gone
    BY <2>2, <2>4, OneKind DEF Write, WriteOK
  <2>6. \A t : Session(t) \in DOMAIN gone <=> t \in S
    BY <1>2, <2>3, <2>4 DEF SessionRows
  <2> HIDE DEF gone, w, S
  <2>7. \A t \in SessionTokens : t \in S =>
           w[Session(t)] = Cookie!Revoked(old[t])
    BY <1>4, <2>4, <2>5, <2>6 DEF Cookie!Revoked
  <2>8. new = [t \in SessionTokens |-> IF t \in S THEN Cookie!Revoked(old[t]) ELSE old[t]]
    BY <2>5, <2>6, <2>7
  <2> HIDE DEF old, new
  <2>9. Cookie!StoreRevokeAll(c.user)
    BY <1>1, <2>8 DEF Cookie!StoreRevokeAll, S, old
  <2> QED BY <1>10, <2>9 DEF Cookie!StoreNext
<1> QED BY <1>6, <1>7, <1>8, <1>9, <1>10 DEF SessionCall

\* The bearer sessions and the tokens after a write.
LEMMA BearerAfter ==
    ASSUME RowsOK, NEW w, WriteOK(w), rows' = After(w)
    PROVE  /\ [sid \in SessionIDs |-> Row(Access(sid))]' =
                 [sid \in SessionIDs |-> IF Access(sid) \in DOMAIN w THEN w[Access(sid)]
                                         ELSE Row(Access(sid))]
           /\ [t \in Tokens |-> Row(Refresh(t))]' =
                 [t \in Tokens |-> IF Refresh(t) \in DOMAIN w THEN w[Refresh(t)]
                                   ELSE Row(Refresh(t))]
<1>1. ASSUME NEW sid \in SessionIDs
      PROVE  Row(Access(sid))' = IF Access(sid) \in DOMAIN w THEN w[Access(sid)] ELSE Row(Access(sid))
  <2>1. PICK d : d = Access(sid)
    OBVIOUS
  <2>2. Row(d)' = IF d \in DOMAIN w THEN w[d] ELSE Row(d)
    BY RowAfter
  <2> QED BY <2>1, <2>2 DEF Row, Exists, Access
<1>2. ASSUME NEW t \in Tokens
      PROVE  Row(Refresh(t))' = IF Refresh(t) \in DOMAIN w THEN w[Refresh(t)] ELSE Row(Refresh(t))
  <2>1. PICK d : d = Refresh(t)
    OBVIOUS
  <2>2. Row(d)' = IF d \in DOMAIN w THEN w[d] ELSE Row(d)
    BY RowAfter
  <2> QED BY <2>1, <2>2 DEF Row, Exists, Refresh
<1> QED BY <1>1, <1>2

\* What the rows of bearer sessions and tokens are, by name.
LEMMA BearerRows ==
    ASSUME Sound
    PROVE  /\ \A x, y : Access(x) = Access(y) => x = y
           /\ \A x, y : Refresh(x) = Refresh(y) => x = y
           /\ \A x, y : Access(x) # Refresh(y)
           /\ \A x : Exists(Access(x)) =>
                 rows[Access(x)] \in Bearer!AccessSession /\ Row(Access(x)) = rows[Access(x)]
           /\ \A x : Exists(Refresh(x)) =>
                 rows[Refresh(x)] \in Bearer!RefreshToken /\ Row(Refresh(x)) = rows[Refresh(x)]
           /\ \A d : ~Exists(d) <=> Row(d) = None
<1>1. \A d : Exists(d) => rows[d] \in Values(d[1]) /\ rows[d] # None
  BY TypedRow DEF Sound
<1>2. /\ \A x, y : Access(x) = Access(y) => x = y
      /\ \A x, y : Refresh(x) = Refresh(y) => x = y
      /\ \A x, y : Access(x) # Refresh(y)
  BY Keys
<1>3. \A d : ~Exists(d) <=> Row(d) = None
  BY <1>1 DEF Row
<1>4. /\ \A x : Exists(Access(x)) => rows[Access(x)] \in Bearer!AccessSession
      /\ \A x : Exists(Refresh(x)) => rows[Refresh(x)] \in Bearer!RefreshToken
  BY <1>1, Keys, ValuesOf
<1> QED BY <1>2, <1>3, <1>4 DEF Row

\* The two UPDATEs revoke the sessions with all their tokens.
LEMMA RevokeEffect ==
    ASSUME Sound, NEW sids, rows' = After(All(RevokeSessions(sids)))
    PROVE  Bearer!StoreRevoke(sids)
<1> DEFINE D == {Access(sid) : sid \in sids} \cup {Refresh(t) : t \in TokensOf(sids)}
           w == Revoking(D)
           access == [sid \in SessionIDs |-> Row(Access(sid))]
           refresh == [t \in Tokens |-> Row(Refresh(t))]
<1>1. Within([d \in D |-> d], SessionTables)
  BY Keys DEF Within, SessionTables
<1>2. RevokeSessions(sids) = Statements(<<>>, w)
  BY DEF RevokeSessions
<1>3. \A sid : Access(sid) \in D <=> sid \in sids
  BY BearerRows
<1>4. \A t : Refresh(t) \in D <=> t \in TokensOf(sids)
  BY BearerRows
<1> HIDE DEF D
<1>5. /\ WriteOK(w) /\ DOMAIN w = {d \in D : Exists(d)}
      /\ \A d \in DOMAIN w : w[d] = [rows[d] EXCEPT !.revoked = TRUE]
  BY <1>1, RevokingOK DEF Sound
<1>6. rows' = After(w)
  BY <1>2, <1>5, OneKind DEF WriteOK
<1> HIDE DEF w
<1>7. [sid \in SessionIDs |-> Row(Access(sid))]' =
         [sid \in SessionIDs |-> IF access[sid] # None /\ sid \in sids
                                   THEN [access[sid] EXCEPT !.revoked = TRUE] ELSE access[sid]]
  <2>1. ASSUME NEW sid \in SessionIDs
        PROVE  (IF Access(sid) \in DOMAIN w THEN w[Access(sid)] ELSE Row(Access(sid))) =
                  IF access[sid] # None /\ sid \in sids
                    THEN [access[sid] EXCEPT !.revoked = TRUE] ELSE access[sid]
    <3>1. access[sid] = Row(Access(sid))
      OBVIOUS
    <3> HIDE DEF access
    <3>2. Access(sid) \in DOMAIN w <=> access[sid] # None /\ sid \in sids
      BY <1>3, <1>5, <3>1, BearerRows
    <3>3. CASE Access(sid) \in DOMAIN w
      <4>1. w[Access(sid)] = [rows[Access(sid)] EXCEPT !.revoked = TRUE]
        BY <1>5, <3>3
      <4>2. rows[Access(sid)] = access[sid]
        BY <1>5, <3>1, <3>3 DEF Row
      <4> QED BY <3>2, <3>3, <4>1, <4>2
    <3> QED BY <3>1, <3>2, <3>3
  <2> HIDE DEF access
  <2> QED BY <1>5, <1>6, <2>1, BearerAfter DEF Sound
<1>8. [t \in Tokens |-> Row(Refresh(t))]' =
         [t \in Tokens |-> IF refresh[t] # None /\ refresh[t].session \in sids
                             THEN [refresh[t] EXCEPT !.revoked = TRUE] ELSE refresh[t]]
  <2>1. ASSUME NEW t \in Tokens
        PROVE  (IF Refresh(t) \in DOMAIN w THEN w[Refresh(t)] ELSE Row(Refresh(t))) =
                  IF refresh[t] # None /\ refresh[t].session \in sids
                    THEN [refresh[t] EXCEPT !.revoked = TRUE] ELSE refresh[t]
    <3>1. refresh[t] = Row(Refresh(t))
      OBVIOUS
    <3> HIDE DEF refresh
    <3> QED BY <1>4, <1>5, <3>1, BearerRows DEF TokensOf
  <2> HIDE DEF refresh
  <2> QED BY <1>5, <1>6, <2>1, BearerAfter DEF Sound
<1> QED BY <1>7, <1>8 DEF Bearer!StoreRevoke

\* The bearer sessions and tokens after a write that is a method's.
LEMMA BearerEffect ==
    ASSUME Sound, NEW c, BearerCall(c), Fits(c), NEW answer, May(c, answer),
           rows' = After(Write(c, answer))
    PROVE  [Bearer!StoreNext]_<<[sid \in SessionIDs |-> Row(Access(sid))],
                                [t \in Tokens |-> Row(Refresh(t))]>>
<1> DEFINE s == Writes(c, answer)
           w == Write(c, answer)
           access == [sid \in SessionIDs |-> Row(Access(sid))]
           refresh == [t \in Tokens |-> Row(Refresh(t))]
           access1 == [sid \in SessionIDs |-> IF Access(sid) \in DOMAIN w THEN w[Access(sid)]
                                              ELSE Row(Access(sid))]
           refresh1 == [t \in Tokens |-> IF Refresh(t) \in DOMAIN w THEN w[Refresh(t)]
                                         ELSE Row(Refresh(t))]
<1>0. WriteOK(w)
  BY BearerProper DEF Proper, Safe
<1>1. /\ [sid \in SessionIDs |-> Row(Access(sid))]' = access1
      /\ [t \in Tokens |-> Row(Refresh(t))]' = refresh1
  BY <1>0, BearerAfter DEF Sound
<1>2. ASSUME NEW sids, s = RevokeSessions(sids) PROVE Bearer!StoreRevoke(sids)
  BY <1>2, RevokeEffect DEF Write
<1>3. CASE c \in [method: {"createSession"}, sid: SessionIDs, user: Subjects, new: Tokens, at: Times]
  <2> DEFINE sid == c.sid
             t == c.new
             session == Bearer!NewSession(c.user, c.at)
             token == Bearer!NewToken(sid, c.at + RefreshLifetime)
             f == Access(sid) :> session
             g == Refresh(t) :> token
             x == f @@ g
  <2>1. MethodOf(c) = CreateSession(c)
    BY <1>3 DEF MethodOf
  <2>2. s = Statements(x, <<>>)
    <3>1. MethodOf(c) = Method({}, "ok", Statements(x, <<>>))
      BY <2>1, Zenon DEF CreateSession
    <3> HIDE DEF x
    <3> QED BY <3>1, OnlyOutcome DEF May
  <2>3. /\ DOMAIN f = {Access(sid)} /\ f[Access(sid)] = session
        /\ DOMAIN g = {Refresh(t)} /\ g[Refresh(t)] = token
    <3> HIDE DEF session, token
    <3> QED BY OneRow
  <2>4. Joined(x, f, g)
    <3> HIDE DEF f, g
    <3> QED BY Join
  <2>5. w = x
    <3> HIDE DEF x
    <3> QED BY <2>2, <2>4, OneKind DEF Write, Joined
  <2>6. ~Exists(Access(sid)) /\ ~Exists(Refresh(t))
    <3>1. s.insert = x
      BY <2>2 DEF Statements
    <3> HIDE DEF x, f, g, s
    <3> QED BY <2>3, <2>4, <3>1 DEF May, Duplicate, Joined, s
  <2>7. sid \in SessionIDs /\ t \in Tokens /\ c.user \in Subjects /\ c.at \in Times
    BY <1>3
  <2> HIDE DEF f, g, x, w, sid, t, session, token
  <2>8. access[sid] = None /\ refresh[t] = None
    BY <2>6, <2>7, BearerRows
  <2>9. access1 = [access EXCEPT ![sid] = session]
    BY <2>3, <2>4, <2>5, <2>7, BearerRows DEF Joined
  <2>10. refresh1 = [refresh EXCEPT ![t] = token]
    BY <2>3, <2>4, <2>5, <2>7, BearerRows DEF Joined
  <2> HIDE DEF access, refresh, access1, refresh1
  <2>11. Bearer!StoreCreate(sid, c.user, t, c.at)
    BY <1>1, <2>8, <2>9, <2>10 DEF Bearer!StoreCreate, access, refresh, session, token
  <2> QED BY <2>7, <2>11 DEF Bearer!StoreNext, Times, Bearer!Times
<1>4. CASE c \in [method: {"revokeAccess"}, sid: SessionIDs]
  <2>1. MethodOf(c) = RevokeAccess(c)
    BY <1>4 DEF MethodOf
  <2>2. s = RevokeSessions({c.sid})
    BY <2>1, OnlyOutcome DEF RevokeAccess, May
  <2>3. Bearer!StoreRevoke({c.sid}) /\ c.sid \in SessionIDs
    BY <1>2, <1>4, <2>2
  <2> QED BY <2>3 DEF Bearer!StoreNext
<1>5. CASE c \in [method: {"revokeAllAccess"}, user: Subjects]
  <2>1. MethodOf(c) = RevokeAllAccess(c)
    BY <1>5 DEF MethodOf
  <2>2. PICK sids : sids = Bearer!SessionsOf(c.user)
    OBVIOUS
  <2>3. s = RevokeSessions(sids)
    BY <2>1, <2>2, OnlyOutcome DEF RevokeAllAccess, May
  <2>4. Bearer!StoreRevoke(Bearer!SessionsOf(c.user)) /\ c.user \in Subjects
    BY <1>2, <1>5, <2>2, <2>3
  <2> QED BY <2>4 DEF Bearer!StoreNext
<1>6. CASE c \in [method: {"rotateRefresh"}, token: Tokens, new: Tokens, at: Times]
  <2> DEFINE t == c.token
             u == c.new
             token == rows[Refresh(t)]
             new == Bearer!NewToken(token.session, token.expires)
             spent == [token EXCEPT !.rotated = TRUE]
             f == Refresh(u) :> new
             g == Refresh(t) :> spent
  <2>1. MethodOf(c) = RotateRefresh(c)
    BY <1>6 DEF MethodOf
  <2>2. answer = IF Bearer!RefreshActive(t, c.at) THEN "ok" ELSE "reuse"
    BY <1>6, <2>1 DEF May, Right, RotateRefresh
  <2>3. /\ RotateRefresh(c).write.ok = Statements(f, g)
        /\ RotateRefresh(c).write.reuse = RevokeSessions({token.session})
    BY DEF RotateRefresh
  <2>4. /\ answer = "ok" => s = Statements(f, g)
        /\ answer = "reuse" => s = RevokeSessions({token.session})
    BY <2>1, <2>3 DEF Writes
  <2>5. Exists(Refresh(t)) /\ t \in Tokens /\ u \in Tokens /\ c.at \in Times
    BY <1>6 DEF Fits
  <2>6. refresh[t] = token /\ refresh[t] # None
    BY <2>5, BearerRows
  <2> HIDE DEF t, u
  <2>7. CASE Bearer!RefreshActive(t, c.at)
    <3>1. s = Statements(f, g)
      BY <2>2, <2>4, <2>7
    <3>2. /\ DOMAIN f = {Refresh(u)} /\ f[Refresh(u)] = new
          /\ DOMAIN g = {Refresh(t)} /\ g[Refresh(t)] = spent
      <4> HIDE DEF new, spent
      <4> QED BY OneRow
    <3>3. Joined(w, f, g)
      <4> HIDE DEF f, g
      <4> QED BY <3>1, BothKinds DEF Write
    <3>4. ~Exists(Refresh(u))
      <4>1. s.insert = f
        BY <3>1 DEF Statements
      <4> HIDE DEF f, s
      <4> QED BY <3>2, <4>1 DEF May, Duplicate, s
    <3>5. refresh[u] = None /\ u # t
      BY <2>5, <3>4, BearerRows
    <3> HIDE DEF f, g, w, new, spent, token
    <3>6. /\ Refresh(u) \in DOMAIN w /\ w[Refresh(u)] = new
          /\ Refresh(t) \in DOMAIN w /\ w[Refresh(t)] = spent
          /\ \A x : Refresh(x) \in DOMAIN w => x = t \/ x = u
          /\ \A x : Access(x) \notin DOMAIN w
      BY <3>2, <3>3, <3>5, BearerRows DEF Joined
    <3>7. access1 = access
      BY <3>6
    <3>8. refresh1 = [[refresh EXCEPT ![t] = spent] EXCEPT ![u] = new]
      BY <2>5, <3>5, <3>6
    <3>9. spent = [refresh[t] EXCEPT !.rotated = TRUE]
          /\ new = Bearer!NewToken(refresh[t].session, refresh[t].expires)
      BY <2>6 DEF spent, new
    <3> HIDE DEF access, refresh, access1, refresh1
    <3>10. refresh1 = [refresh EXCEPT ![t].rotated = TRUE,
                          ![u] = Bearer!NewToken(refresh[t].session, refresh[t].expires)]
      BY <3>8, <3>9
    <3>11. Bearer!StoreRotate(t, u, c.at)
      BY <1>1, <2>7, <3>5, <3>7, <3>10 DEF Bearer!StoreRotate, access, refresh
    <3> QED BY <2>5, <3>11 DEF Bearer!StoreNext, Times, Bearer!Times
  <2>8. CASE ~Bearer!RefreshActive(t, c.at)
    <3>1. PICK sids : sids = {refresh[t].session}
      OBVIOUS
    <3>2. s = RevokeSessions(sids)
      BY <2>2, <2>4, <2>6, <2>8, <3>1
    <3>3. Bearer!StoreRevoke({refresh[t].session})
      BY <1>2, <3>1, <3>2
    <3>4. Bearer!StoreReuse(t, c.at)
      BY <2>6, <2>8, <3>3 DEF Bearer!StoreReuse
    <3> QED BY <2>5, <3>4 DEF Bearer!StoreNext, Times, Bearer!Times
  <2> QED BY <2>7, <2>8
<1> QED BY <1>3, <1>4, <1>5, <1>6 DEF BearerCall

\* A step changes no row, or it commits what a method writes that may decide so.
LEMMA RowsStep ==
    ASSUME Inv, [Next]_vars
    PROVE  \/ UNCHANGED rows
           \/ \E c, answer : /\ CallOK(c) /\ Fits(c) /\ May(c, answer)
                             /\ rows' = After(Write(c, answer))
<1>1. ASSUME NEW r \in Requests, NEW c, c = req[r].call, c # None, NEW answer, Right(c, answer),
             Effect(r, MethodOf(c).write[answer])
      PROVE  \/ UNCHANGED rows
             \/ CallOK(c) /\ Fits(c) /\ May(c, answer) /\ rows' = After(Write(c, answer))
  <2>1. CallOK(c) /\ Fits(c)
    BY <1>1 DEF Inv, RequestOK, Idle
  <2>2. rows' = IF Duplicate(Writes(c, answer)) THEN rows ELSE Written(Writes(c, answer))
    BY <1>1 DEF Effect, Writes
  <2> QED BY <1>1, <2>1, <2>2 DEF May, Written, After, Write
<1>2. ASSUME NEW r \in Requests, Run(r)
      PROVE  \/ UNCHANGED rows
             \/ \E c, answer : /\ CallOK(c) /\ Fits(c) /\ May(c, answer)
                               /\ rows' = After(Write(c, answer))
  <2>1. PICK c, a : c = req[r].call /\ a = MethodOf(c).answer
    OBVIOUS
  <2>2. c # None
    BY <1>2, <2>1 DEF Run, Open, Free
  <2>3. \/ UNCHANGED rows
        \/ a \in DOMAIN MethodOf(c).write /\ Effect(r, MethodOf(c).write[a])
    BY <1>2, <2>1 DEF Run, Put, Begin, Refused
  <2>4. a \in DOMAIN MethodOf(c).write => Right(c, a)
    BY <2>1, DecidesRight
  <2> QED BY <1>1, <2>1, <2>2, <2>3, <2>4
<1>3. ASSUME NEW r \in Requests, Finish(r)
      PROVE  \/ UNCHANGED rows
             \/ \E c, answer : /\ CallOK(c) /\ Fits(c) /\ May(c, answer)
                               /\ rows' = After(Write(c, answer))
  <2>1. PICK c, a : c = req[r].call /\ a = req[r].answer
    OBVIOUS
  <2>2. c # None /\ a # None /\ Effect(r, MethodOf(c).write[a])
    BY <1>3, <2>1 DEF Finish, Commit, Decided, Free
  <2>3. Right(c, a)
    BY <2>1, <2>2 DEF Inv, RequestOK, Standing, Stands
  <2> QED BY <1>1, <2>1, <2>2, <2>3
<1>4. ASSUME NEW r \in Requests, Calls(r) PROVE UNCHANGED rows
  BY <1>4 DEF Calls, SessionCalls, BearerCalls, AccountCalls, TotpCalls, FlowCalls, Call,
              PasswordCalls, MailCalls, IdentityCalls, PasskeyCalls
<1>5. ASSUME NEW r \in Requests, Fail(r) PROVE UNCHANGED rows
  BY <1>5 DEF Fail
<1>6. Tick \/ UNCHANGED vars => UNCHANGED rows
  BY DEF Tick, vars
<1> QED BY <1>2, <1>3, <1>4, <1>5, <1>6 DEF Next

\* The methods of sessions are those of the two kinds of session calls.
LEMMA SessionMethods ==
    ASSUME NEW c, CallOK(c)
    PROVE  /\ c.method \in {"create", "extend", "rotate", "revoke", "revokeAll"} => SessionCall(c)
           /\ c.method \in {"createSession", "revokeAccess", "revokeAllAccess", "rotateRefresh"}
                 => BearerCall(c)
<1> DEFINE others == {"register", "addPassword", "replaceHash", "removePassword", "issue", "verify",
                      "reset", "resolve", "unlink", "createCeremony", "completeRegistration",
                      "completeAuthentication", "deleteCredential", "beginEnrollment", "enable",
                      "disable", "createChallenge", "completeCode", "completeRecovery",
                      "createFlow", "consumeFlow"}
<1>1. SessionCall(c) => c.method \in {"create", "extend", "rotate", "revoke", "revokeAll"}
  BY DEF SessionCall
<1>2. BearerCall(c) =>
         c.method \in {"createSession", "revokeAccess", "revokeAllAccess", "rotateRefresh"}
  BY DEF BearerCall
<1>3. PasswordCall(c) \/ MailCall(c) => c.method \in others
  BY DEF PasswordCall, MailCall
<1>4. IdentityCall(c) => c.method \in others
  BY DEF IdentityCall
<1>5. PasskeyCall(c) \/ FlowCall(c) => c.method \in others
  BY DEF PasskeyCall, FlowCall
<1>6. TotpCall(c) => c.method \in others
  BY DEF TotpCall
<1>7. CASE c.method \in others
  BY <1>7
<1>8. CASE SessionCall(c)
  BY <1>1, <1>8
<1>9. CASE BearerCall(c)
  BY <1>2, <1>9
<1> QED BY <1>3, <1>4, <1>5, <1>6, <1>7, <1>8, <1>9 DEF CallOK

\* Every step of the adapter is a step of the store of cookie sessions, or a stutter.
LEMMA CookieStep ==
    ASSUME Inv, [Next]_vars
    PROVE  [Cookie!StoreNext]_[t \in SessionTokens |-> Row(Session(t))]
<1>1. CASE UNCHANGED rows
  BY <1>1 DEF Row, Exists, Session
<1>2. CASE \E c, answer : /\ CallOK(c) /\ Fits(c) /\ May(c, answer)
                          /\ rows' = After(Write(c, answer))
  <2>1. PICK c, answer : /\ CallOK(c) /\ Fits(c) /\ May(c, answer)
                         /\ rows' = After(Write(c, answer))
    BY <1>2
  <2>2. CASE SessionCall(c)
    BY <2>1, <2>2, CookieEffect DEF Inv
  <2>3. CASE ~SessionCall(c)
    <3>1. PICK w : w = Write(c, answer)
      OBVIOUS
    <3>2. WriteOK(w) /\ \A d \in DOMAIN w : d[1] # "sessions"
      BY <2>1, <2>3, <3>1, AlwaysProper, SessionMethods DEF Inv, Proper, Safe
    <3>3. [t \in SessionTokens |-> Row(Session(t))]' =
             [t \in SessionTokens |-> IF Session(t) \in DOMAIN w THEN w[Session(t)]
                                      ELSE Row(Session(t))]
      BY <2>1, <3>1, <3>2, SessionAfter DEF Inv, Sound
    <3>4. \A t : Session(t) \notin DOMAIN w
      BY <3>2, Keys
    <3>5. UNCHANGED [t \in SessionTokens |-> Row(Session(t))]
      BY <3>3, <3>4
    <3> QED BY <3>5
  <2> QED BY <2>2, <2>3
<1> QED BY <1>1, <1>2, RowsStep

\* ... and one of the stores of bearer sessions.
LEMMA BearerStep ==
    ASSUME Inv, [Next]_vars
    PROVE  [Bearer!StoreNext]_<<[sid \in SessionIDs |-> Row(Access(sid))],
                                [t \in Tokens |-> Row(Refresh(t))]>>
<1>1. CASE UNCHANGED rows
  BY <1>1 DEF Row, Exists, Access, Refresh
<1>2. CASE \E c, answer : /\ CallOK(c) /\ Fits(c) /\ May(c, answer)
                          /\ rows' = After(Write(c, answer))
  <2>1. PICK c, answer : /\ CallOK(c) /\ Fits(c) /\ May(c, answer)
                         /\ rows' = After(Write(c, answer))
    BY <1>2
  <2>2. CASE BearerCall(c)
    BY <2>1, <2>2, BearerEffect DEF Inv
  <2>3. CASE ~BearerCall(c)
    <3>1. PICK w : w = Write(c, answer)
      OBVIOUS
    <3>2. WriteOK(w) /\ \A d \in DOMAIN w : d[1] \notin {"access_sessions", "refresh_tokens"}
      BY <2>1, <2>3, <3>1, AlwaysProper, SessionMethods DEF Inv, Proper, Safe
    <3>3. /\ [sid \in SessionIDs |-> Row(Access(sid))]' =
                [sid \in SessionIDs |-> IF Access(sid) \in DOMAIN w THEN w[Access(sid)]
                                        ELSE Row(Access(sid))]
          /\ [t \in Tokens |-> Row(Refresh(t))]' =
                [t \in Tokens |-> IF Refresh(t) \in DOMAIN w THEN w[Refresh(t)]
                                  ELSE Row(Refresh(t))]
      BY <2>1, <3>1, <3>2, BearerAfter DEF Inv, Sound
    <3>4. /\ \A sid : Access(sid) \notin DOMAIN w
          /\ \A t : Refresh(t) \notin DOMAIN w
      BY <3>2, Keys
    <3>5. /\ UNCHANGED [sid \in SessionIDs |-> Row(Access(sid))]
          /\ UNCHANGED [t \in Tokens |-> Row(Refresh(t))]
      BY <3>3, <3>4
    <3> QED BY <3>5
  <2> QED BY <2>2, <2>3
<1> QED BY <1>1, <1>2, RowsStep

\* Both kinds of sessions in MySQL are what their managers are promised: each method takes
\* effect in one step, on the rows it then finds, although its SELECT and its statements are
\* two (StoresSpec).
THEOREM ImplementsStores == Spec => StoresSpec
<1>1. Init => Cookie!StoreInit /\ Bearer!StoreInit
  BY DEF Init, Cookie!StoreInit, Bearer!StoreInit, Row, Exists
<1>2. Inv /\ [Next]_vars => [Cookie!StoreNext]_[t \in SessionTokens |-> Row(Session(t))]
  BY CookieStep
<1>3. Inv /\ [Next]_vars => [Bearer!StoreNext]_<<[sid \in SessionIDs |-> Row(Access(sid))],
                                                 [t \in Tokens |-> Row(Refresh(t))]>>
  BY BearerStep
<1>4. Spec => Cookie!StoreSpec
  BY <1>1, <1>2, InitInv, NextInv, PTL DEF Spec, Cookie!StoreSpec
<1>5. Spec => Bearer!StoreSpec
  BY <1>1, <1>3, InitInv, NextInv, PTL DEF Spec, Bearer!StoreSpec
<1> QED BY <1>4, <1>5, PTL DEF StoresSpec

\* The managers of both kinds of sessions can rely on MySQL as on the abstract stores, and on
\* every revocation that has been answered: PromisesKept.
THEOREM PromisesAreKept == Spec => PromisesKept
BY ImplementsStores, RevocationsComplete, PTL DEF PromisesKept

=============================================================================
