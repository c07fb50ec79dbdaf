------------------------- MODULE MongoAdapterProofs -------------------------
(***************************************************************************)
(* Proofs about MongoAdapter, for any number of calls, users and           *)
(* documents, and any lifetimes.                                           *)
(*                                                                         *)
(* A closure's write is decided on one snapshot and takes effect on a      *)
(* later state, and only the documents it writes are validated.  So the    *)
(* proof is about writes: `Safe(w)` says of the documents as they are that *)
(* w may take effect on them.  Every method decides on a safe write; a     *)
(* write that takes effect keeps what holds of the documents; and a write  *)
(* that is safe stays so while others take effect that share no document   *)
(* with it.  The last is where LockUser counts: whatever removes a way to  *)
(* sign in, or adds a Google identity, writes the user's document.         *)
(*                                                                         *)
(* That a write is still the one its method would decide on (`More`) needs *)
(* what the documents that decide have in common: either the write has     *)
(* them among its own, or safe writes keep what was found of them.  The    *)
(* refinement of the abstract session stores follows from it.              *)
(***************************************************************************)
EXTENDS MongoAdapter, TLAPS

-----------------------------------------------------------------------------
(***************************************************************************)
(* Keys of documents, and their values.                                    *)
(***************************************************************************)

\* The key of a document tells its collection and what it is about.
LEMMA Keys ==
    /\ \A x : Session(x)[1] = "sessions" /\ Session(x)[2] = x
    /\ \A x : Access(x)[1] = "access_sessions" /\ Access(x)[2] = x
    /\ \A x : Refresh(x)[1] = "refresh_tokens" /\ Refresh(x)[2] = x
    /\ \A x : User(x)[1] = "users" /\ User(x)[2] = x
    /\ \A x : Email(x)[1] = "users.email" /\ Email(x)[2] = x
    /\ \A x : Password(x)[1] = "password_credentials" /\ Password(x)[2] = x
    /\ \A x : Identity(x)[1] = "google_identities" /\ Identity(x)[2] = x
    /\ \A x : Passkey(x)[1] = "passkey_credentials" /\ Passkey(x)[2] = x
    /\ \A x : Ceremony(x)[1] = "passkey_ceremonies" /\ Ceremony(x)[2] = x
    /\ \A x : Enrollment(x)[1] = "totp_enrollments" /\ Enrollment(x)[2] = x
    /\ \A x : Totp(x)[1] = "totp_credentials" /\ Totp(x)[2] = x
    /\ \A x : Recovery(x)[1] = "totp_recovery_codes" /\ Recovery(x)[2] = x
    /\ \A x : Challenge(x)[1] = "totp_challenges" /\ Challenge(x)[2] = x
    /\ \A kind, x : Mail(kind, x)[1] = kind /\ Mail(kind, x)[2] = x
    /\ \A collection, x : Flow(collection, x)[1] = collection /\ Flow(collection, x)[2] = x
BY DEF Session, Access, Refresh, User, Email, Password, Identity, Passkey, Ceremony, Enrollment,
       Totp, Recovery, Challenge, Mail, Flow

\* What the documents of each collection hold.
LEMMA ValuesOf ==
    /\ Values("sessions") = Cookie!Record
    /\ Values("access_sessions") = Bearer!AccessSession
    /\ Values("refresh_tokens") = Bearer!RefreshToken
    /\ Values("users") = [email: Emails, verified: BOOLEAN]
    /\ Values("users.email") = Users
    /\ Values("password_credentials") = Hashes
    /\ Values("google_identities") = Users
    /\ Values("passkey_credentials") = Users
    /\ \A kind \in Kinds : Values(kind) = MailTokens
    /\ Values("passkey_ceremonies") =
          [type: {"registration", "authentication"}, user: Users \cup {None}, consumed: BOOLEAN]
    /\ Values("totp_enrollments") = [secret: Secrets, expires: Nat]
    /\ Values("totp_credentials") = [secret: Secrets, last: Nat, disabled: BOOLEAN]
    /\ Values("totp_recovery_codes") = [user: Subjects, used: BOOLEAN]
    /\ Values("totp_challenges") = [user: Subjects, expires: Nat, consumed: BOOLEAN]
    /\ \A collection \in FlowCollections : Values(collection) = Nat
<1>1. Values("sessions") = Cookie!Record
  BY DEF Values, Kinds, FlowCollections
<1>2. Values("access_sessions") = Bearer!AccessSession
  BY DEF Values, Kinds, FlowCollections
<1>3. Values("refresh_tokens") = Bearer!RefreshToken
  BY DEF Values, Kinds, FlowCollections
<1>4. Values("users") = [email: Emails, verified: BOOLEAN]
  BY DEF Values, Kinds, FlowCollections
<1>5. Values("users.email") = Users
  BY DEF Values, Kinds, FlowCollections
<1>6. Values("password_credentials") = Hashes
  BY DEF Values, Kinds, FlowCollections
<1>7. Values("google_identities") = Users
  BY DEF Values, Kinds, FlowCollections
<1>8. Values("passkey_credentials") = Users
  BY DEF Values, Kinds, FlowCollections
<1>9. \A kind \in Kinds : Values(kind) = MailTokens
  BY DEF Values, Kinds, FlowCollections
<1>10. Values("passkey_ceremonies") =
          [type: {"registration", "authentication"}, user: Users \cup {None}, consumed: BOOLEAN]
  BY DEF Values, Kinds, FlowCollections
<1>11. Values("totp_enrollments") = [secret: Secrets, expires: Nat]
  BY DEF Values, Kinds, FlowCollections
<1>12. Values("totp_credentials") = [secret: Secrets, last: Nat, disabled: BOOLEAN]
  BY DEF Values, Kinds, FlowCollections
<1>13. Values("totp_recovery_codes") = [user: Subjects, used: BOOLEAN]
  BY DEF Values, Kinds, FlowCollections
<1>14. Values("totp_challenges") = [user: Subjects, expires: Nat, consumed: BOOLEAN]
  BY DEF Values, Kinds, FlowCollections
<1>15. \A collection \in FlowCollections : Values(collection) = Nat
  BY DEF Values, Kinds, FlowCollections
<1> QED BY <1>1, <1>2, <1>3, <1>4, <1>5, <1>6, <1>7, <1>8, <1>9, <1>10, <1>11, <1>12, <1>13,
           <1>14, <1>15

IsFunction(f) == f = [d \in DOMAIN f |-> f[d]]

\* A write of documents of known collections, each to a value of its collection or None.
WriteOK(w) ==
    /\ IsFunction(w)
    /\ \A d \in DOMAIN w : d[1] \in Collections /\ w[d] \in Values(d[1]) \cup {None}

DocsOK ==
    /\ IsFunction(docs)
    /\ \A d \in DOMAIN docs : d[1] \in Collections /\ docs[d] \in Values(d[1])

Sets(w, d) == d \in DOMAIN w /\ w[d] # None

Erases(w, d) == d \in DOMAIN w /\ w[d] = None

\* What is there after a write, and what it is.
LEMMA WrittenDocs ==
    ASSUME NEW w, docs' = Written(w), DocsOK, WriteOK(w)
    PROVE  /\ \A d : Exists(d)' <=> Sets(w, d) \/ (d \notin DOMAIN w /\ Exists(d))
           /\ \A d : Sets(w, d) => docs'[d] = w[d]
           /\ \A d : d \notin DOMAIN w /\ Exists(d) => docs'[d] = docs[d]
           /\ \A d : Sets(w, d) => Doc(d)' = w[d]
           /\ \A d : Erases(w, d) => Doc(d)' = None
           /\ \A d : d \notin DOMAIN w => Doc(d)' = Doc(d)
           /\ DocsOK'
<1>1. /\ \A d : Exists(d)' <=> Sets(w, d) \/ (d \notin DOMAIN w /\ Exists(d))
      /\ \A d : Sets(w, d) => docs'[d] = w[d]
      /\ \A d : d \notin DOMAIN w /\ Exists(d) => docs'[d] = docs[d]
  BY DEF Written, Exists, Sets
<1>2. /\ \A d : Sets(w, d) => Doc(d)' = w[d]
      /\ \A d : Erases(w, d) => Doc(d)' = None
      /\ \A d : d \notin DOMAIN w => Doc(d)' = Doc(d)
  BY <1>1 DEF Doc, Sets, Erases
<1>3. IsFunction(docs)'
  BY DEF Written, IsFunction
<1>4. ASSUME NEW d \in DOMAIN docs' PROVE d[1] \in Collections /\ docs'[d] \in Values(d[1])
  BY <1>1 DEF Exists, Sets, WriteOK, DocsOK
<1> QED BY <1>1, <1>2, <1>3, <1>4 DEF DocsOK, Values

-----------------------------------------------------------------------------
(***************************************************************************)
(* Safe writes.                                                            *)
(***************************************************************************)

\* The user documents that a write inserts come with their address and a way to sign in;
\* none is deleted or given another address.
UsersSafe(w) ==
    \A u \in Users : User(u) \in DOMAIN w =>
        /\ w[User(u)] # None
        /\ \/ Exists(User(u)) /\ docs[User(u)].email = w[User(u)].email
           \/ /\ ~Exists(User(u))
              /\ Sets(w, Email(w[User(u)].email)) /\ w[Email(w[User(u)].email)] = u
              /\ \/ Sets(w, Password(u))
                 \/ \E p \in Identities : Sets(w, Identity(p)) /\ w[Identity(p)] = u

\* An address is written for a new account, and was nobody's.
EmailsSafe(w) ==
    \A e \in Emails : Email(e) \in DOMAIN w =>
        /\ w[Email(e)] # None /\ ~Exists(Email(e))
        /\ User(w[Email(e)]) \in DOMAIN w /\ ~Exists(User(w[Email(e)]))
        /\ w[User(w[Email(e)])].email = e

\* A new identity is the only one that the write or a document gives to its owner, whose
\* document is written, too; an old one keeps its owner.
IdentitiesSafe(w) ==
    \A p \in Identities : Sets(w, Identity(p)) =>
        IF Exists(Identity(p)) THEN w[Identity(p)] = docs[Identity(p)]
        ELSE /\ Sets(w, User(w[Identity(p)]))
             /\ IdentitiesOf(w[Identity(p)]) = {}
             /\ \A q \in Identities : Sets(w, Identity(q)) => q = p

PasskeysSafe(w) ==
    \A k \in Credentials :
        Sets(w, Passkey(k)) /\ Exists(Passkey(k)) => w[Passkey(k)] = docs[Passkey(k)]

\* The write takes a way to sign in from u.
Removes(w, u) ==
    \/ Erases(w, Password(u))
    \/ \E p \in Identities : Doc(Identity(p)) = u /\ Erases(w, Identity(p))
    \/ \E k \in Credentials : Doc(Passkey(k)) = u /\ Erases(w, Passkey(k))

\* ... and leaves u another.
Leaves(w, u) ==
    \/ Exists(Password(u)) /\ ~Erases(w, Password(u))
    \/ \E p \in Identities : Doc(Identity(p)) = u /\ ~Erases(w, Identity(p))
    \/ \E k \in Credentials : Doc(Passkey(k)) = u /\ ~Erases(w, Passkey(k))

\* LockUser: what removes a way to sign in writes the user's document.
RemovalsSafe(w) ==
    \A u \in Users : Removes(w, u) => User(u) \in DOMAIN w /\ Leaves(w, u)

\* A credential is written enabled, or disabled without a recovery code that stays.
CredentialsSafe(w) ==
    \A u \in Subjects : Totp(u) \in DOMAIN w =>
        /\ w[Totp(u)] # None
        /\ w[Totp(u)].disabled => \A d \in RecoveryOf(u) : Erases(w, d)

\* A recovery code is written with the credential it belongs to, or keeps its owner.
CodesSafe(w) ==
    \A k \in RecoveryCodes : Sets(w, Recovery(k)) =>
        LET u == w[Recovery(k)].user IN
        \/ Exists(Recovery(k)) /\ docs[Recovery(k)].user = u
        \/ Totp(u) \in DOMAIN w /\ ~w[Totp(u)].disabled

AccountsSafe(w) ==
    UsersSafe(w) /\ EmailsSafe(w) /\ IdentitiesSafe(w) /\ PasskeysSafe(w) /\ RemovalsSafe(w)

TotpSafe(w) == CredentialsSafe(w) /\ CodesSafe(w)

Safe(w) == WriteOK(w) /\ AccountsSafe(w) /\ TotpSafe(w)

\* An identity belongs to an account that exists, so that a new account has none.
OwnersExist ==
    \A p \in Identities : Exists(Identity(p)) => Exists(User(docs[Identity(p)]))

\* What holds of the documents between two steps.
Sound ==
    /\ DocsOK /\ OwnersExist
    /\ NeverLockedOut /\ OneIdentityPerUser /\ EmailsUnique /\ CodesOnlyWhileEnabled

\* What the documents of a collection are, by name.
LEMMA Typed ==
    ASSUME DocsOK
    PROVE  /\ \A u : Exists(User(u)) => docs[User(u)] \in [email: Emails, verified: BOOLEAN]
           /\ \A p : Exists(Identity(p)) => docs[Identity(p)] \in Users
           /\ \A k : Exists(Passkey(k)) => docs[Passkey(k)] \in Users
           /\ \A e : Exists(Email(e)) => docs[Email(e)] \in Users
           /\ \A h : Exists(Recovery(h)) => docs[Recovery(h)] \in [user: Subjects, used: BOOLEAN]
           /\ \A u : Exists(Totp(u)) =>
                 docs[Totp(u)] \in [secret: Secrets, last: Nat, disabled: BOOLEAN]
           /\ \A d : Exists(d) => docs[d] # None /\ Doc(d) # None
           /\ \A d : ~Exists(d) => Doc(d) = None
<1>1. /\ \A d : Exists(d) => docs[d] # None /\ Doc(d) # None
      /\ \A d : ~Exists(d) => Doc(d) = None
  BY NoValueAssumption DEF DocsOK, Exists, Doc
<1>2. \A d : Exists(d) => docs[d] \in Values(d[1])
  BY DEF DocsOK, Exists
<1>3. \A u : Exists(User(u)) => docs[User(u)] \in Values("users")
  BY <1>2, Keys
<1>4. \A p : Exists(Identity(p)) => docs[Identity(p)] \in Values("google_identities")
  BY <1>2, Keys
<1>5. \A k : Exists(Passkey(k)) => docs[Passkey(k)] \in Values("passkey_credentials")
  BY <1>2, Keys
<1>6. \A e : Exists(Email(e)) => docs[Email(e)] \in Values("users.email")
  BY <1>2, Keys
<1>7. \A k : Exists(Recovery(k)) => docs[Recovery(k)] \in Values("totp_recovery_codes")
  BY <1>2, Keys
<1>8. \A u : Exists(Totp(u)) => docs[Totp(u)] \in Values("totp_credentials")
  BY <1>2, Keys
<1> QED BY <1>1, <1>3, <1>4, <1>5, <1>6, <1>7, <1>8, ValuesOf

\* What a write puts into a document, by the document's name.
LEMMA TypedWrite ==
    ASSUME NEW w, WriteOK(w)
    PROVE  /\ \A u : Sets(w, User(u)) => w[User(u)] \in [email: Emails, verified: BOOLEAN]
           /\ \A p : Sets(w, Identity(p)) => w[Identity(p)] \in Users
           /\ \A k : Sets(w, Passkey(k)) => w[Passkey(k)] \in Users
           /\ \A e : Sets(w, Email(e)) => w[Email(e)] \in Users
           /\ \A h : Sets(w, Recovery(h)) => w[Recovery(h)] \in [user: Subjects, used: BOOLEAN]
           /\ \A u : Sets(w, Totp(u)) =>
                 w[Totp(u)] \in [secret: Secrets, last: Nat, disabled: BOOLEAN]
<1>2. \A d : Sets(w, d) => w[d] \in Values(d[1])
  BY DEF WriteOK, Sets
<1>3. \A u : Sets(w, User(u)) => w[User(u)] \in Values("users")
  BY <1>2, Keys
<1>4. \A p : Sets(w, Identity(p)) => w[Identity(p)] \in Values("google_identities")
  BY <1>2, Keys
<1>5. \A k : Sets(w, Passkey(k)) => w[Passkey(k)] \in Values("passkey_credentials")
  BY <1>2, Keys
<1>6. \A e : Sets(w, Email(e)) => w[Email(e)] \in Values("users.email")
  BY <1>2, Keys
<1>7. \A k : Sets(w, Recovery(k)) => w[Recovery(k)] \in Values("totp_recovery_codes")
  BY <1>2, Keys
<1>8. \A u : Sets(w, Totp(u)) => w[Totp(u)] \in Values("totp_credentials")
  BY <1>2, Keys
<1> QED BY <1>3, <1>4, <1>5, <1>6, <1>7, <1>8, ValuesOf

-----------------------------------------------------------------------------
(***************************************************************************)
(* A safe write that takes effect keeps what holds of the documents.       *)
(***************************************************************************)

\* The owner of every identity still exists: no write deletes a user.
LEMMA KeepsOwners ==
    ASSUME Sound, NEW w, Safe(w), docs' = Written(w)
    PROVE  OwnersExist'
<1>1. ASSUME NEW u \in Users, Exists(User(u)) PROVE Exists(User(u))'
  BY <1>1, WrittenDocs DEF Sound, Safe, AccountsSafe, UsersSafe, Sets
<1> SUFFICES ASSUME NEW p \in Identities, Exists(Identity(p))'
             PROVE  Exists(User(docs[Identity(p)]))'
  BY DEF OwnersExist
<1>2. CASE Sets(w, Identity(p))
  <2>1. docs'[Identity(p)] = w[Identity(p)] /\ w[Identity(p)] \in Users
    BY <1>2, WrittenDocs, TypedWrite DEF Sound, Safe
  <2>2. CASE Exists(Identity(p))
    <3>1. w[Identity(p)] = docs[Identity(p)]
      BY <1>2, <2>2 DEF Safe, AccountsSafe, IdentitiesSafe
    <3> QED BY <1>1, <2>1, <2>2, <3>1 DEF Sound, OwnersExist
  <2>3. CASE ~Exists(Identity(p))
    <3>1. Sets(w, User(w[Identity(p)]))
      BY <1>2, <2>3 DEF Safe, AccountsSafe, IdentitiesSafe
    <3> QED BY <2>1, <3>1, WrittenDocs DEF Sound, Safe
  <2> QED BY <2>2, <2>3
<1>3. CASE ~Sets(w, Identity(p))
  <2>1. Exists(Identity(p)) /\ docs'[Identity(p)] = docs[Identity(p)]
    BY <1>3, WrittenDocs DEF Sound, Safe
  <2>2. docs[Identity(p)] \in Users
    BY <2>1, Typed DEF Sound
  <2> QED BY <1>1, <2>1, <2>2 DEF Sound, OwnersExist
<1> QED BY <1>2, <1>3

\* Addresses stay unique: an address is inserted with the account it is of.
LEMMA KeepsEmails ==
    ASSUME Sound, NEW w, Safe(w), docs' = Written(w)
    PROVE  EmailsUnique'
<1> SUFFICES ASSUME NEW u \in Users, NEW e \in Emails
             PROVE  Doc(Email(e))' = u <=> Exists(User(u))' /\ docs'[User(u)].email = e
  BY DEF EmailsUnique
<1>1. Doc(Email(e)) = u <=> Exists(User(u)) /\ docs[User(u)].email = e
  BY DEF Sound, EmailsUnique
<1>2. u # None
  BY NoValueAssumption, ValuesOf DEF Collections
<1>3. CASE User(u) \in DOMAIN w /\ Exists(User(u))
  <2>1. Exists(User(u))' /\ docs'[User(u)].email = docs[User(u)].email
    BY <1>3, WrittenDocs DEF Sound, Safe, AccountsSafe, UsersSafe, Sets
  <2>2. Doc(Email(e)) = u => Doc(Email(e))' = u
    BY <1>2, WrittenDocs DEF Sound, Safe, AccountsSafe, EmailsSafe, Doc
  <2>3. Doc(Email(e))' = u => Doc(Email(e)) = u
    BY <1>3, WrittenDocs DEF Sound, Safe, AccountsSafe, EmailsSafe, Sets
  <2> QED BY <1>1, <1>3, <2>1, <2>2, <2>3
<1>4. CASE User(u) \in DOMAIN w /\ ~Exists(User(u))
  <2>1. Exists(User(u))' /\ docs'[User(u)] = w[User(u)]
    BY <1>4, WrittenDocs DEF Sound, Safe, AccountsSafe, UsersSafe, Sets
  <2>2. w[User(u)].email = e => Doc(Email(e))' = u
    BY <1>4, WrittenDocs DEF Sound, Safe, AccountsSafe, UsersSafe
  <2>3. Doc(Email(e))' = u => w[User(u)].email = e
    <3>1. CASE Email(e) \in DOMAIN w
      BY <3>1, WrittenDocs DEF Sound, Safe, AccountsSafe, EmailsSafe, Sets
    <3>2. CASE Email(e) \notin DOMAIN w
      BY <1>1, <1>4, <3>2, WrittenDocs DEF Sound, Safe
    <3> QED BY <3>1, <3>2
  <2> QED BY <2>1, <2>2, <2>3
<1>5. CASE User(u) \notin DOMAIN w
  <2>1. /\ Exists(User(u))' <=> Exists(User(u))
        /\ Exists(User(u)) => docs'[User(u)] = docs[User(u)]
    BY <1>5, WrittenDocs DEF Sound, Safe, Sets
  <2>2. Doc(Email(e)) = u => Doc(Email(e))' = u
    BY <1>2, WrittenDocs DEF Sound, Safe, AccountsSafe, EmailsSafe, Doc
  <2>3. Doc(Email(e))' = u => Doc(Email(e)) = u
    BY <1>5, WrittenDocs DEF Sound, Safe, AccountsSafe, EmailsSafe, Sets
  <2> QED BY <1>1, <2>1, <2>2, <2>3
<1> QED BY <1>3, <1>4, <1>5

\* An account still has one identity at most: a new one's owner had none.
LEMMA KeepsOneIdentity ==
    ASSUME Sound, NEW w, Safe(w), docs' = Written(w)
    PROVE  OneIdentityPerUser'
<1> SUFFICES ASSUME NEW u \in Users, NEW p \in Identities, NEW q \in Identities,
                    Doc(Identity(p))' = u, Doc(Identity(q))' = u
             PROVE  p = q
  BY DEF OneIdentityPerUser, IdentitiesOf
<1>1. u # None
  BY NoValueAssumption, ValuesOf DEF Collections
\* An identity of u is an old one or the new one.
<1>2. ASSUME NEW x \in Identities, Doc(Identity(x))' = u
      PROVE  \/ Doc(Identity(x)) = u
             \/ /\ Sets(w, Identity(x)) /\ IdentitiesOf(u) = {} /\ w[Identity(x)] = u
                /\ \A y \in Identities : Sets(w, Identity(y)) => y = x
  <2>1. CASE Sets(w, Identity(x))
    <3>1. w[Identity(x)] = u
      BY <1>2, <2>1, WrittenDocs DEF Sound, Safe
    <3> QED BY <2>1, <3>1 DEF Safe, AccountsSafe, IdentitiesSafe, Doc
  <2>2. CASE ~Sets(w, Identity(x))
    BY <1>1, <1>2, <2>2, WrittenDocs DEF Sound, Safe, Sets, Erases
  <2> QED BY <2>1, <2>2
<1>3. CASE Doc(Identity(p)) = u /\ Doc(Identity(q)) = u
  BY <1>3 DEF Sound, OneIdentityPerUser, IdentitiesOf
<1>4. CASE Doc(Identity(p)) # u /\ Doc(Identity(q)) # u
  BY <1>2, <1>4
<1>5. CASE IdentitiesOf(u) = {}
  BY <1>2, <1>4, <1>5 DEF IdentitiesOf
<1> QED BY <1>2, <1>3, <1>4, <1>5

\* Every account still has a way in: what takes one away leaves another.
LEMMA KeepsAWayIn ==
    ASSUME Sound, NEW w, Safe(w), docs' = Written(w)
    PROVE  NeverLockedOut'
<1> SUFFICES ASSUME NEW u \in Users, Exists(User(u))'
             PROVE  Exists(Password(u))' \/ IdentitiesOf(u)' # {} \/ PasskeysOf(u)' # {}
  BY DEF NeverLockedOut
<1>0. u # None
  BY NoValueAssumption, ValuesOf DEF Collections
\* A way to sign in that the write does not erase stays.
<1>1. ASSUME Leaves(w, u)
      PROVE  Exists(Password(u))' \/ IdentitiesOf(u)' # {} \/ PasskeysOf(u)' # {}
  <2>1. CASE Exists(Password(u)) /\ ~Erases(w, Password(u))
    BY <2>1, WrittenDocs DEF Sound, Safe, Sets, Erases
  <2>2. CASE \E p \in Identities : Doc(Identity(p)) = u /\ ~Erases(w, Identity(p))
    <3>1. PICK p \in Identities : Doc(Identity(p)) = u /\ ~Erases(w, Identity(p))
      BY <2>2
    <3>2. Doc(Identity(p))' = u
      BY <1>0, <3>1, WrittenDocs DEF Sound, Safe, AccountsSafe, IdentitiesSafe, Sets, Erases, Doc
    <3> QED BY <3>2 DEF IdentitiesOf
  <2>3. CASE \E k \in Credentials : Doc(Passkey(k)) = u /\ ~Erases(w, Passkey(k))
    <3>1. PICK k \in Credentials : Doc(Passkey(k)) = u /\ ~Erases(w, Passkey(k))
      BY <2>3
    <3>2. Doc(Passkey(k))' = u
      BY <1>0, <3>1, WrittenDocs DEF Sound, Safe, AccountsSafe, PasskeysSafe, Sets, Erases, Doc
    <3> QED BY <3>2 DEF PasskeysOf
  <2> QED BY <1>1, <2>1, <2>2, <2>3 DEF Leaves
<1>2. CASE Exists(User(u))
  <2>1. CASE Removes(w, u)
    BY <1>1, <2>1 DEF Safe, AccountsSafe, RemovalsSafe
  <2>2. CASE ~Removes(w, u)
    <3>1. Exists(Password(u)) \/ IdentitiesOf(u) # {} \/ PasskeysOf(u) # {}
      BY <1>2 DEF Sound, NeverLockedOut
    <3>2. Leaves(w, u)
      BY <2>2, <3>1 DEF Removes, Leaves, IdentitiesOf, PasskeysOf
    <3> QED BY <1>1, <3>2
  <2> QED BY <2>1, <2>2
<1>3. CASE ~Exists(User(u))
  <2>1. User(u) \in DOMAIN w
    BY <1>3, WrittenDocs DEF Sound, Safe, Sets
  <2>2. \/ Sets(w, Password(u))
        \/ \E p \in Identities : Sets(w, Identity(p)) /\ w[Identity(p)] = u
    BY <1>3, <2>1 DEF Safe, AccountsSafe, UsersSafe
  <2> QED BY <2>2, WrittenDocs DEF Sound, Safe, IdentitiesOf
<1> QED BY <1>2, <1>3

\* A disabled factor still has no codes: they are deleted with it.
LEMMA KeepsCodes ==
    ASSUME Sound, NEW w, Safe(w), docs' = Written(w)
    PROVE  CodesOnlyWhileEnabled'
<1> SUFFICES ASSUME NEW u \in Subjects, NEW k \in RecoveryCodes,
                    Exists(Recovery(k))', docs'[Recovery(k)].user = u
             PROVE  IsEnabled(u)'
  BY DEF CodesOnlyWhileEnabled, RecoveryOf
<1>0. /\ \A d : Exists(d)' <=> Sets(w, d) \/ (d \notin DOMAIN w /\ Exists(d))
      /\ \A d : Sets(w, d) => docs'[d] = w[d]
      /\ \A d : d \notin DOMAIN w /\ Exists(d) => docs'[d] = docs[d]
  BY WrittenDocs DEF Sound, Safe
\* A credential that is enabled stays so, if the code is an old one that stays.
<1>1. ASSUME Exists(Recovery(k)), docs[Recovery(k)].user = u, ~Erases(w, Recovery(k))
      PROVE  IsEnabled(u)'
  <2>1. Recovery(k) \in RecoveryOf(u)
    BY <1>1 DEF RecoveryOf
  <2>2. IsEnabled(u)
    BY <2>1 DEF Sound, CodesOnlyWhileEnabled
  <2>3. CASE Totp(u) \in DOMAIN w
    <3>1. w[Totp(u)] # None /\ ~w[Totp(u)].disabled
      BY <1>1, <2>1, <2>3 DEF Safe, TotpSafe, CredentialsSafe
    <3> QED BY <1>0, <2>3, <3>1 DEF IsEnabled, Sets
  <2>4. CASE Totp(u) \notin DOMAIN w
    BY <1>0, <2>2, <2>4 DEF IsEnabled
  <2> QED BY <2>3, <2>4
<1>2. CASE Sets(w, Recovery(k))
  <2>1. w[Recovery(k)].user = u
    BY <1>0, <1>2
  <2>2. CASE Exists(Recovery(k)) /\ docs[Recovery(k)].user = u
    BY <1>1, <1>2, <2>2 DEF Sets, Erases
  <2>3. CASE Totp(u) \in DOMAIN w /\ ~w[Totp(u)].disabled
    <3>1. w[Totp(u)] # None
      BY <2>3 DEF Safe, TotpSafe, CredentialsSafe
    <3> QED BY <1>0, <2>3, <3>1 DEF IsEnabled, Sets
  <2> QED BY <1>2, <2>1, <2>2, <2>3 DEF Safe, TotpSafe, CodesSafe
<1>3. CASE ~Sets(w, Recovery(k))
  BY <1>0, <1>1, <1>3 DEF Erases
<1> QED BY <1>2, <1>3

\* Together: the effect of a safe write keeps the documents sound.
LEMMA SafeKeepsSound ==
    ASSUME Sound, NEW w, Safe(w), docs' = Written(w)
    PROVE  Sound'
<1>1. DocsOK'
  BY WrittenDocs DEF Sound, Safe
<1> QED BY <1>1, KeepsOwners, KeepsEmails, KeepsOneIdentity, KeepsAWayIn, KeepsCodes DEF Sound

-----------------------------------------------------------------------------
(***************************************************************************)
(* A safe write stays safe while another takes effect that shares no       *)
(* document with it.                                                       *)
(***************************************************************************)

\* A safe write stays safe while another takes effect that shares no document with it.
LEMMA StaysSafe ==
    ASSUME Sound, NEW w, Safe(w), NEW v, Safe(v), DOMAIN v \cap DOMAIN w = {}, docs' = Written(v)
    PROVE  Safe(w)'
<1>0. /\ \A d : Exists(d)' <=> Sets(v, d) \/ (d \notin DOMAIN v /\ Exists(d))
      /\ \A d : Sets(v, d) => Doc(d)' = v[d]
      /\ \A d : Erases(v, d) => Doc(d)' = None
      /\ \A d : d \notin DOMAIN v => Doc(d)' = Doc(d)
  BY WrittenDocs DEF Sound, Safe
\* The documents that w writes are as they were.
<1>1. ASSUME NEW d \in DOMAIN w
      PROVE  /\ Exists(d)' <=> Exists(d)
             /\ Exists(d) => docs'[d] = docs[d]
  BY WrittenDocs DEF Sound, Safe, Sets
<1>2. UsersSafe(w)'
  BY <1>1 DEF Safe, AccountsSafe, UsersSafe, Sets
<1>3. EmailsSafe(w)'
  BY <1>1 DEF Safe, AccountsSafe, EmailsSafe
<1>4. IdentitiesSafe(w)'
  <2> SUFFICES ASSUME NEW p \in Identities, Sets(w, Identity(p))
               PROVE  IF Exists(Identity(p))' THEN w[Identity(p)] = docs'[Identity(p)]
                      ELSE /\ Sets(w, User(w[Identity(p)]))
                           /\ IdentitiesOf(w[Identity(p)])' = {}
                           /\ \A q \in Identities : Sets(w, Identity(q)) => q = p
    BY DEF IdentitiesSafe, Sets
  <2>1. CASE Exists(Identity(p))
    BY <1>1, <2>1 DEF Safe, AccountsSafe, IdentitiesSafe, Sets
  <2>2. CASE ~Exists(Identity(p))
    <3> DEFINE u == w[Identity(p)]
    <3>1. /\ Sets(w, User(u)) /\ IdentitiesOf(u) = {}
          /\ \A q \in Identities : Sets(w, Identity(q)) => q = p
      BY <2>2 DEF Safe, AccountsSafe, IdentitiesSafe
    <3>2. u \in Users /\ u # None
      BY TypedWrite, NoValueAssumption, ValuesOf DEF Safe, Sets
    <3>3. User(u) \notin DOMAIN v
      BY <3>1 DEF Sets
    <3> HIDE DEF u
    <3>4. ASSUME NEW q \in Identities, Doc(Identity(q))' = u
          PROVE  FALSE
      <4>1. Doc(Identity(q)) # u
        BY <3>1 DEF IdentitiesOf
      <4>2. Sets(v, Identity(q)) /\ v[Identity(q)] = u
        BY <1>0, <3>2, <3>4, <4>1 DEF Sets, Erases
      <4>3. ~Exists(Identity(q))
        BY <4>1, <4>2 DEF Safe, AccountsSafe, IdentitiesSafe, Doc
      <4> QED BY <3>3, <4>2, <4>3 DEF Safe, AccountsSafe, IdentitiesSafe, Sets
    <3>5. IdentitiesOf(u)' = {}
      BY <3>4 DEF IdentitiesOf
    <3> QED BY <1>1, <2>2, <3>1, <3>5 DEF u, Sets
  <2> QED BY <2>1, <2>2
<1>5. PasskeysSafe(w)'
  BY <1>1 DEF Safe, AccountsSafe, PasskeysSafe, Sets
<1>6. RemovalsSafe(w)'
  <2> SUFFICES ASSUME NEW u \in Users, Removes(w, u)'
               PROVE  User(u) \in DOMAIN w /\ Leaves(w, u)'
    BY DEF RemovalsSafe
  <2>0. u # None
    BY NoValueAssumption, ValuesOf DEF Collections
  <2>1. Removes(w, u)
    BY <1>0 DEF Removes, Erases
  <2>2. User(u) \in DOMAIN w /\ Leaves(w, u)
    BY <2>1 DEF Safe, AccountsSafe, RemovalsSafe
  \* Without the user's document, v cannot remove anything of u.
  <2>3. ~Removes(v, u)
    BY <2>2 DEF Safe, AccountsSafe, RemovalsSafe
  <2>4. CASE Exists(Password(u)) /\ ~Erases(w, Password(u))
    <3>1. ~Erases(v, Password(u))
      BY <2>3 DEF Removes
    <3>2. Exists(Password(u))'
      BY <1>0, <2>4, <3>1 DEF Sets, Erases
    <3> QED BY <2>2, <2>4, <3>2 DEF Leaves, Erases
  <2>5. CASE \E p \in Identities : Doc(Identity(p)) = u /\ ~Erases(w, Identity(p))
    <3>1. PICK p \in Identities : Doc(Identity(p)) = u /\ ~Erases(w, Identity(p))
      BY <2>5
    <3>2. ~Erases(v, Identity(p))
      BY <2>3, <3>1 DEF Removes
    <3>3. Sets(v, Identity(p)) => v[Identity(p)] = u
      BY <2>0, <3>1 DEF Safe, AccountsSafe, IdentitiesSafe, Doc
    <3>4. Doc(Identity(p))' = u
      BY <1>0, <3>1, <3>2, <3>3 DEF Sets, Erases
    <3> QED BY <2>2, <3>1, <3>4 DEF Leaves, Erases
  <2>6. CASE \E k \in Credentials : Doc(Passkey(k)) = u /\ ~Erases(w, Passkey(k))
    <3>1. PICK k \in Credentials : Doc(Passkey(k)) = u /\ ~Erases(w, Passkey(k))
      BY <2>6
    <3>2. ~Erases(v, Passkey(k))
      BY <2>3, <3>1 DEF Removes
    <3>3. Sets(v, Passkey(k)) => v[Passkey(k)] = u
      BY <2>0, <3>1 DEF Safe, AccountsSafe, PasskeysSafe, Doc
    <3>4. Doc(Passkey(k))' = u
      BY <1>0, <3>1, <3>2, <3>3 DEF Sets, Erases
    <3> QED BY <2>2, <3>1, <3>4 DEF Leaves, Erases
  <2> QED BY <2>2, <2>4, <2>5, <2>6 DEF Leaves
<1>7. CredentialsSafe(w)'
  <2> SUFFICES ASSUME NEW u \in Subjects, Totp(u) \in DOMAIN w, w[Totp(u)].disabled,
                      NEW k \in RecoveryCodes, Exists(Recovery(k))', docs'[Recovery(k)].user = u
               PROVE  Erases(w, Recovery(k))
    BY DEF Safe, TotpSafe, CredentialsSafe, RecoveryOf, Erases
  <2>1. Exists(Recovery(k)) /\ docs[Recovery(k)].user = u
    <3>1. CASE Sets(v, Recovery(k))
      <4>1. v[Recovery(k)].user = u
        BY <3>1, WrittenDocs DEF Sound, Safe
      <4> QED BY <3>1, <4>1 DEF Safe, TotpSafe, CodesSafe
    <3>2. CASE ~Sets(v, Recovery(k))
      BY <3>2, WrittenDocs DEF Sound, Safe
    <3> QED BY <3>1, <3>2
  <2>2. Recovery(k) \in RecoveryOf(u)
    BY <2>1 DEF RecoveryOf
  <2> QED BY <2>2 DEF Safe, TotpSafe, CredentialsSafe
<1>8. CodesSafe(w)'
  BY <1>1 DEF Safe, TotpSafe, CodesSafe, Sets
<1>9. WriteOK(w)'
  BY DEF Safe, WriteOK, Values
<1> QED BY <1>2, <1>3, <1>4, <1>5, <1>6, <1>7, <1>8, <1>9 DEF Safe, AccountsSafe, TotpSafe

-----------------------------------------------------------------------------
(***************************************************************************)
(* The calls, and the inductive invariant.                                 *)
(***************************************************************************)

Times == 0..MaxTime

SessionCall(c) ==
    \/ c \in [method: {"create"}, rec: Cookie!Record]
    \/ c \in [method: {"extend"}, token: SessionTokens, at: Times, expires: Nat]
    \/ c \in [method: {"rotate"}, token: SessionTokens, at: Times, rec: Cookie!Record]
    \/ c \in [method: {"revoke"}, token: SessionTokens]
    \/ c \in [method: {"revokeAll"}, user: Subjects]

BearerCall(c) ==
    \/ c \in [method: {"createSession"}, sid: SessionIDs, user: Subjects, new: Tokens, at: Times]
    \/ c \in [method: {"revokeAccess"}, sid: SessionIDs]
    \/ c \in [method: {"revokeAllAccess"}, user: Subjects]
    \/ c \in [method: {"rotateRefresh"}, token: Tokens, new: Tokens, at: Times]

PasswordCall(c) ==
    \/ c \in [method: {"register"}, user: Users, email: Emails, hash: Hashes]
    \/ c \in [method: {"addPassword"}, user: Users, hash: Hashes]
    \/ c \in [method: {"replaceHash"}, user: Users, hash: Hashes, current: Hashes]
    \/ c \in [method: {"removePassword"}, user: Users, current: Hashes]

MailCall(c) ==
    \/ c \in [method: {"issue"}, kind: Kinds, user: Users, token: MailTokens]
    \/ c \in [method: {"verify"}, token: MailTokens]
    \/ c \in [method: {"reset"}, token: MailTokens, hash: Hashes]

IdentityCall(c) ==
    \/ c \in [method: {"resolve"}, identity: Identities, user: Users, email: Emails, new: {None}]
    \/ c \in [method: {"resolve"}, identity: Identities, user: {None}, email: Emails, new: Users]
    \/ c \in [method: {"unlink"}, user: Users]

PasskeyCall(c) ==
    \/ c \in [method: {"createCeremony"}, token: Ceremonies,
              type: {"registration", "authentication"}, user: Users \cup {None}]
    \/ c \in [method: {"completeRegistration", "completeAuthentication"}, token: Ceremonies,
              user: Users, credential: Credentials]
    \/ c \in [method: {"deleteCredential"}, user: Users, credential: Credentials]

TotpCall(c) ==
    \/ c \in [method: {"beginEnrollment"}, user: Subjects, secret: Secrets, at: Times]
    \/ c \in [method: {"enable"}, user: Subjects, counter: Nat, code: RecoveryCodes, at: Times]
    \/ c \in [method: {"disable"}, user: Subjects]
    \/ c \in [method: {"createChallenge"}, token: Challenges, user: Subjects, at: Times]
    \/ c \in [method: {"completeCode"}, token: Challenges, counter: Nat, at: Times]
    \/ c \in [method: {"completeRecovery"}, token: Challenges, code: RecoveryCodes, at: Times]

FlowCall(c) ==
    \/ c \in [method: {"createFlow"}, collection: FlowCollections, token: States, at: Times]
    \/ c \in [method: {"consumeFlow"}, collection: FlowCollections, token: States]

CallOK(c) ==
    \/ SessionCall(c) \/ BearerCall(c) \/ PasswordCall(c) \/ MailCall(c) \/ IdentityCall(c)
    \/ PasskeyCall(c) \/ TotpCall(c) \/ FlowCall(c)

\* The accounts that a call may create, by their fresh identifiers.
Creates(c) ==
    {u \in Users : \/ c.method = "register" /\ c.user = u
                   \/ c.method = "resolve" /\ c.user = None /\ c.new = u}

CreatedBy(r) == IF req[r].call = None THEN {} ELSE Creates(req[r].call)

ReqOK ==
    /\ req = [r \in Requests |-> req[r]]
    /\ \A r \in Requests :
          /\ req[r] = [call |-> req[r].call, out |-> req[r].out, seen |-> req[r].seen]
          /\ req[r] = Idle \/ CallOK(req[r].call)

\* A write that waits for its commit is safe, and inserts no account but the one that its
\* call brought.
PreparedOK(r) ==
    Prepared(r) =>
        /\ req[r].call # None /\ req[r].out.write # <<>>
        /\ Safe(req[r].out.write)
        /\ \A u \in Users : User(u) \in DOMAIN req[r].out.write =>
              Exists(User(u)) \/ u \in CreatedBy(r)

\* Identifiers of new accounts are fresh.
FreshOK ==
    /\ \A r \in Requests : \A u \in CreatedBy(r) : ~Exists(User(u))
    /\ \A r, x \in Requests : r # x => CreatedBy(r) \cap CreatedBy(x) = {}

Inv ==
    /\ Sound /\ now \in Times /\ ReqOK /\ FreshOK
    /\ \A r \in Requests : PreparedOK(r)

-----------------------------------------------------------------------------
(***************************************************************************)
(* Every method decides on a safe write: the helpers.                      *)
(***************************************************************************)

\* What the functions that writes are made of are; the write is named, so that the facts
\* make no new writes of the ones they are about.
LEMMA OneDoc ==
    ASSUME NEW w, NEW d, NEW v, w = d :> v
    PROVE  DOMAIN w = {d} /\ w[d] = v
BY DEF :>

Joins(w, f, g) == w = f @@ g

\* f @@ g writes what one of the two writes.
LEMMA MergedDomain ==
    ASSUME NEW w, NEW f, NEW g, Joins(w, f, g), NEW d
    PROVE  d \in DOMAIN w <=> d \in DOMAIN f \/ d \in DOMAIN g
BY DEF Joins, @@

\* Where both write, f counts.
LEMMA MergedValue ==
    ASSUME NEW w, NEW f, NEW g, Joins(w, f, g), NEW d
    PROVE  /\ d \in DOMAIN f => w[d] = f[d]
           /\ d \in DOMAIN g /\ d \notin DOMAIN f => w[d] = g[d]
BY DEF Joins, @@

\* DeleteMany deletes its documents and writes no other.
LEMMA ErasedDocs ==
    ASSUME NEW D
    PROVE  DOMAIN Erased(D) = D /\ \A d \in D : Erased(D)[d] = None
BY DEF Erased

\* One document is written to a value of its collection.
LEMMA OneDocOK ==
    ASSUME NEW d, NEW v, d[1] \in Collections, v \in Values(d[1]) \cup {None}
    PROVE  WriteOK(d :> v)
BY DEF WriteOK, IsFunction, :>

\* Two writes of known documents are one.
LEMMA MergedOK ==
    ASSUME NEW f, NEW g, WriteOK(f), WriteOK(g), NEW w, Joins(w, f, g)
    PROVE  WriteOK(w)
<1>1. IsFunction(w)
  BY DEF Joins, @@, IsFunction
<1>2. ASSUME NEW d \in DOMAIN w
      PROVE  d[1] \in Collections /\ w[d] \in Values(d[1]) \cup {None}
  <2>1. CASE d \in DOMAIN f
    <3>1. w[d] = f[d]
      BY <2>1 DEF Joins, @@
    <3> QED BY <2>1, <3>1 DEF WriteOK
  <2>2. CASE d \notin DOMAIN f
    <3>1. d \in DOMAIN g /\ w[d] = g[d]
      BY <2>2 DEF Joins, @@
    <3> QED BY <3>1 DEF WriteOK
  <2> QED BY <2>1, <2>2
<1> QED BY <1>1, <1>2 DEF WriteOK

\* Deletions are writes of known documents.
LEMMA ErasedOK ==
    ASSUME NEW D, \A d \in D : d[1] \in Collections
    PROVE  WriteOK(Erased(D))
BY DEF WriteOK, IsFunction, Erased

\* Nothing is written.
LEMMA NothingOK ==
    /\ DOMAIN <<>> = {} /\ WriteOK(<<>>)
    /\ \A answer : Refuse(answer).write = <<>>
    /\ \A w : Ok(w).write = w
BY DEF WriteOK, IsFunction, Refuse, Ok

AccountCollections ==
    {"users", "users.email", "password_credentials", "google_identities", "passkey_credentials"}

TotpCollections == {"totp_credentials", "totp_recovery_codes"}

\* What writes no document of an account is safe for accounts.
LEMMA NoAccountsSafe ==
    ASSUME NEW w, \A d \in DOMAIN w : d[1] \notin AccountCollections
    PROVE  AccountsSafe(w) /\ \A u : User(u) \notin DOMAIN w
<1>1. \A x : /\ User(x) \notin DOMAIN w /\ Email(x) \notin DOMAIN w /\ Password(x) \notin DOMAIN w
             /\ Identity(x) \notin DOMAIN w /\ Passkey(x) \notin DOMAIN w
  BY Keys DEF AccountCollections
<1> QED BY <1>1 DEF AccountsSafe, UsersSafe, EmailsSafe, IdentitiesSafe, PasskeysSafe,
                    RemovalsSafe, Removes, Sets, Erases

\* What writes no document of a second factor is safe for second factors.
LEMMA NoTotpSafe ==
    ASSUME NEW w, \A d \in DOMAIN w : d[1] \notin TotpCollections
    PROVE  TotpSafe(w)
<1>1. \A x : Totp(x) \notin DOMAIN w /\ Recovery(x) \notin DOMAIN w
  BY Keys DEF TotpCollections
<1> QED BY <1>1 DEF TotpSafe, CredentialsSafe, CodesSafe, Sets

\* A write of neither group.
LEMMA ElsewhereSafe ==
    ASSUME NEW w, WriteOK(w),
           \A d \in DOMAIN w : d[1] \notin AccountCollections \cup TotpCollections
    PROVE  Safe(w) /\ \A u : User(u) \notin DOMAIN w
BY NoAccountsSafe, NoTotpSafe DEF Safe

\* Writing nothing is safe.
LEMMA NothingSafe == Safe(<<>>) /\ \A u : User(u) \notin DOMAIN <<>>
BY NothingOK, ElsewhereSafe

\* UpdateMany that sets revoked_at.
LEMMA RevokingOK ==
    ASSUME DocsOK, NEW D,
           \A d \in D : d[1] \in {"sessions", "access_sessions", "refresh_tokens"}
    PROVE  /\ WriteOK(Revoking(D)) /\ DOMAIN Revoking(D) \subseteq D
           /\ Safe(Revoking(D)) /\ \A u : User(u) \notin DOMAIN Revoking(D)
<1> DEFINE w == Revoking(D)
<1>1. IsFunction(w) /\ DOMAIN w \subseteq D
  BY DEF Revoking, IsFunction
<1>2. ASSUME NEW d \in DOMAIN w
      PROVE  d[1] \in Collections /\ w[d] \in Values(d[1])
  <2>1. Exists(d) /\ d \in D /\ w[d] = [docs[d] EXCEPT !.revoked = TRUE]
    BY DEF Revoking
  <2>2. docs[d] \in Values(d[1])
    BY <2>1 DEF DocsOK, Exists
  <2>3. d[1] \in Collections
    BY <2>1 DEF Collections
  <2>4. ASSUME docs[d] \in Cookie!Record PROVE w[d] \in Cookie!Record
    BY <2>1, <2>4 DEF Cookie!Record
  <2>5. ASSUME docs[d] \in Bearer!AccessSession PROVE w[d] \in Bearer!AccessSession
    BY <2>1, <2>5 DEF Bearer!AccessSession
  <2>6. ASSUME docs[d] \in Bearer!RefreshToken PROVE w[d] \in Bearer!RefreshToken
    BY <2>1, <2>6 DEF Bearer!RefreshToken
  <2> QED BY <2>1, <2>2, <2>3, <2>4, <2>5, <2>6, ValuesOf
<1> HIDE DEF w
<1>3. WriteOK(w)
  BY <1>1, <1>2 DEF WriteOK
<1>4. \A d \in DOMAIN w : d[1] \notin AccountCollections \cup TotpCollections
  BY <1>1 DEF AccountCollections, TotpCollections
<1> QED BY <1>1, <1>3, <1>4, ElsewhereSafe DEF w

-----------------------------------------------------------------------------
(***************************************************************************)
(* The methods that write neither accounts nor second factors.             *)
(***************************************************************************)

\* What the method of a call decides is safe, and inserts no account but the call's.
DecidesSafely(c) ==
    LET w == Decision(c).write IN
    /\ Safe(w)
    /\ \A u \in Users : User(u) \in DOMAIN w => Exists(User(u)) \/ u \in Creates(c)

\* SessionStore decides on safe writes: its documents are no account's.
LEMMA SessionSafe ==
    ASSUME Sound, NEW c, SessionCall(c)
    PROVE  DecidesSafely(c)
<1> DEFINE w == Decision(c).write
<1> SUFFICES Safe(w) /\ \A u : User(u) \notin DOMAIN w
  BY DEF DecidesSafely
<1>1. ASSUME NEW rec \in Cookie!Record
      PROVE  /\ WriteOK(Session(rec.hash) :> rec)
             /\ \A d \in DOMAIN (Session(rec.hash) :> rec) : d[1] = "sessions"
  <2>1. /\ Session(rec.hash)[1] = "sessions" /\ "sessions" \in Collections
        /\ rec \in Values("sessions")
    BY Keys, ValuesOf DEF Collections
  <2>2. WriteOK(Session(rec.hash) :> rec)
    BY <2>1, OneDocOK
  <2> DEFINE one == Session(rec.hash) :> rec
  <2>3. DOMAIN one = {Session(rec.hash)}
    BY OneDoc
  <2> QED BY <2>1, <2>2, <2>3
<1>2. ASSUME NEW D, \A d \in D : \E t : d = Session(t)
      PROVE  \A d \in D : d[1] \in {"sessions", "access_sessions", "refresh_tokens"}
  BY <1>2, Keys
<1>3. CASE c \in [method: {"create"}, rec: Cookie!Record]
  <2>1. w = <<>> \/ w = Session(c.rec.hash) :> c.rec
    BY <1>3 DEF Decision, Create, Ok, Refuse
  <2> QED BY <1>1, <1>3, <2>1, ElsewhereSafe, NothingSafe DEF AccountCollections, TotpCollections
<1>4. CASE c \in [method: {"extend"}, token: SessionTokens, at: Times, expires: Nat]
  <2> DEFINE rec == [docs[Session(c.token)] EXCEPT !.last = c.at, !.expires = c.expires]
  <2>0. Decision(c) = Extend(c)
    BY <1>4 DEF Decision
  <2>1. w = <<>> \/ (Exists(Session(c.token)) /\ w = Session(c.token) :> rec)
    <3>1. Cookie!Extendable(c.token, c.at, c.expires) => Exists(Session(c.token))
      BY <1>4 DEF Cookie!Extendable, Cookie!Exists, Doc
    <3>2. w = Extend(c).write
      BY <2>0
    <3> HIDE DEF w
    <3> QED BY <3>1, <3>2 DEF Extend, Ok, Refuse
  <2>2. CASE Exists(Session(c.token)) /\ w = Session(c.token) :> rec
    <3>0. docs[Session(c.token)] \in Values(Session(c.token)[1])
      BY <2>2 DEF Sound, DocsOK, Exists
    <3>1. docs[Session(c.token)] \in Cookie!Record
      BY <3>0, Keys, ValuesOf
    <3>2. c.at \in Nat /\ c.expires \in Nat
      BY <1>4 DEF Times
    <3>3. rec \in Cookie!Record
      BY <3>1, <3>2 DEF Cookie!Record
    <3> HIDE DEF rec, w
    <3>4. Session(c.token)[1] = "sessions" /\ "sessions" \in Collections
      BY Keys DEF Collections
    <3>5. WriteOK(w)
      BY <2>2, <3>3, <3>4, OneDocOK, ValuesOf
    <3>6. DOMAIN w = {Session(c.token)}
      BY <2>2, OneDoc
    <3> QED BY <3>4, <3>5, <3>6, ElsewhereSafe DEF AccountCollections, TotpCollections
  <2> QED BY <2>1, <2>2, NothingSafe
<1>5. CASE c \in [method: {"rotate"}, token: SessionTokens, at: Times, rec: Cookie!Record]
  <2> DEFINE one == Session(c.rec.hash) :> c.rec
             old == Revoking({Session(c.token)})
  <2>1. w = <<>> \/ w = one @@ old
    BY <1>5 DEF Decision, Rotate, Ok, Refuse
  <2>2. CASE w = one @@ old
    <3>1. WriteOK(one) /\ \A d \in DOMAIN one : d[1] = "sessions"
      BY <1>1, <1>5
    <3>2. Session(c.token)[1] = "sessions"
      BY Keys
    <3>3. WriteOK(old) /\ DOMAIN old \subseteq {Session(c.token)}
      BY <1>2, RevokingOK DEF Sound
    <3>4. Joins(w, one, old)
      BY <2>2 DEF Joins
    <3> HIDE DEF one, old, w
    <3>5. WriteOK(w)
      BY <3>1, <3>3, <3>4, MergedOK
    <3>6. DOMAIN w = DOMAIN one \cup DOMAIN old
      BY <3>4, MergedDomain
    <3>7. \A d \in DOMAIN w : d[1] = "sessions"
      BY <3>1, <3>2, <3>3, <3>6
    <3> QED BY <3>5, <3>7, ElsewhereSafe DEF AccountCollections, TotpCollections
  <2> QED BY <2>1, <2>2, NothingSafe
<1>6. CASE c \in [method: {"revoke"}, token: SessionTokens]
  <2>1. w = <<>> \/ w = Revoking({Session(c.token)})
    BY <1>6 DEF Decision, Revoke, Ok, Refuse
  <2> QED BY <1>2, <2>1, NothingSafe, RevokingOK DEF Sound
<1>7. CASE c \in [method: {"revokeAll"}, user: Subjects]
  <2>1. w = Revoking(SessionDocs(c.user))
    BY <1>7 DEF Decision, RevokeAll, Ok
  <2>2. \A d \in SessionDocs(c.user) : \E t : d = Session(t)
    BY DEF SessionDocs
  <2> QED BY <1>2, <2>1, <2>2, RevokingOK DEF Sound
<1> QED BY <1>3, <1>4, <1>5, <1>6, <1>7 DEF SessionCall

\* A write that touches neither accounts nor second factors, and what is made of such.
Elsewhere(w) ==
    WriteOK(w) /\ \A d \in DOMAIN w : d[1] \notin AccountCollections \cup TotpCollections

\* One document that is neither an account's nor a second factor's.
LEMMA OneElsewhere ==
    ASSUME NEW d, NEW v, d[1] \in Collections \ (AccountCollections \cup TotpCollections),
           v \in Values(d[1]) \cup {None}
    PROVE  Elsewhere(d :> v)
<1> DEFINE w == d :> v
<1>1. WriteOK(w)
  BY OneDocOK
<1>2. DOMAIN w = {d}
  BY OneDoc
<1> QED BY <1>1, <1>2 DEF Elsewhere

\* Two writes of such documents.
LEMMA MergedElsewhere ==
    ASSUME NEW f, NEW g, Elsewhere(f), Elsewhere(g)
    PROVE  Elsewhere(f @@ g)
<1> DEFINE w == f @@ g
<1>1. Joins(w, f, g)
  BY DEF Joins
<1> HIDE DEF w
<1>2. WriteOK(w)
  BY <1>1, MergedOK DEF Elsewhere
<1>3. DOMAIN w = DOMAIN f \cup DOMAIN g
  BY <1>1, MergedDomain
<1>4. Elsewhere(w)
  BY <1>2, <1>3 DEF Elsewhere
<1> QED BY <1>4 DEF w

\* The deletion of such documents.
LEMMA ErasedElsewhere ==
    ASSUME NEW D, \A d \in D : d[1] \in Collections \ (AccountCollections \cup TotpCollections)
    PROVE  Elsewhere(Erased(D))
<1> DEFINE w == Erased(D)
<1>1. WriteOK(w)
  BY ErasedOK
<1>2. DOMAIN w = D
  BY ErasedDocs
<1> QED BY <1>1, <1>2 DEF Elsewhere

\* Which collections those are.
LEMMA OtherCollections ==
    {"sessions", "access_sessions", "refresh_tokens", "email_verifications", "password_resets",
     "passkey_ceremonies", "totp_enrollments", "totp_challenges"} \cup FlowCollections
      \subseteq Collections \ (AccountCollections \cup TotpCollections)
BY DEF Collections, AccountCollections, TotpCollections, Kinds, FlowCollections

\* A method that writes only such documents, or nothing, decides safely.
LEMMA DecidedElsewhere ==
    ASSUME NEW c, Elsewhere(Decision(c).write) \/ Decision(c).write = <<>>
    PROVE  DecidesSafely(c)
BY ElsewhereSafe, NothingSafe DEF Elsewhere, DecidesSafely

\* AccessSessionStore and RefreshTokenStore decide on safe writes.
LEMMA BearerSafe ==
    ASSUME Sound, NEW c, BearerCall(c)
    PROVE  DecidesSafely(c)
<1> DEFINE w == Decision(c).write
<1>0. \A sids : /\ Safe(RevokeSessions(sids))
                /\ \A u : User(u) \notin DOMAIN RevokeSessions(sids)
  BY Keys, RevokingOK DEF Sound, RevokeSessions
<1>1. CASE c \in [method: {"createSession"}, sid: SessionIDs, user: Subjects, new: Tokens, at: Times]
  <2> DEFINE session == Bearer!NewSession(c.user, c.at)
             token == Bearer!NewToken(c.sid, c.at + RefreshLifetime)
  <2>0. Decision(c) = CreateSession(c)
    BY <1>1 DEF Decision
  <2>1. w = <<>> \/ w = Access(c.sid) :> session @@ Refresh(c.new) :> token
    BY <2>0 DEF CreateSession, Ok, Refuse
  <2>2. c.at + RefreshLifetime \in Nat
    BY <1>1, MongoAssumption DEF Times
  <2>3. session \in Bearer!AccessSession
    BY <1>1, <2>2 DEF Bearer!NewSession, Bearer!AccessSession
  <2>4. token \in Bearer!RefreshToken
    BY <1>1, <2>2 DEF Bearer!NewToken, Bearer!RefreshToken
  <2> HIDE DEF session, token, w
  <2>5. Elsewhere(Access(c.sid) :> session)
    BY <2>3, Keys, ValuesOf, OtherCollections, OneElsewhere
  <2>6. Elsewhere(Refresh(c.new) :> token)
    BY <2>4, Keys, ValuesOf, OtherCollections, OneElsewhere
  <2>7. Elsewhere(Access(c.sid) :> session @@ Refresh(c.new) :> token)
    BY <2>5, <2>6, MergedElsewhere
  <2> QED BY <2>1, <2>7, DecidedElsewhere DEF w
<1>2. CASE c \in [method: {"revokeAccess"}, sid: SessionIDs]
  <2>1. w = RevokeSessions({c.sid})
    BY <1>2 DEF Decision, RevokeAccess, Ok
  <2> QED BY <1>0, <2>1 DEF DecidesSafely
<1>3. CASE c \in [method: {"revokeAllAccess"}, user: Subjects]
  <2>1. w = RevokeSessions(Bearer!SessionsOf(c.user))
    BY <1>3 DEF Decision, RevokeAllAccess, Ok
  <2> QED BY <1>0, <2>1 DEF DecidesSafely
<1>4. CASE c \in [method: {"rotateRefresh"}, token: Tokens, new: Tokens, at: Times]
  <2> DEFINE token == docs[Refresh(c.token)]
             new == Bearer!NewToken(token.session, token.expires)
             spent == [token EXCEPT !.rotated = TRUE]
  <2>0. Decision(c) = RotateRefresh(c)
    BY <1>4 DEF Decision
  <2>1. \/ w = <<>>
        \/ w = RevokeSessions({token.session})
        \/ Bearer!RefreshActive(c.token, c.at) /\ w = Refresh(c.new) :> new @@ Refresh(c.token) :> spent
    BY <2>0 DEF RotateRefresh, Ok, Refuse
  <2>2. ASSUME Bearer!RefreshActive(c.token, c.at)
        PROVE  Elsewhere(Refresh(c.new) :> new @@ Refresh(c.token) :> spent)
    <3>1. Exists(Refresh(c.token))
      BY <1>4, <2>2 DEF Bearer!RefreshActive, Doc
    <3>2. token \in Values(Refresh(c.token)[1])
      BY <3>1 DEF Sound, DocsOK, Exists
    <3>3. token \in Bearer!RefreshToken
      BY <3>2, Keys, ValuesOf
    <3>4. new \in Bearer!RefreshToken /\ spent \in Bearer!RefreshToken
      BY <3>3 DEF Bearer!NewToken, Bearer!RefreshToken
    <3> HIDE DEF new, spent
    <3>5. Elsewhere(Refresh(c.new) :> new) /\ Elsewhere(Refresh(c.token) :> spent)
      BY <3>4, Keys, ValuesOf, OtherCollections, OneElsewhere
    <3> QED BY <3>5, MergedElsewhere
  <2> QED BY <1>0, <2>1, <2>2, DecidedElsewhere DEF DecidesSafely
<1> QED BY <1>1, <1>2, <1>3, <1>4 DEF BearerCall

\* The stores of redirect flows decide on safe writes.
LEMMA FlowSafe ==
    ASSUME NEW c, FlowCall(c)
    PROVE  DecidesSafely(c)
<1> DEFINE w == Decision(c).write
           d == Flow(c.collection, c.token)
<1>0. c.collection \in FlowCollections /\ d[1] = c.collection
  BY Keys DEF FlowCall
<1>1. CASE c \in [method: {"createFlow"}, collection: FlowCollections, token: States, at: Times]
  <2>1. w = <<>> \/ w = d :> c.at
    BY <1>1 DEF Decision, CreateFlow, Ok, Refuse
  <2>2. c.at \in Values(d[1])
    BY <1>0, <1>1, ValuesOf, MongoAssumption DEF Times
  <2> HIDE DEF d, w
  <2>3. Elsewhere(d :> c.at)
    BY <1>0, <2>2, OtherCollections, OneElsewhere
  <2> QED BY <2>1, <2>3, DecidedElsewhere DEF w
<1>2. CASE c \in [method: {"consumeFlow"}, collection: FlowCollections, token: States]
  <2>1. w = <<>> \/ w = Erased({d})
    BY <1>2 DEF Decision, ConsumeFlow, Ok, Refuse
  <2> HIDE DEF d, w
  <2>3. Elsewhere(Erased({d}))
    BY <1>0, OtherCollections, ErasedElsewhere
  <2> QED BY <2>1, <2>3, DecidedElsewhere DEF w
<1> QED BY <1>1, <1>2 DEF FlowCall

-----------------------------------------------------------------------------
(***************************************************************************)
(* The methods that write accounts.                                        *)
(***************************************************************************)

\* No value that is written is mistaken for a deletion.
LEMMA SomeValue ==
    /\ \A u \in Users : u # None
    /\ \A h \in Hashes : h # None
    /\ \A row \in [email: Emails, verified: BOOLEAN] : row # None
    /\ \A row \in [secret: Secrets, last: Nat, disabled: BOOLEAN] : row # None
    /\ \A row \in [user: Subjects, used: BOOLEAN] : row # None
<1>1. {"users", "users.email", "password_credentials", "totp_credentials", "totp_recovery_codes"}
        \subseteq Collections
  BY DEF Collections
<1> QED BY <1>1, ValuesOf, NoValueAssumption

\* A write of none of the documents that decide who may sign in.
KeepsUsers(w) ==
    /\ \A u : User(u) \in DOMAIN w =>
          Exists(User(u)) /\ w[User(u)] # None /\ docs[User(u)].email = w[User(u)].email
    /\ \A e : Email(e) \notin DOMAIN w

KeepsWays(w) ==
    \A x : ~Erases(w, Password(x)) /\ ~Erases(w, Identity(x)) /\ ~Erases(w, Passkey(x))

\* What inserts no user and no address is safe for both.
LEMMA KeepsUsersSafe ==
    ASSUME NEW w, KeepsUsers(w)
    PROVE  UsersSafe(w) /\ EmailsSafe(w) /\ \A u : User(u) \in DOMAIN w => Exists(User(u))
BY DEF KeepsUsers, UsersSafe, EmailsSafe

\* What deletes no way to sign in removes none.
LEMMA KeepsWaysSafe ==
    ASSUME NEW w, KeepsWays(w)
    PROVE  RemovalsSafe(w)
BY DEF KeepsWays, RemovalsSafe, Removes

\* A write that changes no identity, or no passkey, or takes one away.
LEMMA NoneSet ==
    ASSUME NEW w
    PROVE  /\ (\A p \in Identities : ~Sets(w, Identity(p))) => IdentitiesSafe(w)
           /\ (\A k \in Credentials : ~Sets(w, Passkey(k))) => PasskeysSafe(w)
BY DEF IdentitiesSafe, PasskeysSafe

\* LockUser followed by a write of something else.
LEMMA Locked ==
    ASSUME Sound, NEW u, Exists(User(u)), NEW g, WriteOK(g),
           \A d \in DOMAIN g : d[1] \notin {"users", "users.email"} \cup TotpCollections,
           NEW w, Joins(w, LockUser(u), g)
    PROVE  /\ WriteOK(w) /\ KeepsUsers(w) /\ TotpSafe(w)
           /\ DOMAIN w = {User(u)} \cup DOMAIN g
<1> DEFINE lock == LockUser(u)
<1>1. User(u)[1] = "users" /\ "users" \in Collections
  BY Keys DEF Collections
<1>2. docs[User(u)] \in [email: Emails, verified: BOOLEAN]
  BY Typed DEF Sound
<1>3. WriteOK(lock)
  BY <1>1, <1>2, ValuesOf, OneDocOK DEF LockUser
<1>4. DOMAIN lock = {User(u)} /\ lock[User(u)] = docs[User(u)]
  BY DEF LockUser, :>
<1>5. Joins(w, lock, g)
  OBVIOUS
<1> HIDE DEF lock
<1>6. WriteOK(w)
  BY <1>3, <1>5, MergedOK
<1>7. /\ DOMAIN w = {User(u)} \cup DOMAIN g /\ w[User(u)] = docs[User(u)]
      /\ \A d \in DOMAIN g : d # User(u) => w[d] = g[d]
  <2>1. DOMAIN w = DOMAIN lock \cup DOMAIN g
    BY <1>5, MergedDomain
  <2>2. w[User(u)] = docs[User(u)]
    BY <1>4, <1>5, MergedValue
  <2>3. ASSUME NEW d \in DOMAIN g, d # User(u) PROVE w[d] = g[d]
    BY <1>4, <1>5, <2>3, MergedValue
  <2> QED BY <1>4, <2>1, <2>2, <2>3
<1>8. \A v : User(v) \in DOMAIN w => User(v) = User(u)
  BY <1>7, Keys
<1>9. KeepsUsers(w)
  <2>1. \A e : Email(e) \notin DOMAIN w
    BY <1>7, Keys
  <2> QED BY <1>2, <1>7, <1>8, <2>1, SomeValue DEF KeepsUsers
<1>10. TotpSafe(w)
  BY <1>1, <1>7, NoTotpSafe DEF TotpCollections
<1> QED BY <1>6, <1>7, <1>9, <1>10

\* Beside LockUser a write keeps its own values ...
LEMMA LockedValue ==
    ASSUME NEW w, NEW u, NEW g, Joins(w, LockUser(u), g), NEW d \in DOMAIN g, d[1] # "users"
    PROVE  w[d] = g[d]
<1>1. DOMAIN LockUser(u) = {User(u)}
  BY DEF LockUser, :>
<1>2. d # User(u)
  BY Keys
<1> QED BY <1>1, <1>2, MergedValue

\* A new account, with a first way to sign in.
LEMMA NewAccount ==
    ASSUME NEW u \in Users, NEW e \in Emails, NEW verified \in BOOLEAN,
           ~Exists(User(u)), ~Exists(Email(e)), NEW g, WriteOK(g),
           \A d \in DOMAIN g : d[1] \notin {"users", "users.email"} \cup TotpCollections,
           \/ Sets(g, Password(u))
           \/ \E p \in Identities : Sets(g, Identity(p)) /\ g[Identity(p)] = u,
           NEW w, Joins(w, NewUser(u, e, verified), g)
    PROVE  /\ WriteOK(w) /\ UsersSafe(w) /\ EmailsSafe(w) /\ TotpSafe(w)
           /\ DOMAIN w = {User(u), Email(e)} \cup DOMAIN g
           /\ w[User(u)] # None
<1> DEFINE row == [email |-> e, verified |-> verified]
           user == User(u) :> row
           email == Email(e) :> u
           new == user @@ email
<1>1. /\ User(u)[1] = "users" /\ "users" \in Collections
      /\ Email(e)[1] = "users.email" /\ "users.email" \in Collections
  BY Keys DEF Collections
<1>2. row \in [email: Emails, verified: BOOLEAN] /\ row.email = e
  OBVIOUS
<1>3. WriteOK(user)
  BY <1>1, <1>2, ValuesOf, OneDocOK
<1>4. WriteOK(email)
  BY <1>1, ValuesOf, OneDocOK
<1>5. /\ DOMAIN user = {User(u)} /\ user[User(u)] = row
      /\ DOMAIN email = {Email(e)} /\ email[Email(e)] = u
  BY DEF :>
<1>6. Joins(w, new, g) /\ Joins(new, user, email)
  BY DEF NewUser, Joins
<1> HIDE DEF row, user, email, new
<1>7. DOMAIN new = {User(u), Email(e)} /\ new[User(u)] = row /\ new[Email(e)] = u
  <2>1. DOMAIN new = DOMAIN user \cup DOMAIN email
    BY <1>6, MergedDomain
  <2>2. new[User(u)] = row
    BY <1>5, <1>6, MergedValue
  <2>3. new[Email(e)] = u
    BY <1>1, <1>5, <1>6, MergedValue
  <2> QED BY <1>5, <2>1, <2>2, <2>3
<1>8. WriteOK(new)
  BY <1>3, <1>4, <1>6, MergedOK
<1>9. WriteOK(w)
  BY <1>6, <1>8, MergedOK
<1>10. /\ DOMAIN w = {User(u), Email(e)} \cup DOMAIN g
       /\ w[User(u)] = row /\ w[Email(e)] = u
       /\ \A d \in DOMAIN g : d \notin {User(u), Email(e)} => w[d] = g[d]
  <2>1. DOMAIN w = DOMAIN new \cup DOMAIN g
    BY <1>6, MergedDomain
  <2>2. w[User(u)] = row /\ w[Email(e)] = u
    BY <1>6, <1>7, MergedValue
  <2>3. ASSUME NEW d \in DOMAIN g, d \notin {User(u), Email(e)} PROVE w[d] = g[d]
    BY <1>6, <1>7, <2>3, MergedValue
  <2> QED BY <1>7, <2>1, <2>2, <2>3
<1>11. \A d \in DOMAIN g : w[d] = g[d]
  BY <1>1, <1>10
<1>12. \A v : User(v) \in DOMAIN w => v = u
  BY <1>10, Keys
<1>13. \A a : Email(a) \in DOMAIN w => a = e
  BY <1>10, Keys
<1>14. row # None /\ u # None
  BY <1>2, SomeValue
<1>15. \/ Sets(w, Password(u))
       \/ \E p \in Identities : Sets(w, Identity(p)) /\ w[Identity(p)] = u
  BY <1>10, <1>11 DEF Sets
<1>16. UsersSafe(w)
  BY <1>2, <1>10, <1>12, <1>14, <1>15 DEF UsersSafe, Sets
<1>17. EmailsSafe(w)
  BY <1>2, <1>10, <1>13, <1>14 DEF EmailsSafe
<1>18. TotpSafe(w)
  BY <1>1, <1>10, NoTotpSafe DEF TotpCollections
<1> QED BY <1>9, <1>10, <1>14, <1>16, <1>17, <1>18

\* ... and so it does beside the insertion of an account.
LEMMA NewAccountValue ==
    ASSUME NEW w, NEW u, NEW e, NEW verified \in BOOLEAN, NEW g,
           Joins(w, NewUser(u, e, verified), g),
           NEW d \in DOMAIN g, d[1] \notin {"users", "users.email"}
    PROVE  w[d] = g[d]
<1>1. DOMAIN NewUser(u, e, verified) = {User(u), Email(e)}
  BY DEF NewUser, :>, @@
<1>2. d \notin {User(u), Email(e)}
  BY Keys
<1> QED BY <1>1, <1>2, MergedValue

\* A password is written to one of the hashes, or erased.
LEMMA PasswordDoc ==
    ASSUME NEW u, NEW h \in Hashes \cup {None}
    PROVE  LET g == Password(u) :> h IN
           /\ WriteOK(g)
           /\ DOMAIN g = {Password(u)} /\ g[Password(u)] = h
           /\ \A d \in DOMAIN g :
                 d[1] = "password_credentials" /\ d[1] \notin {"users", "users.email"} \cup TotpCollections
<1> DEFINE g == Password(u) :> h
<1>1. Password(u)[1] = "password_credentials" /\ "password_credentials" \in Collections
  BY Keys DEF Collections
<1>2. WriteOK(g)
  BY <1>1, ValuesOf, OneDocOK
<1>3. DOMAIN g = {Password(u)} /\ g[Password(u)] = h
  BY DEF :>
<1> QED BY <1>1, <1>2, <1>3 DEF TotpCollections

\* The accounts a call is to create do not exist yet.
FreshFor(c) == \A u \in Creates(c) : ~Exists(User(u))

\* The password store decides on safe writes.
LEMMA PasswordSafe ==
    ASSUME Sound, NEW c, PasswordCall(c), FreshFor(c)
    PROVE  DecidesSafely(c)
<1> DEFINE w == Decision(c).write
           u == c.user
<1>1. CASE c \in [method: {"register"}, user: Users, email: Emails, hash: Hashes]
  <2> DEFINE verified == FALSE
             g == Password(u) :> c.hash
             x == NewUser(u, c.email, verified) @@ g
  <2>1. Decision(c) = Register(c)
    BY <1>1 DEF Decision
  <2>2. Register(c) = IF Exists(Email(c.email)) THEN Refuse("conflict") ELSE Ok(x)
    BY Zenon DEF Register
  <2>3. verified \in BOOLEAN
    OBVIOUS
  <2> HIDE DEF verified
  <2>4. w = <<>> \/ (~Exists(Email(c.email)) /\ w = x)
    <3> HIDE DEF x
    <3> QED BY <2>1, <2>2 DEF Ok, Refuse
  <2>5. u \in Creates(c) /\ ~Exists(User(u))
    BY <1>1 DEF FreshFor, Creates
  <2>6. CASE ~Exists(Email(c.email)) /\ w = x
    <3>1. /\ WriteOK(g) /\ DOMAIN g = {Password(u)} /\ g[Password(u)] = c.hash
          /\ \A d \in DOMAIN g :
                d[1] = "password_credentials" /\ d[1] \notin {"users", "users.email"} \cup TotpCollections
      BY <1>1, PasswordDoc
    <3>2. Sets(g, Password(u)) /\ c.hash # None
      BY <1>1, <3>1, SomeValue DEF Sets
    <3> HIDE DEF g
    <3>3. /\ WriteOK(x) /\ UsersSafe(x) /\ EmailsSafe(x) /\ TotpSafe(x)
          /\ DOMAIN x = {User(u), Email(c.email), Password(u)}
          /\ x[Password(u)] = c.hash
      <4>1. c.user \in Users /\ c.email \in Emails
        BY <1>1
      <4>2. Joins(x, NewUser(u, c.email, verified), g)
        BY DEF Joins
      <4> HIDE DEF x
      <4>3. /\ WriteOK(x) /\ UsersSafe(x) /\ EmailsSafe(x) /\ TotpSafe(x)
            /\ DOMAIN x = {User(u), Email(c.email)} \cup DOMAIN g
        BY <2>3, <2>5, <2>6, <3>1, <3>2, <4>1, <4>2, NewAccount
      <4>4. x[Password(u)] = g[Password(u)]
        BY <2>3, <3>1, <4>2, NewAccountValue
      <4> QED BY <3>1, <4>3, <4>4
    <3> HIDE DEF x
    <3>4. IdentitiesSafe(x) /\ PasskeysSafe(x)
      BY <3>3, Keys DEF IdentitiesSafe, PasskeysSafe, Sets
    <3>5. KeepsWays(x)
      BY <3>2, <3>3, Keys DEF KeepsWays, Erases
    <3>6. \A v : User(v) \in DOMAIN x => v = u
      BY <3>3, Keys
    <3> QED BY <2>5, <2>6, <3>3, <3>4, <3>5, <3>6, KeepsWaysSafe DEF DecidesSafely, Safe, AccountsSafe
  <2> QED BY <2>4, <2>6, NothingSafe DEF DecidesSafely
<1>2. CASE c \in [method: {"addPassword"}, user: Users, hash: Hashes]
  <2> DEFINE g == Password(u) :> c.hash
             x == LockUser(u) @@ g
  <2>0. Decision(c) = AddPassword(c)
    BY <1>2 DEF Decision
  <2>1. w = <<>> \/ (Exists(User(u)) /\ w = x)
    BY <2>0 DEF AddPassword, Ok, Refuse
  <2>2. CASE Exists(User(u)) /\ w = x
    <3>1. /\ WriteOK(g) /\ DOMAIN g = {Password(u)} /\ g[Password(u)] = c.hash
          /\ \A d \in DOMAIN g :
                d[1] = "password_credentials" /\ d[1] \notin {"users", "users.email"} \cup TotpCollections
      BY <1>2, PasswordDoc
    <3>2. c.hash # None
      BY <1>2, SomeValue
    <3> HIDE DEF g
    <3>3. /\ WriteOK(x) /\ KeepsUsers(x) /\ TotpSafe(x)
          /\ DOMAIN x = {User(u), Password(u)} /\ x[Password(u)] = c.hash
      <4>1. Joins(x, LockUser(u), g)
        BY DEF Joins
      <4> HIDE DEF x
      <4>2. /\ WriteOK(x) /\ KeepsUsers(x) /\ TotpSafe(x)
            /\ DOMAIN x = {User(u)} \cup DOMAIN g
        BY <2>2, <3>1, <4>1, Locked
      <4>3. x[Password(u)] = g[Password(u)]
        BY <3>1, <4>1, LockedValue
      <4> QED BY <3>1, <4>2, <4>3
    <3> HIDE DEF x
    <3>4. IdentitiesSafe(x) /\ PasskeysSafe(x)
      BY <3>3, Keys DEF IdentitiesSafe, PasskeysSafe, Sets
    <3>5. KeepsWays(x)
      BY <3>2, <3>3, Keys DEF KeepsWays, Erases
    <3> QED BY <2>2, <3>3, <3>4, <3>5, KeepsWaysSafe, KeepsUsersSafe DEF DecidesSafely, Safe, AccountsSafe
  <2> QED BY <2>1, <2>2, NothingSafe DEF DecidesSafely
<1>3. CASE c \in [method: {"replaceHash"}, user: Users, hash: Hashes, current: Hashes]
  <2> DEFINE g == Password(u) :> c.hash
  <2>1. w = <<>> \/ w = g
    BY <1>3 DEF Decision, ReplacePasswordHash, Ok, Refuse
  <2>2. /\ WriteOK(g) /\ DOMAIN g = {Password(u)} /\ g[Password(u)] = c.hash
        /\ \A d \in DOMAIN g : d[1] \notin {"users", "users.email"} \cup TotpCollections
    BY <1>3, PasswordDoc
  <2>3. c.hash # None
    BY <1>3, SomeValue
  <2> HIDE DEF g
  <2>4. IdentitiesSafe(g) /\ PasskeysSafe(g)
    BY <2>2, Keys DEF IdentitiesSafe, PasskeysSafe, Sets
  <2>5. KeepsWays(g)
    BY <2>2, <2>3, Keys DEF KeepsWays, Erases
  <2>6. KeepsUsers(g)
    BY <2>2, Keys DEF KeepsUsers
  <2>7. TotpSafe(g)
    BY <2>2, NoTotpSafe
  <2> QED BY <2>1, <2>2, <2>4, <2>5, <2>6, <2>7, KeepsWaysSafe, KeepsUsersSafe, NothingSafe
          DEF DecidesSafely, Safe, AccountsSafe
<1>4. CASE c \in [method: {"removePassword"}, user: Users, current: Hashes]
  <2> DEFINE g == Erased({Password(u)})
             x == LockUser(u) @@ g
  <2>0. Decision(c) = RemovePassword(c)
    BY <1>4 DEF Decision
  <2>1. w = <<>> \/ (Exists(User(u)) /\ IdentitiesOf(u) \cup PasskeysOf(u) # {} /\ w = x)
    BY <2>0 DEF RemovePassword, Ok, Refuse
  <2>2. CASE Exists(User(u)) /\ IdentitiesOf(u) \cup PasskeysOf(u) # {} /\ w = x
    <3>1. Password(u)[1] = "password_credentials" /\ "password_credentials" \in Collections
      BY Keys DEF Collections
    <3>2. WriteOK(g)
      BY <3>1, ErasedOK
    <3>3. DOMAIN g = {Password(u)} /\ g[Password(u)] = None
      BY ErasedDocs
    <3> HIDE DEF g
    <3>4. \A d \in DOMAIN g : d[1] \notin {"users", "users.email"} \cup TotpCollections
      BY <3>1, <3>3 DEF TotpCollections
    <3>5. /\ WriteOK(x) /\ KeepsUsers(x) /\ TotpSafe(x)
          /\ DOMAIN x = {User(u)} \cup DOMAIN g
          /\ x[Password(u)] = g[Password(u)]
      <4>1. Joins(x, LockUser(u), g)
        BY DEF Joins
      <4> HIDE DEF x
      <4>2. x[Password(u)] = g[Password(u)]
        BY <3>1, <3>3, <4>1, LockedValue
      <4> QED BY <2>2, <3>2, <3>4, <4>1, <4>2, Locked
    <3>6. DOMAIN x = {User(u), Password(u)} /\ x[Password(u)] = None
      BY <3>3, <3>5
    <3> HIDE DEF x
    <3>7. IdentitiesSafe(x) /\ PasskeysSafe(x)
      BY <3>6, Keys DEF IdentitiesSafe, PasskeysSafe, Sets
    <3>8. \A v : Removes(x, v) => v = u
      BY <3>6, Keys DEF Removes, Erases
    <3>9. Leaves(x, u)
      BY <2>2, <3>6, Keys DEF Leaves, Erases, IdentitiesOf, PasskeysOf
    <3>10. RemovalsSafe(x)
      BY <3>6, <3>8, <3>9 DEF RemovalsSafe
    <3> QED BY <2>2, <3>5, <3>7, <3>10, KeepsUsersSafe DEF DecidesSafely, Safe, AccountsSafe
  <2> QED BY <2>1, <2>2, NothingSafe DEF DecidesSafely
<1> QED BY <1>1, <1>2, <1>3, <1>4 DEF PasswordCall

\* A write that erases one mailed token.
LEMMA ErasedMail ==
    ASSUME NEW kind \in Kinds, NEW u
    PROVE  LET g == Erased({Mail(kind, u)}) IN
           /\ WriteOK(g) /\ DOMAIN g = {Mail(kind, u)} /\ Mail(kind, u)[1] = kind
           /\ kind \notin AccountCollections \cup TotpCollections
<1>1. Mail(kind, u)[1] = kind /\ kind \in Collections
  BY Keys DEF Collections
<1>2. kind \notin AccountCollections \cup TotpCollections
  BY DEF Kinds, AccountCollections, TotpCollections
<1> QED BY <1>1, <1>2, ErasedOK, ErasedDocs

\* The stores of mailed tokens decide on safe writes.
LEMMA MailSafe ==
    ASSUME Sound, NEW c, MailCall(c)
    PROVE  DecidesSafely(c)
<1> DEFINE w == Decision(c).write
<1>1. CASE c \in [method: {"issue"}, kind: Kinds, user: Users, token: MailTokens]
  <2>1. w = Mail(c.kind, c.user) :> c.token
    BY <1>1 DEF Decision, Issue, Ok
  <2>2. /\ c.kind \in Kinds /\ c.token \in MailTokens
        /\ c.kind \in Collections \ (AccountCollections \cup TotpCollections)
    BY <1>1 DEF Kinds, Collections, AccountCollections, TotpCollections
  <2>3. Elsewhere(Mail(c.kind, c.user) :> c.token)
    BY <2>2, Keys, ValuesOf, OneElsewhere
  <2> QED BY <2>1, <2>3, DecidedElsewhere
<1>2. CASE c \in [method: {"verify"}, token: MailTokens]
  <2> DEFINE found == {u \in MailedTo("email_verifications", c.token) : Exists(User(u))}
             u == CHOOSE u \in found : TRUE
             row == [docs[User(u)] EXCEPT !.verified = TRUE]
             f == User(u) :> row
             g == Erased({Mail("email_verifications", u)})
             x == f @@ g
  <2>1. Decision(c) = Verify(c)
    BY <1>2 DEF Decision
  <2>2. w = <<>> \/ (found # {} /\ w = x)
    BY <2>1 DEF Verify, Ok, Refuse
  <2>3. CASE found # {} /\ w = x
    <3>1. u \in Users /\ Exists(User(u))
      BY <2>3 DEF MailedTo
    <3> HIDE DEF found, u
    <3>2. docs[User(u)] \in [email: Emails, verified: BOOLEAN]
      BY <3>1, Typed DEF Sound
    <3>3. row \in [email: Emails, verified: BOOLEAN] /\ row.email = docs[User(u)].email
      BY <3>2
    <3>4. row # None
      BY <3>3, SomeValue
    <3>5. User(u)[1] = "users" /\ "users" \in Collections
      BY Keys DEF Collections
    <3> HIDE DEF row
    <3>6. WriteOK(f)
      BY <3>3, <3>5, ValuesOf, OneDocOK
    <3>7. DOMAIN f = {User(u)} /\ f[User(u)] = row
      BY DEF :>
    <3>8. /\ WriteOK(g) /\ DOMAIN g = {Mail("email_verifications", u)}
          /\ Mail("email_verifications", u)[1] = "email_verifications"
      BY ErasedMail DEF Kinds
    <3>9. Joins(x, f, g)
      BY DEF Joins
    <3> HIDE DEF f, g, x
    <3>10. WriteOK(x)
      BY <3>6, <3>8, <3>9, MergedOK
    <3>11. DOMAIN x = {User(u), Mail("email_verifications", u)}
      <4>1. DOMAIN x = DOMAIN f \cup DOMAIN g
        BY <3>9, MergedDomain
      <4> QED BY <4>1, <3>7, <3>8
    <3>12. x[User(u)] = row
      BY <3>7, <3>9, MergedValue
    <3>13. \A v : User(v) \in DOMAIN x => User(v) = User(u)
      BY <3>8, <3>11, Keys
    <3>14. KeepsUsers(x)
      <4>1. \A e : Email(e) \notin DOMAIN x
        BY <3>8, <3>11, Keys
      <4> QED BY <4>1, <3>1, <3>3, <3>4, <3>12, <3>13 DEF KeepsUsers
    <3>15. KeepsWays(x) /\ IdentitiesSafe(x) /\ PasskeysSafe(x)
      BY <3>8, <3>11, Keys DEF KeepsWays, Erases, Sets, IdentitiesSafe, PasskeysSafe
    <3>16. TotpSafe(x)
      BY <3>5, <3>8, <3>11, NoTotpSafe DEF TotpCollections
    <3> QED BY <2>3, <3>10, <3>14, <3>15, <3>16, KeepsUsersSafe, KeepsWaysSafe
            DEF DecidesSafely, Safe, AccountsSafe
  <2> QED BY <2>2, <2>3, NothingSafe DEF DecidesSafely
<1>3. CASE c \in [method: {"reset"}, token: MailTokens, hash: Hashes]
  <2> DEFINE found == {u \in MailedTo("password_resets", c.token) : Exists(User(u))}
             u == CHOOSE u \in found : TRUE
             f == Password(u) :> c.hash
             g == Erased({Mail("password_resets", u)})
             x == f @@ g
  <2>1. Decision(c) = ResetPassword(c)
    BY <1>3 DEF Decision
  <2>2. w = <<>> \/ w = x
    BY <2>1 DEF ResetPassword, Ok, Refuse
  <2>3. CASE w = x
    <3> HIDE DEF found, u
    <3>1. /\ WriteOK(f) /\ DOMAIN f = {Password(u)} /\ f[Password(u)] = c.hash
      BY <1>3, PasswordDoc
    <3>2. c.hash # None
      BY <1>3, SomeValue
    <3>3. /\ WriteOK(g) /\ DOMAIN g = {Mail("password_resets", u)}
          /\ Mail("password_resets", u)[1] = "password_resets"
      BY ErasedMail DEF Kinds
    <3>4. Joins(x, f, g)
      BY DEF Joins
    <3> HIDE DEF f, g, x
    <3>5. WriteOK(x)
      BY <3>1, <3>3, <3>4, MergedOK
    <3>6. DOMAIN x = {Password(u), Mail("password_resets", u)}
      <4>1. DOMAIN x = DOMAIN f \cup DOMAIN g
        BY <3>4, MergedDomain
      <4> QED BY <4>1, <3>1, <3>3
    <3>7. x[Password(u)] = c.hash
      BY <3>1, <3>4, MergedValue
    <3>8. KeepsUsers(x) /\ IdentitiesSafe(x) /\ PasskeysSafe(x)
      BY <3>3, <3>6, Keys DEF KeepsUsers, Sets, IdentitiesSafe, PasskeysSafe
    <3>9. KeepsWays(x)
      BY <3>2, <3>3, <3>6, <3>7, Keys DEF KeepsWays, Erases
    <3>10. TotpSafe(x)
      BY <3>3, <3>6, Keys, NoTotpSafe DEF TotpCollections
    <3> QED BY <2>3, <3>5, <3>8, <3>9, <3>10, KeepsUsersSafe, KeepsWaysSafe
            DEF DecidesSafely, Safe, AccountsSafe
  <2> QED BY <2>2, <2>3, NothingSafe DEF DecidesSafely
<1> QED BY <1>1, <1>2, <1>3 DEF MailCall

\* An identity is written with its owner.
LEMMA IdentityDoc ==
    ASSUME NEW p, NEW u \in Users
    PROVE  LET g == Identity(p) :> u IN
           /\ WriteOK(g)
           /\ DOMAIN g = {Identity(p)} /\ g[Identity(p)] = u
           /\ \A d \in DOMAIN g :
                 d[1] = "google_identities" /\ d[1] \notin {"users", "users.email"} \cup TotpCollections
<1> DEFINE g == Identity(p) :> u
<1>1. Identity(p)[1] = "google_identities" /\ "google_identities" \in Collections
  BY Keys DEF Collections
<1>2. WriteOK(g)
  BY <1>1, ValuesOf, OneDocOK
<1>3. DOMAIN g = {Identity(p)} /\ g[Identity(p)] = u
  BY DEF :>
<1> QED BY <1>1, <1>2, <1>3 DEF TotpCollections

\* An account that does not exist has no identity.
LEMMA NoIdentities ==
    ASSUME Sound, NEW u \in Users, ~Exists(User(u))
    PROVE  IdentitiesOf(u) = {}
BY SomeValue DEF Sound, OwnersExist, IdentitiesOf, Doc

\* The Google store decides on safe writes: linking and unlinking lock the owner.
LEMMA IdentitySafe ==
    ASSUME Sound, NEW c, IdentityCall(c), FreshFor(c)
    PROVE  DecidesSafely(c)
<1> DEFINE w == Decision(c).write
           p == c.identity
           d == Identity(p)
<1>1. CASE Exists(d) /\ c.method = "resolve"
  <2> DEFINE owner == docs[d]
             g == d :> owner
  <2>1. w = <<>> \/ w = g
    BY <1>1 DEF Decision, ResolveIdentity, ResolveKnown, Ok, Refuse
  <2>2. owner \in Users /\ owner # None
    BY <1>1, Typed, SomeValue DEF Sound
  <2> HIDE DEF owner
  <2>3. /\ WriteOK(g) /\ DOMAIN g = {Identity(p)} /\ g[Identity(p)] = owner
    BY <2>2, IdentityDoc
  <2> HIDE DEF g
  <2>4. KeepsUsers(g) /\ PasskeysSafe(g)
    BY <2>3, Keys DEF KeepsUsers, PasskeysSafe, Sets
  <2>5. KeepsWays(g)
    BY <2>2, <2>3, Keys DEF KeepsWays, Erases
  <2>6. IdentitiesSafe(g)
    BY <1>1, <2>3, Keys DEF IdentitiesSafe, Sets, owner
  <2>7. TotpSafe(g)
    BY <2>3, Keys, NoTotpSafe DEF TotpCollections
  <2> QED BY <2>1, <2>3, <2>4, <2>5, <2>6, <2>7, KeepsUsersSafe, KeepsWaysSafe, NothingSafe
          DEF DecidesSafely, Safe, AccountsSafe
<1>2. CASE /\ ~Exists(d)
           /\ c \in [method: {"resolve"}, identity: Identities, user: Users, email: Emails, new: {None}]
  <2> DEFINE u == c.user
             g == d :> u
             x == LockUser(u) @@ g
  <2>1. c.user # None /\ Decision(c) = ResolveLink(c)
    BY <1>2, SomeValue DEF Decision, ResolveIdentity
  <2>2. w = <<>> \/ (Exists(User(u)) /\ IdentitiesOf(u) = {} /\ w = x)
    BY <2>1 DEF ResolveLink, Ok, Refuse
  <2>3. CASE Exists(User(u)) /\ IdentitiesOf(u) = {} /\ w = x
    <3>1. /\ WriteOK(g) /\ DOMAIN g = {d} /\ g[d] = u
          /\ \A e \in DOMAIN g :
                e[1] = "google_identities" /\ e[1] \notin {"users", "users.email"} \cup TotpCollections
      BY <1>2, IdentityDoc
    <3>2. Joins(x, LockUser(u), g)
      BY DEF Joins
    <3> HIDE DEF g, x, d
    <3>3. /\ WriteOK(x) /\ KeepsUsers(x) /\ TotpSafe(x)
          /\ DOMAIN x = {User(u)} \cup DOMAIN g
      BY <2>3, <3>1, <3>2, Locked
    <3>4. x[d] = u
      BY <3>1, <3>2, LockedValue
    <3> HIDE DEF u
    <3>5. DOMAIN x = {User(u), Identity(p)} /\ x[Identity(p)] = u
      BY <3>1, <3>3, <3>4 DEF d
    <3>6. PasskeysSafe(x)
      BY <3>5, Keys DEF PasskeysSafe, Sets
    <3>7. KeepsWays(x)
      BY <2>1, <3>5, Keys DEF KeepsWays, Erases, u
    <3>8. \A q : Sets(x, Identity(q)) => q = p
      BY <3>5, Keys DEF Sets
    <3>9. Sets(x, User(u))
      BY <3>3, <3>5 DEF KeepsUsers, Sets
    <3>10. IdentitiesSafe(x)
      BY <1>2, <2>3, <3>5, <3>8, <3>9 DEF IdentitiesSafe, d
    <3> QED BY <2>3, <3>3, <3>6, <3>7, <3>10, KeepsUsersSafe, KeepsWaysSafe
            DEF DecidesSafely, Safe, AccountsSafe
  <2> QED BY <2>2, <2>3, NothingSafe DEF DecidesSafely
<1>3. CASE /\ ~Exists(d)
           /\ c \in [method: {"resolve"}, identity: Identities, user: {None}, email: Emails, new: Users]
  <2> DEFINE verified == TRUE
             u == c.new
             g == d :> u
             x == NewUser(u, c.email, verified) @@ g
  <2>1. Decision(c) = ResolveCreate(c)
    BY <1>3 DEF Decision, ResolveIdentity
  <2>2. ResolveCreate(c) = IF Exists(Email(c.email)) THEN Refuse("link_required") ELSE Ok(x)
    BY Zenon DEF ResolveCreate
  <2>3. verified \in BOOLEAN
    OBVIOUS
  <2> HIDE DEF verified
  <2>4. w = <<>> \/ (~Exists(Email(c.email)) /\ w = x)
    <3> HIDE DEF x
    <3> QED BY <2>1, <2>2 DEF Ok, Refuse
  <2>5. u \in Creates(c) /\ ~Exists(User(u))
    BY <1>3 DEF FreshFor, Creates
  <2>6. CASE ~Exists(Email(c.email)) /\ w = x
    <3>1. u \in Users /\ c.email \in Emails /\ p \in Identities /\ u # None
      BY <1>3, SomeValue
    <3>2. /\ WriteOK(g) /\ DOMAIN g = {d} /\ g[d] = u
          /\ \A e \in DOMAIN g :
                e[1] = "google_identities" /\ e[1] \notin {"users", "users.email"} \cup TotpCollections
      BY <1>3, IdentityDoc
    <3>3. Joins(x, NewUser(u, c.email, verified), g)
      BY DEF Joins
    <3> HIDE DEF g, x
    <3>4. Sets(g, Identity(p)) /\ g[Identity(p)] = u
      BY <3>1, <3>2 DEF Sets
    <3>5. /\ WriteOK(x) /\ UsersSafe(x) /\ EmailsSafe(x) /\ TotpSafe(x)
          /\ DOMAIN x = {User(u), Email(c.email)} \cup DOMAIN g
          /\ x[User(u)] # None
      BY <2>3, <2>5, <2>6, <3>1, <3>2, <3>3, <3>4, NewAccount
    <3>6. x[d] = u
      BY <2>3, <3>2, <3>3, NewAccountValue
    <3>7. DOMAIN x = {User(u), Email(c.email), Identity(p)} /\ x[Identity(p)] = u
      BY <3>2, <3>5, <3>6
    <3>8. PasskeysSafe(x)
      BY <3>7, Keys DEF PasskeysSafe, Sets
    <3>9. KeepsWays(x)
      BY <3>1, <3>7, Keys DEF KeepsWays, Erases
    <3>10. \A q : Sets(x, Identity(q)) => q = p
      BY <3>7, Keys DEF Sets
    <3>11. Sets(x, User(u))
      BY <3>5, <3>7 DEF Sets
    <3>12. IdentitiesOf(u) = {}
      BY <2>5, <3>1, NoIdentities
    <3>13. IdentitiesSafe(x)
      BY <1>3, <3>7, <3>10, <3>11, <3>12 DEF IdentitiesSafe
    <3>14. \A v : User(v) \in DOMAIN x => v = u
      BY <3>7, Keys
    <3> QED BY <2>5, <2>6, <3>5, <3>8, <3>9, <3>13, <3>14, KeepsWaysSafe
            DEF DecidesSafely, Safe, AccountsSafe
  <2> QED BY <2>4, <2>6, NothingSafe DEF DecidesSafely
<1>4. CASE c \in [method: {"unlink"}, user: Users]
  <2> DEFINE u == c.user
             q == CHOOSE q \in IdentitiesOf(u) : TRUE
             g == Erased({Identity(q)})
             x == LockUser(u) @@ g
  <2>1. Decision(c) = UnlinkIdentity(c)
    BY <1>4 DEF Decision
  <2>2. \/ w = <<>>
        \/ /\ Exists(User(u)) /\ IdentitiesOf(u) # {} /\ w = x
           /\ Exists(Password(u)) \/ PasskeysOf(u) # {}
    BY <2>1 DEF UnlinkIdentity, Ok, Refuse
  <2>3. CASE /\ Exists(User(u)) /\ IdentitiesOf(u) # {} /\ w = x
             /\ Exists(Password(u)) \/ PasskeysOf(u) # {}
    <3>1. q \in IdentitiesOf(u) /\ Doc(Identity(q)) = u
      BY <2>3 DEF IdentitiesOf
    <3> HIDE DEF q
    <3>2. Identity(q)[1] = "google_identities" /\ "google_identities" \in Collections
      BY Keys DEF Collections
    <3>3. WriteOK(g)
      BY <3>2, ErasedOK
    <3>4. DOMAIN g = {Identity(q)} /\ g[Identity(q)] = None
      BY ErasedDocs
    <3>5. Joins(x, LockUser(u), g)
      BY DEF Joins
    <3> HIDE DEF g, x
    <3>6. \A e \in DOMAIN g : e[1] \notin {"users", "users.email"} \cup TotpCollections
      BY <3>2, <3>4 DEF TotpCollections
    <3>7. /\ WriteOK(x) /\ KeepsUsers(x) /\ TotpSafe(x)
          /\ DOMAIN x = {User(u)} \cup DOMAIN g
      BY <2>3, <3>3, <3>5, <3>6, Locked
    <3>8. x[Identity(q)] = None
      BY <3>2, <3>4, <3>5, LockedValue
    <3>9. DOMAIN x = {User(u), Identity(q)} /\ x[Identity(q)] = None
      BY <3>4, <3>7, <3>8
    <3>10. PasskeysSafe(x) /\ IdentitiesSafe(x)
      BY <3>9, Keys DEF PasskeysSafe, IdentitiesSafe, Sets
    <3>11. \A v : Removes(x, v) => v = u
      BY <3>1, <3>9, Keys DEF Removes, Erases
    <3>12. Leaves(x, u)
      BY <2>3, <3>9, Keys DEF Leaves, Erases, PasskeysOf
    <3>13. RemovalsSafe(x)
      BY <3>9, <3>11, <3>12 DEF RemovalsSafe
    <3> QED BY <2>3, <3>7, <3>10, <3>13, KeepsUsersSafe DEF DecidesSafely, Safe, AccountsSafe
  <2> QED BY <2>2, <2>3, NothingSafe DEF DecidesSafely
<1> QED BY <1>1, <1>2, <1>3, <1>4 DEF IdentityCall

\* A passkey is written with its owner, a ceremony with its subject.
LEMMA PasskeyDoc ==
    ASSUME NEW k, NEW u \in Users
    PROVE  LET g == Passkey(k) :> u IN
           /\ WriteOK(g)
           /\ DOMAIN g = {Passkey(k)} /\ g[Passkey(k)] = u
           /\ Passkey(k)[1] = "passkey_credentials"
<1> DEFINE g == Passkey(k) :> u
<1>1. Passkey(k)[1] = "passkey_credentials" /\ "passkey_credentials" \in Collections
  BY Keys DEF Collections
<1>2. WriteOK(g)
  BY <1>1, ValuesOf, OneDocOK
<1>3. DOMAIN g = {Passkey(k)} /\ g[Passkey(k)] = u
  BY DEF :>
<1> QED BY <1>1, <1>2, <1>3

CeremonyRow == [type: {"registration", "authentication"}, user: Users \cup {None}, consumed: BOOLEAN]

\* A ceremony is a document of its own collection.
LEMMA CeremonyDoc ==
    ASSUME NEW h, NEW row \in CeremonyRow
    PROVE  LET f == Ceremony(h) :> row IN
           /\ Elsewhere(f) /\ WriteOK(f) /\ DOMAIN f = {Ceremony(h)}
           /\ Ceremony(h)[1] = "passkey_ceremonies"
<1> DEFINE f == Ceremony(h) :> row
<1>1. Ceremony(h)[1] = "passkey_ceremonies"
  BY Keys
<1>2. Elsewhere(f)
  BY <1>1, ValuesOf, OtherCollections, OneElsewhere DEF CeremonyRow
<1>3. DOMAIN f = {Ceremony(h)}
  BY DEF :>
<1> QED BY <1>1, <1>2, <1>3 DEF Elsewhere

\* Consuming a ceremony writes its document again.
LEMMA ConsumedCeremony ==
    ASSUME Sound, NEW h, NEW u \in Users, NEW type \in {"registration", "authentication"},
           Consumable(h, u, type)
    PROVE  /\ WriteOK(ConsumeCeremony(h)) /\ DOMAIN ConsumeCeremony(h) = {Ceremony(h)}
           /\ Ceremony(h)[1] = "passkey_ceremonies"
<1> DEFINE old == [type |-> type, user |-> u, consumed |-> FALSE]
           row == [docs[Ceremony(h)] EXCEPT !.consumed = TRUE]
<1>1. Exists(Ceremony(h)) /\ docs[Ceremony(h)] = old
  <2>1. Doc(Ceremony(h)) = old
    BY DEF Consumable
  <2>2. old # None
    <3>1. old \in CeremonyRow
      BY DEF CeremonyRow
    <3>2. "passkey_ceremonies" \in Collections
      BY DEF Collections
    <3> HIDE DEF old
    <3> QED BY <3>1, <3>2, ValuesOf, NoValueAssumption DEF CeremonyRow
  <2> QED BY <2>1, <2>2 DEF Doc
<1>2. docs[Ceremony(h)] \in Values(Ceremony(h)[1])
  BY <1>1 DEF Sound, DocsOK, Exists
<1>3. docs[Ceremony(h)] \in CeremonyRow
  <2>1. Ceremony(h)[1] = "passkey_ceremonies"
    BY Keys
  <2>2. Values("passkey_ceremonies") = CeremonyRow
    BY ValuesOf DEF CeremonyRow
  <2> QED BY <1>2, <2>1, <2>2
<1>4. row \in CeremonyRow
  BY <1>3 DEF CeremonyRow
<1> HIDE DEF row
<1>5. /\ WriteOK(Ceremony(h) :> row) /\ DOMAIN (Ceremony(h) :> row) = {Ceremony(h)}
      /\ Ceremony(h)[1] = "passkey_ceremonies"
  BY <1>4, CeremonyDoc
<1> QED BY <1>5 DEF ConsumeCeremony, row

\* The passkey store decides on safe writes: Delete locks the owner and leaves another method.
LEMMA PasskeySafe ==
    ASSUME Sound, NEW c, PasskeyCall(c)
    PROVE  DecidesSafely(c)
<1> DEFINE w == Decision(c).write
           u == c.user
           k == c.credential
           h == c.token
<1>1. CASE c \in [method: {"createCeremony"}, token: Ceremonies,
                  type: {"registration", "authentication"}, user: Users \cup {None}]
  <2> DEFINE row == [type |-> c.type, user |-> c.user, consumed |-> FALSE]
             g == Ceremony(c.token) :> row
  <2>1. w = <<>> \/ w = g
    BY <1>1 DEF Decision, CreateCeremony, Ok, Refuse
  <2>2. row \in CeremonyRow
    BY <1>1 DEF CeremonyRow
  <2> HIDE DEF row
  <2>3. Elsewhere(g)
    BY <2>2, CeremonyDoc
  <2> QED BY <2>1, <2>3, DecidedElsewhere
<1>2. CASE c \in [method: {"completeRegistration"}, token: Ceremonies, user: Users, credential: Credentials]
  <2> DEFINE f == ConsumeCeremony(h)
             g == Passkey(k) :> u
             lock == LockUser(u)
             fl == f @@ lock
             x == fl @@ g
  <2>1. Decision(c) = CompleteRegistration(c)
    BY <1>2 DEF Decision
  <2>2. \/ w = <<>>
        \/ /\ Consumable(h, u, "registration") /\ Exists(User(u)) /\ ~Exists(Passkey(k))
           /\ w = x
    BY <2>1 DEF CompleteRegistration, Ok, Refuse
  <2>3. CASE /\ Consumable(h, u, "registration") /\ Exists(User(u)) /\ ~Exists(Passkey(k))
             /\ w = x
    <3>1. /\ WriteOK(f) /\ DOMAIN f = {Ceremony(h)} /\ Ceremony(h)[1] = "passkey_ceremonies"
      BY <1>2, <2>3, ConsumedCeremony
    <3>2. /\ WriteOK(g) /\ DOMAIN g = {Passkey(k)} /\ g[Passkey(k)] = u
          /\ Passkey(k)[1] = "passkey_credentials"
      BY <1>2, PasskeyDoc
    <3>3. docs[User(u)] \in [email: Emails, verified: BOOLEAN] /\ docs[User(u)] # None
      BY <2>3, Typed, SomeValue DEF Sound
    <3>4. User(u)[1] = "users" /\ "users" \in Collections
      BY Keys DEF Collections
    <3>5. WriteOK(lock)
      BY <3>3, <3>4, ValuesOf, OneDocOK DEF LockUser
    <3>6. DOMAIN lock = {User(u)} /\ lock[User(u)] = docs[User(u)]
      BY DEF LockUser, :>
    <3>7. Joins(fl, f, lock) /\ Joins(x, fl, g)
      BY DEF Joins
    <3> HIDE DEF f, g, lock, fl, x
    <3>8. WriteOK(fl)
      BY <3>1, <3>5, <3>7, MergedOK
    <3>9. WriteOK(x)
      BY <3>2, <3>7, <3>8, MergedOK
    <3>10. DOMAIN fl = DOMAIN f \cup DOMAIN lock
      BY <3>7, MergedDomain
    <3>11. DOMAIN x = DOMAIN fl \cup DOMAIN g
      BY <3>7, MergedDomain
    <3>12. DOMAIN x = {Ceremony(h), User(u), Passkey(k)}
      BY <3>1, <3>2, <3>6, <3>10, <3>11
    <3>13. User(u) # Ceremony(h) /\ Passkey(k) \notin {Ceremony(h), User(u)}
      BY <3>1, <3>2, <3>4
    <3>14. fl[User(u)] = docs[User(u)]
      BY <3>1, <3>6, <3>7, <3>13, MergedValue
    <3>15. x[User(u)] = docs[User(u)]
      BY <3>6, <3>7, <3>10, <3>14, MergedValue
    <3>16. x[Passkey(k)] = u
      BY <3>1, <3>2, <3>6, <3>7, <3>10, <3>13, MergedValue
    <3>17. \A v : User(v) \in DOMAIN x => User(v) = User(u)
      BY <3>12, Keys
    <3>18. KeepsUsers(x)
      <4>1. \A e : Email(e) \notin DOMAIN x
        BY <3>12, Keys
      <4> QED BY <4>1, <2>3, <3>3, <3>15, <3>17 DEF KeepsUsers
    <3>19. IdentitiesSafe(x)
      BY <3>12, Keys DEF IdentitiesSafe, Sets
    <3>20. PasskeysSafe(x)
      BY <2>3, <3>12, Keys DEF PasskeysSafe, Sets
    <3>21. u # None
      BY <1>2, SomeValue
    <3>22. KeepsWays(x)
      BY <3>12, <3>16, <3>21, Keys DEF KeepsWays, Erases
    <3>23. TotpSafe(x)
      BY <3>1, <3>2, <3>4, <3>12, NoTotpSafe DEF TotpCollections
    <3> QED BY <2>3, <3>9, <3>18, <3>19, <3>20, <3>22, <3>23, KeepsUsersSafe, KeepsWaysSafe
            DEF DecidesSafely, Safe, AccountsSafe
  <2> QED BY <2>2, <2>3, NothingSafe DEF DecidesSafely
<1>3. CASE c \in [method: {"completeAuthentication"}, token: Ceremonies, user: Users, credential: Credentials]
  <2> DEFINE f == ConsumeCeremony(h)
             g == Passkey(k) :> u
             x == f @@ g
  <2>1. Decision(c) = CompleteAuthentication(c)
    BY <1>3 DEF Decision
  <2>2. \/ w = <<>>
        \/ Consumable(h, u, "authentication") /\ Doc(Passkey(k)) = u /\ w = x
    BY <2>1 DEF CompleteAuthentication, Ok, Refuse
  <2>3. CASE Consumable(h, u, "authentication") /\ Doc(Passkey(k)) = u /\ w = x
    <3>1. /\ WriteOK(f) /\ DOMAIN f = {Ceremony(h)} /\ Ceremony(h)[1] = "passkey_ceremonies"
      BY <1>3, <2>3, ConsumedCeremony
    <3>2. /\ WriteOK(g) /\ DOMAIN g = {Passkey(k)} /\ g[Passkey(k)] = u
          /\ Passkey(k)[1] = "passkey_credentials"
      BY <1>3, PasskeyDoc
    <3>3. Joins(x, f, g)
      BY DEF Joins
    <3> HIDE DEF f, g, x
    <3>4. WriteOK(x)
      BY <3>1, <3>2, <3>3, MergedOK
    <3>5. DOMAIN x = {Ceremony(h), Passkey(k)}
      <4>1. DOMAIN x = DOMAIN f \cup DOMAIN g
        BY <3>3, MergedDomain
      <4> QED BY <4>1, <3>1, <3>2
    <3>6. x[Passkey(k)] = u
      BY <3>1, <3>2, <3>3, MergedValue
    <3>7. KeepsUsers(x) /\ IdentitiesSafe(x)
      BY <3>5, Keys DEF KeepsUsers, IdentitiesSafe, Sets
    <3>8. PasskeysSafe(x)
      BY <2>3, <3>5, <3>6, Keys DEF PasskeysSafe, Sets, Doc
    <3>9. u # None
      BY <1>3, SomeValue
    <3>10. KeepsWays(x)
      BY <3>5, <3>6, <3>9, Keys DEF KeepsWays, Erases
    <3>11. TotpSafe(x)
      BY <3>1, <3>2, <3>5, NoTotpSafe DEF TotpCollections
    <3> QED BY <2>3, <3>4, <3>7, <3>8, <3>10, <3>11, KeepsUsersSafe, KeepsWaysSafe
            DEF DecidesSafely, Safe, AccountsSafe
  <2> QED BY <2>2, <2>3, NothingSafe DEF DecidesSafely
<1>4. CASE c \in [method: {"deleteCredential"}, user: Users, credential: Credentials]
  <2> DEFINE g == Erased({Passkey(k)})
             x == LockUser(u) @@ g
             last == \E l \in Credentials : PasskeysOf(u) = {l}
             others == Exists(Password(u)) \/ IdentitiesOf(u) # {}
  <2>1. Decision(c) = DeleteCredential(c)
    BY <1>4 DEF Decision
  <2>2. \/ w = <<>>
        \/ Exists(User(u)) /\ (~last \/ others) /\ k \in PasskeysOf(u) /\ w = x
    BY <2>1 DEF DeleteCredential, Ok, Refuse
  <2>3. CASE Exists(User(u)) /\ (~last \/ others) /\ k \in PasskeysOf(u) /\ w = x
    <3>1. Passkey(k)[1] = "passkey_credentials" /\ "passkey_credentials" \in Collections
      BY Keys DEF Collections
    <3>2. WriteOK(g)
      BY <3>1, ErasedOK
    <3>3. DOMAIN g = {Passkey(k)} /\ g[Passkey(k)] = None
      BY ErasedDocs
    <3>4. Joins(x, LockUser(u), g)
      BY DEF Joins
    <3>5. \/ Exists(Password(u)) \/ IdentitiesOf(u) # {}
          \/ \E l \in Credentials : l # k /\ l \in PasskeysOf(u)
      BY <2>3 DEF PasskeysOf
    <3> HIDE DEF g, x, last, others
    <3>6. \A e \in DOMAIN g : e[1] \notin {"users", "users.email"} \cup TotpCollections
      BY <3>1, <3>3 DEF TotpCollections
    <3>7. /\ WriteOK(x) /\ KeepsUsers(x) /\ TotpSafe(x)
          /\ DOMAIN x = {User(u)} \cup DOMAIN g
      BY <2>3, <3>2, <3>4, <3>6, Locked
    <3>8. x[Passkey(k)] = None
      BY <3>1, <3>3, <3>4, LockedValue
    <3>9. DOMAIN x = {User(u), Passkey(k)} /\ x[Passkey(k)] = None
      BY <3>3, <3>7, <3>8
    <3>10. PasskeysSafe(x) /\ IdentitiesSafe(x)
      BY <3>9, Keys DEF PasskeysSafe, IdentitiesSafe, Sets
    <3>11. \A v : Removes(x, v) => v = u
      <4>1. Doc(Passkey(k)) = u
        BY <2>3 DEF PasskeysOf
      <4> QED BY <3>9, <4>1, Keys DEF Removes, Erases
    <3>12. Leaves(x, u)
      BY <3>5, <3>9, Keys DEF Leaves, Erases, PasskeysOf, IdentitiesOf
    <3>13. RemovalsSafe(x)
      BY <3>9, <3>11, <3>12 DEF RemovalsSafe
    <3> QED BY <2>3, <3>7, <3>10, <3>13, KeepsUsersSafe DEF DecidesSafely, Safe, AccountsSafe
  <2> QED BY <2>2, <2>3, NothingSafe DEF DecidesSafely
<1> QED BY <1>1, <1>2, <1>3, <1>4 DEF PasskeyCall

-----------------------------------------------------------------------------
(***************************************************************************)
(* The methods that write second factors.                                  *)
(***************************************************************************)

TotpRow == [secret: Secrets, last: Nat, disabled: BOOLEAN]

CodeRow == [user: Subjects, used: BOOLEAN]

\* A credential is one document of totp_credentials.
LEMMA TotpDoc ==
    ASSUME NEW u, NEW row \in TotpRow
    PROVE  LET f == Totp(u) :> row IN
           /\ WriteOK(f) /\ DOMAIN f = {Totp(u)} /\ f[Totp(u)] = row
           /\ Totp(u)[1] = "totp_credentials" /\ row # None
<1> DEFINE f == Totp(u) :> row
<1>1. Totp(u)[1] = "totp_credentials" /\ "totp_credentials" \in Collections
  BY Keys DEF Collections
<1>2. Values("totp_credentials") = TotpRow
  BY ValuesOf DEF TotpRow
<1>3. WriteOK(f)
  BY <1>1, <1>2, OneDocOK
<1>4. DOMAIN f = {Totp(u)} /\ f[Totp(u)] = row
  BY DEF :>
<1> QED BY <1>1, <1>3, <1>4, SomeValue DEF TotpRow

\* A recovery code is one document of totp_recovery_codes.
LEMMA CodeDoc ==
    ASSUME NEW k, NEW row \in CodeRow
    PROVE  LET f == Recovery(k) :> row IN
           /\ WriteOK(f) /\ DOMAIN f = {Recovery(k)} /\ f[Recovery(k)] = row
           /\ Recovery(k)[1] = "totp_recovery_codes" /\ row # None
<1> DEFINE f == Recovery(k) :> row
<1>1. Recovery(k)[1] = "totp_recovery_codes" /\ "totp_recovery_codes" \in Collections
  BY Keys DEF Collections
<1>2. Values("totp_recovery_codes") = CodeRow
  BY ValuesOf DEF CodeRow
<1>3. WriteOK(f)
  BY <1>1, <1>2, OneDocOK
<1>4. DOMAIN f = {Recovery(k)} /\ f[Recovery(k)] = row
  BY DEF :>
<1> QED BY <1>1, <1>3, <1>4, SomeValue DEF CodeRow

\* A user's recovery codes, deleted.
LEMMA CodesOf ==
    ASSUME NEW u
    PROVE  /\ \A d \in RecoveryOf(u) : d[1] = "totp_recovery_codes" /\ d[1] \in Collections
           /\ \A d \in RecoveryOf(u) : \E k : d = Recovery(k)
BY Keys DEF RecoveryOf, Collections

\* A write of no account's documents is safe if it is safe for second factors.
LEMMA NoAccountDocs ==
    ASSUME NEW w, WriteOK(w), TotpSafe(w), \A d \in DOMAIN w : d[1] \notin AccountCollections
    PROVE  Safe(w) /\ \A u : User(u) \notin DOMAIN w
BY NoAccountsSafe DEF Safe

\* A challenge that is used is written again.
LEMMA ConsumedChallenge ==
    ASSUME Sound, NEW h, NEW at, Usable(h, at)
    PROVE  /\ WriteOK(ConsumeChallenge(h)) /\ DOMAIN ConsumeChallenge(h) = {Challenge(h)}
           /\ Challenge(h)[1] = "totp_challenges" /\ docs[Challenge(h)].user \in Subjects
<1> DEFINE rows == [user: Subjects, expires: Nat, consumed: BOOLEAN]
           row == [docs[Challenge(h)] EXCEPT !.consumed = TRUE]
           f == Challenge(h) :> row
<1>1. Challenge(h)[1] = "totp_challenges" /\ "totp_challenges" \in Collections
  BY Keys DEF Collections
<1>2. docs[Challenge(h)] \in Values(Challenge(h)[1])
  BY DEF Usable, Sound, DocsOK, Exists
<1>3. Values("totp_challenges") = rows
  BY ValuesOf
<1>4. docs[Challenge(h)] \in rows
  BY <1>1, <1>2, <1>3
<1>5. row \in rows
  BY <1>4
<1>6. docs[Challenge(h)].user \in Subjects
  BY <1>4
<1> HIDE DEF row, rows
<1>7. WriteOK(f)
  BY <1>1, <1>3, <1>5, OneDocOK
<1>8. DOMAIN f = {Challenge(h)}
  BY DEF :>
<1> QED BY <1>1, <1>6, <1>7, <1>8 DEF ConsumeChallenge, row

\* A user's credential.
LEMMA CredentialOf ==
    ASSUME Sound, NEW u, Exists(Totp(u))
    PROVE  docs[Totp(u)] \in TotpRow
<1>1. docs[Totp(u)] \in Values(Totp(u)[1])
  BY DEF Sound, DocsOK, Exists
<1>2. Totp(u)[1] = "totp_credentials"
  BY Keys
<1>3. Values("totp_credentials") = TotpRow
  BY ValuesOf DEF TotpRow
<1> QED BY <1>1, <1>2, <1>3

\* Enable inserts the credential together with its codes.
LEMMA EnableSafe ==
    ASSUME Sound, NEW c,
           c \in [method: {"enable"}, user: Subjects, counter: Nat, code: RecoveryCodes, at: Times]
    PROVE  DecidesSafely(c)
<1> DEFINE w == Decision(c).write
           u == c.user
           k == c.code
           row == [secret |-> docs[Enrollment(u)].secret, last |-> c.counter, disabled |-> FALSE]
           code == [user |-> u, used |-> FALSE]
           gone == RecoveryOf(u) \cup {Enrollment(u)}
           f == Totp(u) :> row
           g == Recovery(k) :> code
           e == Erased(gone)
           fg == f @@ g
           x == fg @@ e
<1>1. Decision(c) = Enable(c)
  BY DEF Decision
<1>2. w = <<>> \/ (Exists(Enrollment(u)) /\ w = x)
  BY <1>1 DEF Enable, Ok, Refuse
<1>3. CASE Exists(Enrollment(u)) /\ w = x
  <2>1. Enrollment(u)[1] = "totp_enrollments" /\ "totp_enrollments" \in Collections
    BY Keys DEF Collections
  <2>2. docs[Enrollment(u)] \in [secret: Secrets, expires: Nat]
    <3>1. docs[Enrollment(u)] \in Values(Enrollment(u)[1])
      BY <1>3 DEF Sound, DocsOK, Exists
    <3>2. Values("totp_enrollments") = [secret: Secrets, expires: Nat]
      BY ValuesOf
    <3> QED BY <2>1, <3>1, <3>2
  <2>3. row \in TotpRow /\ ~row.disabled
    BY <2>2 DEF TotpRow
  <2>4. code \in CodeRow /\ code.user = u
    BY DEF CodeRow
  <2> HIDE DEF row, code
  <2>5. /\ WriteOK(f) /\ DOMAIN f = {Totp(u)} /\ f[Totp(u)] = row
        /\ Totp(u)[1] = "totp_credentials" /\ row # None
    BY <2>3, TotpDoc
  <2>6. /\ WriteOK(g) /\ DOMAIN g = {Recovery(k)} /\ g[Recovery(k)] = code
        /\ Recovery(k)[1] = "totp_recovery_codes" /\ code # None
    BY <2>4, CodeDoc
  <2>7. \A d \in gone : d[1] \in {"totp_recovery_codes", "totp_enrollments"} /\ d[1] \in Collections
    BY <2>1, CodesOf
  <2>8. RecoveryOf(u) \subseteq gone
    OBVIOUS
  <2> HIDE DEF gone
  <2>9. WriteOK(e)
    BY <2>7, ErasedOK
  <2>10. DOMAIN e = gone /\ \A d \in gone : e[d] = None
    BY ErasedDocs
  <2>11. Joins(fg, f, g)
    BY DEF Joins
  <2>12. Joins(x, fg, e)
    BY DEF Joins
  <2> HIDE DEF f, g, e, fg, x
  <2>13. WriteOK(fg)
    BY <2>5, <2>6, <2>11, MergedOK
  <2>14. WriteOK(x)
    BY <2>9, <2>12, <2>13, MergedOK
  <2>15. DOMAIN fg = DOMAIN f \cup DOMAIN g
    BY <2>11, MergedDomain
  <2>16. DOMAIN x = DOMAIN fg \cup DOMAIN e
    BY <2>12, MergedDomain
  <2>17. DOMAIN x = {Totp(u), Recovery(k)} \cup gone
    BY <2>5, <2>6, <2>10, <2>15, <2>16
  <2>18. fg[Totp(u)] = row
    BY <2>5, <2>11, MergedValue
  <2>19. x[Totp(u)] = row
    BY <2>5, <2>12, <2>15, <2>18, MergedValue
  <2>20. fg[Recovery(k)] = code
    BY <2>5, <2>6, <2>11, MergedValue
  <2>21. x[Recovery(k)] = code
    BY <2>6, <2>12, <2>15, <2>20, MergedValue
  <2>22. ASSUME NEW d \in gone, d # Recovery(k)
         PROVE  x[d] = None
    <3>1. d # Totp(u)
      BY <2>5, <2>7
    <3>2. d \notin DOMAIN fg
      BY <2>5, <2>6, <2>15, <2>22, <3>1
    <3> QED BY <2>10, <2>12, <3>2, MergedValue
  <2>23. CredentialsSafe(x)
    <3>1. \A v : Totp(v) \in DOMAIN x => v = u
      BY <2>6, <2>7, <2>17, Keys
    <3> QED BY <2>3, <2>5, <2>19, <3>1 DEF CredentialsSafe
  <2>24. CodesSafe(x)
    <3>1. \A l : Sets(x, Recovery(l)) => Recovery(l) = Recovery(k)
      BY <2>5, <2>17, <2>22, Keys DEF Sets
    <3>2. Totp(u) \in DOMAIN x /\ ~x[Totp(u)].disabled
      BY <2>3, <2>17, <2>19
    <3> QED BY <2>4, <2>21, <3>1, <3>2 DEF CodesSafe
  <2>25. \A d \in DOMAIN x : d[1] \notin AccountCollections
    BY <2>5, <2>6, <2>7, <2>17 DEF AccountCollections
  <2> QED BY <1>3, <2>14, <2>23, <2>24, <2>25, NoAccountDocs DEF DecidesSafely, TotpSafe
<1> QED BY <1>2, <1>3, NothingSafe DEF DecidesSafely

\* Disable deletes every code its snapshot shows, and writes the credential.
LEMMA DisableSafe ==
    ASSUME Sound, NEW c, c \in [method: {"disable"}, user: Subjects]
    PROVE  DecidesSafely(c)
<1> DEFINE w == Decision(c).write
           u == c.user
           row == [docs[Totp(u)] EXCEPT !.disabled = TRUE]
           f == Totp(u) :> row
           e == Erased(RecoveryOf(u))
           x == f @@ e
<1>1. Decision(c) = Disable(c)
  BY DEF Decision
<1>2. w = <<>> \/ (Exists(Totp(u)) /\ w = x) \/ w = e
  BY <1>1 DEF Disable, Ok, Refuse
<1>3. /\ \A d \in RecoveryOf(u) : d[1] = "totp_recovery_codes" /\ d[1] \in Collections
      /\ \A d \in RecoveryOf(u) : \E k : d = Recovery(k)
  BY CodesOf
<1>4. WriteOK(e)
  BY <1>3, ErasedOK
<1>5. DOMAIN e = RecoveryOf(u) /\ \A d \in RecoveryOf(u) : e[d] = None
  BY ErasedDocs
<1>6. Safe(e) /\ \A v : User(v) \notin DOMAIN e
  <2> HIDE DEF e
  <2>1. TotpSafe(e)
    BY <1>3, <1>5, Keys DEF TotpSafe, CredentialsSafe, CodesSafe, Sets
  <2>2. \A d \in DOMAIN e : d[1] \notin AccountCollections
    BY <1>3, <1>5 DEF AccountCollections
  <2> QED BY <1>4, <2>1, <2>2, NoAccountDocs
<1>7. CASE Exists(Totp(u)) /\ w = x
  <2>1. docs[Totp(u)] \in TotpRow
    BY <1>7, CredentialOf
  <2>2. row \in TotpRow
    BY <2>1 DEF TotpRow
  <2> HIDE DEF row
  <2>3. /\ WriteOK(f) /\ DOMAIN f = {Totp(u)} /\ f[Totp(u)] = row
        /\ Totp(u)[1] = "totp_credentials" /\ row # None
    BY <2>2, TotpDoc
  <2>4. Joins(x, f, e)
    BY DEF Joins
  <2> HIDE DEF f, e, x
  <2>5. WriteOK(x)
    BY <1>4, <2>3, <2>4, MergedOK
  <2>6. DOMAIN x = {Totp(u)} \cup RecoveryOf(u)
    <3>1. DOMAIN x = DOMAIN f \cup DOMAIN e
      BY <2>4, MergedDomain
    <3> QED BY <1>5, <2>3, <3>1
  <2>7. x[Totp(u)] = row
    BY <2>3, <2>4, MergedValue
  <2>8. ASSUME NEW d \in RecoveryOf(u) PROVE x[d] = None
    <3>1. d \notin DOMAIN f
      BY <1>3, <2>3
    <3> QED BY <1>5, <2>4, <3>1, MergedValue
  <2>9. CredentialsSafe(x)
    <3>1. \A v : Totp(v) \in DOMAIN x => v = u
      BY <1>3, <2>6, Keys
    <3>2. \A d \in RecoveryOf(u) : Erases(x, d)
      BY <2>6, <2>8 DEF Erases
    <3> QED BY <2>3, <2>7, <3>1, <3>2 DEF CredentialsSafe
  <2>10. CodesSafe(x)
    BY <2>3, <2>6, <2>8, Keys DEF CodesSafe, Sets
  <2>11. \A d \in DOMAIN x : d[1] \notin AccountCollections
    BY <1>3, <2>3, <2>6 DEF AccountCollections
  <2> QED BY <1>7, <2>5, <2>9, <2>10, <2>11, NoAccountDocs DEF DecidesSafely, TotpSafe
<1> QED BY <1>2, <1>6, <1>7, NothingSafe DEF DecidesSafely

\* CompleteCode raises the counter of a credential that stays enabled.
LEMMA CompleteCodeSafe ==
    ASSUME Sound, NEW c, c \in [method: {"completeCode"}, token: Challenges, counter: Nat, at: Times]
    PROVE  DecidesSafely(c)
<1> DEFINE w == Decision(c).write
           h == c.token
           u == docs[Challenge(h)].user
           row == [docs[Totp(u)] EXCEPT !.last = c.counter]
           f == ConsumeChallenge(h)
           g == Totp(u) :> row
           x == f @@ g
<1>1. Decision(c) = CompleteCode(c)
  BY DEF Decision
<1>2. w = <<>> \/ (Usable(h, c.at) /\ IsEnabled(u) /\ w = x)
  BY <1>1 DEF CompleteCode, Ok, Refuse
<1>3. CASE Usable(h, c.at) /\ IsEnabled(u) /\ w = x
  <2>1. /\ WriteOK(f) /\ DOMAIN f = {Challenge(h)} /\ Challenge(h)[1] = "totp_challenges"
        /\ u \in Subjects
    BY <1>3, ConsumedChallenge
  <2>2. docs[Totp(u)] \in TotpRow /\ ~docs[Totp(u)].disabled
    BY <1>3, CredentialOf DEF IsEnabled
  <2> HIDE DEF u
  <2>3. row \in TotpRow /\ ~row.disabled
    BY <2>2 DEF TotpRow
  <2> HIDE DEF row
  <2>4. /\ WriteOK(g) /\ DOMAIN g = {Totp(u)} /\ g[Totp(u)] = row
        /\ Totp(u)[1] = "totp_credentials" /\ row # None
    BY <2>3, TotpDoc
  <2>5. Joins(x, f, g)
    BY DEF Joins
  <2> HIDE DEF f, g, x
  <2>6. WriteOK(x)
    BY <2>1, <2>4, <2>5, MergedOK
  <2>7. DOMAIN x = {Challenge(h), Totp(u)}
    <3>1. DOMAIN x = DOMAIN f \cup DOMAIN g
      BY <2>5, MergedDomain
    <3> QED BY <2>1, <2>4, <3>1
  <2>8. x[Totp(u)] = row
    BY <2>1, <2>4, <2>5, MergedValue
  <2>9. CredentialsSafe(x)
    <3>1. \A v : Totp(v) \in DOMAIN x => v = u
      BY <2>1, <2>7, Keys
    <3> QED BY <2>3, <2>4, <2>8, <3>1 DEF CredentialsSafe
  <2>10. CodesSafe(x)
    BY <2>1, <2>4, <2>7, Keys DEF CodesSafe, Sets
  <2>11. \A d \in DOMAIN x : d[1] \notin AccountCollections
    BY <2>1, <2>4, <2>7 DEF AccountCollections
  <2> QED BY <1>3, <2>6, <2>9, <2>10, <2>11, NoAccountDocs DEF DecidesSafely, TotpSafe
<1> QED BY <1>2, <1>3, NothingSafe DEF DecidesSafely

\* CompleteRecovery marks a code that keeps its owner.
LEMMA CompleteRecoverySafe ==
    ASSUME Sound, NEW c,
           c \in [method: {"completeRecovery"}, token: Challenges, code: RecoveryCodes, at: Times]
    PROVE  DecidesSafely(c)
<1> DEFINE w == Decision(c).write
           h == c.token
           k == c.code
           u == docs[Challenge(h)].user
           old == [user |-> u, used |-> FALSE]
           row == [docs[Recovery(k)] EXCEPT !.used = TRUE]
           f == ConsumeChallenge(h)
           g == Recovery(k) :> row
           x == f @@ g
<1>1. Decision(c) = CompleteRecovery(c)
  BY DEF Decision
<1>2. w = <<>> \/ (Usable(h, c.at) /\ Doc(Recovery(k)) = old /\ w = x)
  BY <1>1 DEF CompleteRecovery, Ok, Refuse
<1>3. CASE Usable(h, c.at) /\ Doc(Recovery(k)) = old /\ w = x
  <2>1. /\ WriteOK(f) /\ DOMAIN f = {Challenge(h)} /\ Challenge(h)[1] = "totp_challenges"
        /\ u \in Subjects
    BY <1>3, ConsumedChallenge
  <2> HIDE DEF u
  <2>2. old \in CodeRow /\ old # None /\ old.user = u
    BY <2>1, SomeValue DEF CodeRow
  <2>3. Exists(Recovery(k)) /\ docs[Recovery(k)] = old
    BY <1>3, <2>2 DEF Doc
  <2> HIDE DEF old
  <2>4. row \in CodeRow /\ row.user = docs[Recovery(k)].user
    BY <2>2, <2>3 DEF CodeRow
  <2> HIDE DEF row
  <2>5. /\ WriteOK(g) /\ DOMAIN g = {Recovery(k)} /\ g[Recovery(k)] = row
        /\ Recovery(k)[1] = "totp_recovery_codes" /\ row # None
    BY <2>4, CodeDoc
  <2>6. Joins(x, f, g)
    BY DEF Joins
  <2> HIDE DEF f, g, x
  <2>7. WriteOK(x)
    BY <2>1, <2>5, <2>6, MergedOK
  <2>8. DOMAIN x = {Challenge(h), Recovery(k)}
    <3>1. DOMAIN x = DOMAIN f \cup DOMAIN g
      BY <2>6, MergedDomain
    <3> QED BY <2>1, <2>5, <3>1
  <2>9. x[Recovery(k)] = row
    BY <2>1, <2>5, <2>6, MergedValue
  <2>10. CredentialsSafe(x)
    BY <2>1, <2>5, <2>8, Keys DEF CredentialsSafe
  <2>11. CodesSafe(x)
    <3>1. \A l : Sets(x, Recovery(l)) => Recovery(l) = Recovery(k)
      BY <2>1, <2>8, Keys DEF Sets
    <3> QED BY <2>3, <2>4, <2>9, <3>1 DEF CodesSafe
  <2>12. \A d \in DOMAIN x : d[1] \notin AccountCollections
    BY <2>1, <2>5, <2>8 DEF AccountCollections
  <2> QED BY <1>3, <2>7, <2>10, <2>11, <2>12, NoAccountDocs DEF DecidesSafely, TotpSafe
<1> QED BY <1>2, <1>3, NothingSafe DEF DecidesSafely

\* So every method of TOTPStore decides on safe writes.
LEMMA TotpMethodSafe ==
    ASSUME Sound, NEW c, TotpCall(c)
    PROVE  DecidesSafely(c)
<1> DEFINE w == Decision(c).write
<1>1. CASE c \in [method: {"beginEnrollment"}, user: Subjects, secret: Secrets, at: Times]
  <2> DEFINE row == [secret |-> c.secret, expires |-> c.at + EnrollmentLifetime]
  <2>1. w = Enrollment(c.user) :> row
    BY <1>1 DEF Decision, BeginEnrollment, Ok
  <2>2. row \in [secret: Secrets, expires: Nat]
    BY <1>1, MongoAssumption DEF Times
  <2> HIDE DEF row
  <2>3. Enrollment(c.user)[1] = "totp_enrollments"
    BY Keys
  <2>4. Values("totp_enrollments") = [secret: Secrets, expires: Nat]
    BY ValuesOf
  <2>5. Elsewhere(Enrollment(c.user) :> row)
    BY <2>2, <2>3, <2>4, OtherCollections, OneElsewhere
  <2> QED BY <2>1, <2>5, DecidedElsewhere
<1>2. CASE c \in [method: {"createChallenge"}, token: Challenges, user: Subjects, at: Times]
  <2> DEFINE row == [user |-> c.user, expires |-> c.at + ChallengeLifetime, consumed |-> FALSE]
  <2>1. w = <<>> \/ w = Challenge(c.token) :> row
    BY <1>2 DEF Decision, CreateChallenge, Ok, Refuse
  <2>2. row \in [user: Subjects, expires: Nat, consumed: BOOLEAN]
    BY <1>2, MongoAssumption DEF Times
  <2> HIDE DEF row
  <2>3. Challenge(c.token)[1] = "totp_challenges"
    BY Keys
  <2>4. Values("totp_challenges") = [user: Subjects, expires: Nat, consumed: BOOLEAN]
    BY ValuesOf
  <2>5. Elsewhere(Challenge(c.token) :> row)
    BY <2>2, <2>3, <2>4, OtherCollections, OneElsewhere
  <2> QED BY <2>1, <2>5, DecidedElsewhere
<1> QED BY <1>1, <1>2, EnableSafe, DisableSafe, CompleteCodeSafe, CompleteRecoverySafe DEF TotpCall

\* Every method of the adapter.
LEMMA DecisionsAreSafe ==
    ASSUME Sound, NEW c, CallOK(c), FreshFor(c)
    PROVE  DecidesSafely(c)
BY SessionSafe, BearerSafe, PasswordSafe, MailSafe, IdentitySafe, PasskeySafe, TotpMethodSafe,
   FlowSafe DEF CallOK

-----------------------------------------------------------------------------
(***************************************************************************)
(* The steps.                                                              *)
(***************************************************************************)

\* The invariant holds of empty collections.
LEMMA InitInv == Init => Inv
<1> SUFFICES ASSUME Init PROVE Inv
  OBVIOUS
<1>1. docs = <<>> /\ DOMAIN docs = {} /\ \A d : ~Exists(d) /\ Doc(d) = None
  BY DEF Init, Exists, Doc
<1>2. DocsOK
  BY <1>1 DEF DocsOK, IsFunction
<1>3. OwnersExist /\ NeverLockedOut /\ CodesOnlyWhileEnabled
  BY <1>1 DEF OwnersExist, NeverLockedOut, CodesOnlyWhileEnabled, RecoveryOf
<1>4. OneIdentityPerUser /\ EmailsUnique
  BY <1>1, SomeValue DEF OneIdentityPerUser, EmailsUnique, IdentitiesOf
<1>5. ReqOK
  BY DEF Init, ReqOK, Idle
<1>6. \A r \in Requests : CreatedBy(r) = {} /\ ~Prepared(r)
  BY DEF Init, Idle, CreatedBy, Prepared
<1>7. now \in Times
  BY MongoAssumption DEF Init, Times
<1> QED BY <1>2, <1>3, <1>4, <1>5, <1>6, <1>7 DEF Inv, Sound, FreshOK, PreparedOK

\* What is said of the documents alone holds while they stay as they are.
LEMMA DocsStay ==
    ASSUME UNCHANGED docs
    PROVE  (Sound => Sound') /\ \A w : Safe(w)' <=> Safe(w)
<1>1. \A u : Exists(u)' <=> Exists(u)
  BY DEF Exists
<1>2. \A u : Doc(u)' = Doc(u)
  BY DEF Doc, Exists
<1>3. \A u : IdentitiesOf(u)' = IdentitiesOf(u) /\ PasskeysOf(u)' = PasskeysOf(u)
  BY <1>2 DEF IdentitiesOf, PasskeysOf
<1>4. \A u : RecoveryOf(u)' = RecoveryOf(u)
  BY <1>1 DEF RecoveryOf
<1>5. DocsOK => DocsOK'
  BY DEF DocsOK, IsFunction, Values
<1>6. OwnersExist => OwnersExist'
  BY <1>1 DEF OwnersExist
<1>7. NeverLockedOut => NeverLockedOut'
  BY <1>1, <1>3 DEF NeverLockedOut
<1>8. OneIdentityPerUser => OneIdentityPerUser'
  BY <1>3 DEF OneIdentityPerUser
<1>9. EmailsUnique => EmailsUnique'
  BY <1>1, <1>2 DEF EmailsUnique
<1>10. CodesOnlyWhileEnabled => CodesOnlyWhileEnabled'
  BY <1>1, <1>4 DEF CodesOnlyWhileEnabled, IsEnabled
<1>11. ASSUME NEW w PROVE Safe(w)' <=> Safe(w)
  <2>1. WriteOK(w)' <=> WriteOK(w)
    BY DEF WriteOK, IsFunction, Values
  <2>2. UsersSafe(w)' <=> UsersSafe(w)
    BY <1>1 DEF UsersSafe, Sets
  <2>3. EmailsSafe(w)' <=> EmailsSafe(w)
    BY <1>1 DEF EmailsSafe
  <2>4. IdentitiesSafe(w)' <=> IdentitiesSafe(w)
    BY <1>1, <1>3 DEF IdentitiesSafe, Sets
  <2>5. PasskeysSafe(w)' <=> PasskeysSafe(w)
    BY <1>1 DEF PasskeysSafe, Sets
  <2>6. RemovalsSafe(w)' <=> RemovalsSafe(w)
    BY <1>1, <1>2 DEF RemovalsSafe, Removes, Leaves, Erases
  <2>7. CredentialsSafe(w)' <=> CredentialsSafe(w)
    BY <1>4 DEF CredentialsSafe, Erases
  <2>8. CodesSafe(w)' <=> CodesSafe(w)
    BY <1>1 DEF CodesSafe, Sets
  <2> QED BY <2>1, <2>2, <2>3, <2>4, <2>5, <2>6, <2>7, <2>8 DEF Safe, AccountsSafe, TotpSafe
<1> QED BY <1>5, <1>6, <1>7, <1>8, <1>9, <1>10, <1>11 DEF Sound

\* Nothing changes but the record of one request, which is left without a decision, or with
\* a safe one.
LEMMA OneRequest ==
    ASSUME Inv, NEW r \in Requests, UNCHANGED <<docs, now>>,
           req' = [req EXCEPT ![r] = req'[r]],
           req'[r] = [call |-> req'[r].call, out |-> req'[r].out, seen |-> req'[r].seen],
           req'[r] = Idle \/ CallOK(req'[r].call),
           PreparedOK(r)',
           \A u \in CreatedBy(r)' :
              /\ ~Exists(User(u))
              /\ \A x \in Requests : x # r => u \notin CreatedBy(x)
    PROVE  Inv'
<1>1. \A x \in Requests : x # r => req'[x] = req[x]
  BY DEF Inv, ReqOK
<1>2. ReqOK'
  BY <1>1 DEF Inv, ReqOK, CallOK, SessionCall, BearerCall, PasswordCall, MailCall, IdentityCall,
              PasskeyCall, TotpCall, FlowCall
<1>3. \A x \in Requests : x # r => CreatedBy(x)' = CreatedBy(x)
  BY <1>1 DEF CreatedBy, Creates
<1>4. \A u : Exists(User(u))' <=> Exists(User(u))
  BY DEF Exists
<1>5. FreshOK'
  BY <1>3, <1>4 DEF Inv, FreshOK
<1>6. ASSUME NEW x \in Requests, x # r PROVE PreparedOK(x)'
  <2>1. req'[x] = req[x]
    BY <1>1, <1>6
  <2>2. CreatedBy(x)' = CreatedBy(x)
    BY <1>3, <1>6
  <2>3. \A w : Safe(w)' <=> Safe(w)
    BY DocsStay
  <2> QED BY <1>4, <2>1, <2>2, <2>3 DEF Inv, PreparedOK, Prepared
<1>7. Sound'
  BY DocsStay DEF Inv
<1> QED BY <1>2, <1>5, <1>6, <1>7 DEF Inv

\* A write takes effect.
LEMMA EffectInv ==
    ASSUME Inv, NEW r \in Requests, NEW w, Safe(w), Effect(r, w),
           \A u \in Users : User(u) \in DOMAIN w => Exists(User(u)) \/ u \in CreatedBy(r)
    PROVE  Inv'
<1> DEFINE record(x) == IF x = r THEN Idle
                        ELSE [req[x] EXCEPT !.seen = SeenAfter(x, w),
                                            !.out = IF Conflicts(x, w) THEN None ELSE @]
<1>1. docs' = Written(w) /\ now' = now /\ req' = [x \in Requests |-> record(x)]
  BY DEF Effect
<1>2. Sound /\ DocsOK /\ WriteOK(w)
  BY DEF Inv, Sound, Safe
<1>3. Sound'
  BY <1>1, <1>2, SafeKeepsSound
<1>4. \A d : Exists(d)' <=> Sets(w, d) \/ (d \notin DOMAIN w /\ Exists(d))
  BY <1>1, <1>2, WrittenDocs
<1>5. ASSUME NEW x \in Requests, x # r
      PROVE  /\ req'[x].call = req[x].call /\ req'[x].seen = SeenAfter(x, w)
             /\ Conflicts(x, w) => req'[x].out = None
             /\ ~Conflicts(x, w) => req'[x].out = req[x].out
             /\ req'[x] = [call |-> req'[x].call, out |-> req'[x].out, seen |-> req'[x].seen]
             /\ CreatedBy(x)' = CreatedBy(x)
  <2>1. req[x] = [call |-> req[x].call, out |-> req[x].out, seen |-> req[x].seen]
    BY DEF Inv, ReqOK
  <2>2. req'[x] = [req[x] EXCEPT !.seen = SeenAfter(x, w),
                                 !.out = IF Conflicts(x, w) THEN None ELSE req[x].out]
    BY <1>1, <1>5
  <2>3. req'[x] = [call |-> req[x].call,
                   out |-> IF Conflicts(x, w) THEN None ELSE req[x].out,
                   seen |-> SeenAfter(x, w)]
    BY <2>1, <2>2
  <2>4. /\ req'[x].call = req[x].call /\ req'[x].seen = SeenAfter(x, w)
        /\ req'[x].out = IF Conflicts(x, w) THEN None ELSE req[x].out
        /\ req'[x] = [call |-> req'[x].call, out |-> req'[x].out, seen |-> req'[x].seen]
    BY <2>3
  <2>5. CreatedBy(x)' = CreatedBy(x)
    BY <2>4 DEF CreatedBy, Creates
  <2> QED BY <2>4, <2>5
<1>6. req'[r] = Idle /\ CreatedBy(r)' = {}
  BY <1>1 DEF Idle, CreatedBy
<1>7. ReqOK'
  <2>1. req' = [x \in Requests |-> req'[x]]
    BY <1>1
  <2>2. ASSUME NEW x \in Requests, x # r
        PROVE  /\ req'[x] = [call |-> req'[x].call, out |-> req'[x].out, seen |-> req'[x].seen]
               /\ req'[x] = Idle \/ CallOK(req'[x].call)
    <3>1. CASE CallOK(req[x].call)
      BY <1>5, <2>2, <3>1
    <3>2. CASE req[x] = Idle
      <4>1. SeenAfter(x, w) = {}
        BY <3>2 DEF SeenAfter, Idle
      <4>2. ~Conflicts(x, w)
        BY <3>2 DEF Conflicts, Prepared, Idle
      <4> QED BY <1>5, <2>2, <3>2, <4>1, <4>2 DEF Idle
    <3> QED BY <3>1, <3>2 DEF Inv, ReqOK
  <2>3. req'[r] = [call |-> req'[r].call, out |-> req'[r].out, seen |-> req'[r].seen]
    BY <1>6 DEF Idle
  <2> QED BY <1>6, <2>1, <2>2, <2>3
          DEF ReqOK, CallOK, SessionCall, BearerCall, PasswordCall, MailCall, IdentityCall,
              PasskeyCall, TotpCall, FlowCall, Idle
<1>8. FreshOK'
  <2>1. ASSUME NEW x \in Requests, NEW u \in CreatedBy(x)' PROVE ~Exists(User(u))'
    <3>1. x # r /\ u \in CreatedBy(x)
      BY <1>5, <1>6, <2>1
    <3>2. u \in Users /\ ~Exists(User(u)) /\ u \notin CreatedBy(r)
      BY <3>1 DEF Inv, FreshOK, CreatedBy, Creates
    <3>3. User(u) \notin DOMAIN w
      BY <3>2
    <3> QED BY <1>4, <3>2, <3>3 DEF Sets
  <2>2. ASSUME NEW x \in Requests, NEW y \in Requests, x # y
        PROVE  CreatedBy(x)' \cap CreatedBy(y)' = {}
    BY <1>5, <1>6, <2>2 DEF Inv, FreshOK
  <2> QED BY <2>1, <2>2 DEF FreshOK
<1>9. ASSUME NEW x \in Requests PROVE PreparedOK(x)'
  <2>1. CASE x = r
    BY <1>6, <2>1 DEF PreparedOK, Prepared, Idle
  <2>2. CASE x # r /\ Prepared(x) /\ ~Conflicts(x, w)
    <3>0. PICK v : v = req[x].out.write
      OBVIOUS
    <3>1. req'[x].call = req[x].call /\ req'[x].out = req[x].out
      BY <1>5, <2>2
    <3>2. /\ req[x].call # None /\ v # <<>> /\ Safe(v)
          /\ \A u \in Users : User(u) \in DOMAIN v => Exists(User(u)) \/ u \in CreatedBy(x)
      BY <2>2, <3>0 DEF Inv, PreparedOK
    <3>3. DOMAIN w \cap DOMAIN v = {}
      BY <2>2, <3>0 DEF Conflicts
    <3>4. Safe(v)'
      BY <1>1, <1>2, <3>2, <3>3, StaysSafe
    <3>5. \A u \in Users : User(u) \in DOMAIN v => Exists(User(u))' \/ u \in CreatedBy(x)'
      <4>1. \A u \in Users : Exists(User(u)) => Exists(User(u))'
        BY <1>4 DEF Safe, AccountsSafe, UsersSafe, Sets
      <4> QED BY <1>5, <2>2, <3>2, <4>1
    <3>6. req'[x].out.write = v
      BY <3>0, <3>1
    <3> QED BY <3>1, <3>2, <3>4, <3>5, <3>6 DEF PreparedOK
  <2>3. CASE x # r /\ (~Prepared(x) \/ Conflicts(x, w))
    <3>1. req'[x].out = None
      BY <1>5, <2>3 DEF Prepared
    <3> QED BY <3>1 DEF PreparedOK, Prepared
  <2> QED BY <2>1, <2>2, <2>3
<1> QED BY <1>1, <1>3, <1>7, <1>8, <1>9 DEF Inv

\* A call is free to begin, and brings what it is to create.
LEMMA CallInv ==
    ASSUME Inv, NEW r \in Requests, NEW c, NEW seen, Call(r, c, seen), CallOK(c),
           \A u \in Creates(c) :
              /\ ~Exists(User(u))
              /\ \A x \in Requests : x # r => u \notin CreatedBy(x)
    PROVE  Inv'
<1> DEFINE record == [call |-> c, out |-> None, seen |-> seen]
<1>1. req' = [req EXCEPT ![r] = record] /\ docs' = docs /\ now' = now
  BY DEF Call
<1>2. req'[r] = record
  BY <1>1 DEF Inv, ReqOK
<1>3. \A u \in CreatedBy(r)' : u \in Creates(c)
  BY <1>2 DEF CreatedBy, Creates
<1>4. PreparedOK(r)'
  BY <1>2 DEF PreparedOK, Prepared
<1>5. req' = [req EXCEPT ![r] = req'[r]]
  BY <1>1, <1>2
<1>6. req'[r].call = c
  BY <1>2
<1>7. req'[r] = [call |-> req'[r].call, out |-> req'[r].out, seen |-> req'[r].seen]
  BY <1>2
<1> QED BY <1>1, <1>3, <1>4, <1>5, <1>6, <1>7, OneRequest

\* What a method decides.
LEMMA DecidedOK ==
    ASSUME Inv, NEW r \in Requests, Open(r)
    PROVE  LET w == Decision(req[r].call).write IN
           /\ Safe(w)
           /\ \A u \in Users : User(u) \in DOMAIN w => Exists(User(u)) \/ u \in CreatedBy(r)
<1>1. req[r].call # None /\ CallOK(req[r].call)
  BY DEF Open, Inv, ReqOK, Idle
<1>2. CreatedBy(r) = Creates(req[r].call)
  BY <1>1 DEF CreatedBy
<1>3. FreshFor(req[r].call)
  BY <1>2 DEF Inv, FreshOK, FreshFor
<1>4. DecidesSafely(req[r].call)
  BY <1>1, <1>3, DecisionsAreSafe DEF Inv
<1> QED BY <1>2, <1>4 DEF DecidesSafely

\* An attempt decides on its snapshot, or answers without writing.
LEMMA RunInv ==
    ASSUME Inv, NEW r \in Requests, Run(r)
    PROVE  Inv'
<1> DEFINE out == Decision(req[r].call)
<1>0. PICK w : w = out.write
  OBVIOUS
<1>1. Open(r) /\ (Put(r, out) \/ Attempt(r, out))
  BY DEF Run
<1>2. /\ Safe(w)
      /\ \A u \in Users : User(u) \in DOMAIN w => Exists(User(u)) \/ u \in CreatedBy(r)
  BY <1>0, <1>1, DecidedOK
<1> HIDE DEF out
<1>3. CASE Put(r, out)
  BY <1>0, <1>2, <1>3, EffectInv DEF Put
<1>4. CASE Attempt(r, out)
  <2> DEFINE record == IF w = <<>> THEN Idle ELSE [req[r] EXCEPT !.out = out]
  <2>1. req' = [req EXCEPT ![r] = record] /\ docs' = docs /\ now' = now
    BY <1>0, <1>4 DEF Attempt
  <2>2. req'[r] = record
    BY <2>1 DEF Inv, ReqOK
  <2>3. /\ req[r] = [call |-> req[r].call, out |-> req[r].out, seen |-> req[r].seen]
        /\ req[r].call # None /\ CallOK(req[r].call)
    BY <1>1 DEF Inv, ReqOK, Open, Idle
  <2>4. CASE w = <<>>
    <3>1. req'[r] = Idle
      BY <2>2, <2>4
    <3>2. CreatedBy(r)' = {} /\ PreparedOK(r)'
      BY <3>1 DEF CreatedBy, Idle, PreparedOK, Prepared
    <3>3. req'[r] = [call |-> req'[r].call, out |-> req'[r].out, seen |-> req'[r].seen]
      BY <3>1 DEF Idle
    <3>4. req' = [req EXCEPT ![r] = req'[r]]
      BY <2>1, <2>2
    <3> QED BY <2>1, <3>1, <3>2, <3>3, <3>4, OneRequest
  <2>5. CASE w # <<>>
    <3>1. req'[r] = [call |-> req[r].call, out |-> out, seen |-> req[r].seen]
      BY <2>2, <2>3, <2>5
    <3>2. /\ req'[r].call = req[r].call /\ req'[r].out = out
          /\ req'[r] = [call |-> req'[r].call, out |-> req'[r].out, seen |-> req'[r].seen]
      BY <3>1
    <3>3. CreatedBy(r)' = CreatedBy(r)
      BY <3>2 DEF CreatedBy, Creates
    <3>4. PreparedOK(r)'
      <4>1. Safe(w)' /\ \A u \in Users : Exists(User(u))' <=> Exists(User(u))
        BY <1>2, <2>1, DocsStay DEF Exists
      <4>2. req'[r].out.write = w
        BY <1>0, <3>2
      <4> QED BY <1>2, <2>3, <2>5, <3>2, <3>3, <4>1, <4>2 DEF PreparedOK
    <3>5. \A u \in CreatedBy(r) : /\ ~Exists(User(u))
                                  /\ \A x \in Requests : x # r => u \notin CreatedBy(x)
      BY DEF Inv, FreshOK
    <3>6. req' = [req EXCEPT ![r] = req'[r]]
      BY <2>1, <2>2
    <3> QED BY <2>1, <2>3, <3>2, <3>3, <3>4, <3>5, <3>6, OneRequest
  <2> QED BY <2>4, <2>5
<1> QED BY <1>1, <1>3, <1>4

\* A commit is the effect of a safe write on the documents there are.
LEMMA CommitInv ==
    ASSUME Inv, NEW r \in Requests, Commit(r)
    PROVE  Inv'
<1>1. PreparedOK(r) /\ Prepared(r) /\ Effect(r, req[r].out.write)
  BY DEF Inv, Commit
<1> QED BY <1>1, EffectInv DEF PreparedOK

\* A transaction that fails changes no document.
LEMMA FailInv ==
    ASSUME Inv, NEW r \in Requests, Fail(r)
    PROVE  Inv'
<1>1. req' = [req EXCEPT ![r] = Idle] /\ docs' = docs /\ now' = now
  BY DEF Fail
<1>2. req'[r] = Idle
  BY <1>1 DEF Inv, ReqOK
<1>3. CreatedBy(r)' = {} /\ PreparedOK(r)'
  BY <1>2 DEF CreatedBy, Idle, PreparedOK, Prepared
<1>4. req'[r] = [call |-> req'[r].call, out |-> req'[r].out, seen |-> req'[r].seen]
  BY <1>2 DEF Idle
<1>5. req' = [req EXCEPT ![r] = req'[r]]
  BY <1>1, <1>2
<1> QED BY <1>1, <1>2, <1>3, <1>4, <1>5, OneRequest

\* Time passes: nothing that is said depends on it.
LEMMA TimeInv ==
    ASSUME Inv, UNCHANGED <<docs, req>>, now' \in Times
    PROVE  Inv'
<1>1. ReqOK'
  BY DEF Inv, ReqOK, CallOK, SessionCall, BearerCall, PasswordCall, MailCall, IdentityCall,
         PasskeyCall, TotpCall, FlowCall
<1>2. \A r \in Requests : CreatedBy(r)' = CreatedBy(r)
  BY DEF CreatedBy, Creates
<1>3. \A u : Exists(User(u))' <=> Exists(User(u))
  BY DEF Exists
<1>4. FreshOK'
  BY <1>2, <1>3 DEF Inv, FreshOK
<1>5. \A w : Safe(w)' <=> Safe(w)
  BY DocsStay
<1>6. ASSUME NEW r \in Requests PROVE PreparedOK(r)'
  BY <1>2, <1>3, <1>5 DEF Inv, PreparedOK, Prepared
<1>7. Sound'
  BY DocsStay DEF Inv
<1> QED BY <1>1, <1>4, <1>6, <1>7 DEF Inv

\* A call that creates no account.
LEMMA PlainCall ==
    ASSUME Inv, NEW r \in Requests, NEW c, NEW seen, Call(r, c, seen), CallOK(c), Creates(c) = {}
    PROVE  Inv'
BY CallInv

\* An identifier that is fresh is in no other call.
LEMMA FreshCall ==
    ASSUME Inv, NEW r \in Requests, NEW c, NEW seen, Call(r, c, seen), CallOK(c),
           NEW u, Fresh(u), Creates(c) = {u}
    PROVE  Inv'
<1>1. ASSUME NEW x \in Requests, u \in CreatedBy(x) PROVE FALSE
  <2>1. req[x].call # None /\ u \in Creates(req[x].call)
    BY <1>1 DEF CreatedBy
  <2>2. CallOK(req[x].call)
    BY <2>1 DEF Inv, ReqOK, Idle
  <2>3. \E field \in {"user", "new"} \cap DOMAIN req[x].call : req[x].call[field] = u
    <3>1. CASE req[x].call.method = "register" /\ req[x].call.user = u
      <4>1. "user" \in DOMAIN req[x].call
        BY <2>2, <3>1 DEF CallOK, SessionCall, BearerCall, PasswordCall, MailCall, IdentityCall,
                          PasskeyCall, TotpCall, FlowCall
      <4> QED BY <3>1, <4>1
    <3>2. CASE req[x].call.method = "resolve" /\ req[x].call.new = u
      <4>1. "new" \in DOMAIN req[x].call
        BY <2>2, <3>2 DEF CallOK, SessionCall, BearerCall, PasswordCall, MailCall, IdentityCall,
                          PasskeyCall, TotpCall, FlowCall
      <4> QED BY <3>2, <4>1
    <3> QED BY <2>1, <3>1, <3>2 DEF Creates
  <2> QED BY <2>1, <2>3 DEF Fresh
<1>2. ~Exists(User(u))
  BY DEF Fresh
<1> QED BY <1>1, <1>2, CallInv

\* A call of SessionStore begins a request and changes no document.
LEMMA SessionCallsInv ==
    ASSUME Inv, NEW r \in Requests, SessionCalls(r)
    PROVE  Inv'
<1>0. now \in Nat /\ now \in Times
  BY MongoAssumption DEF Inv, Times
<1>1. ASSUME NEW t \in SessionTokens, NEW s \in Subjects
      PROVE  Cookie!NewRecord(t, s, now) \in Cookie!Record
  BY <1>0, MongoAssumption DEF Cookie!NewRecord, Cookie!Record
<1>2. ASSUME NEW t \in SessionTokens, Exists(Session(t))
      PROVE  docs[Session(t)] \in Cookie!Record
  <2>1. docs[Session(t)] \in Values(Session(t)[1])
    BY <1>2 DEF Inv, Sound, DocsOK, Exists
  <2> QED BY <2>1, Keys, ValuesOf
<1>3. ASSUME NEW t \in SessionTokens, NEW s \in Subjects, CallCreate(r, t, s) PROVE Inv'
  <2> DEFINE c == [method |-> "create", rec |-> Cookie!NewRecord(t, s, now)]
  <2>1. Call(r, c, {})
    BY <1>3 DEF CallCreate
  <2>2. CallOK(c) /\ Creates(c) = {}
    BY <1>1 DEF CallOK, SessionCall, Creates
  <2> QED BY <2>1, <2>2, PlainCall
<1>4. ASSUME NEW t \in SessionTokens, NEW u \in SessionTokens, CallRotate(r, t, u) PROVE Inv'
  <2> DEFINE rec == Cookie!NewRecord(u, docs[Session(t)].subject, now)
             c == [method |-> "rotate", token |-> t, at |-> now, rec |-> rec]
  <2>1. Call(r, c, {}) /\ Exists(Session(t))
    BY <1>4 DEF CallRotate
  <2>2. docs[Session(t)].subject \in Subjects
    BY <1>2, <2>1 DEF Cookie!Record
  <2>3. rec \in Cookie!Record
    BY <1>1, <2>2
  <2> HIDE DEF rec
  <2>4. CallOK(c) /\ Creates(c) = {}
    BY <1>0, <2>3 DEF CallOK, SessionCall, Creates
  <2> QED BY <2>1, <2>4, PlainCall
<1>5. ASSUME NEW t \in SessionTokens, CallExtend(r, t) PROVE Inv'
  <2> DEFINE expires == Cookie!ExtendedExpiry(docs[Session(t)], now)
             c == [method |-> "extend", token |-> t, at |-> now, expires |-> expires]
  <2>1. Call(r, c, {}) /\ Exists(Session(t))
    BY <1>5 DEF CallExtend
  <2>2. docs[Session(t)].created \in Nat
    BY <1>2, <2>1 DEF Cookie!Record
  <2>3. expires \in Nat
    BY <1>0, <2>2, MongoAssumption DEF Cookie!ExtendedExpiry, Cookie!Earlier
  <2> HIDE DEF expires
  <2>4. CallOK(c) /\ Creates(c) = {}
    BY <1>0, <2>3 DEF CallOK, SessionCall, Creates
  <2> QED BY <2>1, <2>4, PlainCall
<1>6. ASSUME NEW t \in SessionTokens, CallRevoke(r, t) PROVE Inv'
  <2> DEFINE c == [method |-> "revoke", token |-> t]
  <2>1. CallOK(c) /\ Creates(c) = {}
    BY DEF CallOK, SessionCall, Creates
  <2> QED BY <1>6, <2>1, PlainCall DEF CallRevoke
<1>7. ASSUME NEW s \in Subjects, CallRevokeAll(r, s) PROVE Inv'
  <2> DEFINE c == [method |-> "revokeAll", user |-> s]
  <2>1. CallOK(c) /\ Creates(c) = {}
    BY DEF CallOK, SessionCall, Creates
  <2> QED BY <1>7, <2>1, PlainCall DEF CallRevokeAll
<1> QED BY <1>3, <1>4, <1>5, <1>6, <1>7 DEF SessionCalls

\* So does one of AccessSessionStore or RefreshTokenStore ...
LEMMA BearerCallsInv ==
    ASSUME Inv, NEW r \in Requests, BearerCalls(r)
    PROVE  Inv'
<1>0. now \in Times
  BY DEF Inv
<1>1. ASSUME NEW sid \in SessionIDs, NEW s \in Subjects, NEW t \in Tokens,
             CallCreateSession(r, sid, s, t)
      PROVE  Inv'
  <2> DEFINE c == [method |-> "createSession", sid |-> sid, user |-> s, new |-> t, at |-> now]
  <2>1. CallOK(c) /\ Creates(c) = {}
    BY <1>0 DEF CallOK, BearerCall, Creates
  <2> QED BY <1>1, <2>1, PlainCall DEF CallCreateSession
<1>2. ASSUME NEW sid \in SessionIDs, CallRevokeAccess(r, sid) PROVE Inv'
  <2> DEFINE c == [method |-> "revokeAccess", sid |-> sid]
  <2>1. CallOK(c) /\ Creates(c) = {}
    BY DEF CallOK, BearerCall, Creates
  <2> QED BY <1>2, <2>1, PlainCall DEF CallRevokeAccess
<1>3. ASSUME NEW s \in Subjects, CallRevokeAllAccess(r, s) PROVE Inv'
  <2> DEFINE c == [method |-> "revokeAllAccess", user |-> s]
  <2>1. CallOK(c) /\ Creates(c) = {}
    BY DEF CallOK, BearerCall, Creates
  <2> QED BY <1>3, <2>1, PlainCall DEF CallRevokeAllAccess
<1>4. ASSUME NEW t \in Tokens, NEW u \in Tokens, CallRotateRefresh(r, t, u) PROVE Inv'
  <2> DEFINE c == [method |-> "rotateRefresh", token |-> t, new |-> u, at |-> now]
  <2>1. CallOK(c) /\ Creates(c) = {}
    BY <1>0 DEF CallOK, BearerCall, Creates
  <2> QED BY <1>4, <2>1, PlainCall DEF CallRotateRefresh
<1> QED BY <1>1, <1>2, <1>3, <1>4 DEF BearerCalls

\* A stored password is one of the hashes.
LEMMA StoredHash ==
    ASSUME Sound, NEW u, Exists(Password(u))
    PROVE  docs[Password(u)] \in Hashes
<1>1. docs[Password(u)] \in Values(Password(u)[1])
  BY DEF Sound, DocsOK, Exists
<1>2. Password(u)[1] = "password_credentials"
  BY Keys
<1>3. Values("password_credentials") = Hashes
  BY ValuesOf
<1> QED BY <1>1, <1>2, <1>3

\* ... of the password store, with an identifier drawn for a new account,
LEMMA PasswordCallsInv ==
    ASSUME Inv, NEW r \in Requests, PasswordCalls(r)
    PROVE  Inv'
<1>1. ASSUME NEW u \in Users, NEW h \in Hashes, NEW e \in Emails, Fresh(u),
             Call(r, [method |-> "register", user |-> u, email |-> e, hash |-> h], {})
      PROVE  Inv'
  <2> DEFINE c == [method |-> "register", user |-> u, email |-> e, hash |-> h]
  <2>1. CallOK(c)
    BY DEF CallOK, PasswordCall
  <2>2. Creates(c) = {u}
    BY DEF Creates
  <2> QED BY <1>1, <2>1, <2>2, FreshCall
<1>2. ASSUME NEW u \in Users, NEW h \in Hashes,
             Call(r, [method |-> "addPassword", user |-> u, hash |-> h], {})
      PROVE  Inv'
  <2> DEFINE c == [method |-> "addPassword", user |-> u, hash |-> h]
  <2>1. CallOK(c) /\ Creates(c) = {}
    BY DEF CallOK, PasswordCall, Creates
  <2> QED BY <1>2, <2>1, PlainCall
<1>3. ASSUME NEW u \in Users, NEW h \in Hashes, Exists(Password(u)),
             Call(r, [method |-> "replaceHash", user |-> u, hash |-> h,
                      current |-> docs[Password(u)]], {})
      PROVE  Inv'
  <2> DEFINE c == [method |-> "replaceHash", user |-> u, hash |-> h, current |-> docs[Password(u)]]
  <2>1. docs[Password(u)] \in Hashes
    BY <1>3, StoredHash DEF Inv
  <2>2. CallOK(c) /\ Creates(c) = {}
    BY <2>1 DEF CallOK, PasswordCall, Creates
  <2> QED BY <1>3, <2>2, PlainCall
<1>4. ASSUME NEW u \in Users, Exists(Password(u)),
             Call(r, [method |-> "removePassword", user |-> u, current |-> docs[Password(u)]], {})
      PROVE  Inv'
  <2> DEFINE c == [method |-> "removePassword", user |-> u, current |-> docs[Password(u)]]
  <2>1. docs[Password(u)] \in Hashes
    BY <1>4, StoredHash DEF Inv
  <2>2. CallOK(c) /\ Creates(c) = {}
    BY <2>1 DEF CallOK, PasswordCall, Creates
  <2> QED BY <1>4, <2>2, PlainCall
<1> QED BY <1>1, <1>2, <1>3, <1>4 DEF PasswordCalls

\* ... of the stores of mailed tokens,
LEMMA MailCallsInv ==
    ASSUME Inv, NEW r \in Requests, MailCalls(r)
    PROVE  Inv'
<1>1. ASSUME NEW t \in MailTokens, NEW kind \in Kinds, NEW u \in Users,
             Call(r, [method |-> "issue", kind |-> kind, user |-> u, token |-> t], {})
      PROVE  Inv'
  <2> DEFINE c == [method |-> "issue", kind |-> kind, user |-> u, token |-> t]
  <2>1. CallOK(c) /\ Creates(c) = {}
    BY DEF CallOK, MailCall, Creates
  <2> QED BY <1>1, <2>1, PlainCall
<1>2. ASSUME NEW t \in MailTokens, Call(r, [method |-> "verify", token |-> t], {}) PROVE Inv'
  <2> DEFINE c == [method |-> "verify", token |-> t]
  <2>1. CallOK(c) /\ Creates(c) = {}
    BY DEF CallOK, MailCall, Creates
  <2> QED BY <1>2, <2>1, PlainCall
<1>3. ASSUME NEW t \in MailTokens, NEW h \in Hashes,
             Call(r, [method |-> "reset", token |-> t, hash |-> h], {})
      PROVE  Inv'
  <2> DEFINE c == [method |-> "reset", token |-> t, hash |-> h]
  <2>1. CallOK(c) /\ Creates(c) = {}
    BY DEF CallOK, MailCall, Creates
  <2> QED BY <1>3, <2>1, PlainCall
<1> QED BY <1>1, <1>2, <1>3 DEF MailCalls

\* ... of the Google store, again with an identifier drawn,
LEMMA IdentityCallsInv ==
    ASSUME Inv, NEW r \in Requests, IdentityCalls(r)
    PROVE  Inv'
<1>1. ASSUME NEW u \in Users, NEW e \in Emails, NEW p \in Identities,
             Call(r, [method |-> "resolve", identity |-> p, user |-> u, email |-> e,
                      new |-> None], {})
      PROVE  Inv'
  <2> DEFINE c == [method |-> "resolve", identity |-> p, user |-> u, email |-> e, new |-> None]
  <2>1. u # None
    BY SomeValue
  <2>2. CallOK(c) /\ Creates(c) = {}
    BY <2>1 DEF CallOK, IdentityCall, Creates
  <2> QED BY <1>1, <2>2, PlainCall
<1>2. ASSUME NEW u \in Users, NEW e \in Emails, NEW p \in Identities, Fresh(u),
             Call(r, [method |-> "resolve", identity |-> p, user |-> None, email |-> e,
                      new |-> u], {})
      PROVE  Inv'
  <2> DEFINE c == [method |-> "resolve", identity |-> p, user |-> None, email |-> e, new |-> u]
  <2>1. CallOK(c)
    BY DEF CallOK, IdentityCall
  <2>2. Creates(c) = {u}
    BY DEF Creates
  <2> QED BY <1>2, <2>1, <2>2, FreshCall
<1>3. ASSUME NEW u \in Users, Call(r, [method |-> "unlink", user |-> u], {}) PROVE Inv'
  <2> DEFINE c == [method |-> "unlink", user |-> u]
  <2>1. CallOK(c) /\ Creates(c) = {}
    BY DEF CallOK, IdentityCall, Creates
  <2> QED BY <1>3, <2>1, PlainCall
<1> QED BY <1>1, <1>2, <1>3 DEF IdentityCalls

\* ... of the passkey store,
LEMMA PasskeyCallsInv ==
    ASSUME Inv, NEW r \in Requests, PasskeyCalls(r)
    PROVE  Inv'
<1>1. ASSUME NEW h \in Ceremonies, NEW type \in {"registration", "authentication"},
             NEW u \in Users \cup {None},
             Call(r, [method |-> "createCeremony", token |-> h, type |-> type, user |-> u], {})
      PROVE  Inv'
  <2> DEFINE c == [method |-> "createCeremony", token |-> h, type |-> type, user |-> u]
  <2>1. CallOK(c) /\ Creates(c) = {}
    BY DEF CallOK, PasskeyCall, Creates
  <2> QED BY <1>1, <2>1, PlainCall
<1>2. ASSUME NEW h \in Ceremonies, NEW u \in Users, NEW k \in Credentials,
             NEW method \in {"completeRegistration", "completeAuthentication"},
             Call(r, [method |-> method, token |-> h, user |-> u, credential |-> k], {})
      PROVE  Inv'
  <2> DEFINE c == [method |-> method, token |-> h, user |-> u, credential |-> k]
  <2>1. CallOK(c) /\ Creates(c) = {}
    BY DEF CallOK, PasskeyCall, Creates
  <2> QED BY <1>2, <2>1, PlainCall
<1>3. ASSUME NEW u \in Users, NEW k \in Credentials,
             Call(r, [method |-> "deleteCredential", user |-> u, credential |-> k], {})
      PROVE  Inv'
  <2> DEFINE c == [method |-> "deleteCredential", user |-> u, credential |-> k]
  <2>1. CallOK(c) /\ Creates(c) = {}
    BY DEF CallOK, PasskeyCall, Creates
  <2> QED BY <1>3, <2>1, PlainCall
<1> QED BY <1>1, <1>2, <1>3 DEF PasskeyCalls

\* ... of TOTPStore,
LEMMA TotpCallsInv ==
    ASSUME Inv, NEW r \in Requests, TotpCalls(r)
    PROVE  Inv'
<1>0. now \in Times
  BY DEF Inv
<1>1. \A n \in Counters : n \in Nat
  BY <1>0, MongoAssumption DEF Counters, Times
<1>2. ASSUME NEW u \in Subjects, NEW k \in Secrets,
             Call(r, [method |-> "beginEnrollment", user |-> u, secret |-> k, at |-> now], {})
      PROVE  Inv'
  <2> DEFINE c == [method |-> "beginEnrollment", user |-> u, secret |-> k, at |-> now]
  <2>1. CallOK(c) /\ Creates(c) = {}
    BY <1>0 DEF CallOK, TotpCall, Creates
  <2> QED BY <1>2, <2>1, PlainCall
<1>3. ASSUME NEW u \in Subjects, NEW n \in Counters, NEW k \in RecoveryCodes,
             Call(r, [method |-> "enable", user |-> u, counter |-> n, code |-> k,
                      at |-> now], {})
      PROVE  Inv'
  <2> DEFINE c == [method |-> "enable", user |-> u, counter |-> n, code |-> k, at |-> now]
  <2>1. CallOK(c) /\ Creates(c) = {}
    BY <1>0, <1>1 DEF CallOK, TotpCall, Creates
  <2> QED BY <1>3, <2>1, PlainCall
<1>4. ASSUME NEW u \in Subjects, Call(r, [method |-> "disable", user |-> u], {}) PROVE Inv'
  <2> DEFINE c == [method |-> "disable", user |-> u]
  <2>1. CallOK(c) /\ Creates(c) = {}
    BY DEF CallOK, TotpCall, Creates
  <2> QED BY <1>4, <2>1, PlainCall
<1>5. ASSUME NEW u \in Subjects, NEW h \in Challenges,
             Call(r, [method |-> "createChallenge", token |-> h, user |-> u, at |-> now], {})
      PROVE  Inv'
  <2> DEFINE c == [method |-> "createChallenge", token |-> h, user |-> u, at |-> now]
  <2>1. CallOK(c) /\ Creates(c) = {}
    BY <1>0 DEF CallOK, TotpCall, Creates
  <2> QED BY <1>5, <2>1, PlainCall
<1>6. ASSUME NEW h \in Challenges, NEW n \in Counters,
             Call(r, [method |-> "completeCode", token |-> h, counter |-> n, at |-> now], {})
      PROVE  Inv'
  <2> DEFINE c == [method |-> "completeCode", token |-> h, counter |-> n, at |-> now]
  <2>1. CallOK(c) /\ Creates(c) = {}
    BY <1>0, <1>1 DEF CallOK, TotpCall, Creates
  <2> QED BY <1>6, <2>1, PlainCall
<1>7. ASSUME NEW h \in Challenges, NEW k \in RecoveryCodes,
             Call(r, [method |-> "completeRecovery", token |-> h, code |-> k, at |-> now], {})
      PROVE  Inv'
  <2> DEFINE c == [method |-> "completeRecovery", token |-> h, code |-> k, at |-> now]
  <2>1. CallOK(c) /\ Creates(c) = {}
    BY <1>0 DEF CallOK, TotpCall, Creates
  <2> QED BY <1>7, <2>1, PlainCall
<1> QED BY <1>2, <1>3, <1>4, <1>5, <1>6, <1>7 DEF TotpCalls

\* ... and of the stores of redirect flows.
LEMMA FlowCallsInv ==
    ASSUME Inv, NEW r \in Requests, FlowCalls(r)
    PROVE  Inv'
<1>0. now \in Times
  BY DEF Inv
<1>1. ASSUME NEW collection \in FlowCollections, NEW h \in States,
             Call(r, [method |-> "createFlow", collection |-> collection, token |-> h,
                      at |-> now], {})
      PROVE  Inv'
  <2> DEFINE c == [method |-> "createFlow", collection |-> collection, token |-> h, at |-> now]
  <2>1. CallOK(c) /\ Creates(c) = {}
    BY <1>0 DEF CallOK, FlowCall, Creates
  <2> QED BY <1>1, <2>1, PlainCall
<1>2. ASSUME NEW collection \in FlowCollections, NEW h \in States,
             Call(r, [method |-> "consumeFlow", collection |-> collection, token |-> h], {})
      PROVE  Inv'
  <2> DEFINE c == [method |-> "consumeFlow", collection |-> collection, token |-> h]
  <2>1. CallOK(c) /\ Creates(c) = {}
    BY DEF CallOK, FlowCall, Creates
  <2> QED BY <1>2, <2>1, PlainCall
<1> QED BY <1>1, <1>2 DEF FlowCalls

\* Every step keeps the invariant.
LEMMA NextInv == Inv /\ [Next]_vars => Inv'
<1> SUFFICES ASSUME Inv, [Next]_vars PROVE Inv'
  OBVIOUS
<1>1. CASE UNCHANGED vars
  <2>1. UNCHANGED <<docs, req>> /\ now' \in Times
    BY <1>1 DEF vars, Inv
  <2> QED BY <2>1, TimeInv
<1>2. CASE Tick
  <2>1. UNCHANGED <<docs, req>> /\ now' \in Times
    BY <1>2, MongoAssumption DEF Tick, Inv, Times
  <2> QED BY <2>1, TimeInv
<1>3. ASSUME NEW r \in Requests, Calls(r) PROVE Inv'
  BY <1>3, SessionCallsInv, BearerCallsInv, PasswordCallsInv, MailCallsInv, IdentityCallsInv,
     PasskeyCallsInv, TotpCallsInv, FlowCallsInv DEF Calls, AccountCalls
<1>4. ASSUME NEW r \in Requests, Run(r) \/ Commit(r) \/ Fail(r) PROVE Inv'
  BY <1>4, RunInv, CommitInv, FailInv
<1> QED BY <1>1, <1>2, <1>3, <1>4 DEF Next

\* Whichever calls race, the documents keep their shape, every account a way to sign in and
\* at most one Google identity, an address belongs to one account, and a disabled second
\* factor has no recovery codes (Adapter.transaction, Adapter.lockUser).
THEOREM AlwaysConsistent == Spec => []Consistent
<1>1. Inv => Consistent
  BY DEF Inv, Sound, DocsOK, PreparedOK, Consistent, TypeOK, Times
<1> QED BY InitInv, NextInv, <1>1, PTL DEF Spec

-----------------------------------------------------------------------------
(***************************************************************************)
(* What is decided stays decided.                                          *)
(*                                                                         *)
(* Safe writes say nothing of which write it is.  That the write of a      *)
(* transaction is still the one that its method would decide on needs more *)
(* of the calls, and of the writes that take effect in between.            *)
(***************************************************************************)

\* No user has been sent the token, for any purpose.
Unsent(t) == \A kind \in Kinds, u \in Users : Doc(Mail(kind, u)) # t

\* What the managers looked up before they called is still so: no method deletes a session
\* or a token, a session keeps its owner and its creation, and a token is drawn for one mail.
Fits(c) ==
    /\ c.method = "create" =>
          \E t \in SessionTokens, s \in Subjects, at \in Times : c.rec = Cookie!NewRecord(t, s, at)
    /\ c.method = "extend" =>
          /\ Extension /\ Exists(Session(c.token))
          /\ c.expires = Cookie!ExtendedExpiry(docs[Session(c.token)], c.at)
    /\ c.method = "rotate" =>
          /\ Exists(Session(c.token))
          /\ \E t \in SessionTokens, at \in Times :
                c.rec = Cookie!NewRecord(t, docs[Session(c.token)].subject, at)
    /\ c.method = "revokeAccess" => Exists(Access(c.sid))
    /\ c.method = "rotateRefresh" => Exists(Refresh(c.token))
    /\ c.method = "issue" => Unsent(c.token)

\* A write that touches a bearer session revokes all of it that is not revoked.
Whole(w) ==
    \A sid \in SessionIDs : DOMAIN w \cap BearerDocs({sid}) # {} =>
        \A d \in BearerDocs({sid}) : Exists(d) /\ ~docs[d].revoked => d \in DOMAIN w

RevokesSeveral(c) == c.method \in {"revokeAll", "revokeAllAccess"}

\* The write is the one that the method would decide on now; that of RevokeAll may miss
\* sessions, but not a part of one.
Takes(c, w) ==
    IF RevokesSeveral(c)
    THEN /\ \A d \in DOMAIN w : d \in DOMAIN Decision(c).write /\ Decision(c).write[d] = w[d]
         /\ c.method = "revokeAllAccess" => Whole(w)
    ELSE w = Decision(c).write

\* So is what a transaction has decided and has yet to commit.
StillDecides(c, out) ==
    /\ c.method \notin SingleWrites
    /\ out.answer = Decision(c).answer
    /\ Takes(c, out.write)

\* The documents that the revocation c is about.
About(c, d) ==
    \/ c.method = "revokeAll" /\ d \in SessionDocs(c.user)
    \/ c.method = "revokeAccess" /\ d \in BearerDocs({c.sid})
    \/ c.method = "revokeAllAccess" /\ d \in BearerDocs(Bearer!SessionsOf(c.user))
    \/ c.method = "rotateRefresh" /\ d \in BearerDocs({docs[Refresh(c.token)].session})

\* It revokes, as far as it has been decided.
Revokes(v) == v.call.method = "rotateRefresh" => v.out.answer = "reuse"

\* v: the record of a request.
RecordOK(v) ==
    v.call # None =>
        /\ Fits(v.call)
        /\ \A d \in v.seen : About(v.call, d)
        /\ v.out # None => StillDecides(v.call, v.out)
        /\ v.out # None /\ Revokes(v) =>
              \A d \in v.seen : docs[d].revoked \/ d \in DOMAIN v.out.write

\* A refresh token belongs to a session that exists.
TokensOwned ==
    \A t \in Tokens : Exists(Refresh(t)) => Exists(Access(docs[Refresh(t)].session))

\* No two users have been sent the same token ...
MailsUnique ==
    \A kind \in Kinds : \A u \in Users, o \in Users :
        Exists(Mail(kind, u)) /\ Doc(Mail(kind, u)) = Doc(Mail(kind, o)) => u = o

Issues(v, t) == v.call # None /\ v.call.method = "issue" /\ v.call.token = t

\* ... nor will be.
MailsDiffer ==
    \A r, x \in Requests : \A t \in MailTokens : Issues(req[r], t) /\ Issues(req[x], t) => r = x

More ==
    /\ TokensOwned /\ MailsUnique /\ MailsDiffer
    /\ \A r \in Requests : RecordOK(req[r])

-----------------------------------------------------------------------------
(***************************************************************************)
(* What the methods write, of sessions and mailed tokens.                  *)
(***************************************************************************)

SessionCollections == {"sessions", "access_sessions", "refresh_tokens"}

\* A write that touches no session, and stores no mailed token.
Plain(w) ==
    \A d \in DOMAIN w : d[1] \notin SessionCollections /\ (d[1] \in Kinds => w[d] = None)

PlainKey(d) == d[1] \notin SessionCollections \cup Kinds

\* The documents that hold neither.
LEMMA PlainKeys ==
    /\ \A x : /\ PlainKey(User(x)) /\ PlainKey(Email(x)) /\ PlainKey(Password(x))
              /\ PlainKey(Identity(x)) /\ PlainKey(Passkey(x)) /\ PlainKey(Ceremony(x))
              /\ PlainKey(Enrollment(x)) /\ PlainKey(Totp(x)) /\ PlainKey(Recovery(x))
              /\ PlainKey(Challenge(x))
    /\ \A collection \in FlowCollections : \A x : PlainKey(Flow(collection, x))
    /\ \A kind \in Kinds : \A x : Mail(kind, x)[1] \notin SessionCollections
BY Keys DEF PlainKey, SessionCollections, Kinds, FlowCollections

\* What such writes are made of.
LEMMA PlainWrites ==
    /\ Plain(<<>>)
    /\ \A d, v : PlainKey(d) => Plain(d :> v)
    /\ \A f, g : Plain(f) /\ Plain(g) => Plain(f @@ g)
    /\ \A D : (\A d \in D : d[1] \notin SessionCollections) => Plain(Erased(D))
<1>1. Plain(<<>>)
  BY NothingOK DEF Plain
<1>2. ASSUME NEW d, NEW v, PlainKey(d) PROVE Plain(d :> v)
  BY <1>2 DEF Plain, PlainKey, :>
<1>3. ASSUME NEW f, NEW g, Plain(f), Plain(g) PROVE Plain(f @@ g)
  BY <1>3 DEF Plain, @@
<1>4. ASSUME NEW D, \A d \in D : d[1] \notin SessionCollections PROVE Plain(Erased(D))
  BY <1>4 DEF Plain, Erased
<1> QED BY <1>1, <1>2, <1>3, <1>4

\* What an answer writes.
LEMMA Answers == \A a, x : Refuse(a).write = <<>> /\ Ok(x).write = x
BY DEF Refuse, Ok

\* A method of accounts, of second factors or of redirect flows, but for Issue.
LEMMA PlainDecisions ==
    ASSUME NEW c, CallOK(c), c.method # "issue", ~SessionCall(c), ~BearerCall(c)
    PROVE  Plain(Decision(c).write)
<1> DEFINE w == Decision(c).write
<1> USE PlainKeys, PlainWrites
<1>1. CASE PasswordCall(c)
  <2>1. \A u, e, v : Plain(NewUser(u, e, v))
    BY DEF NewUser
  <2>2. \A u : Plain(LockUser(u))
    BY DEF LockUser
  <2>3. \A u : Plain(Erased({Password(u)}))
    BY DEF PlainKey
  <2>4. CASE c.method = "register"
    <3>1. Decision(c) = Register(c)
      BY <2>4 DEF Decision
    <3>2. PICK v : v = FALSE
      OBVIOUS
    <3> DEFINE x == NewUser(c.user, c.email, v) @@ Password(c.user) :> c.hash
    <3>3. Register(c) = Refuse("conflict") \/ Register(c) = Ok(x)
      BY <3>2, Zenon DEF Register
    <3>4. Plain(x)
      BY <2>1
    <3> HIDE DEF x
    <3> QED BY <3>1, <3>3, <3>4, Answers
  <2>5. CASE c.method = "addPassword"
    BY <2>2, <2>5 DEF Decision, AddPassword, Ok, Refuse
  <2>6. CASE c.method = "replaceHash"
    BY <2>6 DEF Decision, ReplacePasswordHash, Ok, Refuse
  <2>7. CASE c.method = "removePassword"
    BY <2>2, <2>3, <2>7 DEF Decision, RemovePassword, Ok, Refuse
  <2> QED BY <1>1, <2>4, <2>5, <2>6, <2>7 DEF PasswordCall
<1>2. CASE MailCall(c)
  <2>1. \A kind \in Kinds : \A u : Plain(Erased({Mail(kind, u)}))
    OBVIOUS
  <2>2. "email_verifications" \in Kinds /\ "password_resets" \in Kinds
    BY DEF Kinds
  <2>3. CASE c.method = "verify"
    <3>1. Decision(c) = Verify(c)
      BY <2>3 DEF Decision
    <3>2. PICK u : u = CHOOSE q \in {o \in MailedTo("email_verifications", c.token) : Exists(User(o))} : TRUE
      OBVIOUS
    <3>3. PICK row : row = [docs[User(u)] EXCEPT !.verified = TRUE]
      OBVIOUS
    <3> DEFINE x == User(u) :> row @@ Erased({Mail("email_verifications", u)})
    <3>4. \/ Verify(c) = Refuse("not_found") \/ Verify(c) = Refuse("inactive_token")
          \/ Verify(c) = Ok(x)
      BY <3>2, <3>3, Zenon DEF Verify
    <3>5. Plain(x)
      BY <2>1, <2>2
    <3> HIDE DEF x
    <3> QED BY <3>1, <3>4, <3>5, Answers
  <2>4. CASE c.method = "reset"
    <3>1. Decision(c) = ResetPassword(c)
      BY <2>4 DEF Decision
    <3>2. PICK u : u = CHOOSE q \in {o \in MailedTo("password_resets", c.token) : Exists(User(o))} : TRUE
      OBVIOUS
    <3> DEFINE x == Password(u) :> c.hash @@ Erased({Mail("password_resets", u)})
    <3>3. ResetPassword(c) = Refuse("not_found") \/ ResetPassword(c) = Ok(x)
      BY <3>2, Zenon DEF ResetPassword
    <3>4. Plain(x)
      BY <2>1, <2>2
    <3> HIDE DEF x
    <3> QED BY <3>1, <3>3, <3>4, Answers
  <2> QED BY <1>2, <2>3, <2>4 DEF MailCall
<1>3. CASE IdentityCall(c)
  <2>1. \A u, e, v : Plain(NewUser(u, e, v))
    BY DEF NewUser
  <2>2. \A u : Plain(LockUser(u))
    BY DEF LockUser
  <2>3. \A p : Plain(Erased({Identity(p)}))
    BY DEF PlainKey
  <2>4. CASE c.method = "resolve"
    <3>1. Decision(c) = ResolveIdentity(c)
      BY <2>4 DEF Decision
    <3>2. Plain(ResolveKnown(c).write)
      BY DEF ResolveKnown, Ok, Refuse
    <3>3. Plain(ResolveLink(c).write)
      BY <2>2 DEF ResolveLink, Ok, Refuse
    <3>4. Plain(ResolveCreate(c).write)
      <4>1. PICK v : v = TRUE
        OBVIOUS
      <4>2. \/ ResolveCreate(c).write = <<>>
            \/ ResolveCreate(c).write = NewUser(c.new, c.email, v) @@ Identity(c.identity) :> c.new
        BY <4>1, Zenon DEF ResolveCreate, Ok, Refuse
      <4> QED BY <2>1, <4>2
    <3> QED BY <3>1, <3>2, <3>3, <3>4 DEF ResolveIdentity
  <2>5. CASE c.method = "unlink"
    <3>1. Decision(c) = UnlinkIdentity(c)
      BY <2>5 DEF Decision
    <3>2. PICK p : p = CHOOSE q \in IdentitiesOf(c.user) : TRUE
      OBVIOUS
    <3> DEFINE x == LockUser(c.user) @@ Erased({Identity(p)})
    <3>3. \/ UnlinkIdentity(c) = Refuse("not_found")
          \/ UnlinkIdentity(c) = Refuse("last_credential")
          \/ UnlinkIdentity(c) = Ok(x)
      BY <3>2, Zenon DEF UnlinkIdentity
    <3>4. Plain(x)
      BY <2>2, <2>3
    <3> HIDE DEF x
    <3> QED BY <3>1, <3>3, <3>4, Answers
  <2> QED BY <1>3, <2>4, <2>5 DEF IdentityCall
<1>4. CASE PasskeyCall(c)
  <2>1. \A u : Plain(LockUser(u))
    BY DEF LockUser
  <2>2. \A h : Plain(ConsumeCeremony(h))
    BY DEF ConsumeCeremony
  <2>3. \A k : Plain(Erased({Passkey(k)}))
    BY DEF PlainKey
  <2>4. CASE c.method = "createCeremony"
    <3>1. Decision(c) = CreateCeremony(c)
      BY <2>4 DEF Decision
    <3> DEFINE x == Ceremony(c.token) :> [type |-> c.type, user |-> c.user, consumed |-> FALSE]
    <3>2. CreateCeremony(c) = Refuse("conflict") \/ CreateCeremony(c) = Ok(x)
      BY Zenon DEF CreateCeremony
    <3>3. Plain(x)
      OBVIOUS
    <3> HIDE DEF x
    <3> QED BY <3>1, <3>2, <3>3, Answers
  <2>5. CASE c.method = "completeRegistration"
    BY <2>1, <2>2, <2>5 DEF Decision, CompleteRegistration, Ok, Refuse
  <2>6. CASE c.method = "completeAuthentication"
    BY <2>2, <2>6 DEF Decision, CompleteAuthentication, Ok, Refuse
  <2>7. CASE c.method = "deleteCredential"
    <3>1. Decision(c) = DeleteCredential(c)
      BY <2>7 DEF Decision
    <3> DEFINE x == LockUser(c.user) @@ Erased({Passkey(c.credential)})
    <3>2. \/ DeleteCredential(c) = Refuse("not_found")
          \/ DeleteCredential(c) = Refuse("last_credential")
          \/ DeleteCredential(c) = Ok(x)
      BY Zenon DEF DeleteCredential
    <3>3. Plain(x)
      BY <2>1, <2>3
    <3> HIDE DEF x
    <3> QED BY <3>1, <3>2, <3>3, Answers
  <2> QED BY <1>4, <2>4, <2>5, <2>6, <2>7 DEF PasskeyCall
<1>5. CASE TotpCall(c)
  <2>1. \A h : Plain(ConsumeChallenge(h))
    BY DEF ConsumeChallenge
  <2>2. \A u : /\ Plain(Erased(RecoveryOf(u) \cup {Enrollment(u)}))
               /\ Plain(Erased(RecoveryOf(u)))
    BY DEF RecoveryOf, PlainKey
  <2>3. CASE c.method = "beginEnrollment"
    BY <2>3 DEF Decision, BeginEnrollment, Ok
  <2>4. CASE c.method = "enable"
    <3>1. Decision(c) = Enable(c)
      BY <2>4 DEF Decision
    <3>2. PICK row : row = [secret |-> docs[Enrollment(c.user)].secret, last |-> c.counter,
                            disabled |-> FALSE]
      OBVIOUS
    <3>3. PICK code : code = [user |-> c.user, used |-> FALSE]
      OBVIOUS
    <3> DEFINE x == Totp(c.user) :> row @@ Recovery(c.code) :> code
                      @@ Erased(RecoveryOf(c.user) \cup {Enrollment(c.user)})
    <3>4. \/ Enable(c) = Refuse("not_found") \/ Enable(c) = Refuse("inactive_enrollment")
          \/ Enable(c) = Ok(x)
      BY <3>2, <3>3, Zenon DEF Enable
    <3>5. Plain(x)
      BY <2>2
    <3> HIDE DEF x
    <3> QED BY <3>1, <3>4, <3>5, Answers
  <2>5. CASE c.method = "disable"
    <3>1. Decision(c) = Disable(c)
      BY <2>5 DEF Decision
    <3>2. PICK row : row = [docs[Totp(c.user)] EXCEPT !.disabled = TRUE]
      OBVIOUS
    <3> DEFINE x == Totp(c.user) :> row @@ Erased(RecoveryOf(c.user))
    <3>3. \/ Disable(c) = Refuse("not_found") \/ Disable(c) = Ok(Erased(RecoveryOf(c.user)))
          \/ Disable(c) = Ok(x)
      BY <3>2, Zenon DEF Disable
    <3>4. Plain(x)
      BY <2>2
    <3> HIDE DEF x
    <3> QED BY <2>2, <3>1, <3>3, <3>4, Answers
  <2>6. CASE c.method = "createChallenge"
    <3>1. Decision(c) = CreateChallenge(c)
      BY <2>6 DEF Decision
    <3>2. PICK row : row = [user |-> c.user, expires |-> c.at + ChallengeLifetime,
                            consumed |-> FALSE]
      OBVIOUS
    <3> DEFINE x == Challenge(c.token) :> row
    <3>3. CreateChallenge(c) = Refuse("conflict") \/ CreateChallenge(c) = Ok(x)
      BY <3>2, Zenon DEF CreateChallenge
    <3>4. Plain(x)
      OBVIOUS
    <3> HIDE DEF x
    <3> QED BY <3>1, <3>3, <3>4, Answers
  <2>7. CASE c.method = "completeCode"
    <3>1. Decision(c) = CompleteCode(c)
      BY <2>7 DEF Decision
    <3>2. PICK u : u = docs[Challenge(c.token)].user
      OBVIOUS
    <3>3. PICK row : row = [docs[Totp(u)] EXCEPT !.last = c.counter]
      OBVIOUS
    <3> DEFINE x == ConsumeChallenge(c.token) @@ Totp(u) :> row
    <3>4. \/ CompleteCode(c) = Refuse("inactive_challenge")
          \/ CompleteCode(c) = Refuse("invalid_code") \/ CompleteCode(c) = Ok(x)
      BY <3>2, <3>3, Zenon DEF CompleteCode
    <3>5. Plain(x)
      BY <2>1
    <3> HIDE DEF x
    <3> QED BY <3>1, <3>4, <3>5, Answers
  <2>8. CASE c.method = "completeRecovery"
    <3>1. Decision(c) = CompleteRecovery(c)
      BY <2>8 DEF Decision
    <3>2. PICK row : row = [docs[Recovery(c.code)] EXCEPT !.used = TRUE]
      OBVIOUS
    <3> DEFINE x == ConsumeChallenge(c.token) @@ Recovery(c.code) :> row
    <3>3. \/ CompleteRecovery(c) = Refuse("inactive_challenge")
          \/ CompleteRecovery(c) = Refuse("invalid_code") \/ CompleteRecovery(c) = Ok(x)
      BY <3>2, Zenon DEF CompleteRecovery
    <3>4. Plain(x)
      BY <2>1
    <3> HIDE DEF x
    <3> QED BY <3>1, <3>3, <3>4, Answers
  <2> QED BY <1>5, <2>3, <2>4, <2>5, <2>6, <2>7, <2>8 DEF TotpCall
<1>6. CASE FlowCall(c)
  <2>1. c.collection \in FlowCollections
    BY <1>6 DEF FlowCall
  <2>2. Plain(Erased({Flow(c.collection, c.token)}))
    BY <2>1 DEF PlainKey
  <2>3. CASE c.method = "createFlow"
    BY <2>1, <2>3 DEF Decision, CreateFlow, Ok, Refuse
  <2>4. CASE c.method = "consumeFlow"
    BY <2>2, <2>4 DEF Decision, ConsumeFlow, Ok, Refuse
  <2> QED BY <1>6, <2>3, <2>4 DEF FlowCall
<1> QED BY <1>1, <1>2, <1>3, <1>4, <1>5, <1>6 DEF CallOK

-----------------------------------------------------------------------------
(***************************************************************************)
(* What the methods write of sessions: none is deleted, none that is       *)
(* revoked is touched, and what is inserted belongs where it says.         *)
(***************************************************************************)

SessionsKept(w) ==
    \A t \in SessionTokens : Session(t) \in DOMAIN w =>
        /\ w[Session(t)] # None
        /\ Exists(Session(t)) =>
              /\ ~docs[Session(t)].revoked
              /\ w[Session(t)].subject = docs[Session(t)].subject
              /\ w[Session(t)].created = docs[Session(t)].created

AccessKept(w) ==
    \A sid \in SessionIDs : Access(sid) \in DOMAIN w =>
        /\ w[Access(sid)] # None
        /\ Exists(Access(sid)) => /\ ~docs[Access(sid)].revoked
                                  /\ w[Access(sid)].subject = docs[Access(sid)].subject

\* A new token comes with its session or from another of that session.
RefreshKept(w) ==
    \A t \in Tokens : Refresh(t) \in DOMAIN w =>
        /\ w[Refresh(t)] # None
        /\ IF Exists(Refresh(t))
           THEN /\ ~docs[Refresh(t)].revoked
                /\ w[Refresh(t)].session = docs[Refresh(t)].session
           ELSE \/ /\ ~Exists(Access(w[Refresh(t)].session))
                   /\ Access(w[Refresh(t)].session) \in DOMAIN w
                \/ \E p \in Tokens : /\ Exists(Refresh(p)) /\ Refresh(p) \in DOMAIN w
                                     /\ docs[Refresh(p)].session = w[Refresh(t)].session

\* What is inserted together with the change of a session's document is that session's, or
\* its owner's.
Inherits(w) ==
    \A d \in DOMAIN w : \A e \in DOMAIN w : Exists(d) /\ ~Exists(e) =>
        /\ \A t \in SessionTokens : d = Session(t) =>
              \E u \in SessionTokens : e = Session(u) /\ w[e].subject = docs[d].subject
        /\ \A sid \in SessionIDs : d \in BearerDocs({sid}) =>
              \E u \in Tokens : e = Refresh(u) /\ w[e].session = sid

Kept(w) == SessionsKept(w) /\ AccessKept(w) /\ RefreshKept(w) /\ Inherits(w)

\* What the documents of sessions are, by name.
LEMMA TypedSessions ==
    ASSUME DocsOK
    PROVE  /\ \A t : Exists(Session(t)) => docs[Session(t)] \in Cookie!Record
           /\ \A sid : Exists(Access(sid)) => docs[Access(sid)] \in Bearer!AccessSession
           /\ \A t : Exists(Refresh(t)) => docs[Refresh(t)] \in Bearer!RefreshToken
<1>1. \A d : Exists(d) => docs[d] \in Values(d[1])
  BY DEF DocsOK, Exists
<1>2. \A t : Exists(Session(t)) => docs[Session(t)] \in Values("sessions")
  BY <1>1, Keys
<1>3. \A sid : Exists(Access(sid)) => docs[Access(sid)] \in Values("access_sessions")
  BY <1>1, Keys
<1>4. \A t : Exists(Refresh(t)) => docs[Refresh(t)] \in Values("refresh_tokens")
  BY <1>1, Keys
<1> QED BY <1>2, <1>3, <1>4, ValuesOf

\* None is no session or token.
LEMMA SomeSession ==
    None \notin Cookie!Record /\ None \notin Bearer!AccessSession /\ None \notin Bearer!RefreshToken
<1>1. {"sessions", "access_sessions", "refresh_tokens"} \subseteq Collections
  BY DEF Collections
<1> QED BY <1>1, NoValueAssumption, ValuesOf

\* Nothing is written of sessions.
LEMMA PlainKept ==
    ASSUME NEW w, Plain(w)
    PROVE  Kept(w)
<1>1. \A x : Session(x) \notin DOMAIN w /\ Access(x) \notin DOMAIN w /\ Refresh(x) \notin DOMAIN w
  BY Keys DEF Plain, SessionCollections
<1>2. \A sids : \A d \in BearerDocs(sids) : d \notin DOMAIN w
  BY <1>1 DEF BearerDocs
<1> QED BY <1>1, <1>2 DEF Kept, SessionsKept, AccessKept, RefreshKept, Inherits

\* A write that does no more than revoke.
OnlyRevokes(w) ==
    \A d \in DOMAIN w : /\ Exists(d) /\ ~docs[d].revoked
                        /\ w[d] = [docs[d] EXCEPT !.revoked = TRUE]

\* UpdateMany of unrevoked documents does.
LEMMA RevokingWrites == \A D : OnlyRevokes(Revoking(D))
BY DEF Revoking, OnlyRevokes

\* Such a write keeps what holds of the sessions.
LEMMA RevokingKept ==
    ASSUME DocsOK, NEW w, OnlyRevokes(w)
    PROVE  Kept(w)
<1>1. SessionsKept(w)
  <2> SUFFICES ASSUME NEW t \in SessionTokens, Session(t) \in DOMAIN w
               PROVE  /\ w[Session(t)] # None /\ ~docs[Session(t)].revoked
                      /\ w[Session(t)].subject = docs[Session(t)].subject
                      /\ w[Session(t)].created = docs[Session(t)].created
    BY DEF SessionsKept
  <2> DEFINE row == docs[Session(t)]
  <2>1. /\ row \in Cookie!Record /\ ~row.revoked
        /\ w[Session(t)] = [row EXCEPT !.revoked = TRUE]
    BY TypedSessions DEF OnlyRevokes
  <2> HIDE DEF row
  <2>2. /\ w[Session(t)] \in Cookie!Record
        /\ w[Session(t)].subject = row.subject /\ w[Session(t)].created = row.created
    BY <2>1 DEF Cookie!Record
  <2> QED BY <2>1, <2>2, SomeSession DEF row
<1>2. AccessKept(w)
  <2> SUFFICES ASSUME NEW sid \in SessionIDs, Access(sid) \in DOMAIN w
               PROVE  /\ w[Access(sid)] # None /\ ~docs[Access(sid)].revoked
                      /\ w[Access(sid)].subject = docs[Access(sid)].subject
    BY DEF AccessKept
  <2> DEFINE row == docs[Access(sid)]
  <2>1. /\ row \in Bearer!AccessSession /\ ~row.revoked
        /\ w[Access(sid)] = [row EXCEPT !.revoked = TRUE]
    BY TypedSessions DEF OnlyRevokes
  <2> HIDE DEF row
  <2>2. w[Access(sid)] \in Bearer!AccessSession /\ w[Access(sid)].subject = row.subject
    BY <2>1 DEF Bearer!AccessSession
  <2> QED BY <2>1, <2>2, SomeSession DEF row
<1>3. RefreshKept(w)
  <2> SUFFICES ASSUME NEW t \in Tokens, Refresh(t) \in DOMAIN w
               PROVE  /\ w[Refresh(t)] # None /\ Exists(Refresh(t)) /\ ~docs[Refresh(t)].revoked
                      /\ w[Refresh(t)].session = docs[Refresh(t)].session
    BY DEF RefreshKept
  <2> DEFINE row == docs[Refresh(t)]
  <2>1. /\ row \in Bearer!RefreshToken /\ ~row.revoked /\ Exists(Refresh(t))
        /\ w[Refresh(t)] = [row EXCEPT !.revoked = TRUE]
    BY TypedSessions DEF OnlyRevokes
  <2> HIDE DEF row
  <2>2. w[Refresh(t)] \in Bearer!RefreshToken /\ w[Refresh(t)].session = row.session
    BY <2>1 DEF Bearer!RefreshToken
  <2> QED BY <2>1, <2>2, SomeSession DEF row
<1>4. Inherits(w)
  BY DEF Inherits, OnlyRevokes
<1> QED BY <1>1, <1>2, <1>3, <1>4 DEF Kept

\* A cookie session as SessionStore sees it.
LEMMA CookieRecord ==
    ASSUME NEW t \in SessionTokens, NEW at, Cookie!Rotatable(t, at)
    PROVE  Exists(Session(t)) /\ ~docs[Session(t)].revoked
BY DEF Cookie!Rotatable, Cookie!Exists, Cookie!ActiveAt, Doc

\* SessionStore's methods.
LEMMA CookieKept ==
    ASSUME Sound, NEW c, SessionCall(c), Fits(c), NEW w, Takes(c, w)
    PROVE  Kept(w)
<1>0. DocsOK
  BY DEF Sound
<1>1. Kept(<<>>)
  BY PlainWrites, PlainKept
<1>2. ASSUME NEW one, \A d \in DOMAIN one : \E t : d = Session(t), SessionsKept(one),
             Inherits(one)
      PROVE  Kept(one)
  BY <1>2, Keys DEF Kept, AccessKept, RefreshKept
<1>3. ASSUME NEW d PROVE \A t : d = Session(t) => \A sids : d \notin BearerDocs(sids)
  BY Keys DEF BearerDocs
<1>4. CASE c \in [method: {"create"}, rec: Cookie!Record]
  <2> DEFINE one == Session(c.rec.hash) :> c.rec
  <2>1. Decision(c) = Create(c) /\ ~RevokesSeveral(c)
    BY <1>4 DEF Decision, RevokesSeveral
  <2>2. w = <<>> \/ (~Exists(Session(c.rec.hash)) /\ w = one)
    BY <2>1 DEF Takes, Create, Ok, Refuse
  <2>3. c.rec # None
    BY <1>4, SomeSession
  <2>4. DOMAIN one = {Session(c.rec.hash)} /\ one[Session(c.rec.hash)] = c.rec
    BY DEF :>
  <2> HIDE DEF one
  <2>5. ~Exists(Session(c.rec.hash)) => SessionsKept(one) /\ Inherits(one)
    BY <2>3, <2>4 DEF SessionsKept, Inherits
  <2> QED BY <1>1, <1>2, <2>2, <2>4, <2>5
<1>5. CASE c \in [method: {"extend"}, token: SessionTokens, at: Times, expires: Nat]
  <2> DEFINE row == docs[Session(c.token)]
             new == [row EXCEPT !.last = c.at, !.expires = c.expires]
             one == Session(c.token) :> new
  <2>1. Decision(c) = Extend(c) /\ ~RevokesSeveral(c)
    BY <1>5 DEF Decision, RevokesSeveral
  <2>2. w = <<>> \/ (Cookie!Extendable(c.token, c.at, c.expires) /\ w = one)
    BY <2>1 DEF Takes, Extend, Ok, Refuse
  <2>3. ASSUME Cookie!Extendable(c.token, c.at, c.expires)
        PROVE  Exists(Session(c.token)) /\ ~row.revoked /\ row \in Cookie!Record
    <3>1. Cookie!Rotatable(c.token, c.at)
      BY <2>3 DEF Cookie!Extendable, Cookie!Rotatable
    <3> QED BY <1>0, <1>5, <3>1, CookieRecord, TypedSessions
  <2>4. DOMAIN one = {Session(c.token)} /\ one[Session(c.token)] = new
    BY OneDoc
  <2>5. ASSUME row \in Cookie!Record
        PROVE  new.subject = row.subject /\ new.created = row.created /\ new \in Cookie!Record
    <3>1. c.at \in Nat /\ c.expires \in Nat
      BY <1>5 DEF Times
    <3> HIDE DEF row
    <3> QED BY <2>5, <3>1 DEF Cookie!Record
  <2> HIDE DEF new
  <2>6. ASSUME Cookie!Extendable(c.token, c.at, c.expires)
        PROVE  SessionsKept(one) /\ Inherits(one)
    <3>1. /\ Exists(Session(c.token)) /\ ~row.revoked
          /\ new.subject = row.subject /\ new.created = row.created /\ new # None
      BY <2>3, <2>5, <2>6, SomeSession
    <3> HIDE DEF one
    <3> QED BY <2>4, <3>1 DEF SessionsKept, Inherits
  <2> HIDE DEF one
  <2> QED BY <1>1, <1>2, <2>2, <2>4, <2>6
<1>6. CASE c \in [method: {"rotate"}, token: SessionTokens, at: Times, rec: Cookie!Record]
  <2> DEFINE new == Session(c.rec.hash)
             old == Session(c.token)
             one == new :> c.rec
             spent == Revoking({old})
             two == one @@ spent
  <2>1. Decision(c) = Rotate(c) /\ ~RevokesSeveral(c)
    BY <1>6 DEF Decision, RevokesSeveral
  <2>2. w = <<>> \/ (Cookie!Rotatable(c.token, c.at) /\ ~Exists(new) /\ w = two)
    BY <2>1 DEF Takes, Rotate, Ok, Refuse
  <2>3. ASSUME Cookie!Rotatable(c.token, c.at), ~Exists(new) PROVE Kept(two)
    <3>1. Exists(old) /\ ~docs[old].revoked
      BY <1>6, <2>3, CookieRecord
    <3>2. DOMAIN one = {new} /\ one[new] = c.rec
      BY DEF :>
    <3>3. Kept(spent) /\ DOMAIN spent \subseteq {old}
      <4>1. DOMAIN spent \subseteq {old}
        BY DEF Revoking
      <4> HIDE DEF spent
      <4>2. Kept(spent)
        BY <1>0, RevokingWrites, RevokingKept DEF spent
      <4> QED BY <4>1, <4>2
    <3>4. Joins(two, one, spent)
      BY DEF Joins
    <3>5. c.rec.subject = docs[old].subject /\ c.rec # None
      <4>1. PICK t \in SessionTokens, at \in Times :
                c.rec = Cookie!NewRecord(t, docs[old].subject, at)
        BY <1>6 DEF Fits
      <4>2. c.rec \in Cookie!Record
        BY <1>6
      <4>3. PICK s : s = docs[old].subject
        OBVIOUS
      <4>4. c.rec = Cookie!NewRecord(t, s, at)
        BY <4>1, <4>3
      <4>5. c.rec.subject = s
        BY <4>4 DEF Cookie!NewRecord
      <4> QED BY <4>2, <4>3, <4>5, SomeSession
    <3> HIDE DEF one, spent, two
    <3>6. /\ \A d : d \in DOMAIN two <=> d = new \/ d \in DOMAIN spent
          /\ two[new] = c.rec
          /\ \A d \in DOMAIN spent : d # new => two[d] = spent[d]
      BY <3>2, <3>4, MergedDomain, MergedValue
    <3>7. SessionsKept(two)
      BY <2>3, <3>3, <3>5, <3>6 DEF Kept, SessionsKept
    <3>8. Inherits(two)
      <4> SUFFICES ASSUME NEW d \in DOMAIN two, NEW e \in DOMAIN two, Exists(d), ~Exists(e)
                   PROVE  /\ d = old /\ e = new
        BY <1>3, <1>6, <3>5, <3>6 DEF Inherits, Cookie!Record
      <4> QED BY <2>3, <3>1, <3>3, <3>6
    <3>9. \A d \in DOMAIN two : \E t : d = Session(t)
      BY <3>3, <3>6
    <3> QED BY <1>2, <3>7, <3>8, <3>9
  <2> HIDE DEF two, new
  <2> QED BY <1>1, <2>2, <2>3
<1>7. CASE c \in [method: {"revoke"}, token: SessionTokens]
  <2>1. Decision(c) = Revoke(c) /\ ~RevokesSeveral(c)
    BY <1>7 DEF Decision, RevokesSeveral
  <2>2. w = <<>> \/ w = Revoking({Session(c.token)})
    BY <2>1 DEF Takes, Revoke, Ok, Refuse
  <2> QED BY <1>0, <1>1, <2>2, RevokingWrites, RevokingKept
<1>8. CASE c \in [method: {"revokeAll"}, user: Subjects]
  <2>1. Decision(c).write = Revoking(SessionDocs(c.user)) /\ RevokesSeveral(c)
    BY <1>8 DEF Decision, RevokeAll, Ok, RevokesSeveral
  <2>2. OnlyRevokes(Decision(c).write)
    BY <2>1, RevokingWrites
  <2>3. OnlyRevokes(w)
    BY <2>1, <2>2 DEF Takes, OnlyRevokes
  <2> QED BY <1>0, <2>3, RevokingKept
<1> QED BY <1>4, <1>5, <1>6, <1>7, <1>8 DEF SessionCall

\* A refresh token that is active.
LEMMA ActiveToken ==
    ASSUME NEW t \in Tokens, NEW at, Bearer!RefreshActive(t, at)
    PROVE  Exists(Refresh(t)) /\ ~docs[Refresh(t)].revoked /\ ~docs[Refresh(t)].rotated
BY DEF Bearer!RefreshActive, Doc

\* AccessSessionStore's and RefreshTokenStore's methods.
LEMMA BearerKept ==
    ASSUME Sound, NEW c, BearerCall(c), NEW w, Takes(c, w)
    PROVE  Kept(w)
<1>0. DocsOK
  BY DEF Sound
<1>1. Kept(<<>>)
  BY PlainWrites, PlainKept
<1>2. \A sids : OnlyRevokes(RevokeSessions(sids))
  BY RevokingWrites DEF RevokeSessions
<1>3. CASE c \in [method: {"createSession"}, sid: SessionIDs, user: Subjects, new: Tokens, at: Times]
  <2> DEFINE session == Bearer!NewSession(c.user, c.at)
             token == Bearer!NewToken(c.sid, c.at + RefreshLifetime)
             one == Access(c.sid) :> session
             other == Refresh(c.new) :> token
             two == one @@ other
  <2>1. Decision(c) = CreateSession(c) /\ ~RevokesSeveral(c)
    BY <1>3 DEF Decision, RevokesSeveral
  <2>2. w = <<>> \/ (~Exists(Access(c.sid)) /\ ~Exists(Refresh(c.new)) /\ w = two)
    BY <2>1 DEF Takes, CreateSession, Ok, Refuse
  <2>3. session # None /\ token # None /\ token.session = c.sid
    <3>1. c.at + RefreshLifetime \in Nat
      BY <1>3, MongoAssumption DEF Times
    <3>2. session \in Bearer!AccessSession
      BY <1>3, <3>1 DEF Bearer!NewSession, Bearer!AccessSession
    <3>3. token \in Bearer!RefreshToken /\ token.session = c.sid
      BY <1>3, <3>1 DEF Bearer!NewToken, Bearer!RefreshToken
    <3> HIDE DEF session, token
    <3> QED BY <3>2, <3>3, SomeSession
  <2> HIDE DEF session, token
  <2>4. /\ DOMAIN two = {Access(c.sid), Refresh(c.new)}
        /\ two[Access(c.sid)] = session /\ two[Refresh(c.new)] = token
    <3>1. DOMAIN one = {Access(c.sid)} /\ one[Access(c.sid)] = session
      BY DEF :>
    <3>2. DOMAIN other = {Refresh(c.new)} /\ other[Refresh(c.new)] = token
      BY DEF :>
    <3>3. Access(c.sid) # Refresh(c.new)
      BY Keys
    <3>4. Joins(two, one, other)
      BY DEF Joins
    <3> HIDE DEF one, other, two
    <3> QED BY <3>1, <3>2, <3>3, <3>4, MergedDomain, MergedValue
  <2> HIDE DEF two
  <2>5. ASSUME ~Exists(Access(c.sid)), ~Exists(Refresh(c.new)) PROVE Kept(two)
    <3>1. SessionsKept(two)
      BY <2>4, Keys DEF SessionsKept
    <3>2. AccessKept(two)
      <4>1. \A sid \in SessionIDs : Access(sid) \in DOMAIN two => Access(sid) = Access(c.sid)
        BY <2>4, Keys
      <4> QED BY <2>3, <2>4, <2>5, <4>1 DEF AccessKept
    <3>3. RefreshKept(two)
      <4>1. \A t \in Tokens : Refresh(t) \in DOMAIN two => Refresh(t) = Refresh(c.new)
        BY <2>4, Keys
      <4> QED BY <2>3, <2>4, <2>5, <4>1 DEF RefreshKept
    <3>4. Inherits(two)
      BY <2>4, <2>5 DEF Inherits
    <3> QED BY <3>1, <3>2, <3>3, <3>4 DEF Kept
  <2> QED BY <1>1, <2>2, <2>5
<1>4. CASE c \in [method: {"revokeAccess"}, sid: SessionIDs]
  <2>1. Decision(c) = RevokeAccess(c) /\ ~RevokesSeveral(c)
    BY <1>4 DEF Decision, RevokesSeveral
  <2>2. w = RevokeSessions({c.sid})
    BY <2>1 DEF Takes, RevokeAccess, Ok
  <2> QED BY <1>0, <1>2, <2>2, RevokingKept
<1>5. CASE c \in [method: {"revokeAllAccess"}, user: Subjects]
  <2>1. Decision(c).write = RevokeSessions(Bearer!SessionsOf(c.user)) /\ RevokesSeveral(c)
    BY <1>5 DEF Decision, RevokeAllAccess, Ok, RevokesSeveral
  <2>2. OnlyRevokes(Decision(c).write)
    BY <1>2, <2>1
  <2>3. OnlyRevokes(w)
    BY <2>1, <2>2 DEF Takes, OnlyRevokes
  <2> QED BY <1>0, <2>3, RevokingKept
<1>6. CASE c \in [method: {"rotateRefresh"}, token: Tokens, new: Tokens, at: Times]
  <2> DEFINE old == Refresh(c.token)
             row == docs[old]
             token == Bearer!NewToken(row.session, row.expires)
             spent == [row EXCEPT !.rotated = TRUE]
             one == Refresh(c.new) :> token
             other == old :> spent
             two == one @@ other
  <2>1. Decision(c) = RotateRefresh(c) /\ ~RevokesSeveral(c)
    BY <1>6 DEF Decision, RevokesSeveral
  <2>2. \/ w = <<>> \/ w = RevokeSessions({row.session})
        \/ Bearer!RefreshActive(c.token, c.at) /\ ~Exists(Refresh(c.new)) /\ w = two
    BY <2>1 DEF Takes, RotateRefresh, Ok, Refuse
  <2>3. ASSUME Bearer!RefreshActive(c.token, c.at), ~Exists(Refresh(c.new)) PROVE Kept(two)
    <3>1. Exists(old) /\ ~row.revoked /\ row \in Bearer!RefreshToken
      BY <1>0, <1>6, <2>3, ActiveToken, TypedSessions
    <3>2. /\ token.session = row.session /\ token # None
          /\ spent.session = row.session /\ spent # None
      <4> HIDE DEF row
      <4>1. /\ token \in Bearer!RefreshToken /\ token.session = row.session
            /\ spent \in Bearer!RefreshToken /\ spent.session = row.session
        BY <3>1 DEF Bearer!NewToken, Bearer!RefreshToken
      <4> HIDE DEF token, spent
      <4> QED BY <4>1, SomeSession
    <3> HIDE DEF token, spent
    <3>3. /\ DOMAIN two = {Refresh(c.new), old} /\ Refresh(c.new) # old
          /\ two[Refresh(c.new)] = token /\ two[old] = spent
      <4>1. DOMAIN one = {Refresh(c.new)} /\ one[Refresh(c.new)] = token
        BY DEF :>
      <4>2. DOMAIN other = {old} /\ other[old] = spent
        BY DEF :>
      <4>3. Refresh(c.new) # old
        BY <2>3, <3>1
      <4>4. Joins(two, one, other)
        BY DEF Joins
      <4> HIDE DEF one, other, two
      <4> QED BY <4>1, <4>2, <4>3, <4>4, MergedDomain, MergedValue
    <3> HIDE DEF two
    <3>4. SessionsKept(two) /\ AccessKept(two)
      BY <3>3, Keys DEF SessionsKept, AccessKept
    <3>5. RefreshKept(two)
      BY <1>6, <2>3, <3>1, <3>2, <3>3 DEF RefreshKept
    <3>6. Inherits(two)
      <4> SUFFICES ASSUME NEW sid \in SessionIDs, old \in BearerDocs({sid})
                   PROVE  \E u \in Tokens : Refresh(c.new) = Refresh(u) /\ two[Refresh(c.new)].session = sid
        BY <2>3, <3>1, <3>3, Keys DEF Inherits
      <4>1. row.session = sid
        BY Keys DEF BearerDocs, TokensOf
      <4> QED BY <1>6, <3>2, <3>3, <4>1
    <3> QED BY <3>4, <3>5, <3>6 DEF Kept
  <2> HIDE DEF two, row
  <2> QED BY <1>0, <1>1, <1>2, <2>2, <2>3, RevokingKept
<1> QED BY <1>3, <1>4, <1>5, <1>6 DEF BearerCall

\* A write of documents of these collections only.
Of(w, C) == \A d \in DOMAIN w : d[1] \in C

BearerCollections == {"access_sessions", "refresh_tokens"}

\* SessionStore writes cookie sessions, the other two what belongs to bearer sessions.
LEMMA SessionWrites ==
    ASSUME NEW c
    PROVE  /\ SessionCall(c) => Of(Decision(c).write, {"sessions"})
           /\ BearerCall(c) => Of(Decision(c).write, BearerCollections)
<1> DEFINE w == Decision(c).write
<1>1. \A C : Of(<<>>, C)
  BY NothingOK DEF Of
<1>2. ASSUME NEW C, NEW d, NEW v, d[1] \in C PROVE Of(d :> v, C)
  BY <1>2 DEF Of, :>
<1>3. ASSUME NEW C, NEW f, NEW g, Of(f, C), Of(g, C) PROVE Of(f @@ g, C)
  BY <1>3 DEF Of, @@
<1>4. ASSUME NEW C, NEW D, \A d \in D : d[1] \in C PROVE Of(Revoking(D), C)
  BY <1>4 DEF Of, Revoking
<1>5. \A x : /\ Session(x)[1] \in {"sessions"} /\ Access(x)[1] \in BearerCollections
             /\ Refresh(x)[1] \in BearerCollections
  BY Keys DEF BearerCollections
<1>6. \A sids : Of(RevokeSessions(sids), BearerCollections)
  BY <1>4, <1>5 DEF RevokeSessions
<1>7. ASSUME SessionCall(c) PROVE Of(w, {"sessions"})
  <2>1. CASE c.method = "create"
    BY <1>1, <1>2, <1>5, <2>1 DEF Decision, Create, Ok, Refuse
  <2>2. CASE c.method = "extend"
    <3> DEFINE x == Session(c.token) :> [docs[Session(c.token)] EXCEPT !.last = c.at,
                                                                      !.expires = c.expires]
    <3>1. Extend(c) = Refuse("inactive") \/ Extend(c) = Ok(x)
      BY Zenon DEF Extend
    <3>2. Of(x, {"sessions"})
      BY <1>2, <1>5
    <3>3. Decision(c) = Extend(c)
      BY <2>2 DEF Decision
    <3> HIDE DEF x
    <3> QED BY <1>1, <3>1, <3>2, <3>3, Answers
  <2>3. CASE c.method = "rotate"
    <3>1. Of(Session(c.rec.hash) :> c.rec @@ Revoking({Session(c.token)}), {"sessions"})
      BY <1>2, <1>3, <1>4, <1>5
    <3> QED BY <1>1, <2>3, <3>1 DEF Decision, Rotate, Ok, Refuse
  <2>4. CASE c.method = "revoke"
    BY <1>1, <1>4, <1>5, <2>4 DEF Decision, Revoke, Ok, Refuse
  <2>5. CASE c.method = "revokeAll"
    BY <1>4, <1>5, <2>5 DEF Decision, RevokeAll, Ok, SessionDocs
  <2> QED BY <1>7, <2>1, <2>2, <2>3, <2>4, <2>5 DEF SessionCall
<1>8. ASSUME BearerCall(c) PROVE Of(w, BearerCollections)
  <2>1. CASE c.method = "createSession"
    <3> DEFINE x == Access(c.sid) :> Bearer!NewSession(c.user, c.at)
                      @@ Refresh(c.new) :> Bearer!NewToken(c.sid, c.at + RefreshLifetime)
    <3>1. CreateSession(c) = Refuse("error") \/ CreateSession(c) = Ok(x)
      BY Zenon DEF CreateSession
    <3>2. Of(x, BearerCollections)
      BY <1>2, <1>3, <1>5
    <3>3. Decision(c) = CreateSession(c)
      BY <2>1 DEF Decision
    <3> HIDE DEF x
    <3> QED BY <1>1, <3>1, <3>2, <3>3, Answers
  <2>2. CASE c.method = "revokeAccess"
    BY <1>6, <2>2 DEF Decision, RevokeAccess, Ok
  <2>3. CASE c.method = "revokeAllAccess"
    BY <1>6, <2>3 DEF Decision, RevokeAllAccess, Ok
  <2>4. CASE c.method = "rotateRefresh"
    <3> DEFINE token == docs[Refresh(c.token)]
               x == Refresh(c.new) :> Bearer!NewToken(token.session, token.expires)
                      @@ Refresh(c.token) :> [token EXCEPT !.rotated = TRUE]
               y == [answer |-> "reuse", write |-> RevokeSessions({token.session})]
    <3>1. RotateRefresh(c) = y \/ RotateRefresh(c) = Refuse("conflict") \/ RotateRefresh(c) = Ok(x)
      BY Zenon DEF RotateRefresh
    <3>2. Of(x, BearerCollections) /\ Of(y.write, BearerCollections)
      BY <1>2, <1>3, <1>5, <1>6
    <3>3. Decision(c) = RotateRefresh(c)
      BY <2>4 DEF Decision
    <3> HIDE DEF x, y
    <3> QED BY <1>1, <3>1, <3>2, <3>3, Answers
  <2> QED BY <1>8, <2>1, <2>2, <2>3, <2>4 DEF BearerCall
<1> QED BY <1>7, <1>8

\* A mailed token is the one that Issue was given.
MailKept(c, w) ==
    \A kind \in Kinds : \A u \in Users : Mail(kind, u) \in DOMAIN w =>
        \/ w[Mail(kind, u)] = None
        \/ /\ c.method = "issue" /\ DOMAIN w = {Mail(kind, u)} /\ w[Mail(kind, u)] = c.token

\* Every write that takes effect.
LEMMA TakesKept ==
    ASSUME Sound, NEW c, CallOK(c), Fits(c), NEW w, Takes(c, w)
    PROVE  Kept(w) /\ MailKept(c, w)
<1>1. CASE SessionCall(c) \/ BearerCall(c)
  <2>1. Kept(w)
    BY <1>1, CookieKept, BearerKept
  <2>2. DOMAIN w \subseteq DOMAIN Decision(c).write
    BY DEF Takes
  <2>3. \A kind \in Kinds : \A u \in Users : Mail(kind, u) \notin DOMAIN w
    BY <1>1, <2>2, SessionWrites, Keys DEF Of, BearerCollections, Kinds
  <2> QED BY <2>1, <2>3 DEF MailKept
<1>2. CASE ~SessionCall(c) /\ ~BearerCall(c)
  <2>1. w = Decision(c).write
    BY <1>2 DEF CallOK, PasswordCall, MailCall, IdentityCall, PasskeyCall, TotpCall, FlowCall,
                Takes, RevokesSeveral
  <2>2. CASE c.method # "issue"
    <3>1. Plain(w)
      BY <1>2, <2>1, <2>2, PlainDecisions
    <3>2. \A kind \in Kinds : \A u : Mail(kind, u)[1] \in Kinds
      BY Keys
    <3> QED BY <3>1, <3>2, PlainKept DEF Plain, MailKept
  <2>3. CASE c.method = "issue"
    <3>1. w = Mail(c.kind, c.user) :> c.token
      BY <2>1, <2>3 DEF Decision, Issue, Ok
    <3>2. DOMAIN w = {Mail(c.kind, c.user)} /\ w[Mail(c.kind, c.user)] = c.token
      BY <3>1 DEF :>
    <3>3. c.kind \in Kinds
      BY <2>3 DEF CallOK, SessionCall, BearerCall, PasswordCall, MailCall, IdentityCall,
                  PasskeyCall, TotpCall, FlowCall
    <3>4. Mail(c.kind, c.user)[1] \notin SessionCollections
      BY <3>3, PlainKeys
    <3>5. MailKept(c, w)
      BY <2>3, <3>2 DEF MailKept
    <3>6. Kept(w)
      <4>1. \A x : Session(x) \notin DOMAIN w /\ Access(x) \notin DOMAIN w /\ Refresh(x) \notin DOMAIN w
        BY <3>2, <3>4, Keys DEF SessionCollections
      <4>2. \A sids : \A d \in BearerDocs(sids) : d \notin DOMAIN w
        BY <4>1 DEF BearerDocs
      <4> QED BY <4>1, <4>2 DEF Kept, SessionsKept, AccessKept, RefreshKept, Inherits
    <3> QED BY <3>5, <3>6
  <2> QED BY <2>2, <2>3
<1> QED BY <1>1, <1>2

-----------------------------------------------------------------------------
(***************************************************************************)
(* A decision is the same after another write that shares no document with *)
(* its own: the documents that decide are among those it writes, or are    *)
(* kept by what makes both writes safe.                                    *)
(***************************************************************************)

Writes(w, d) == d \in DOMAIN w

\* What the building blocks of writes write.
LEMMA WritesOf ==
    /\ \A d, v : Writes(d :> v, d)
    /\ \A f, g, d : Writes(f, d) \/ Writes(g, d) => Writes(f @@ g, d)
    /\ \A D : \A d \in D : Writes(Erased(D), d)
    /\ \A u, e, v : Writes(NewUser(u, e, v), Email(e)) /\ Writes(NewUser(u, e, v), User(u))
    /\ \A u : Writes(LockUser(u), User(u))
    /\ \A h : Writes(ConsumeCeremony(h), Ceremony(h)) /\ Writes(ConsumeChallenge(h), Challenge(h))
<1>1. \A d, v : Writes(d :> v, d)
  BY DEF Writes, :>
<1>2. ASSUME NEW f, NEW g, NEW d, Writes(f, d) \/ Writes(g, d) PROVE Writes(f @@ g, d)
  BY <1>2 DEF Writes, @@
<1>3. \A D : \A d \in D : Writes(Erased(D), d)
  BY DEF Writes, Erased
<1>4. \A u, e, v : Writes(NewUser(u, e, v), Email(e)) /\ Writes(NewUser(u, e, v), User(u))
  BY <1>1, <1>2 DEF NewUser
<1>5. \A u : Writes(LockUser(u), User(u))
  BY <1>1 DEF LockUser
<1>6. \A h : Writes(ConsumeCeremony(h), Ceremony(h)) /\ Writes(ConsumeChallenge(h), Challenge(h))
  BY <1>1 DEF ConsumeCeremony, ConsumeChallenge
<1> QED BY <1>1, <1>2, <1>3, <1>4, <1>5, <1>6

\* The documents that w writes are as they were.
Untouched(w) ==
    \A d : Writes(w, d) => /\ Exists(d)' <=> Exists(d)
                           /\ Exists(d) => docs'[d] = docs[d]
                           /\ Doc(d)' = Doc(d)

\* A write leaves alone what another writes that shares no document with it.
LEMMA UntouchedDocs ==
    ASSUME Sound, NEW v, WriteOK(v), docs' = Written(v), NEW w, DOMAIN v \cap DOMAIN w = {}
    PROVE  Untouched(w)
<1>1. /\ \A d : Exists(d)' <=> Sets(v, d) \/ (d \notin DOMAIN v /\ Exists(d))
      /\ \A d : d \notin DOMAIN v /\ Exists(d) => docs'[d] = docs[d]
      /\ \A d : d \notin DOMAIN v => Doc(d)' = Doc(d)
  BY WrittenDocs DEF Sound
<1> QED BY <1>1 DEF Untouched, Sets, Writes

\* What happens between the snapshot on which c decides on the write w and its commit.
Meanwhile(c, w) ==
    /\ Sound /\ Sound'
    /\ w = Decision(c).write /\ w # <<>>
    /\ Safe(w) /\ Safe(w)'
    /\ Untouched(w)

\* The methods of the password store that are transactions.
LEMMA PasswordsHold ==
    ASSUME NEW c, NEW w, PasswordCall(c), c.method \notin SingleWrites, Meanwhile(c, w)
    PROVE  Decision(c)' = Decision(c)
<1>0. w = Decision(c).write /\ w # <<>> /\ Untouched(w)
  BY DEF Meanwhile
<1>1. CASE c.method = "register"
  <2>0. PICK unverified : unverified = FALSE
    OBVIOUS
  <2> DEFINE x == NewUser(c.user, c.email, unverified) @@ Password(c.user) :> c.hash
  <2>1. /\ Decision(c) = IF Exists(Email(c.email)) THEN Refuse("conflict") ELSE Ok(x)
        /\ Decision(c)' = IF Exists(Email(c.email))' THEN Refuse("conflict") ELSE Ok(x)
    BY <1>1, <2>0 DEF Decision, Register, NewUser, Ok, Refuse, :>, @@, User, Email, Password
  <2>2. Writes(x, Email(c.email))
    BY WritesOf
  <2> HIDE DEF x
  <2>3. ~Exists(Email(c.email)) /\ w = x
    BY <1>0, <2>1, Answers
  <2>4. ~Exists(Email(c.email))'
    BY <1>0, <2>2, <2>3 DEF Untouched
  <2> QED BY <2>1, <2>3, <2>4
<1>2. CASE c.method = "addPassword"
  <2> DEFINE x == LockUser(c.user) @@ Password(c.user) :> c.hash
  <2>1. Decision(c) = AddPassword(c) /\ Decision(c)' = AddPassword(c)'
    BY <1>2 DEF Decision
  <2>2. Writes(x, User(c.user)) /\ Writes(x, Password(c.user))
    BY WritesOf
  <2>3. Exists(User(c.user)) /\ ~Exists(Password(c.user)) /\ w = x /\ Decision(c) = Ok(x)
    BY <1>0, <2>1 DEF AddPassword, Ok, Refuse
  <2>4. /\ Exists(User(c.user))' /\ docs'[User(c.user)] = docs[User(c.user)]
        /\ ~Exists(Password(c.user))'
    <3> HIDE DEF x
    <3> QED BY <1>0, <2>2, <2>3 DEF Untouched
  <2>5. x' = x
    BY <2>4 DEF LockUser
  <2>6. AddPassword(c)' = Ok(x)'
    BY <2>4 DEF AddPassword
  <2> HIDE DEF x
  <2> QED BY <2>1, <2>3, <2>5, <2>6 DEF Ok
<1>3. CASE c.method = "removePassword"
  <2> DEFINE x == LockUser(c.user) @@ Erased({Password(c.user)})
  <2>1. Decision(c) = RemovePassword(c) /\ Decision(c)' = RemovePassword(c)'
    BY <1>3 DEF Decision
  <2>2. Writes(x, User(c.user)) /\ Writes(x, Password(c.user))
    BY WritesOf
  <2>3. /\ Exists(User(c.user)) /\ Exists(Password(c.user))
        /\ docs[Password(c.user)] = c.current
        /\ w = x /\ Decision(c) = Ok(x)
    BY <1>0, <2>1 DEF RemovePassword, Ok, Refuse
  <2>4. /\ Exists(User(c.user))' /\ docs'[User(c.user)] = docs[User(c.user)]
        /\ Exists(Password(c.user))' /\ docs'[Password(c.user)] = c.current
    <3> HIDE DEF x
    <3> QED BY <1>0, <2>2, <2>3 DEF Untouched
  <2>5. Erases(w, Password(c.user))
    <3>1. Joins(w, LockUser(c.user), Erased({Password(c.user)}))
      BY <2>3 DEF Joins
    <3>2. Password(c.user) \notin DOMAIN LockUser(c.user)
      BY Keys DEF LockUser, :>
    <3> QED BY <3>1, <3>2, MergedDomain, MergedValue, ErasedDocs DEF Erases
  <2>6. (IdentitiesOf(c.user) \cup PasskeysOf(c.user))' # {}
    <3>1. c.user \in Users
      BY <1>3 DEF PasswordCall
    <3>2. Leaves(w, c.user)'
      BY <2>5, <3>1 DEF Meanwhile, Safe, AccountsSafe, RemovalsSafe, Removes, Erases
    <3>3. \/ \E p \in Identities : (Doc(Identity(p)))' = c.user
          \/ \E k \in Credentials : (Doc(Passkey(k)))' = c.user
      BY <2>5, <3>2 DEF Leaves, Erases
    <3>4. /\ \A p \in Identities : (Doc(Identity(p)))' = c.user => p \in IdentitiesOf(c.user)'
          /\ \A k \in Credentials : (Doc(Passkey(k)))' = c.user => k \in PasskeysOf(c.user)'
      BY DEF IdentitiesOf, PasskeysOf
    <3> QED BY <3>3, <3>4
  <2>7. x' = x
    BY <2>4 DEF LockUser
  <2>8. RemovePassword(c)' = Ok(x)'
    BY <2>4, <2>6 DEF RemovePassword
  <2> HIDE DEF x
  <2> QED BY <2>1, <2>3, <2>7, <2>8 DEF Ok
<1>4. c.method \in {"register", "addPassword", "removePassword"}
  BY DEF PasswordCall, SingleWrites
<1> QED BY <1>1, <1>2, <1>3, <1>4

\* The two methods that consume a mailed token: it leads to one user, before and after.
LEMMA MailsHold ==
    ASSUME NEW c, NEW w, MailCall(c), c.method \notin SingleWrites, Meanwhile(c, w),
           MailsUnique, MailsUnique',
           \A o \in Users : Exists(User(o)) => Exists(User(o))'
    PROVE  Decision(c)' = Decision(c)
<1> DEFINE found(kind) == {u \in MailedTo(kind, c.token) : Exists(User(u))}
<1>0. w = Decision(c).write /\ w # <<>> /\ Untouched(w) /\ Sound /\ Sound'
  BY DEF Meanwhile
<1>1. c.method \in {"verify", "reset"}
  BY DEF MailCall, SingleWrites
<1>2. c.token # None
  <2>1. "email_verifications" \in Kinds /\ "email_verifications" \in Collections
    BY DEF Kinds, Collections
  <2>2. c.token \in MailTokens
    BY <1>1 DEF MailCall
  <2>3. Values("email_verifications") = MailTokens
    BY <2>1, ValuesOf
  <2> QED BY <2>1, <2>2, <2>3, NoValueAssumption
<1>3. ASSUME NEW kind \in Kinds, NEW u \in found(kind) PROVE found(kind) = {u}
  <2>1. Doc(Mail(kind, u)) = c.token /\ u \in Users
    BY DEF MailedTo
  <2>2. Exists(Mail(kind, u))
    BY <1>2, <2>1 DEF Doc
  <2>3. \A o \in found(kind) : o \in Users /\ Doc(Mail(kind, o)) = c.token
    BY DEF MailedTo
  <2> QED BY <2>1, <2>2, <2>3 DEF MailsUnique
<1>4. ASSUME NEW kind \in Kinds, NEW u \in found(kind), Writes(w, Mail(kind, u))
      PROVE  found(kind)' = {u}
  <2>1. u \in Users /\ Exists(User(u))' /\ Doc(Mail(kind, u))' = c.token
    BY <1>0, <1>4 DEF MailedTo, Untouched
  <2>2. Exists(Mail(kind, u))'
    BY <1>2, <2>1 DEF Doc
  <2>3. \A o \in found(kind)' : o \in Users /\ Doc(Mail(kind, o))' = c.token
    BY DEF MailedTo
  <2>4. u \in found(kind)'
    BY <2>1 DEF MailedTo
  <2>5. \A o \in found(kind)' : o = u
    BY <2>1, <2>2, <2>3 DEF MailsUnique
  <2> QED BY <2>4, <2>5
<1>5. CASE c.method = "verify"
  <2> DEFINE kind == "email_verifications"
             F == found(kind)
             x(u) == User(u) :> [docs[User(u)] EXCEPT !.verified = TRUE]
                       @@ Erased({Mail(kind, u)})
             outcome(u) == IF docs[User(u)].verified THEN Refuse("inactive_token") ELSE Ok(x(u))
  <2>0. kind \in Kinds
    BY DEF Kinds
  <2>1. Decision(c) = Verify(c) /\ Decision(c)' = Verify(c)'
    BY <1>5 DEF Decision
  <2>2. Verify(c) = IF F = {} THEN Refuse("not_found") ELSE outcome(CHOOSE u \in F : TRUE)
    BY Zenon DEF Verify
  <2>3. F # {}
    <3> HIDE DEF F, outcome
    <3> QED BY <1>0, <2>1, <2>2, Answers
  <2>4. PICK u \in F : TRUE
    BY <2>3
  <2>5. F = {u}
    BY <1>3, <2>0
  <2>6. Verify(c) = outcome(u)
    <3>1. (CHOOSE o \in F : TRUE) = u
      BY <2>5
    <3> HIDE DEF F, outcome
    <3> QED BY <2>2, <2>3, <3>1
  <2>7. /\ ~docs[User(u)].verified /\ w = x(u) /\ Decision(c) = Ok(x(u))
    <3> HIDE DEF x
    <3> QED BY <1>0, <2>1, <2>6, Answers
  <2>8. Writes(w, User(u)) /\ Writes(w, Mail(kind, u))
    BY <2>7, WritesOf
  <2>9. docs'[User(u)] = docs[User(u)]
    BY <1>0, <2>8 DEF Untouched
  <2>10. F' = {u}
    BY <1>4, <2>0, <2>8
  <2>11. Verify(c)' = IF F' = {} THEN Refuse("not_found") ELSE (outcome(CHOOSE o \in F : TRUE))'
    BY Zenon DEF Verify
  <2>12. Verify(c)' = outcome(u)'
    <3>1. (CHOOSE o \in F' : TRUE) = u
      BY <2>10
    <3> HIDE DEF F, found
    <3> QED BY <2>10, <2>11, <3>1
  <2>13. outcome(u)' = Ok(x(u))' /\ x(u)' = x(u)
    BY <2>7, <2>9
  <2> HIDE DEF x, outcome
  <2> QED BY <2>1, <2>7, <2>12, <2>13 DEF Ok
<1>6. CASE c.method = "reset"
  <2> DEFINE kind == "password_resets"
             F == found(kind)
             x(u) == Password(u) :> c.hash @@ Erased({Mail(kind, u)})
  <2>0. kind \in Kinds
    BY DEF Kinds
  <2>1. Decision(c) = ResetPassword(c) /\ Decision(c)' = ResetPassword(c)'
    BY <1>6 DEF Decision
  <2>2. ResetPassword(c) = IF F = {} THEN Refuse("not_found") ELSE Ok(x(CHOOSE u \in F : TRUE))
    BY Zenon DEF ResetPassword
  <2>3. F # {}
    <3> HIDE DEF F, x
    <3> QED BY <1>0, <2>1, <2>2, Answers
  <2>4. PICK u \in F : TRUE
    BY <2>3
  <2>5. F = {u}
    BY <1>3, <2>0
  <2>6. ResetPassword(c) = Ok(x(u))
    <3>1. (CHOOSE o \in F : TRUE) = u
      BY <2>5
    <3> HIDE DEF F, x
    <3> QED BY <2>2, <2>3, <3>1
  <2>7. w = x(u)
    <3> HIDE DEF x
    <3> QED BY <1>0, <2>1, <2>6, Answers
  <2>8. Writes(w, Mail(kind, u))
    BY <2>7, WritesOf
  <2>9. F' = {u}
    BY <1>4, <2>0, <2>8
  <2>10. ResetPassword(c)' = IF F' = {} THEN Refuse("not_found") ELSE Ok(x(CHOOSE o \in F' : TRUE))
    BY Zenon DEF ResetPassword
  <2>11. ResetPassword(c)' = Ok(x(u))
    <3>1. (CHOOSE o \in F' : TRUE) = u
      BY <2>9
    <3> HIDE DEF F, found, x
    <3> QED BY <2>9, <2>10, <3>1
  <2> QED BY <2>1, <2>6, <2>11
<1> QED BY <1>1, <1>5, <1>6

\* The methods of the Google store.
LEMMA IdentitiesHold ==
    ASSUME NEW c, NEW w, IdentityCall(c), Meanwhile(c, w)
    PROVE  Decision(c)' = Decision(c)
<1>0. w = Decision(c).write /\ w # <<>> /\ Untouched(w) /\ Sound /\ Sound' /\ Safe(w) /\ Safe(w)'
  BY DEF Meanwhile
<1>1. CASE c.method = "resolve"
  <2> DEFINE d == Identity(c.identity)
             old == d :> docs[d]
             link == LockUser(c.user) @@ d :> c.user
  <2>0. c.identity \in Identities
    BY <1>1 DEF IdentityCall
  <2>1. /\ Decision(c) = ResolveIdentity(c) /\ Decision(c)' = ResolveIdentity(c)'
        /\ Identity(c.identity) = d
    BY <1>1 DEF Decision
  <2>2. CASE Exists(d)
    <3>1. /\ Decision(c) = IF c.user \notin {None, docs[d]} THEN Refuse("conflict") ELSE Ok(old)
      BY <2>1, <2>2 DEF ResolveIdentity, ResolveKnown
    <3>2. Writes(old, d)
      BY WritesOf
    <3>3. w = old /\ c.user \in {None, docs[d]} /\ Decision(c) = Ok(old)
      <4> HIDE DEF old
      <4> QED BY <1>0, <3>1, Answers
    <3>4. Exists(d)' /\ docs'[d] = docs[d]
      BY <1>0, <2>2, <3>2, <3>3 DEF Untouched
    <3>5. ResolveIdentity(c)' = Ok(d :> docs'[d])
      BY <3>3, <3>4 DEF ResolveIdentity, ResolveKnown
    <3> QED BY <2>1, <3>3, <3>4, <3>5
  <2>3. CASE ~Exists(d) /\ c.user # None
    <3>1. Decision(c) = IF ~Exists(User(c.user)) THEN Refuse("not_found")
                        ELSE IF IdentitiesOf(c.user) # {} THEN Refuse("conflict") ELSE Ok(link)
      BY <2>1, <2>3 DEF ResolveIdentity, ResolveLink
    <3>2. Writes(link, d) /\ Writes(link, User(c.user))
      BY WritesOf
    <3>3. w = link /\ Exists(User(c.user)) /\ Decision(c) = Ok(link)
      <4> HIDE DEF link
      <4> QED BY <1>0, <3>1, Answers
    <3>4. ~Exists(d)' /\ Exists(User(c.user))' /\ docs'[User(c.user)] = docs[User(c.user)]
      <4> HIDE DEF link
      <4> QED BY <1>0, <2>3, <3>2, <3>3 DEF Untouched
    <3>5. IdentitiesOf(c.user)' = {}
      <4>1. Joins(w, LockUser(c.user), d :> c.user)
        BY <3>3 DEF Joins
      <4>2. d \notin DOMAIN LockUser(c.user)
        BY Keys DEF LockUser, :>
      <4>3. d \in DOMAIN (d :> c.user) /\ (d :> c.user)[d] = c.user
        BY DEF :>
      <4>4. Sets(w, d) /\ w[d] = c.user
        <5>1. d \in DOMAIN w /\ w[d] = c.user
          BY <4>1, <4>2, <4>3, MergedDomain, MergedValue
        <5> QED BY <2>3, <5>1 DEF Sets
      <4> QED BY <1>0, <2>0, <3>4, <4>4 DEF Safe, AccountsSafe, IdentitiesSafe, Sets
    <3>6. link' = link
      BY <3>4 DEF LockUser
    <3>7. ResolveIdentity(c)' = Ok(link)'
      BY <2>3, <3>4, <3>5 DEF ResolveIdentity, ResolveLink
    <3> HIDE DEF link
    <3> QED BY <2>1, <3>3, <3>6, <3>7 DEF Ok
  <2>4. CASE ~Exists(d) /\ c.user = None
    <3>0. PICK verified : verified = TRUE
      OBVIOUS
    <3> DEFINE x == NewUser(c.new, c.email, verified) @@ d :> c.new
    <3>1. Decision(c) = IF Exists(Email(c.email)) THEN Refuse("link_required") ELSE Ok(x)
      BY <2>1, <2>4, <3>0 DEF ResolveIdentity, ResolveCreate
    <3>2. Writes(x, d) /\ Writes(x, Email(c.email))
      BY WritesOf
    <3>3. w = x /\ ~Exists(Email(c.email)) /\ Decision(c) = Ok(x)
      <4> HIDE DEF x
      <4> QED BY <1>0, <3>1, Answers
    <3>4. ~Exists(d)' /\ ~Exists(Email(c.email))'
      <4> HIDE DEF x
      <4> QED BY <1>0, <2>4, <3>2, <3>3 DEF Untouched
    <3>5. ResolveIdentity(c)' = Ok(x)
      BY <2>4, <3>0, <3>4 DEF ResolveIdentity, ResolveCreate, NewUser, Ok
    <3> QED BY <2>1, <3>3, <3>5
  <2> QED BY <2>2, <2>3, <2>4
<1>2. CASE c.method = "unlink"
  <2> DEFINE P == IdentitiesOf(c.user)
             x(p) == LockUser(c.user) @@ Erased({Identity(p)})
             outcome == IF ~Exists(Password(c.user)) /\ PasskeysOf(c.user) = {}
                        THEN Refuse("last_credential") ELSE Ok(x(CHOOSE p \in P : TRUE))
  <2>0. c.user \in Users
    BY <1>2 DEF IdentityCall
  <2>1. Decision(c) = UnlinkIdentity(c) /\ Decision(c)' = UnlinkIdentity(c)'
    BY <1>2 DEF Decision
  <2>2. UnlinkIdentity(c) = IF ~Exists(User(c.user)) \/ P = {} THEN Refuse("not_found") ELSE outcome
    BY Zenon DEF UnlinkIdentity
  <2>3. Exists(User(c.user)) /\ P # {} /\ Decision(c) = outcome
    <3> HIDE DEF P, outcome
    <3> QED BY <1>0, <2>1, <2>2, Answers
  <2>4. PICK p \in P : TRUE
    BY <2>3
  <2>5. P = {p} /\ p \in Identities
    BY <1>0, <2>0 DEF Sound, OneIdentityPerUser, IdentitiesOf
  <2>6. (CHOOSE o \in P : TRUE) = p
    BY <2>5
  <2>7. /\ w = x(p) /\ Decision(c) = Ok(x(p))
    <3> HIDE DEF P, x
    <3> QED BY <1>0, <2>3, <2>6, Answers
  <2>8. Writes(w, User(c.user)) /\ Writes(w, Identity(p))
    BY <2>7, WritesOf
  <2>9. Exists(User(c.user))' /\ docs'[User(c.user)] = docs[User(c.user)]
    BY <1>0, <2>3, <2>8 DEF Untouched
  <2>10. P' = {p}
    <3>1. Doc(Identity(p))' = c.user
      BY <1>0, <2>5, <2>8 DEF Untouched, IdentitiesOf
    <3>2. p \in P'
      BY <2>5, <3>1 DEF IdentitiesOf
    <3> QED BY <1>0, <2>0, <3>2 DEF Sound, OneIdentityPerUser
  <2>11. Exists(Password(c.user))' \/ PasskeysOf(c.user)' # {}
    <3>1. Erases(w, Identity(p))
      <4>1. Joins(w, LockUser(c.user), Erased({Identity(p)}))
        BY <2>7 DEF Joins
      <4>2. Identity(p) \notin DOMAIN LockUser(c.user)
        BY Keys DEF LockUser, :>
      <4> QED BY <4>1, <4>2, MergedDomain, MergedValue, ErasedDocs DEF Erases
    <3>2. (Doc(Identity(p)))' = c.user
      BY <2>10 DEF IdentitiesOf
    <3>3. Leaves(w, c.user)'
      BY <1>0, <2>0, <2>5, <3>1, <3>2 DEF Safe, AccountsSafe, RemovalsSafe, Removes, Erases
    <3>4. \A q \in Identities : (Doc(Identity(q)))' = c.user => q = p
      BY <2>10 DEF IdentitiesOf
    <3>5. Exists(Password(c.user))' \/ \E k \in Credentials : (Doc(Passkey(k)))' = c.user
      BY <3>1, <3>3, <3>4 DEF Leaves, Erases
    <3>6. \A k \in Credentials : (Doc(Passkey(k)))' = c.user => k \in PasskeysOf(c.user)'
      BY DEF PasskeysOf
    <3> QED BY <3>5, <3>6
  <2>12. (CHOOSE o \in P' : TRUE) = p
    BY <2>10
  <2>13. UnlinkIdentity(c)' = IF ~Exists(User(c.user))' \/ P' = {} THEN Refuse("not_found")
                              ELSE outcome'
    BY Zenon DEF UnlinkIdentity
  <2>14. UnlinkIdentity(c)' = outcome'
    <3> HIDE DEF P, outcome
    <3> QED BY <2>9, <2>10, <2>13
  <2>15. outcome' = Ok((x(CHOOSE o \in P : TRUE))')
    <3> HIDE DEF P, x
    <3> QED BY <2>11 DEF Ok
  <2>16. (x(CHOOSE o \in P : TRUE))' = x(p)
    <3>1. (x(CHOOSE o \in P : TRUE))' = LockUser(c.user)' @@ Erased({Identity(CHOOSE o \in P' : TRUE)})
      BY Zenon
    <3>2. LockUser(c.user)' = LockUser(c.user)
      BY <2>9 DEF LockUser
    <3> HIDE DEF P
    <3> QED BY <2>12, <3>1, <3>2
  <2> HIDE DEF x, outcome, P
  <2> QED BY <2>1, <2>7, <2>14, <2>15, <2>16
<1> QED BY <1>1, <1>2 DEF IdentityCall

\* The methods of the passkey store that are transactions.
LEMMA PasskeysHold ==
    ASSUME NEW c, NEW w, PasskeyCall(c), c.method \notin SingleWrites, Meanwhile(c, w)
    PROVE  Decision(c)' = Decision(c)
<1>0. w = Decision(c).write /\ w # <<>> /\ Untouched(w) /\ Sound /\ Sound' /\ Safe(w) /\ Safe(w)'
  BY DEF Meanwhile
<1>1. ASSUME NEW h, NEW u \in Users, NEW type \in {"registration", "authentication"},
             Consumable(h, u, type), Writes(w, Ceremony(h))
      PROVE  Consumable(h, u, type)' /\ ConsumeCeremony(h)' = ConsumeCeremony(h)
  <2>1. Exists(Ceremony(h))
    <3>1. [type |-> type, user |-> u, consumed |-> FALSE] \in CeremonyRow
      BY DEF CeremonyRow
    <3>2. "passkey_ceremonies" \in Collections
      BY DEF Collections
    <3>3. None \notin CeremonyRow
      BY <3>2, ValuesOf, NoValueAssumption DEF CeremonyRow
    <3> QED BY <1>1, <3>1, <3>3 DEF Consumable, Doc
  <2>2. docs'[Ceremony(h)] = docs[Ceremony(h)] /\ Doc(Ceremony(h))' = Doc(Ceremony(h))
    BY <1>0, <1>1, <2>1 DEF Untouched
  <2> QED BY <1>1, <2>2 DEF Consumable, ConsumeCeremony
<1>2. CASE c.method = "completeRegistration"
  <2> DEFINE x == ConsumeCeremony(c.token) @@ LockUser(c.user) @@ Passkey(c.credential) :> c.user
  <2>0. c.user \in Users
    BY <1>2 DEF PasskeyCall
  <2>1. Decision(c) = CompleteRegistration(c) /\ Decision(c)' = CompleteRegistration(c)'
    BY <1>2 DEF Decision
  <2>2. CompleteRegistration(c) =
            IF ~Consumable(c.token, c.user, "registration") THEN Refuse("inactive_ceremony")
            ELSE IF ~Exists(User(c.user)) THEN Refuse("not_found")
            ELSE IF Exists(Passkey(c.credential)) THEN Refuse("conflict") ELSE Ok(x)
    BY Zenon DEF CompleteRegistration
  <2>3. /\ Writes(x, Ceremony(c.token)) /\ Writes(x, User(c.user))
        /\ Writes(x, Passkey(c.credential))
    BY WritesOf
  <2>4. /\ w = x /\ Decision(c) = Ok(x) /\ Consumable(c.token, c.user, "registration")
        /\ Exists(User(c.user)) /\ ~Exists(Passkey(c.credential))
    <3> HIDE DEF x
    <3> QED BY <1>0, <2>1, <2>2, Answers
  <2>5. /\ Consumable(c.token, c.user, "registration")'
        /\ ConsumeCeremony(c.token)' = ConsumeCeremony(c.token)
    BY <1>1, <2>0, <2>3, <2>4
  <2>6. /\ Exists(User(c.user))' /\ docs'[User(c.user)] = docs[User(c.user)]
        /\ ~Exists(Passkey(c.credential))'
    <3> HIDE DEF x
    <3> QED BY <1>0, <2>3, <2>4 DEF Untouched
  <2>7. x' = x
    <3>1. LockUser(c.user)' = LockUser(c.user)
      BY <2>6 DEF LockUser
    <3> QED BY <2>5, <3>1
  <2>8. CompleteRegistration(c)' = Ok(x)'
    BY <2>5, <2>6 DEF CompleteRegistration
  <2> HIDE DEF x
  <2> QED BY <2>1, <2>4, <2>7, <2>8 DEF Ok
<1>3. CASE c.method = "completeAuthentication"
  <2> DEFINE x == ConsumeCeremony(c.token) @@ Passkey(c.credential) :> c.user
  <2>0. c.user \in Users
    BY <1>3 DEF PasskeyCall
  <2>1. Decision(c) = CompleteAuthentication(c) /\ Decision(c)' = CompleteAuthentication(c)'
    BY <1>3 DEF Decision
  <2>2. CompleteAuthentication(c) =
            IF ~Consumable(c.token, c.user, "authentication") THEN Refuse("inactive_ceremony")
            ELSE IF Doc(Passkey(c.credential)) # c.user THEN Refuse("conflict") ELSE Ok(x)
    BY Zenon DEF CompleteAuthentication
  <2>3. Writes(x, Ceremony(c.token)) /\ Writes(x, Passkey(c.credential))
    BY WritesOf
  <2>4. /\ w = x /\ Decision(c) = Ok(x) /\ Consumable(c.token, c.user, "authentication")
        /\ Doc(Passkey(c.credential)) = c.user
    <3> HIDE DEF x
    <3> QED BY <1>0, <2>1, <2>2, Answers
  <2>5. /\ Consumable(c.token, c.user, "authentication")'
        /\ ConsumeCeremony(c.token)' = ConsumeCeremony(c.token)
    BY <1>1, <2>0, <2>3, <2>4
  <2>6. Doc(Passkey(c.credential))' = c.user
    <3> HIDE DEF x
    <3> QED BY <1>0, <2>3, <2>4 DEF Untouched
  <2>7. x' = x
    BY <2>5
  <2>8. CompleteAuthentication(c)' = Ok(x)'
    BY <2>5, <2>6 DEF CompleteAuthentication
  <2> HIDE DEF x
  <2> QED BY <2>1, <2>4, <2>7, <2>8 DEF Ok
<1>4. CASE c.method = "deleteCredential"
  <2> DEFINE d == Passkey(c.credential)
             x == LockUser(c.user) @@ Erased({d})
             last == \E k \in Credentials : PasskeysOf(c.user) = {k}
             others == Exists(Password(c.user)) \/ IdentitiesOf(c.user) # {}
  <2>0. c.user \in Users /\ c.credential \in Credentials
    BY <1>4 DEF PasskeyCall
  <2>1. Decision(c) = DeleteCredential(c) /\ Decision(c)' = DeleteCredential(c)'
    BY <1>4 DEF Decision
  <2>2. DeleteCredential(c) =
            IF ~Exists(User(c.user)) THEN Refuse("not_found")
            ELSE IF last /\ ~others THEN Refuse("last_credential")
            ELSE IF c.credential \notin PasskeysOf(c.user) THEN Refuse("not_found") ELSE Ok(x)
    BY Zenon DEF DeleteCredential
  <2>3. Writes(x, User(c.user)) /\ Writes(x, d)
    BY WritesOf
  <2>4. w = x /\ Decision(c) = Ok(x) /\ Exists(User(c.user)) /\ c.credential \in PasskeysOf(c.user)
    <3> HIDE DEF x, last, others
    <3> QED BY <1>0, <2>1, <2>2, Answers
  <2>5. /\ Exists(User(c.user))' /\ docs'[User(c.user)] = docs[User(c.user)]
        /\ Doc(d)' = c.user
    <3> HIDE DEF x, d
    <3> QED BY <1>0, <2>3, <2>4 DEF Untouched, PasskeysOf, d
  <2>6. c.credential \in PasskeysOf(c.user)'
    BY <2>0, <2>5 DEF PasskeysOf
  <2>7. ~(last /\ ~others)'
    <3>1. Erases(w, d)
      <4>1. Joins(w, LockUser(c.user), Erased({d}))
        BY <2>4 DEF Joins
      <4>2. d \notin DOMAIN LockUser(c.user)
        BY Keys DEF LockUser, :>
      <4> QED BY <4>1, <4>2, MergedDomain, MergedValue, ErasedDocs DEF Erases
    <3>2. Leaves(w, c.user)'
      BY <1>0, <2>0, <2>5, <3>1 DEF Safe, AccountsSafe, RemovalsSafe, Removes, Erases
    <3>3. /\ \A k \in Credentials : (Doc(Passkey(k)))' = c.user => k \in PasskeysOf(c.user)'
          /\ \A p \in Identities : (Doc(Identity(p)))' = c.user => p \in IdentitiesOf(c.user)'
      BY DEF PasskeysOf, IdentitiesOf
    <3>4. \/ Exists(Password(c.user))' \/ IdentitiesOf(c.user)' # {}
          \/ \E k \in PasskeysOf(c.user)' : k # c.credential
      BY <3>1, <3>2, <3>3 DEF Leaves, Erases
    <3> QED BY <2>6, <3>4
  <2>8. x' = x
    BY <2>5 DEF LockUser
  <2>9. DeleteCredential(c)' =
            IF ~Exists(User(c.user))' THEN Refuse("not_found")
            ELSE IF (last /\ ~others)' THEN Refuse("last_credential")
            ELSE IF c.credential \notin PasskeysOf(c.user)' THEN Refuse("not_found") ELSE Ok(x)'
    BY Zenon DEF DeleteCredential
  <2> HIDE DEF x, last, others
  <2> QED BY <2>1, <2>4, <2>5, <2>6, <2>7, <2>8, <2>9 DEF Ok
<1> QED BY <1>2, <1>3, <1>4 DEF PasskeyCall, SingleWrites

\* Codes are written with their owner's credential, or keep their owner.
LEMMA CodesStay ==
    ASSUME Sound, NEW v, Safe(v), docs' = Written(v), NEW u \in Subjects,
           Totp(u) \notin DOMAIN v, \A d \in RecoveryOf(u) : d \notin DOMAIN v
    PROVE  RecoveryOf(u)' = RecoveryOf(u)
<1>0. /\ \A d : Exists(d)' <=> Sets(v, d) \/ (d \notin DOMAIN v /\ Exists(d))
      /\ \A d : Sets(v, d) => docs'[d] = v[d]
      /\ \A d : d \notin DOMAIN v /\ Exists(d) => docs'[d] = docs[d]
  BY WrittenDocs DEF Sound, Safe
<1>1. ASSUME NEW k \in RecoveryCodes, Exists(Recovery(k)), docs[Recovery(k)].user = u
      PROVE  Exists(Recovery(k))' /\ docs'[Recovery(k)].user = u
  <2>1. Recovery(k) \in RecoveryOf(u)
    BY <1>1 DEF RecoveryOf
  <2> QED BY <1>0, <1>1, <2>1
<1>2. ASSUME NEW k \in RecoveryCodes, Exists(Recovery(k))', docs'[Recovery(k)].user = u
      PROVE  Exists(Recovery(k)) /\ docs[Recovery(k)].user = u
  <2>1. CASE Sets(v, Recovery(k))
    <3>1. v[Recovery(k)].user = u
      BY <1>0, <1>2, <2>1
    <3> QED BY <2>1, <3>1 DEF Safe, TotpSafe, CodesSafe
  <2>2. CASE ~Sets(v, Recovery(k))
    BY <1>0, <1>2, <2>2
  <2> QED BY <2>1, <2>2
<1> QED BY <1>1, <1>2 DEF RecoveryOf

\* The methods of the store of second factors that are transactions.
LEMMA FactorsHold ==
    ASSUME NEW c, NEW w, TotpCall(c), c.method \notin SingleWrites, Meanwhile(c, w),
           NEW v, Safe(v), docs' = Written(v), DOMAIN v \cap DOMAIN w = {}
    PROVE  Decision(c)' = Decision(c)
<1>0. w = Decision(c).write /\ w # <<>> /\ Untouched(w) /\ Sound /\ Sound'
  BY DEF Meanwhile
<1>1. CASE c.method = "enable"
  <2> DEFINE code == [user |-> c.user, used |-> FALSE]
             row == [secret |-> docs[Enrollment(c.user)].secret, last |-> c.counter,
                     disabled |-> FALSE]
             x == Totp(c.user) :> row @@ Recovery(c.code) :> code
                    @@ Erased(RecoveryOf(c.user) \cup {Enrollment(c.user)})
  <2>0. c.user \in Subjects
    BY <1>1 DEF TotpCall
  <2>1. Decision(c) = Enable(c) /\ Decision(c)' = Enable(c)'
    BY <1>1 DEF Decision
  <2>2. Enable(c) = IF ~Exists(Enrollment(c.user)) THEN Refuse("not_found")
                    ELSE IF c.at >= docs[Enrollment(c.user)].expires THEN Refuse("inactive_enrollment")
                    ELSE Ok(x)
    BY Zenon DEF Enable
  <2>3. /\ Writes(x, Totp(c.user)) /\ Writes(x, Enrollment(c.user))
        /\ \A d \in RecoveryOf(c.user) : Writes(x, d)
    <3> HIDE DEF row, code
    <3> QED BY WritesOf
  <2>4. /\ w = x /\ Decision(c) = Ok(x) /\ Exists(Enrollment(c.user))
        /\ ~(c.at >= docs[Enrollment(c.user)].expires)
    <3> HIDE DEF x
    <3> QED BY <1>0, <2>1, <2>2, Answers
  <2>5. Exists(Enrollment(c.user))' /\ docs'[Enrollment(c.user)] = docs[Enrollment(c.user)]
    <3> HIDE DEF x
    <3> QED BY <1>0, <2>3, <2>4 DEF Untouched
  <2>6. RecoveryOf(c.user)' = RecoveryOf(c.user)
    <3> HIDE DEF x
    <3> QED BY <1>0, <2>0, <2>3, <2>4, CodesStay DEF Writes
  <2>7. x' = x
    BY <2>5, <2>6
  <2>8. Enable(c)' = IF ~Exists(Enrollment(c.user))' THEN Refuse("not_found")
                     ELSE IF c.at >= docs'[Enrollment(c.user)].expires THEN Refuse("inactive_enrollment")
                     ELSE Ok(x)'
    BY Zenon DEF Enable
  <2> HIDE DEF x
  <2> QED BY <2>1, <2>4, <2>5, <2>7, <2>8 DEF Ok
<1>2. CASE c.method = "disable"
  <2> DEFINE row == [docs[Totp(c.user)] EXCEPT !.disabled = TRUE]
             rest == Erased(RecoveryOf(c.user))
             x == Totp(c.user) :> row @@ rest
  <2>0. c.user \in Subjects
    BY <1>2 DEF TotpCall
  <2>1. Decision(c) = Disable(c) /\ Decision(c)' = Disable(c)'
    BY <1>2 DEF Decision
  <2>2. Disable(c) = IF ~Exists(Totp(c.user)) THEN Refuse("not_found")
                     ELSE IF IsEnabled(c.user) THEN Ok(x) ELSE Ok(rest)
    BY Zenon DEF Disable
  <2>3. Writes(x, Totp(c.user)) /\ \A d \in RecoveryOf(c.user) : Writes(x, d)
    <3> HIDE DEF row
    <3> QED BY WritesOf
  <2>4. ~IsEnabled(c.user) => rest = <<>>
    BY <1>0, <2>0 DEF Sound, CodesOnlyWhileEnabled, Erased
  <2>5. w = x /\ Decision(c) = Ok(x) /\ Exists(Totp(c.user)) /\ IsEnabled(c.user)
    <3> HIDE DEF x, rest
    <3> QED BY <1>0, <2>1, <2>2, <2>4, Answers
  <2>6. Exists(Totp(c.user))' /\ docs'[Totp(c.user)] = docs[Totp(c.user)]
    <3> HIDE DEF x
    <3> QED BY <1>0, <2>3, <2>5 DEF Untouched
  <2>7. RecoveryOf(c.user)' = RecoveryOf(c.user)
    <3> HIDE DEF x
    <3> QED BY <1>0, <2>0, <2>3, <2>5, CodesStay DEF Writes
  <2>8. x' = x
    BY <2>6, <2>7
  <2>9. IsEnabled(c.user)'
    BY <2>5, <2>6 DEF IsEnabled
  <2>10. Disable(c)' = IF ~Exists(Totp(c.user))' THEN Refuse("not_found")
                       ELSE IF IsEnabled(c.user)' THEN Ok(x)' ELSE Ok(rest)'
    BY Zenon DEF Disable
  <2> HIDE DEF x, rest
  <2> QED BY <2>1, <2>5, <2>6, <2>8, <2>9, <2>10 DEF Ok
<1>3. ASSUME NEW h, NEW at, Usable(h, at), Writes(w, Challenge(h))
      PROVE  /\ Usable(h, at)' /\ ConsumeChallenge(h)' = ConsumeChallenge(h)
             /\ docs'[Challenge(h)] = docs[Challenge(h)]
  <2>1. docs'[Challenge(h)] = docs[Challenge(h)] /\ Exists(Challenge(h))'
    BY <1>0, <1>3 DEF Untouched, Usable
  <2> QED BY <1>3, <2>1 DEF Usable, ConsumeChallenge
<1>4. CASE c.method = "completeCode"
  <2> DEFINE u == docs[Challenge(c.token)].user
             row == [docs[Totp(u)] EXCEPT !.last = c.counter]
             x == ConsumeChallenge(c.token) @@ Totp(u) :> row
  <2>1. Decision(c) = CompleteCode(c) /\ Decision(c)' = CompleteCode(c)'
    BY <1>4 DEF Decision
  <2>2. CompleteCode(c) = IF ~Usable(c.token, c.at) THEN Refuse("inactive_challenge")
                          ELSE IF ~IsEnabled(u) \/ c.counter <= docs[Totp(u)].last
                               THEN Refuse("invalid_code") ELSE Ok(x)
    BY Zenon DEF CompleteCode
  <2>3. Writes(x, Challenge(c.token)) /\ Writes(x, Totp(u))
    <3> HIDE DEF row
    <3> QED BY WritesOf
  <2>4. /\ w = x /\ Decision(c) = Ok(x) /\ Usable(c.token, c.at) /\ IsEnabled(u)
        /\ ~(c.counter <= docs[Totp(u)].last)
    <3> HIDE DEF x, u
    <3> QED BY <1>0, <2>1, <2>2, Answers
  <2>5. /\ Usable(c.token, c.at)' /\ ConsumeChallenge(c.token)' = ConsumeChallenge(c.token)
        /\ u' = u
    <3>1. docs'[Challenge(c.token)] = docs[Challenge(c.token)]
      BY <1>3, <2>3, <2>4
    <3> QED BY <1>3, <2>3, <2>4, <3>1
  <2>6. Exists(Totp(u))' /\ docs'[Totp(u)] = docs[Totp(u)]
    <3> HIDE DEF x, u
    <3> QED BY <1>0, <2>3, <2>4, <2>5 DEF Untouched, IsEnabled
  <2>7. IsEnabled(u)'
    <3> HIDE DEF x, u
    <3> QED BY <2>4, <2>5, <2>6 DEF IsEnabled
  <2>8. x' = x
    <3>1. row' = row
      <4> HIDE DEF u
      <4> QED BY <2>5, <2>6
    <3> HIDE DEF u, row
    <3> QED BY <2>5, <3>1
  <2>9. CompleteCode(c)' = IF ~Usable(c.token, c.at)' THEN Refuse("inactive_challenge")
                           ELSE IF ~IsEnabled(u)' \/ c.counter <= docs'[Totp(u')].last
                                THEN Refuse("invalid_code") ELSE Ok(x)'
    BY Zenon DEF CompleteCode
  <2> HIDE DEF x, u
  <2> QED BY <2>1, <2>4, <2>5, <2>6, <2>7, <2>8, <2>9 DEF Ok
<1>5. CASE c.method = "completeRecovery"
  <2> DEFINE u == docs[Challenge(c.token)].user
             d == Recovery(c.code)
             row == [docs[d] EXCEPT !.used = TRUE]
             x == ConsumeChallenge(c.token) @@ d :> row
             unused == Doc(d) = [user |-> u, used |-> FALSE]
  <2>1. Decision(c) = CompleteRecovery(c) /\ Decision(c)' = CompleteRecovery(c)'
    BY <1>5 DEF Decision
  <2>2. CompleteRecovery(c) = IF ~Usable(c.token, c.at) THEN Refuse("inactive_challenge")
                              ELSE IF ~unused THEN Refuse("invalid_code") ELSE Ok(x)
    BY Zenon DEF CompleteRecovery
  <2>3. Writes(x, Challenge(c.token)) /\ Writes(x, d)
    <3> HIDE DEF row, d
    <3> QED BY WritesOf
  <2>4. w = x /\ Decision(c) = Ok(x) /\ Usable(c.token, c.at) /\ unused
    <3> HIDE DEF x, unused
    <3> QED BY <1>0, <2>1, <2>2, Answers
  <2>5. /\ Usable(c.token, c.at)' /\ ConsumeChallenge(c.token)' = ConsumeChallenge(c.token)
        /\ u' = u
    <3>1. docs'[Challenge(c.token)] = docs[Challenge(c.token)]
      BY <1>3, <2>3, <2>4
    <3> QED BY <1>3, <2>3, <2>4, <3>1
  <2>6. Exists(d)
    <3>1. docs[Challenge(c.token)].user \in Subjects
      BY <1>0, <2>4, ConsumedChallenge
    <3>2. [user |-> u, used |-> FALSE] \in [user: Subjects, used: BOOLEAN]
      BY <3>1
    <3>3. [user |-> u, used |-> FALSE] # None
      BY <3>2, SomeValue
    <3> QED BY <2>4, <3>3 DEF Doc
  <2>7. docs'[d] = docs[d] /\ Doc(d)' = Doc(d)
    <3> HIDE DEF x, d
    <3> QED BY <1>0, <2>3, <2>4, <2>6 DEF Untouched
  <2>8. unused' /\ x' = x
    BY <2>4, <2>5, <2>7
  <2>9. CompleteRecovery(c)' = IF ~Usable(c.token, c.at)' THEN Refuse("inactive_challenge")
                               ELSE IF ~unused' THEN Refuse("invalid_code") ELSE Ok(x)'
    BY Zenon DEF CompleteRecovery
  <2> HIDE DEF x, unused
  <2> QED BY <2>1, <2>4, <2>5, <2>8, <2>9 DEF Ok
<1> QED BY <1>1, <1>2, <1>4, <1>5 DEF TotpCall, SingleWrites

\* What another write leaves of the sessions.
LEMMA SessionsStay ==
    ASSUME Sound, NEW v, WriteOK(v), Kept(v), docs' = Written(v)
    PROVE  /\ \A t \in SessionTokens : Exists(Session(t)) =>
                 /\ Exists(Session(t))'
                 /\ docs'[Session(t)].subject = docs[Session(t)].subject
                 /\ docs'[Session(t)].created = docs[Session(t)].created
           /\ \A sid \in SessionIDs : Exists(Access(sid)) =>
                 Exists(Access(sid))' /\ docs'[Access(sid)].subject = docs[Access(sid)].subject
           /\ \A t \in Tokens : Exists(Refresh(t)) =>
                 Exists(Refresh(t))' /\ docs'[Refresh(t)].session = docs[Refresh(t)].session
<1>0. /\ \A d : Exists(d)' <=> Sets(v, d) \/ (d \notin DOMAIN v /\ Exists(d))
      /\ \A d : Sets(v, d) => docs'[d] = v[d]
      /\ \A d : d \notin DOMAIN v /\ Exists(d) => docs'[d] = docs[d]
  BY WrittenDocs DEF Sound
<1>1. ASSUME NEW t \in SessionTokens, Exists(Session(t))
      PROVE  /\ Exists(Session(t))'
             /\ docs'[Session(t)].subject = docs[Session(t)].subject
             /\ docs'[Session(t)].created = docs[Session(t)].created
  BY <1>0, <1>1 DEF Kept, SessionsKept, Sets
<1>2. ASSUME NEW sid \in SessionIDs, Exists(Access(sid))
      PROVE  Exists(Access(sid))' /\ docs'[Access(sid)].subject = docs[Access(sid)].subject
  BY <1>0, <1>2 DEF Kept, AccessKept, Sets
<1>3. ASSUME NEW t \in Tokens, Exists(Refresh(t))
      PROVE  Exists(Refresh(t))' /\ docs'[Refresh(t)].session = docs[Refresh(t)].session
  BY <1>0, <1>3 DEF Kept, RefreshKept, Sets
<1> QED BY <1>1, <1>2, <1>3

\* A write that shares no document with all that is unrevoked of a bearer session leaves the
\* session as it is, and gives it no token.
LEMMA SessionUntouched ==
    ASSUME Sound, NEW v, WriteOK(v), Kept(v), docs' = Written(v),
           NEW sid \in SessionIDs, Exists(Access(sid)), NEW D, DOMAIN v \cap D = {},
           \A d \in BearerDocs({sid}) : Exists(d) /\ ~docs[d].revoked => d \in D
    PROVE  /\ BearerDocs({sid})' = BearerDocs({sid})
           /\ \A d \in BearerDocs({sid}) : Exists(d) /\ Exists(d)' /\ docs'[d] = docs[d]
<1>0. /\ \A d : Exists(d)' <=> Sets(v, d) \/ (d \notin DOMAIN v /\ Exists(d))
      /\ \A d : Sets(v, d) => docs'[d] = v[d]
      /\ \A d : d \notin DOMAIN v /\ Exists(d) => docs'[d] = docs[d]
  BY WrittenDocs DEF Sound
<1>1. ASSUME NEW d \in BearerDocs({sid})
      PROVE  Exists(d) /\ d \notin DOMAIN v
  <2>1. CASE d = Access(sid)
    BY <2>1 DEF Kept, AccessKept
  <2>2. CASE \E t \in TokensOf({sid}) : d = Refresh(t)
    BY <2>2 DEF Kept, RefreshKept, TokensOf
  <2> QED BY <2>1, <2>2 DEF BearerDocs
<1>2. \A d \in BearerDocs({sid}) : Exists(d) /\ Exists(d)' /\ docs'[d] = docs[d]
  BY <1>0, <1>1
<1>3. ASSUME NEW t \in TokensOf({sid}) PROVE t \in TokensOf({sid})'
  <2>1. Refresh(t) \in BearerDocs({sid}) /\ docs[Refresh(t)].session = sid
    BY DEF BearerDocs, TokensOf
  <2> QED BY <1>2, <2>1 DEF TokensOf
<1>4. ASSUME NEW t \in TokensOf({sid})' PROVE t \in TokensOf({sid})
  <2>1. t \in Tokens /\ Exists(Refresh(t))' /\ docs'[Refresh(t)].session = sid
    BY DEF TokensOf
  <2>2. CASE Refresh(t) \notin DOMAIN v
    BY <1>0, <2>1, <2>2 DEF TokensOf, Sets
  <2>3. CASE Refresh(t) \in DOMAIN v /\ Exists(Refresh(t))
    BY <1>0, <2>1, <2>3 DEF TokensOf, Sets, Kept, RefreshKept
  <2>4. CASE Refresh(t) \in DOMAIN v /\ ~Exists(Refresh(t))
    <3>1. v[Refresh(t)].session = sid
      BY <1>0, <2>1, <2>4 DEF Sets
    <3>2. PICK p \in Tokens : /\ Exists(Refresh(p)) /\ Refresh(p) \in DOMAIN v
                              /\ docs[Refresh(p)].session = sid
      BY <2>1, <2>4, <3>1 DEF Kept, RefreshKept
    <3>3. Refresh(p) \in BearerDocs({sid})
      BY <3>2 DEF BearerDocs, TokensOf
    <3> QED BY <1>1, <3>2, <3>3
  <2> QED BY <2>2, <2>3, <2>4
<1>5. TokensOf({sid})' = TokensOf({sid})
  BY <1>3, <1>4 DEF TokensOf
<1>6. BearerDocs({sid})' = BearerDocs({sid})
  BY <1>5 DEF BearerDocs
<1> QED BY <1>2, <1>6

\* Documents that are as they were are revoked by the same write.
LEMMA SameRevoking ==
    ASSUME NEW D, \A d \in D : (Exists(d)' <=> Exists(d)) /\ (Exists(d) => docs'[d] = docs[d])
    PROVE  [d \in {e \in D : Exists(e)' /\ ~docs'[e].revoked} |-> [docs'[d] EXCEPT !.revoked = TRUE]]
              = Revoking(D)
<1>1. {e \in D : Exists(e)' /\ ~docs'[e].revoked} = {e \in D : Exists(e) /\ ~docs[e].revoked}
  OBVIOUS
<1> QED BY <1>1 DEF Revoking

\* Rotate, the one transaction of SessionStore that writes an exact set of documents.
LEMMA RotateHolds ==
    ASSUME NEW c, NEW w, SessionCall(c), c.method = "rotate", Meanwhile(c, w)
    PROVE  Decision(c)' = Decision(c)
<1> DEFINE old == Session(c.token)
           new == Session(c.rec.hash)
           x == new :> c.rec @@ Revoking({old})
<1>0. w = Decision(c).write /\ w # <<>> /\ Untouched(w) /\ c.token \in SessionTokens
  BY DEF Meanwhile, SessionCall
<1>1. Decision(c) = Rotate(c) /\ Decision(c)' = Rotate(c)'
  BY DEF Decision
<1>2. Rotate(c) = IF ~Exists(old) THEN Refuse("not_found")
                  ELSE IF ~Cookie!Rotatable(c.token, c.at) THEN Refuse("inactive")
                  ELSE IF Exists(new) THEN Refuse("conflict") ELSE Ok(x)
  BY Zenon DEF Rotate
<1>3. /\ w = x /\ Decision(c) = Ok(x)
      /\ Exists(old) /\ Cookie!Rotatable(c.token, c.at) /\ ~Exists(new)
  <2> HIDE DEF x, old, new
  <2> QED BY <1>0, <1>1, <1>2, Answers
<1>4. Writes(w, new) /\ Writes(w, old)
  <2>1. Exists(old) /\ ~docs[old].revoked
    BY <1>0, <1>3, CookieRecord
  <2>2. Writes(Revoking({old}), old)
    BY <2>1 DEF Revoking, Writes
  <2> QED BY <1>3, <2>2, WritesOf
<1>5. ~Exists(new)' /\ Exists(old)' /\ docs'[old] = docs[old] /\ Doc(old)' = Doc(old)
  BY <1>0, <1>3, <1>4 DEF Untouched
<1>6. Cookie!Rotatable(c.token, c.at)'
  BY <1>0, <1>3, <1>5 DEF Cookie!Rotatable, Cookie!Exists, Cookie!ActiveAt
<1>7. Revoking({old})' = Revoking({old})
  BY <1>3, <1>5 DEF Revoking
<1>8. x' = x
  BY <1>7
<1>9. Rotate(c)' = IF ~Exists(old)' THEN Refuse("not_found")
                   ELSE IF ~Cookie!Rotatable(c.token, c.at)' THEN Refuse("inactive")
                   ELSE IF Exists(new)' THEN Refuse("conflict") ELSE Ok(x)'
  BY Zenon DEF Rotate
<1> HIDE DEF x, old, new
<1> QED BY <1>1, <1>3, <1>5, <1>6, <1>8, <1>9 DEF Ok

\* All that is not revoked of a bearer session that exists is revoked by the same write as
\* long as what takes effect shares no document with it.
LEMMA SameRevocation ==
    ASSUME Sound, NEW v, WriteOK(v), Kept(v), docs' = Written(v),
           NEW sid \in SessionIDs, Exists(Access(sid)), NEW w, w = RevokeSessions({sid}),
           DOMAIN v \cap DOMAIN w = {}
    PROVE  RevokeSessions({sid})' = w
<1>0. PICK D : D = BearerDocs({sid})
  OBVIOUS
<1>1. w = Revoking(D)
  BY <1>0 DEF RevokeSessions, BearerDocs
<1>2. \A d \in D : Exists(d) /\ ~docs[d].revoked => d \in DOMAIN w
  BY <1>1 DEF Revoking
<1>3. BearerDocs({sid})' = D /\ \A d \in D : Exists(d) /\ Exists(d)' /\ docs'[d] = docs[d]
  <2>1. /\ BearerDocs({sid})' = BearerDocs({sid})
        /\ \A d \in BearerDocs({sid}) : Exists(d) /\ Exists(d)' /\ docs'[d] = docs[d]
    BY <1>0, <1>2, SessionUntouched
  <2> QED BY <1>0, <2>1
<1>4. [d \in {e \in D : Exists(e)' /\ ~docs'[e].revoked} |-> [docs'[d] EXCEPT !.revoked = TRUE]]
        = Revoking(D)
  BY <1>3, SameRevoking
<1> QED BY <1>1, <1>3, <1>4 DEF RevokeSessions, BearerDocs, Revoking

\* CreateSession, and the revocation of one session.
LEMMA BearersHold ==
    ASSUME NEW c, NEW w, BearerCall(c), ~RevokesSeveral(c), Fits(c), TokensOwned, Meanwhile(c, w),
           NEW v, WriteOK(v), Kept(v), docs' = Written(v), DOMAIN v \cap DOMAIN w = {}
    PROVE  Decision(c)' = Decision(c)
<1>0. Sound /\ w = Decision(c).write /\ w # <<>> /\ Untouched(w)
  BY DEF Meanwhile
<1>1. CASE c \in [method: {"createSession"}, sid: SessionIDs, user: Subjects, new: Tokens, at: Times]
  <2> DEFINE x == Access(c.sid) :> Bearer!NewSession(c.user, c.at)
                    @@ Refresh(c.new) :> Bearer!NewToken(c.sid, c.at + RefreshLifetime)
  <2>1. Decision(c) = CreateSession(c) /\ Decision(c)' = CreateSession(c)'
    BY <1>1 DEF Decision
  <2>2. CreateSession(c) = IF Exists(Access(c.sid)) \/ Exists(Refresh(c.new)) THEN Refuse("error")
                           ELSE Ok(x)
    BY Zenon DEF CreateSession
  <2>3. CreateSession(c)' = IF Exists(Access(c.sid))' \/ Exists(Refresh(c.new))' THEN Refuse("error")
                            ELSE Ok(x)
    BY DEF CreateSession, Refuse, Ok, Bearer!NewSession, Bearer!NewToken, :>, @@, Access, Refresh
  <2>4. Writes(x, Access(c.sid)) /\ Writes(x, Refresh(c.new))
    BY WritesOf
  <2> HIDE DEF x
  <2>5. w = x /\ Decision(c) = Ok(x) /\ ~Exists(Access(c.sid)) /\ ~Exists(Refresh(c.new))
    BY <1>0, <2>1, <2>2, Answers
  <2>6. ~Exists(Access(c.sid))' /\ ~Exists(Refresh(c.new))'
    BY <1>0, <2>4, <2>5 DEF Untouched
  <2> QED BY <2>1, <2>3, <2>5, <2>6
<1>2. CASE c \in [method: {"revokeAccess"}, sid: SessionIDs]
  <2>1. Decision(c) = Ok(RevokeSessions({c.sid})) /\ Decision(c)' = Ok(RevokeSessions({c.sid}))'
    BY <1>2 DEF Decision, RevokeAccess
  <2>2. w = RevokeSessions({c.sid})
    BY <1>0, <2>1, Answers
  <2>3. Exists(Access(c.sid)) /\ c.sid \in SessionIDs
    BY <1>2 DEF Fits
  <2>4. RevokeSessions({c.sid})' = w
    BY <1>0, <2>2, <2>3, SameRevocation
  <2> QED BY <2>1, <2>2, <2>4 DEF Ok
<1>3. CASE c \in [method: {"rotateRefresh"}, token: Tokens, new: Tokens, at: Times]
  <2> DEFINE old == Refresh(c.token)
             new == Refresh(c.new)
             row == docs[old]
             x == new :> Bearer!NewToken(row.session, row.expires)
                    @@ old :> [row EXCEPT !.rotated = TRUE]
             y == [answer |-> "reuse", write |-> RevokeSessions({row.session})]
             live == Bearer!RefreshActive(c.token, c.at)
  <2>1. Decision(c) = RotateRefresh(c) /\ Decision(c)' = RotateRefresh(c)'
    BY <1>3 DEF Decision
  <2>2. RotateRefresh(c) = IF ~live THEN y ELSE IF Exists(new) THEN Refuse("conflict") ELSE Ok(x)
    BY Zenon DEF RotateRefresh
  <2>3. RotateRefresh(c)' = IF ~live' THEN y' ELSE IF Exists(new)' THEN Refuse("conflict") ELSE Ok(x)'
    BY Zenon DEF RotateRefresh
  <2>4. /\ Exists(old) /\ row \in Bearer!RefreshToken /\ row.session \in SessionIDs
        /\ Exists(Access(row.session))
    <3>1. Exists(old) /\ c.token \in Tokens
      BY <1>3 DEF Fits
    <3>2. row \in Bearer!RefreshToken
      BY <1>0, <3>1, TypedSessions DEF Sound
    <3> QED BY <3>1, <3>2 DEF TokensOwned, Bearer!RefreshToken
  <2>5. CASE ~live
    <3>1. w = RevokeSessions({row.session}) /\ Decision(c) = y
      BY <1>0, <2>1, <2>2, <2>5
    <3>2. PICK sid : sid = row.session
      OBVIOUS
    <3>3. /\ sid \in SessionIDs /\ Exists(Access(sid)) /\ w = RevokeSessions({sid})
      BY <2>4, <3>1, <3>2
    <3>4. RevokeSessions({sid})' = w
      BY <1>0, <3>3, SameRevocation
    <3>5. Exists(old)' /\ row' = row
      <4>1. old \in BearerDocs({sid})
        BY <1>3, <2>4, <3>2 DEF BearerDocs, TokensOf
      <4>2. \A d \in BearerDocs({sid}) : Exists(d) /\ ~docs[d].revoked => d \in DOMAIN w
        BY <3>3 DEF RevokeSessions, BearerDocs, Revoking
      <4>3. \A d \in BearerDocs({sid}) : Exists(d) /\ Exists(d)' /\ docs'[d] = docs[d]
        BY <1>0, <3>3, <4>2, SessionUntouched
      <4> QED BY <4>1, <4>3
    <3>6. ~live'
      BY <1>3, <2>4, <2>5, <3>5 DEF Bearer!RefreshActive, Doc
    <3>7. y' = [answer |-> "reuse", write |-> w]
      BY <3>2, <3>4, <3>5
    <3> HIDE DEF y, live
    <3>8. Decision(c)' = [answer |-> "reuse", write |-> w]
      BY <2>1, <2>3, <3>6, <3>7
    <3> QED BY <3>1, <3>8 DEF y
  <2>6. CASE live
    <3>1. Writes(x, new) /\ Writes(x, old)
      BY WritesOf
    <3>2. w = x /\ Decision(c) = Ok(x) /\ ~Exists(new)
      <4> HIDE DEF x, live, y
      <4> QED BY <1>0, <2>1, <2>2, <2>6, Answers
    <3>3. ~Exists(new)' /\ Exists(old)' /\ row' = row /\ Doc(old)' = Doc(old)
      <4> HIDE DEF x
      <4> QED BY <1>0, <2>4, <3>1, <3>2 DEF Untouched
    <3>4. live'
      BY <1>3, <2>4, <2>6, <3>3 DEF Bearer!RefreshActive
    <3>5. x' = x
      BY <3>3
    <3> HIDE DEF x, y, live
    <3> QED BY <2>1, <2>3, <3>2, <3>3, <3>4, <3>5 DEF Ok
  <2> QED BY <2>5, <2>6
<1> QED BY <1>1, <1>2, <1>3 DEF BearerCall, RevokesSeveral

\* What RevokeAll has decided to revoke is still there to be revoked.
LEMMA SeveralHold ==
    ASSUME Sound, TokensOwned, NEW c, SessionCall(c) \/ BearerCall(c), RevokesSeveral(c),
           NEW w, Takes(c, w), NEW v, WriteOK(v), Kept(v), docs' = Written(v), DOMAIN v \cap DOMAIN w = {}
    PROVE  Takes(c, w)' /\ Decision(c)'.answer = Decision(c).answer
<1>1. Untouched(w)
  BY UntouchedDocs
<1>2. \A d \in DOMAIN w : (Exists(d)' <=> Exists(d)) /\ (Exists(d) => docs'[d] = docs[d])
  BY <1>1 DEF Untouched, Writes
<1>3. CASE c.method = "revokeAll"
  <2>1. /\ Decision(c) = Ok(Revoking(SessionDocs(c.user)))
        /\ Decision(c)' = Ok(Revoking(SessionDocs(c.user)))'
    BY <1>3 DEF Decision, RevokeAll
  <2>2. ASSUME NEW d \in DOMAIN w
        PROVE  /\ d \in SessionDocs(c.user) /\ Exists(d) /\ ~docs[d].revoked
               /\ w[d] = [docs[d] EXCEPT !.revoked = TRUE]
    <3>1. Decision(c).write = Revoking(SessionDocs(c.user))
      BY <2>1, Answers
    <3>2. d \in DOMAIN Revoking(SessionDocs(c.user)) /\ Revoking(SessionDocs(c.user))[d] = w[d]
      BY <3>1 DEF Takes
    <3> QED BY <3>2 DEF Revoking
  <2>3. ASSUME NEW d \in DOMAIN w PROVE d \in SessionDocs(c.user)'
    <3>1. PICK t \in SessionTokens : /\ d = Session(t) /\ Doc(Session(t)) # None
                                     /\ Doc(Session(t)).subject = c.user
      BY <2>2 DEF SessionDocs, Cookie!BelongTo, Cookie!Exists
    <3>2. Doc(Session(t))' = Doc(Session(t))
      BY <1>1, <3>1 DEF Untouched, Writes
    <3> QED BY <3>1, <3>2 DEF SessionDocs, Cookie!BelongTo, Cookie!Exists
  <2>4. \A d \in DOMAIN w : /\ d \in DOMAIN Revoking(SessionDocs(c.user))'
                            /\ Revoking(SessionDocs(c.user))'[d] = w[d]
    BY <1>2, <2>2, <2>3 DEF Revoking
  <2> QED BY <1>3, <2>1, <2>4 DEF Takes, RevokesSeveral, Ok
<1>4. CASE c.method = "revokeAllAccess"
  <2>0. PICK s : s = c.user
    OBVIOUS
  <2>1. /\ Decision(c) = Ok(RevokeSessions(Bearer!SessionsOf(s)))
        /\ Decision(c)' = Ok(RevokeSessions(Bearer!SessionsOf(s)))'
    BY <1>4, <2>0 DEF Decision, RevokeAllAccess
  <2>2. ASSUME NEW d \in DOMAIN w
        PROVE  /\ d \in BearerDocs(Bearer!SessionsOf(s)) /\ Exists(d) /\ ~docs[d].revoked
               /\ w[d] = [docs[d] EXCEPT !.revoked = TRUE]
    <3>1. PICK D : D = BearerDocs(Bearer!SessionsOf(s))
      OBVIOUS
    <3>2. Decision(c).write = Revoking(D)
      BY <2>1, <3>1, Answers DEF RevokeSessions, BearerDocs
    <3>3. d \in DOMAIN Revoking(D) /\ Revoking(D)[d] = w[d]
      BY <3>2 DEF Takes
    <3> QED BY <3>1, <3>3 DEF Revoking
  <2>3. \A sid \in Bearer!SessionsOf(s) : sid \in SessionIDs /\ Exists(Access(sid))
    BY DEF Bearer!SessionsOf, Doc
  <2>4. \A sid \in Bearer!SessionsOf(s) : sid \in Bearer!SessionsOf(s)'
    <3> SUFFICES ASSUME NEW sid \in Bearer!SessionsOf(s) PROVE sid \in Bearer!SessionsOf(s)'
      OBVIOUS
    <3>1. sid \in SessionIDs /\ Exists(Access(sid)) /\ docs[Access(sid)].subject = s
      BY DEF Bearer!SessionsOf, Doc
    <3>2. Exists(Access(sid))' /\ docs'[Access(sid)].subject = s
      BY <3>1, SessionsStay
    <3>3. docs'[Access(sid)] # None
      <4>1. DocsOK'
        BY WrittenDocs DEF Sound
      <4>2. docs'[Access(sid)] \in Values(Access(sid)[1])
        BY <3>2, <4>1 DEF DocsOK, Exists, Values
      <4> QED BY <4>2, Keys, ValuesOf, SomeSession
    <3> QED BY <3>1, <3>2, <3>3 DEF Bearer!SessionsOf, Doc
  <2>5. ASSUME NEW d \in DOMAIN w PROVE d \in BearerDocs(Bearer!SessionsOf(s))'
    <3>1. CASE \E sid \in Bearer!SessionsOf(s) : d = Access(sid)
      BY <2>4, <3>1 DEF BearerDocs
    <3>2. CASE \E t \in TokensOf(Bearer!SessionsOf(s)) : d = Refresh(t)
      <4>1. PICK t \in Tokens : /\ d = Refresh(t) /\ Exists(Refresh(t))
                                /\ docs[Refresh(t)].session \in Bearer!SessionsOf(s)
        BY <3>2 DEF TokensOf
      <4>2. Exists(Refresh(t))' /\ docs'[Refresh(t)] = docs[Refresh(t)]
        BY <1>2, <4>1
      <4> QED BY <2>4, <4>1, <4>2 DEF BearerDocs, TokensOf
    <3> QED BY <2>2, <3>1, <3>2 DEF BearerDocs
  <2>6. \A d \in DOMAIN w : /\ d \in DOMAIN RevokeSessions(Bearer!SessionsOf(s))'
                            /\ RevokeSessions(Bearer!SessionsOf(s))'[d] = w[d]
    BY <1>2, <2>2, <2>5 DEF RevokeSessions, BearerDocs, Revoking
  <2>7. Whole(w)'
    <3> SUFFICES ASSUME NEW sid \in SessionIDs, NEW d \in DOMAIN w, d \in BearerDocs({sid})',
                        NEW e \in BearerDocs({sid})', Exists(e)', ~docs'[e].revoked
                 PROVE  e \in DOMAIN w
      BY DEF Whole
    <3>1. Exists(d) /\ Exists(d)' /\ docs'[d] = docs[d]
      BY <1>2, <2>2
    <3>2. d \in BearerDocs({sid}) /\ Exists(Access(sid))
      <4>1. CASE d = Access(sid)
        BY <3>1, <4>1 DEF BearerDocs
      <4>2. CASE \E t \in TokensOf({sid})' : d = Refresh(t)
        BY <3>1, <4>2 DEF BearerDocs, TokensOf, TokensOwned
      <4> QED BY <4>1, <4>2 DEF BearerDocs
    <3>3. \A f \in BearerDocs({sid}) : Exists(f) /\ ~docs[f].revoked => f \in DOMAIN w
      BY <1>4, <3>2 DEF Takes, RevokesSeveral, Whole
    <3>4. PICK D : D = DOMAIN w
      OBVIOUS
    <3>5. /\ BearerDocs({sid})' = BearerDocs({sid})
          /\ \A f \in BearerDocs({sid}) : Exists(f) /\ Exists(f)' /\ docs'[f] = docs[f]
      BY <3>2, <3>3, <3>4, SessionUntouched
    <3> QED BY <3>3, <3>5
  <2> QED BY <1>4, <2>1, <2>6, <2>7 DEF Takes, RevokesSeveral, Ok
<1> QED BY <1>3, <1>4 DEF RevokesSeveral

\* So what a transaction has decided stays decided until it commits, or is made to start
\* over because another wrote a document that it is about to write.
LEMMA DecisionStays ==
    ASSUME Sound, Sound', TokensOwned, MailsUnique, MailsUnique',
           NEW c, CallOK(c), Fits(c), c.method \notin SingleWrites,
           NEW w, Takes(c, w), w # <<>>, Safe(w),
           NEW v, Safe(v), Kept(v), docs' = Written(v), DOMAIN v \cap DOMAIN w = {}
    PROVE  Takes(c, w)' /\ Decision(c)'.answer = Decision(c).answer
<1>0. WriteOK(v)
  BY DEF Safe
<1>1. CASE (SessionCall(c) \/ BearerCall(c)) /\ RevokesSeveral(c)
  BY <1>0, <1>1, SeveralHold
<1>2. CASE ~((SessionCall(c) \/ BearerCall(c)) /\ RevokesSeveral(c))
  <2>1. ~RevokesSeveral(c)
    BY <1>2 DEF CallOK, PasswordCall, MailCall, IdentityCall, PasskeyCall, TotpCall, FlowCall,
                RevokesSeveral
  <2>2. w = Decision(c).write
    BY <2>1 DEF Takes
  <2>3. Untouched(w)
    BY <1>0, UntouchedDocs
  <2>4. Safe(w)'
    BY StaysSafe
  <2>5. Meanwhile(c, w)
    BY <2>2, <2>3, <2>4 DEF Meanwhile
  <2>6. \A o \in Users : Exists(User(o)) => Exists(User(o))'
    BY WrittenDocs DEF Sound, Safe, AccountsSafe, UsersSafe, Sets
  <2>7. Decision(c)' = Decision(c)
    <3>1. CASE SessionCall(c)
      <4>1. c.method = "rotate"
        BY <2>1, <3>1 DEF SessionCall, SingleWrites, RevokesSeveral
      <4> QED BY <2>5, <3>1, <4>1, RotateHolds
    <3>2. CASE BearerCall(c)
      BY <1>0, <2>1, <2>5, <3>2, BearersHold
    <3>3. CASE PasswordCall(c)
      BY <2>5, <3>3, PasswordsHold
    <3>4. CASE MailCall(c)
      BY <2>5, <2>6, <3>4, MailsHold
    <3>5. CASE IdentityCall(c)
      BY <2>5, <3>5, IdentitiesHold
    <3>6. CASE PasskeyCall(c)
      BY <2>5, <3>6, PasskeysHold
    <3>7. CASE TotpCall(c)
      BY <2>5, <3>7, FactorsHold
    <3>8. ~FlowCall(c)
      BY DEF FlowCall, SingleWrites
    <3> QED BY <3>1, <3>2, <3>3, <3>4, <3>5, <3>6, <3>7, <3>8 DEF CallOK
  <2> QED BY <2>1, <2>2, <2>7 DEF Takes
<1> QED BY <1>1, <1>2

-----------------------------------------------------------------------------
(***************************************************************************)
(* What the managers looked up stays so, and so does what a revocation is  *)
(* about.                                                                  *)
(***************************************************************************)

\* A call that fits the documents does so after another write, unless its token has been
\* mailed meanwhile.
LEMMA StaysFit ==
    ASSUME Sound, NEW c, CallOK(c), Fits(c), c.method = "issue" => Unsent(c.token)',
           NEW v, WriteOK(v), Kept(v), docs' = Written(v)
    PROVE  Fits(c)'
<1>1. CASE c.method = "create"
  BY <1>1 DEF Fits
<1>2. CASE c.method \in {"extend", "rotate"}
  <2>1. c.token \in SessionTokens
    BY <1>2 DEF CallOK, SessionCall, BearerCall, PasswordCall, MailCall, IdentityCall,
                PasskeyCall, TotpCall, FlowCall
  <2>2. Exists(Session(c.token))
    BY <1>2 DEF Fits
  <2>3. /\ Exists(Session(c.token))'
        /\ docs'[Session(c.token)].subject = docs[Session(c.token)].subject
        /\ docs'[Session(c.token)].created = docs[Session(c.token)].created
    BY <2>1, <2>2, SessionsStay
  <2> QED BY <1>2, <2>3 DEF Fits, Cookie!ExtendedExpiry
<1>3. CASE c.method = "revokeAccess"
  <2>1. c.sid \in SessionIDs /\ Exists(Access(c.sid))
    BY <1>3 DEF Fits, CallOK, SessionCall, BearerCall, PasswordCall, MailCall, IdentityCall,
                PasskeyCall, TotpCall, FlowCall
  <2>2. Exists(Access(c.sid))'
    BY <2>1, SessionsStay
  <2> QED BY <1>3, <2>2 DEF Fits
<1>4. CASE c.method = "rotateRefresh"
  <2>1. c.token \in Tokens /\ Exists(Refresh(c.token))
    BY <1>4 DEF Fits, CallOK, SessionCall, BearerCall, PasswordCall, MailCall, IdentityCall,
                PasskeyCall, TotpCall, FlowCall
  <2>2. Exists(Refresh(c.token))'
    BY <2>1, SessionsStay
  <2> QED BY <1>4, <2>2 DEF Fits
<1>5. CASE c.method = "issue"
  BY <1>5 DEF Fits
<1> QED BY <1>1, <1>2, <1>3, <1>4, <1>5 DEF Fits

\* The sessions that the revocation c is about: cookie sessions of its user, or bearer
\* sessions.
UsersOf(c) == IF c.method = "revokeAll" THEN {c.user} ELSE {}

SidsOf(c) ==
    CASE c.method = "revokeAccess" -> {c.sid}
      [] c.method = "revokeAllAccess" -> Bearer!SessionsOf(c.user)
      [] c.method = "rotateRefresh" -> {docs[Refresh(c.token)].session}
      [] OTHER -> {}

\* What a revocation is about exists.
LEMMA AboutDocs ==
    ASSUME Sound, TokensOwned, NEW c, CallOK(c), Fits(c)
    PROVE  /\ SidsOf(c) \subseteq SessionIDs /\ \A sid \in SidsOf(c) : Exists(Access(sid))
           /\ \A d : About(c, d) <=>
                 \/ \E t \in SessionTokens : /\ d = Session(t) /\ Exists(Session(t))
                                             /\ docs[Session(t)].subject \in UsersOf(c)
                 \/ \E sid \in SidsOf(c) : d \in BearerDocs({sid})
           /\ \A d : About(c, d) => Exists(d)
<1>1. SidsOf(c) \subseteq SessionIDs /\ \A sid \in SidsOf(c) : Exists(Access(sid))
  <2>1. CASE c.method = "revokeAccess"
    BY <2>1 DEF SidsOf, Fits, CallOK, SessionCall, BearerCall, PasswordCall, MailCall,
                IdentityCall, PasskeyCall, TotpCall, FlowCall
  <2>2. CASE c.method = "revokeAllAccess"
    BY <2>2 DEF SidsOf, Bearer!SessionsOf, Doc
  <2>3. CASE c.method = "rotateRefresh"
    <3>1. c.token \in Tokens /\ Exists(Refresh(c.token))
      BY <2>3 DEF Fits, CallOK, SessionCall, BearerCall, PasswordCall, MailCall, IdentityCall,
                  PasskeyCall, TotpCall, FlowCall
    <3>2. docs[Refresh(c.token)] \in Bearer!RefreshToken
      BY <3>1, TypedSessions DEF Sound
    <3> QED BY <2>3, <3>1, <3>2 DEF SidsOf, TokensOwned, Bearer!RefreshToken
  <2> QED BY <2>1, <2>2, <2>3 DEF SidsOf
<1>2. ASSUME NEW s PROVE \A d : d \in SessionDocs(s) <=>
                             \E t \in SessionTokens : /\ d = Session(t) /\ Exists(Session(t))
                                                      /\ docs[Session(t)].subject = s
  <2>1. \A t \in SessionTokens : Exists(Session(t)) => docs[Session(t)] # None
    BY TypedSessions, SomeSession DEF Sound
  <2> QED BY <2>1 DEF SessionDocs, Cookie!BelongTo, Cookie!Exists, Doc
<1>3. ASSUME NEW S PROVE \A d : d \in BearerDocs(S) <=> \E sid \in S : d \in BearerDocs({sid})
  BY DEF BearerDocs, TokensOf
<1>4. \A d : About(c, d) <=>
         \/ \E t \in SessionTokens : /\ d = Session(t) /\ Exists(Session(t))
                                     /\ docs[Session(t)].subject \in UsersOf(c)
         \/ \E sid \in SidsOf(c) : d \in BearerDocs({sid})
  <2>1. CASE c.method = "revokeAll"
    <3>1. UsersOf(c) = {c.user} /\ SidsOf(c) = {}
      BY <2>1 DEF UsersOf, SidsOf
    <3>2. \A d : About(c, d) <=> d \in SessionDocs(c.user)
      BY <2>1 DEF About
    <3> QED BY <1>2, <3>1, <3>2
  <2>2. CASE c.method \in {"revokeAccess", "revokeAllAccess", "rotateRefresh"}
    <3>1. UsersOf(c) = {} /\ \A d : About(c, d) <=> d \in BearerDocs(SidsOf(c))
      BY <2>2 DEF UsersOf, SidsOf, About
    <3> QED BY <1>3, <3>1
  <2>3. CASE c.method \notin {"revokeAll", "revokeAccess", "revokeAllAccess", "rotateRefresh"}
    <3>1. UsersOf(c) = {} /\ SidsOf(c) = {} /\ \A d : ~About(c, d)
      BY <2>3 DEF UsersOf, SidsOf, About
    <3> QED BY <3>1
  <2> QED BY <2>1, <2>2, <2>3
<1>5. \A sid \in SidsOf(c) : \A d \in BearerDocs({sid}) : Exists(d)
  BY <1>1 DEF BearerDocs, TokensOf
<1> QED BY <1>1, <1>4, <1>5

\* It stays what the revocation is about, and what another write inserts next to it is so too.
LEMMA StaysAbout ==
    ASSUME Sound, Sound', TokensOwned, TokensOwned', NEW c, CallOK(c), Fits(c), Fits(c)',
           NEW v, WriteOK(v), Kept(v), docs' = Written(v)
    PROVE  /\ \A d : About(c, d) => About(c, d)'
           /\ \A d : About(c, d) /\ d \in DOMAIN v =>
                 /\ ~docs[d].revoked
                 /\ \A e \in DOMAIN v : ~Exists(e) => About(c, e)'
           /\ \A d : About(c, d) /\ docs[d].revoked => docs'[d].revoked
<1>0. /\ \A d : Exists(d)' <=> Sets(v, d) \/ (d \notin DOMAIN v /\ Exists(d))
      /\ \A d : Sets(v, d) => docs'[d] = v[d]
      /\ \A d : d \notin DOMAIN v /\ Exists(d) => docs'[d] = docs[d]
  BY WrittenDocs DEF Sound
<1>1. /\ SidsOf(c) \subseteq SessionIDs /\ \A sid \in SidsOf(c) : Exists(Access(sid))
      /\ \A d : About(c, d) <=>
            \/ \E t \in SessionTokens : /\ d = Session(t) /\ Exists(Session(t))
                                        /\ docs[Session(t)].subject \in UsersOf(c)
            \/ \E sid \in SidsOf(c) : d \in BearerDocs({sid})
      /\ \A d : About(c, d) => Exists(d)
  BY AboutDocs
<1>2. \A d : About(c, d)' <=>
         \/ \E t \in SessionTokens : /\ d = Session(t) /\ Exists(Session(t))'
                                     /\ docs'[Session(t)].subject \in UsersOf(c)
         \/ \E sid \in SidsOf(c)' : d \in BearerDocs({sid})'
  <2>1. UsersOf(c)' = UsersOf(c)
    BY DEF UsersOf
  <2>2. ASSUME NEW t \in SessionTokens, Exists(Session(t))' PROVE docs'[Session(t)] # None
    <3>1. docs'[Session(t)] \in Values(Session(t)[1])
      BY <2>2 DEF Sound, DocsOK, Exists, Values
    <3> QED BY <3>1, Keys, ValuesOf, SomeSession
  <2>3. ASSUME NEW s
        PROVE  \A d : d \in SessionDocs(s)' <=>
                  \E t \in SessionTokens : /\ d = Session(t) /\ Exists(Session(t))'
                                           /\ docs'[Session(t)].subject = s
    BY <2>2 DEF SessionDocs, Cookie!BelongTo, Cookie!Exists, Doc
  <2>4. PICK S : S = SidsOf(c)'
    OBVIOUS
  <2>5. \A d : d \in BearerDocs(S)' <=> \E sid \in S : d \in BearerDocs({sid})'
    BY DEF BearerDocs, TokensOf
  <2>6. CASE c.method = "revokeAll"
    <3>1. UsersOf(c) = {c.user} /\ SidsOf(c)' = {}
      BY <2>6 DEF UsersOf, SidsOf
    <3>2. \A d : About(c, d)' <=> d \in SessionDocs(c.user)'
      BY <2>6 DEF About
    <3> QED BY <2>3, <3>1, <3>2
  <2>7. CASE c.method \in {"revokeAccess", "revokeAllAccess", "rotateRefresh"}
    <3>1. UsersOf(c) = {} /\ \A d : About(c, d)' <=> d \in BearerDocs(S)'
      BY <2>4, <2>7 DEF UsersOf, SidsOf, About
    <3> QED BY <2>4, <2>5, <3>1
  <2>8. CASE c.method \notin {"revokeAll", "revokeAccess", "revokeAllAccess", "rotateRefresh"}
    <3>1. UsersOf(c) = {} /\ SidsOf(c)' = {} /\ \A d : ~About(c, d)'
      BY <2>8 DEF UsersOf, SidsOf, About
    <3> QED BY <3>1
  <2> QED BY <2>6, <2>7, <2>8
<1>3. SidsOf(c) \subseteq SidsOf(c)'
  <2>1. CASE c.method = "revokeAllAccess"
    <3> SUFFICES ASSUME NEW sid \in Bearer!SessionsOf(c.user) PROVE sid \in Bearer!SessionsOf(c.user)'
      BY <2>1 DEF SidsOf
    <3>1. sid \in SessionIDs /\ Exists(Access(sid)) /\ docs[Access(sid)].subject = c.user
      BY DEF Bearer!SessionsOf, Doc
    <3>2. Exists(Access(sid))' /\ docs'[Access(sid)].subject = c.user
      BY <3>1, SessionsStay
    <3>3. docs'[Access(sid)] # None
      <4>1. docs'[Access(sid)] \in Values(Access(sid)[1])
        BY <3>2 DEF Sound, DocsOK, Exists, Values
      <4> QED BY <4>1, Keys, ValuesOf, SomeSession
    <3> QED BY <3>1, <3>2, <3>3 DEF Bearer!SessionsOf, Doc
  <2>2. CASE c.method = "rotateRefresh"
    <3>1. c.token \in Tokens /\ Exists(Refresh(c.token))
      BY <2>2 DEF Fits, CallOK, SessionCall, BearerCall, PasswordCall, MailCall, IdentityCall,
                  PasskeyCall, TotpCall, FlowCall
    <3>2. docs'[Refresh(c.token)].session = docs[Refresh(c.token)].session
      BY <3>1, SessionsStay
    <3> QED BY <2>2, <3>2 DEF SidsOf
  <2> QED BY <2>1, <2>2 DEF SidsOf
<1>4. ASSUME NEW sid \in SidsOf(c), NEW d \in BearerDocs({sid})
      PROVE  /\ d \in BearerDocs({sid})'
             /\ d \in DOMAIN v => ~docs[d].revoked
  <2>1. sid \in SessionIDs /\ Exists(Access(sid))
    BY <1>1
  <2>2. CASE d = Access(sid)
    BY <2>1, <2>2 DEF BearerDocs, Kept, AccessKept
  <2>3. CASE \E t \in TokensOf({sid}) : d = Refresh(t)
    <3>1. PICK t \in Tokens : d = Refresh(t) /\ Exists(Refresh(t)) /\ docs[Refresh(t)].session = sid
      BY <2>3 DEF TokensOf
    <3>2. Exists(Refresh(t))' /\ docs'[Refresh(t)].session = sid
      BY <3>1, SessionsStay
    <3>3. d \in DOMAIN v => ~docs[d].revoked
      BY <3>1 DEF Kept, RefreshKept
    <3> QED BY <3>1, <3>2, <3>3 DEF BearerDocs, TokensOf
  <2> QED BY <2>2, <2>3 DEF BearerDocs
<1>5. ASSUME NEW d, About(c, d)
      PROVE  About(c, d)' /\ (d \in DOMAIN v => ~docs[d].revoked)
  <2>1. CASE \E t \in SessionTokens : /\ d = Session(t) /\ Exists(Session(t))
                                      /\ docs[Session(t)].subject \in UsersOf(c)
    <3>1. PICK t \in SessionTokens : /\ d = Session(t) /\ Exists(Session(t))
                                     /\ docs[Session(t)].subject \in UsersOf(c)
      BY <2>1
    <3>2. Exists(Session(t))' /\ docs'[Session(t)].subject = docs[Session(t)].subject
      BY <3>1, SessionsStay
    <3>3. d \in DOMAIN v => ~docs[d].revoked
      BY <3>1 DEF Kept, SessionsKept
    <3> QED BY <1>2, <3>1, <3>2, <3>3
  <2>2. CASE \E sid \in SidsOf(c) : d \in BearerDocs({sid})
    BY <1>2, <1>3, <1>4, <2>2
  <2> QED BY <1>1, <1>5, <2>1, <2>2
<1>6. ASSUME NEW d, About(c, d), d \in DOMAIN v, NEW e \in DOMAIN v, ~Exists(e)
      PROVE  About(c, e)'
  <2>0. Exists(d)
    BY <1>1, <1>6
  <2>1. CASE \E t \in SessionTokens : /\ d = Session(t) /\ Exists(Session(t))
                                      /\ docs[Session(t)].subject \in UsersOf(c)
    <3>1. PICK u \in SessionTokens : e = Session(u) /\ v[e].subject \in UsersOf(c)
      BY <1>6, <2>0, <2>1 DEF Kept, Inherits
    <3>2. Exists(e)' /\ docs'[e] = v[e]
      BY <1>0, <1>6, <3>1 DEF Kept, SessionsKept, Sets
    <3> QED BY <1>2, <3>1, <3>2
  <2>2. CASE \E sid \in SidsOf(c) : d \in BearerDocs({sid})
    <3>1. PICK sid \in SidsOf(c) : d \in BearerDocs({sid})
      BY <2>2
    <3>2. PICK u \in Tokens : e = Refresh(u) /\ v[e].session = sid
      BY <1>1, <1>6, <2>0, <3>1 DEF Kept, Inherits
    <3>3. Exists(e)' /\ docs'[e] = v[e]
      BY <1>0, <1>6, <3>2 DEF Kept, RefreshKept, Sets
    <3>4. e \in BearerDocs({sid})'
      BY <3>2, <3>3 DEF BearerDocs, TokensOf
    <3> QED BY <1>2, <1>3, <3>1, <3>4
  <2> QED BY <1>1, <1>6, <2>1, <2>2
<1>7. ASSUME NEW d, About(c, d), docs[d].revoked PROVE docs'[d].revoked
  BY <1>0, <1>1, <1>5, <1>7
<1> QED BY <1>5, <1>6, <1>7

-----------------------------------------------------------------------------
(***************************************************************************)
(* The steps keep what is said of the decisions.                           *)
(***************************************************************************)

\* The record p of a request becomes q when the write v of another takes effect.
LEMMA RecordStays ==
    ASSUME Sound, Sound', TokensOwned, TokensOwned', MailsUnique, MailsUnique',
           NEW p, p.call # None, CallOK(p.call), RecordOK(p),
           p.out # None => p.out.write # <<>> /\ Safe(p.out.write),
           p.call.method = "issue" => Unsent(p.call.token)',
           NEW v, Safe(v), Kept(v), docs' = Written(v),
           NEW q, q.call = p.call, q.out = p.out \/ q.out = None,
           q.out # None => DOMAIN v \cap DOMAIN p.out.write = {},
           q.seen \subseteq p.seen \cup {d \in DOMAIN v : ~Exists(d)},
           p.seen \cap DOMAIN v = {} => q.seen \subseteq p.seen
    PROVE  RecordOK(q)'
<1>0. PICK c, w : c = p.call /\ w = p.out.write
  OBVIOUS
<1>1. /\ CallOK(c) /\ Fits(c) /\ WriteOK(v) /\ q.call = c
      /\ \A d \in p.seen : About(c, d)
  BY <1>0 DEF RecordOK, Safe
<1>2. Fits(c)'
  BY <1>0, <1>1, StaysFit
<1>3. /\ \A d : About(c, d) => About(c, d)'
      /\ \A d : About(c, d) /\ d \in DOMAIN v =>
            /\ ~docs[d].revoked
            /\ \A e \in DOMAIN v : ~Exists(e) => About(c, e)'
      /\ \A d : About(c, d) /\ docs[d].revoked => docs'[d].revoked
  BY <1>1, <1>2, StaysAbout
<1>4. \A d \in q.seen : About(c, d)'
  BY <1>1, <1>3
<1>5. CASE q.out = None
  BY <1>1, <1>2, <1>4, <1>5 DEF RecordOK
<1>6. CASE q.out # None
  <2>1. /\ q.out = p.out /\ q.out.write = w /\ DOMAIN v \cap DOMAIN w = {}
        /\ StillDecides(c, p.out) /\ w # <<>> /\ Safe(w)
        /\ Revokes(p) => \A d \in p.seen : docs[d].revoked \/ d \in DOMAIN w
    BY <1>0, <1>6 DEF RecordOK
  <2>2. c.method \notin SingleWrites /\ Takes(c, w) /\ p.out.answer = Decision(c).answer
    BY <1>0, <2>1 DEF StillDecides
  <2>3. Takes(c, w)' /\ Decision(c)'.answer = Decision(c).answer
    BY <1>1, <2>1, <2>2, DecisionStays
  <2>4. StillDecides(c, q.out)'
    BY <2>1, <2>2, <2>3 DEF StillDecides
  <2>5. ASSUME Revokes(q)' PROVE \A d \in q.seen : docs'[d].revoked \/ d \in DOMAIN w
    <3>1. Revokes(p)
      BY <1>0, <1>1, <2>1, <2>5 DEF Revokes
    <3>2. \A d \in p.seen : docs[d].revoked \/ d \in DOMAIN w
      BY <2>1, <3>1
    \* What another write touches is not revoked, so it would be in w.
    <3>3. p.seen \cap DOMAIN v = {}
      BY <1>1, <1>3, <2>1, <3>2
    <3> QED BY <1>1, <1>3, <3>2, <3>3
  <2> QED BY <1>1, <1>2, <1>4, <2>1, <2>4, <2>5 DEF RecordOK
<1> QED BY <1>5, <1>6

\* Nothing is written at all.
LEMMA NoWrite ==
    ASSUME Sound, UNCHANGED docs
    PROVE  /\ Sound' /\ Safe(<<>>) /\ Kept(<<>>) /\ docs' = Written(<<>>) /\ DOMAIN <<>> = {}
           /\ (TokensOwned => TokensOwned') /\ (MailsUnique => MailsUnique')
           /\ \A t : Unsent(t)' <=> Unsent(t)
<1>1. \A d : (Exists(d)' <=> Exists(d)) /\ Doc(d)' = Doc(d)
  BY DEF Exists, Doc
<1>2. DOMAIN <<>> = {} /\ Safe(<<>>) /\ Kept(<<>>)
  BY NothingSafe, NothingOK, PlainWrites, PlainKept
<1>3. docs = [d \in DOMAIN docs |-> docs[d]]
  BY DEF Sound, DocsOK, IsFunction
<1>4. docs' = Written(<<>>)
  BY <1>2, <1>3 DEF Written
<1> QED BY <1>1, <1>2, <1>4, DocsStay DEF TokensOwned, MailsUnique, Unsent

\* Nothing changes but the record of one request.
LEMMA OneRecord ==
    ASSUME Inv, More, NEW r \in Requests, UNCHANGED docs,
           NEW p, req' = [req EXCEPT ![r] = p],
           RecordOK(p), p.call # None => CallOK(p.call),
           p.out # None => p.call # None /\ p.out.write # <<>> /\ Safe(p.out.write),
           \A x \in Requests : \A t \in MailTokens : Issues(p, t) /\ Issues(req[x], t) => r = x
    PROVE  More'
<1>1. \A x \in Requests : req'[x] = IF x = r THEN p ELSE req[x]
  BY DEF Inv, ReqOK
<1>2. Sound /\ TokensOwned /\ MailsUnique
  BY DEF Inv, More
<1>3. /\ Sound' /\ Safe(<<>>) /\ Kept(<<>>) /\ docs' = Written(<<>>) /\ DOMAIN <<>> = {}
      /\ TokensOwned' /\ MailsUnique' /\ \A t : Unsent(t)' <=> Unsent(t)
  BY <1>2, NoWrite
<1>4. MailsDiffer'
  BY <1>1 DEF More, MailsDiffer, Issues
<1>5. ASSUME NEW q, RecordOK(q), q.call # None => CallOK(q.call),
             q.out # None => q.call # None /\ q.out.write # <<>> /\ Safe(q.out.write)
      PROVE  RecordOK(q)'
  <2>1. CASE q.call = None
    BY <2>1 DEF RecordOK
  <2>2. CASE q.call # None
    <3>0. PICK v : v = <<>>
      OBVIOUS
    <3>1. Safe(v) /\ Kept(v) /\ docs' = Written(v) /\ DOMAIN v = {}
      BY <1>3, <3>0
    <3>2. q.call.method = "issue" => Unsent(q.call.token)'
      BY <1>3, <1>5, <2>2 DEF RecordOK, Fits
    <3> QED BY <1>2, <1>3, <1>5, <2>2, <3>1, <3>2, RecordStays
  <2> QED BY <2>1, <2>2
<1>6. ASSUME NEW x \in Requests PROVE RecordOK(req[x])'
  <2>1. CASE x = r
    <3>1. RecordOK(p)' /\ req'[x] = p
      BY <1>1, <1>5, <2>1
    <3> QED BY <3>1
  <2>2. CASE x # r
    <3>0. PICK q : q = req[x]
      OBVIOUS
    <3>1. RecordOK(q) /\ (q.call # None => CallOK(q.call))
      BY <3>0 DEF More, Inv, ReqOK, Idle
    <3>2. q.out # None => q.call # None /\ q.out.write # <<>> /\ Safe(q.out.write)
      BY <3>0 DEF Inv, PreparedOK, Prepared
    <3>3. RecordOK(q)' /\ req'[x] = q
      BY <1>1, <1>5, <2>2, <3>0, <3>1, <3>2
    <3> QED BY <3>3
  <2> QED BY <2>1, <2>2
<1> QED BY <1>3, <1>4, <1>6 DEF More

\* A refresh token that a write inserts belongs to a session that there is then.
LEMMA TokensStayOwned ==
    ASSUME Sound, TokensOwned, NEW w, WriteOK(w), Kept(w), docs' = Written(w)
    PROVE  TokensOwned'
<1> SUFFICES ASSUME NEW t \in Tokens, Exists(Refresh(t))'
             PROVE  Access(docs'[Refresh(t)].session) \in DOMAIN docs'
  BY DEF TokensOwned, Exists, Access, Refresh
<1>0. /\ \A d : Exists(d)' <=> Sets(w, d) \/ (d \notin DOMAIN w /\ Exists(d))
      /\ \A d : Sets(w, d) => docs'[d] = w[d]
      /\ \A d : d \notin DOMAIN w /\ Exists(d) => docs'[d] = docs[d]
  BY WrittenDocs DEF Sound
<1>1. \A p \in Tokens : Exists(Refresh(p)) => Access(docs[Refresh(p)].session) \in DOMAIN docs'
  <2> SUFFICES ASSUME NEW p \in Tokens, Exists(Refresh(p))
               PROVE  Access(docs[Refresh(p)].session) \in DOMAIN docs'
    OBVIOUS
  <2>0. PICK sid : sid = docs[Refresh(p)].session
    OBVIOUS
  <2>1. sid \in SessionIDs
    BY <2>0, TypedSessions DEF Sound, Bearer!RefreshToken
  <2>2. Exists(Access(sid))'
    BY <2>0, <2>1, SessionsStay DEF TokensOwned
  <2> QED BY <2>0, <2>2 DEF Exists
<1>2. CASE Exists(Refresh(t))
  <2>1. docs'[Refresh(t)].session = docs[Refresh(t)].session
    BY <1>2, SessionsStay
  <2> QED BY <1>1, <1>2, <2>1
<1>3. CASE ~Exists(Refresh(t))
  <2>1. Sets(w, Refresh(t)) /\ docs'[Refresh(t)] = w[Refresh(t)]
    BY <1>0, <1>3
  <2>2. w[Refresh(t)].session \in SessionIDs
    <3>1. w[Refresh(t)] \in Values(Refresh(t)[1]) \cup {None}
      BY <2>1 DEF WriteOK, Sets
    <3>2. w[Refresh(t)] \in Bearer!RefreshToken
      BY <2>1, <3>1, Keys, ValuesOf DEF Sets
    <3> QED BY <3>2 DEF Bearer!RefreshToken
  <2>3. CASE Access(w[Refresh(t)].session) \in DOMAIN w
    <3>0. PICK sid : sid = w[Refresh(t)].session
      OBVIOUS
    <3>1. Exists(Access(sid))'
      BY <1>0, <2>2, <2>3, <3>0 DEF Kept, AccessKept, Sets
    <3> QED BY <2>1, <3>0, <3>1 DEF Exists
  <2>4. CASE \E p \in Tokens : /\ Exists(Refresh(p)) /\ Refresh(p) \in DOMAIN w
                               /\ docs[Refresh(p)].session = w[Refresh(t)].session
    BY <1>1, <2>1, <2>4
  <2> QED BY <1>3, <2>1, <2>3, <2>4 DEF Kept, RefreshKept, Sets
<1> QED BY <1>2, <1>3

\* What a write does to the tokens that have been mailed.
LEMMA MailsWritten ==
    ASSUME Sound, NEW c, NEW w, WriteOK(w), MailKept(c, w), docs' = Written(w)
    PROVE  \A kind \in Kinds : \A u \in Users :
              \/ Doc(Mail(kind, u))' = None
              \/ Doc(Mail(kind, u))' = Doc(Mail(kind, u))
              \/ /\ c.method = "issue" /\ Doc(Mail(kind, u))' = c.token
                 /\ \A l \in Kinds : \A o \in Users :
                       Mail(l, o) # Mail(kind, u) => Doc(Mail(l, o))' = Doc(Mail(l, o))
<1>0. /\ \A d : Sets(w, d) => Doc(d)' = w[d]
      /\ \A d : Erases(w, d) => Doc(d)' = None
      /\ \A d : d \notin DOMAIN w => Doc(d)' = Doc(d)
  BY WrittenDocs DEF Sound
<1> SUFFICES ASSUME NEW kind \in Kinds, NEW u \in Users,
                    Doc(Mail(kind, u))' # None, Doc(Mail(kind, u))' # Doc(Mail(kind, u))
             PROVE  /\ c.method = "issue" /\ Doc(Mail(kind, u))' = c.token
                    /\ \A l \in Kinds : \A o \in Users :
                          Mail(l, o) # Mail(kind, u) => Doc(Mail(l, o))' = Doc(Mail(l, o))
  OBVIOUS
<1>1. Mail(kind, u) \in DOMAIN w /\ w[Mail(kind, u)] # None
  BY <1>0 DEF Sets, Erases
<1>2. c.method = "issue" /\ DOMAIN w = {Mail(kind, u)} /\ w[Mail(kind, u)] = c.token
  BY <1>1 DEF MailKept
<1> QED BY <1>0, <1>1, <1>2 DEF Sets

\* A write of a call takes effect.
LEMMA EffectMore ==
    ASSUME Inv, Inv', More, NEW r \in Requests, NEW c, c = req[r].call, c # None, CallOK(c), Fits(c),
           NEW w, Takes(c, w), Safe(w), Effect(r, w)
    PROVE  More'
<1> DEFINE record(x) == IF x = r THEN Idle
                        ELSE [req[x] EXCEPT !.seen = SeenAfter(x, w),
                                            !.out = IF Conflicts(x, w) THEN None ELSE @]
<1>1. docs' = Written(w) /\ req' = [x \in Requests |-> record(x)]
  BY DEF Effect
<1>2. Sound /\ Sound' /\ WriteOK(w) /\ TokensOwned /\ MailsUnique
  BY DEF Inv, More, Safe
<1>3. Kept(w) /\ MailKept(c, w)
  BY <1>2, TakesKept
<1>4. TokensOwned'
  BY <1>1, <1>2, <1>3, TokensStayOwned
<1>5. \A kind \in Kinds : \A u \in Users :
         \/ Doc(Mail(kind, u))' = None
         \/ Doc(Mail(kind, u))' = Doc(Mail(kind, u))
         \/ /\ c.method = "issue" /\ Doc(Mail(kind, u))' = c.token
            /\ \A l \in Kinds : \A o \in Users :
                  Mail(l, o) # Mail(kind, u) => Doc(Mail(l, o))' = Doc(Mail(l, o))
  BY <1>1, <1>2, <1>3, MailsWritten
<1>6. c.method = "issue" => Unsent(c.token) /\ c.token \in MailTokens
  BY DEF Fits, CallOK, SessionCall, BearerCall, PasswordCall, MailCall, IdentityCall, PasskeyCall,
         TotpCall, FlowCall
<1>7. MailsUnique'
  <2> SUFFICES ASSUME NEW kind \in Kinds, NEW u \in Users, NEW o \in Users,
                      Exists(Mail(kind, u))', Doc(Mail(kind, u))' = Doc(Mail(kind, o))', u # o
               PROVE  FALSE
    BY DEF MailsUnique
  <2>1. Doc(Mail(kind, u))' # None /\ Doc(Mail(kind, o))' # None
    <3>1. docs'[Mail(kind, u)] \in Values(kind)
      BY <1>2, Keys DEF Sound, DocsOK, Exists, Values
    <3>2. Values(kind) = MailTokens /\ kind \in Collections
      BY ValuesOf DEF Collections
    <3>3. docs'[Mail(kind, u)] # None
      BY <3>1, <3>2, NoValueAssumption
    <3> QED BY <3>3 DEF Doc
  <2>2. Mail(kind, u) # Mail(kind, o)
    BY Keys
  <2>3. CASE Doc(Mail(kind, u))' = Doc(Mail(kind, u)) /\ Doc(Mail(kind, o))' = Doc(Mail(kind, o))
    <3>1. Exists(Mail(kind, u))
      BY <2>1, <2>3 DEF Doc
    <3> QED BY <1>2, <2>3, <3>1 DEF MailsUnique
  <2>4. CASE Doc(Mail(kind, u))' # Doc(Mail(kind, u))
    BY <1>5, <1>6, <2>1, <2>2, <2>4 DEF Unsent
  <2>5. CASE Doc(Mail(kind, o))' # Doc(Mail(kind, o))
    BY <1>5, <1>6, <2>1, <2>2, <2>5 DEF Unsent
  <2> QED BY <2>3, <2>4, <2>5
<1>8. req'[r] = Idle
  BY <1>1
<1>9. ASSUME NEW x \in Requests, x # r
      PROVE  /\ req'[x].call = req[x].call /\ req'[x].seen = SeenAfter(x, w)
             /\ req'[x].out = req[x].out \/ req'[x].out = None
             /\ req'[x].out # None => Prepared(x) /\ ~Conflicts(x, w)
  <2>1. req[x] = [call |-> req[x].call, out |-> req[x].out, seen |-> req[x].seen]
    BY DEF Inv, ReqOK
  <2>2. req'[x] = [req[x] EXCEPT !.seen = SeenAfter(x, w),
                                 !.out = IF Conflicts(x, w) THEN None ELSE req[x].out]
    BY <1>1, <1>9
  <2>3. req'[x] = [call |-> req[x].call,
                   out |-> IF Conflicts(x, w) THEN None ELSE req[x].out,
                   seen |-> SeenAfter(x, w)]
    BY <2>1, <2>2
  <2> QED BY <2>3 DEF Prepared
<1>10. MailsDiffer'
  BY <1>8, <1>9 DEF More, MailsDiffer, Issues, Idle
<1>11. ASSUME NEW x \in Requests PROVE RecordOK(req[x])'
  <2>1. CASE x = r
    BY <1>8, <2>1 DEF RecordOK, Idle
  <2>2. CASE x # r /\ req[x].call = None
    BY <1>9, <2>2 DEF RecordOK
  <2>3. CASE x # r /\ req[x].call # None
    <3>0. PICK p, q : p = req[x] /\ q = req'[x]
      OBVIOUS
    <3>1. /\ p.call # None /\ CallOK(p.call) /\ RecordOK(p)
          /\ p.out # None => p.out.write # <<>> /\ Safe(p.out.write)
      BY <2>3, <3>0 DEF More, Inv, ReqOK, Idle, PreparedOK, Prepared
    <3>2. /\ q.call = p.call /\ (q.out = p.out \/ q.out = None)
          /\ q.out # None => DOMAIN w \cap DOMAIN p.out.write = {}
      BY <1>9, <2>3, <3>0 DEF Conflicts
    <3>3. /\ q.seen \subseteq p.seen \cup {d \in DOMAIN w : ~Exists(d)}
          /\ p.seen \cap DOMAIN w = {} => q.seen \subseteq p.seen
      BY <1>9, <2>3, <3>0 DEF SeenAfter
    <3>4. p.call.method = "issue" => Unsent(p.call.token)'
      <4> SUFFICES ASSUME p.call.method = "issue", NEW kind \in Kinds, NEW u \in Users,
                          Doc(Mail(kind, u))' = p.call.token
                   PROVE  FALSE
        BY DEF Unsent
      <4>1. p.call.token \in MailTokens /\ Unsent(p.call.token)
        BY <3>1 DEF RecordOK, Fits, CallOK, SessionCall, BearerCall, PasswordCall, MailCall,
                    IdentityCall, PasskeyCall, TotpCall, FlowCall
      <4>2. p.call.token # None
        <5>1. Values(kind) = MailTokens /\ kind \in Collections
          BY ValuesOf DEF Collections
        <5> QED BY <4>1, <5>1, NoValueAssumption
      <4>3. c.method = "issue" /\ c.token = p.call.token
        BY <1>5, <4>1, <4>2 DEF Unsent
      <4>4. Issues(req[r], c.token) /\ Issues(req[x], c.token)
        BY <2>3, <3>0, <4>3 DEF Issues
      <4> QED BY <1>6, <2>3, <4>3, <4>4 DEF More, MailsDiffer
    <3>5. RecordOK(q)'
      BY <1>1, <1>2, <1>3, <1>4, <1>7, <3>1, <3>2, <3>3, <3>4, RecordStays
    <3> QED BY <3>0, <3>5
  <2> QED BY <2>1, <2>2, <2>3
<1> QED BY <1>4, <1>7, <1>10, <1>11 DEF More

\* A decision is what the method decides when it is made, and a revocation leaves out
\* nothing that it is about.
LEMMA DecidesNow ==
    ASSUME Sound, TokensOwned, NEW c, CallOK(c), Fits(c)
    PROVE  /\ Takes(c, Decision(c).write)
           /\ (c.method = "rotateRefresh" => Decision(c).answer = "reuse") =>
                 \A d : About(c, d) => docs[d].revoked \/ d \in DOMAIN Decision(c).write
<1>0. \A d : About(c, d) => Exists(d)
  BY AboutDocs
<1>1. CASE c.method = "revokeAllAccess"
  <2>0. PICK S : S = Bearer!SessionsOf(c.user)
    OBVIOUS
  <2>1. Decision(c).write = RevokeSessions(S)
    BY <1>1, <2>0, Answers DEF Decision, RevokeAllAccess
  <2>2. DOMAIN RevokeSessions(S) = {d \in BearerDocs(S) : Exists(d) /\ ~docs[d].revoked}
    BY DEF RevokeSessions, Revoking, BearerDocs
  <2>3. Whole(RevokeSessions(S))
    <3> SUFFICES ASSUME NEW sid \in SessionIDs, NEW d \in DOMAIN RevokeSessions(S),
                        d \in BearerDocs({sid}), NEW e \in BearerDocs({sid}),
                        Exists(e), ~docs[e].revoked
                 PROVE  e \in DOMAIN RevokeSessions(S)
      BY DEF Whole
    <3>1. d \in BearerDocs(S)
      BY <2>2
    <3>2. sid \in S
      BY <3>1, Keys DEF BearerDocs, TokensOf
    <3>3. e \in BearerDocs(S)
      BY <3>2 DEF BearerDocs, TokensOf
    <3> QED BY <2>2, <3>3
  <2>4. \A d : About(c, d) => d \in BearerDocs(S)
    BY <1>1, <2>0 DEF About
  <2> QED BY <1>0, <1>1, <2>1, <2>2, <2>3, <2>4 DEF Takes, RevokesSeveral
<1>2. CASE c.method # "revokeAllAccess"
  <2>1. Takes(c, Decision(c).write)
    BY <1>2 DEF Takes, RevokesSeveral
  <2>2. CASE c.method = "revokeAll"
    <3>1. Decision(c).write = Revoking(SessionDocs(c.user))
      BY <2>2, Answers DEF Decision, RevokeAll
    <3>2. \A d : About(c, d) => d \in SessionDocs(c.user)
      BY <2>2 DEF About
    <3>3. DOMAIN Revoking(SessionDocs(c.user)) = {d \in SessionDocs(c.user) : Exists(d) /\ ~docs[d].revoked}
      BY DEF Revoking
    <3> QED BY <1>0, <2>1, <3>1, <3>2, <3>3
  <2>3. CASE c.method \in {"revokeAccess", "rotateRefresh"}
    <3>0. PICK sid : sid = IF c.method = "revokeAccess" THEN c.sid ELSE docs[Refresh(c.token)].session
      OBVIOUS
    <3>1. ASSUME c.method = "rotateRefresh" => Decision(c).answer = "reuse"
          PROVE  Decision(c).write = RevokeSessions({sid})
      <4>1. CASE c.method = "revokeAccess"
        BY <3>0, <4>1, Answers DEF Decision, RevokeAccess
      <4>2. CASE c.method = "rotateRefresh"
        <5> DEFINE row == docs[Refresh(c.token)]
                   x == Refresh(c.new) :> Bearer!NewToken(row.session, row.expires)
                          @@ Refresh(c.token) :> [row EXCEPT !.rotated = TRUE]
                   y == [answer |-> "reuse", write |-> RevokeSessions({row.session})]
        <5>1. Decision(c) = y \/ Decision(c) = Refuse("conflict") \/ Decision(c) = Ok(x)
          <6>1. Decision(c) = RotateRefresh(c)
            BY <4>2 DEF Decision
          <6> QED BY <6>1, Zenon DEF RotateRefresh
        <5>2. row.session = sid
          BY <3>0, <4>2
        <5> HIDE DEF x, row
        <5> QED BY <3>1, <4>2, <5>1, <5>2 DEF Ok, Refuse
      <4> QED BY <2>3, <4>1, <4>2
    <3>2. \A d : About(c, d) => d \in BearerDocs({sid})
      BY <2>3, <3>0 DEF About
    <3>3. DOMAIN RevokeSessions({sid}) = {d \in BearerDocs({sid}) : Exists(d) /\ ~docs[d].revoked}
      BY DEF RevokeSessions, Revoking, BearerDocs
    <3> QED BY <1>0, <2>1, <3>1, <3>2, <3>3
  <2>4. CASE c.method \notin {"revokeAll", "revokeAccess", "rotateRefresh"}
    BY <1>2, <2>1, <2>4 DEF About
  <2> QED BY <2>2, <2>3, <2>4
<1> QED BY <1>1, <1>2

\* An attempt leaves a decision, or answers.
LEMMA RunMore ==
    ASSUME Inv, Inv', More, NEW r \in Requests, Run(r)
    PROVE  More'
<1>0. PICK c, out, w : c = req[r].call /\ out = Decision(c) /\ w = out.write
  OBVIOUS
<1>1. /\ Open(r) /\ c # None
      /\ \/ Put(r, out)
         \/ c.method \notin SingleWrites /\ Attempt(r, out)
  BY <1>0 DEF Run, Open
<1>2. CallOK(c) /\ Fits(c) /\ \A d \in req[r].seen : About(c, d)
  BY <1>0, <1>1 DEF Inv, ReqOK, Idle, More, RecordOK
<1>3. Safe(w)
  BY <1>0, <1>1, DecidedOK
<1>4. /\ Takes(c, w)
      /\ (c.method = "rotateRefresh" => out.answer = "reuse") =>
            \A d : About(c, d) => docs[d].revoked \/ d \in DOMAIN w
  <2>1. Sound /\ TokensOwned
    BY DEF Inv, More
  <2> QED BY <1>0, <1>2, <2>1, DecidesNow
<1>5. CASE Put(r, out)
  <2>1. Effect(r, w)
    BY <1>0, <1>5 DEF Put
  <2> QED BY <1>0, <1>1, <1>2, <1>3, <1>4, <2>1, EffectMore
<1>6. CASE c.method \notin SingleWrites /\ Attempt(r, out)
  <2>1. /\ docs' = docs
        /\ req' = [req EXCEPT ![r] = IF w = <<>> THEN Idle ELSE [req[r] EXCEPT !.out = out]]
    BY <1>0, <1>6 DEF Attempt
  <2>2. req[r] = [call |-> req[r].call, out |-> req[r].out, seen |-> req[r].seen]
    BY DEF Inv, ReqOK
  <2>3. PICK p : p = IF w = <<>> THEN Idle ELSE [call |-> c, out |-> out, seen |-> req[r].seen]
    OBVIOUS
  <2>4. req' = [req EXCEPT ![r] = p]
    <3>1. [req[r] EXCEPT !.out = out] = [call |-> c, out |-> out, seen |-> req[r].seen]
      BY <1>0, <2>2
    <3> QED BY <2>1, <2>3, <3>1
  <2>5. CASE p = Idle
    <3>1. RecordOK(p) /\ p.call = None /\ p.out = None /\ \A t : ~Issues(p, t)
      BY <2>5 DEF Idle, RecordOK, Issues
    <3> QED BY <2>1, <2>4, <3>1, OneRecord
  <2>6. CASE w # <<>> /\ p.call = c /\ p.out = out /\ p.seen = req[r].seen
    <3>1. StillDecides(c, out)
      BY <1>0, <1>4, <1>6 DEF StillDecides
    <3>2. RecordOK(p)
      BY <1>0, <1>1, <1>2, <1>4, <2>6, <3>1 DEF RecordOK, Revokes
    <3>3. \A x \in Requests : \A t \in MailTokens : Issues(p, t) /\ Issues(req[x], t) => r = x
      BY <1>0, <1>1, <2>6 DEF More, MailsDiffer, Issues
    <3> QED BY <1>0, <1>1, <1>2, <1>3, <2>1, <2>4, <2>6, <3>2, <3>3, OneRecord
  <2> QED BY <2>3, <2>5, <2>6
<1> QED BY <1>1, <1>5, <1>6

\* A commit is the effect of what was decided.
LEMMA CommitMore ==
    ASSUME Inv, Inv', More, NEW r \in Requests, Commit(r)
    PROVE  More'
<1>0. PICK c, w : c = req[r].call /\ w = req[r].out.write
  OBVIOUS
<1>1. Prepared(r) /\ Effect(r, w)
  BY <1>0 DEF Commit
<1>2. c # None /\ Safe(w)
  BY <1>0, <1>1 DEF Inv, PreparedOK
<1>3. CallOK(c) /\ Fits(c) /\ Takes(c, w)
  BY <1>0, <1>1, <1>2 DEF Inv, ReqOK, Idle, Prepared, More, RecordOK, StillDecides
<1> QED BY <1>0, <1>1, <1>2, <1>3, EffectMore

\* A request that fails is forgotten.
LEMMA FailMore ==
    ASSUME Inv, More, NEW r \in Requests, Fail(r)
    PROVE  More'
<1>1. docs' = docs /\ req' = [req EXCEPT ![r] = Idle]
  BY DEF Fail
<1>2. RecordOK(Idle) /\ Idle.call = None /\ Idle.out = None /\ \A t : ~Issues(Idle, t)
  BY DEF Idle, RecordOK, Issues
<1> QED BY <1>1, <1>2, OneRecord

\* Time passes.
LEMMA TimeMore ==
    ASSUME Inv, More, UNCHANGED <<docs, req>>
    PROVE  More'
<1>1. CASE Requests = {}
  <2>1. TokensOwned' /\ MailsUnique'
    BY NoWrite DEF Inv, More
  <2> QED BY <1>1, <2>1 DEF More, MailsDiffer
<1>2. CASE Requests # {}
  <2>1. PICK r \in Requests : TRUE
    BY <1>2
  <2>2. PICK p : p = req[r]
    OBVIOUS
  <2>3. req' = [req EXCEPT ![r] = p]
    BY <2>2 DEF Inv, ReqOK
  <2>4. /\ RecordOK(p) /\ (p.call # None => CallOK(p.call))
        /\ p.out # None => p.call # None /\ p.out.write # <<>> /\ Safe(p.out.write)
    BY <2>2 DEF Inv, ReqOK, PreparedOK, Prepared, Idle, More
  <2>5. \A x \in Requests : \A t \in MailTokens : Issues(p, t) /\ Issues(req[x], t) => r = x
    BY <2>2 DEF More, MailsDiffer
  <2> QED BY <2>3, <2>4, <2>5, OneRecord
<1> QED BY <1>1, <1>2

-----------------------------------------------------------------------------
(***************************************************************************)
(* The calls.                                                              *)
(***************************************************************************)

\* A call begins that fits what the documents are.
LEMMA CallMore ==
    ASSUME Inv, Inv', More, NEW r \in Requests, NEW c, NEW seen, Call(r, c, seen), Fits(c),
           \A d \in seen : About(c, d),
           c.method = "issue" =>
              \A x \in Requests : req[x].call # None /\ req[x].call.method = "issue"
                                    => req[x].call.token # c.token
    PROVE  More'
<1>0. PICK p : p = [call |-> c, out |-> None, seen |-> seen]
  OBVIOUS
<1>1. req' = [req EXCEPT ![r] = p] /\ docs' = docs
  BY <1>0 DEF Call
<1>2. req'[r] = p
  BY <1>1 DEF Inv, ReqOK
<1>3. p.call # None => CallOK(p.call)
  BY <1>0, <1>2 DEF Inv, ReqOK, Idle, CallOK, SessionCall, BearerCall, PasswordCall, MailCall,
                    IdentityCall, PasskeyCall, TotpCall, FlowCall
<1>4. RecordOK(p) /\ p.out = None
  BY <1>0 DEF RecordOK
<1>5. \A x \in Requests : \A t \in MailTokens : Issues(p, t) /\ Issues(req[x], t) => r = x
  BY <1>0 DEF Issues
<1> QED BY <1>1, <1>3, <1>4, <1>5, OneRecord

\* The methods whose callers have looked nothing up, and that revoke nothing.
Unprepared(c) ==
    c.method \notin {"create", "extend", "rotate", "revokeAccess", "rotateRefresh", "issue"}

\* Such a call begins.
LEMMA UnpreparedMore ==
    ASSUME Inv, Inv', More, NEW r \in Requests, NEW c, Unprepared(c), Call(r, c, {})
    PROVE  More'
<1>1. Fits(c) /\ c.method # "issue"
  BY DEF Fits, Unprepared
<1> QED BY <1>1, CallMore

\* SessionStore is called with what the manager found.
LEMMA SessionCallsMore ==
    ASSUME Inv, Inv', More, NEW r \in Requests, SessionCalls(r)
    PROVE  More'
<1>0. now \in Times
  BY DEF Inv
<1>1. ASSUME NEW t \in SessionTokens, NEW s \in Subjects, CallCreate(r, t, s) PROVE More'
  <2> DEFINE rec == Cookie!NewRecord(t, s, now)
             c == [method |-> "create", rec |-> rec]
  <2>1. Call(r, c, {})
    BY <1>1 DEF CallCreate
  <2>2. \E u \in SessionTokens, o \in Subjects, at \in Times : c.rec = Cookie!NewRecord(u, o, at)
    BY <1>0
  <2> HIDE DEF rec
  <2>3. Fits(c)
    BY <2>2 DEF Fits
  <2> QED BY <2>1, <2>3, CallMore
<1>2. ASSUME NEW t \in SessionTokens, NEW u \in SessionTokens, CallRotate(r, t, u) PROVE More'
  <2> DEFINE rec == Cookie!NewRecord(u, docs[Session(t)].subject, now)
             c == [method |-> "rotate", token |-> t, at |-> now, rec |-> rec]
  <2>1. Call(r, c, {}) /\ Exists(Session(t))
    BY <1>2 DEF CallRotate
  <2>2. \E h \in SessionTokens, at \in Times : c.rec = Cookie!NewRecord(h, docs[Session(t)].subject, at)
    BY <1>0
  <2> HIDE DEF rec
  <2>3. Fits(c)
    BY <2>1, <2>2 DEF Fits
  <2> QED BY <2>1, <2>3, CallMore
<1>3. ASSUME NEW t \in SessionTokens, CallExtend(r, t) PROVE More'
  <2> DEFINE expires == Cookie!ExtendedExpiry(docs[Session(t)], now)
             c == [method |-> "extend", token |-> t, at |-> now, expires |-> expires]
  <2>1. Call(r, c, {}) /\ Extension /\ Exists(Session(t))
    BY <1>3 DEF CallExtend
  <2>2. c.expires = Cookie!ExtendedExpiry(docs[Session(t)], c.at)
    OBVIOUS
  <2> HIDE DEF expires
  <2>3. Fits(c)
    BY <2>1, <2>2 DEF Fits
  <2> QED BY <2>1, <2>3, CallMore
<1>4. ASSUME NEW t \in SessionTokens, CallRevoke(r, t) PROVE More'
  BY <1>4, UnpreparedMore DEF CallRevoke, Unprepared
<1>5. ASSUME NEW s \in Subjects, CallRevokeAll(r, s) PROVE More'
  <2> DEFINE c == [method |-> "revokeAll", user |-> s]
  <2>1. Call(r, c, SessionDocs(s))
    BY <1>5 DEF CallRevokeAll
  <2>2. Fits(c) /\ \A d \in SessionDocs(s) : About(c, d)
    BY DEF Fits, About
  <2> QED BY <2>1, <2>2, CallMore
<1> QED BY <1>1, <1>2, <1>3, <1>4, <1>5 DEF SessionCalls

\* So are the stores of bearer sessions.
LEMMA BearerCallsMore ==
    ASSUME Inv, Inv', More, NEW r \in Requests, BearerCalls(r)
    PROVE  More'
<1>1. ASSUME NEW sid \in SessionIDs, NEW s \in Subjects, NEW t \in Tokens,
             CallCreateSession(r, sid, s, t)
      PROVE  More'
  BY <1>1, UnpreparedMore DEF CallCreateSession, Unprepared
<1>2. ASSUME NEW sid \in SessionIDs, CallRevokeAccess(r, sid) PROVE More'
  <2> DEFINE c == [method |-> "revokeAccess", sid |-> sid]
  <2>1. Call(r, c, BearerDocs({sid})) /\ Exists(Access(sid))
    BY <1>2 DEF CallRevokeAccess
  <2>2. Fits(c) /\ \A d \in BearerDocs({sid}) : About(c, d)
    BY <2>1 DEF Fits, About
  <2> QED BY <2>1, <2>2, CallMore
<1>3. ASSUME NEW s \in Subjects, CallRevokeAllAccess(r, s) PROVE More'
  <2> DEFINE c == [method |-> "revokeAllAccess", user |-> s]
  <2>1. Call(r, c, BearerDocs(Bearer!SessionsOf(s)))
    BY <1>3 DEF CallRevokeAllAccess
  <2>2. Fits(c) /\ \A d \in BearerDocs(Bearer!SessionsOf(s)) : About(c, d)
    BY DEF Fits, About
  <2> QED BY <2>1, <2>2, CallMore
<1>4. ASSUME NEW t \in Tokens, NEW u \in Tokens, CallRotateRefresh(r, t, u) PROVE More'
  <2> DEFINE c == [method |-> "rotateRefresh", token |-> t, new |-> u, at |-> now]
  <2>1. Call(r, c, BearerDocs({docs[Refresh(t)].session})) /\ Exists(Refresh(t))
    BY <1>4 DEF CallRotateRefresh
  <2>2. Fits(c) /\ \A d \in BearerDocs({docs[Refresh(t)].session}) : About(c, d)
    BY <2>1 DEF Fits, About
  <2> QED BY <2>1, <2>2, CallMore
<1> QED BY <1>1, <1>2, <1>3, <1>4 DEF BearerCalls

\* A token that is mailed is one that nobody has.
LEMMA AccountCallsMore ==
    ASSUME Inv, Inv', More, NEW r \in Requests, AccountCalls(r)
    PROVE  More'
<1>1. CASE PasswordCalls(r)
  BY <1>1, UnpreparedMore DEF PasswordCalls, Unprepared
<1>2. CASE MailCalls(r)
  <2>1. ASSUME NEW t \in MailTokens, NEW kind \in Kinds, NEW u \in Users, Unmailed(t),
               Call(r, [method |-> "issue", kind |-> kind, user |-> u, token |-> t], {})
        PROVE  More'
    <3> DEFINE c == [method |-> "issue", kind |-> kind, user |-> u, token |-> t]
    <3>1. Fits(c)
      BY <2>1 DEF Fits, Unsent, Unmailed
    <3>2. ASSUME NEW x \in Requests, req[x].call # None, req[x].call.method = "issue"
          PROVE  req[x].call.token # t
      <4>1. CallOK(req[x].call)
        BY <3>2 DEF Inv, ReqOK, Idle
      <4>2. "token" \in DOMAIN req[x].call
        BY <3>2, <4>1 DEF CallOK, SessionCall, BearerCall, PasswordCall, MailCall, IdentityCall,
                          PasskeyCall, TotpCall, FlowCall
      <4> QED BY <2>1, <3>2, <4>2 DEF Unmailed
    <3> QED BY <2>1, <3>1, <3>2, CallMore
  <2>2. ASSUME NEW t \in MailTokens, Call(r, [method |-> "verify", token |-> t], {}) PROVE More'
    BY <2>2, UnpreparedMore DEF Unprepared
  <2>3. ASSUME NEW t \in MailTokens, NEW h \in Hashes,
               Call(r, [method |-> "reset", token |-> t, hash |-> h], {})
        PROVE  More'
    BY <2>3, UnpreparedMore DEF Unprepared
  <2> QED BY <1>2, <2>1, <2>2, <2>3 DEF MailCalls
<1>3. CASE IdentityCalls(r)
  BY <1>3, UnpreparedMore DEF IdentityCalls, Unprepared
<1>4. CASE PasskeyCalls(r)
  BY <1>4, UnpreparedMore DEF PasskeyCalls, Unprepared
<1> QED BY <1>1, <1>2, <1>3, <1>4 DEF AccountCalls

\* Nothing is decided of empty collections.
LEMMA InitMore == Init => More
<1> SUFFICES ASSUME Init PROVE More
  OBVIOUS
<1>1. \A d : ~Exists(d)
  BY DEF Init, Exists
<1>2. \A r \in Requests : req[r].call = None
  BY DEF Init, Idle
<1> QED BY <1>1, <1>2 DEF More, TokensOwned, MailsUnique, MailsDiffer, Issues, RecordOK

\* Every step keeps what is said of the decisions.
LEMMA NextMore == Inv /\ Inv' /\ More /\ [Next]_vars => More'
<1> SUFFICES ASSUME Inv, Inv', More, [Next]_vars PROVE More'
  OBVIOUS
<1>1. CASE UNCHANGED vars \/ Tick
  BY <1>1, TimeMore DEF vars, Tick
<1>2. ASSUME NEW r \in Requests, Calls(r) PROVE More'
  <2>1. CASE TotpCalls(r)
    BY <2>1, UnpreparedMore DEF TotpCalls, Unprepared
  <2>2. CASE FlowCalls(r)
    BY <2>2, UnpreparedMore DEF FlowCalls, Unprepared
  <2> QED BY <1>2, <2>1, <2>2, SessionCallsMore, BearerCallsMore, AccountCallsMore DEF Calls
<1>3. ASSUME NEW r \in Requests, Run(r) \/ Commit(r) \/ Fail(r) PROVE More'
  BY <1>3, RunMore, CommitMore, FailMore
<1> QED BY <1>1, <1>2, <1>3 DEF Next

\* What a transaction commits is what its method would decide at the commit, although only
\* the documents it writes are validated; RevokeAll alone may miss sessions that were
\* created since its snapshot (Adapter.transaction, and every method that uses it).
THEOREM DecisionsHold == Spec => DecisionsStillHold
<1>1. ASSUME More, NEW r \in Requests, Inv, Prepared(r)
      PROVE  LET then == req[r].out
                 today == Decision(req[r].call) IN
             /\ then.answer = today.answer
             /\ \A d \in DOMAIN then.write : d \in DOMAIN today.write /\ today.write[d] = then.write[d]
             /\ req[r].call.method \notin {"revokeAll", "revokeAllAccess"}
                => DOMAIN today.write = DOMAIN then.write
  <2>1. StillDecides(req[r].call, req[r].out)
    BY <1>1 DEF More, RecordOK, Inv, PreparedOK, Prepared
  <2> QED BY <2>1 DEF StillDecides, Takes, RevokesSeveral
<1>2. Inv /\ More /\ [Next]_vars =>
         [\A r \in Requests : Prepared(r) /\ Commit(r) =>
             LET then == req[r].out
                 today == Decision(req[r].call) IN
             /\ then.answer = today.answer
             /\ \A d \in DOMAIN then.write : d \in DOMAIN today.write /\ today.write[d] = then.write[d]
             /\ req[r].call.method \notin {"revokeAll", "revokeAllAccess"}
                => DOMAIN today.write = DOMAIN then.write]_vars
  BY <1>1
<1> QED BY InitInv, NextInv, InitMore, NextMore, <1>2, PTL DEF Spec, DecisionsStillHold

-----------------------------------------------------------------------------
(***************************************************************************)
(* A revocation that has been answered is complete.                        *)
(***************************************************************************)

\* What a revocation writes does no more than revoke.
LEMMA RevocationsRevoke ==
    ASSUME NEW c, NEW w, Takes(c, w), NEW d, About(c, d),
           c.method = "rotateRefresh" => Decision(c).answer = "reuse"
    PROVE  OnlyRevokes(w)
<1>1. \E D : Decision(c).write = Revoking(D)
  <2>1. CASE c.method = "revokeAll"
    BY <2>1, Answers DEF Decision, RevokeAll
  <2>2. CASE c.method = "revokeAccess"
    <3>1. Decision(c).write = RevokeSessions({c.sid})
      BY <2>2, Answers DEF Decision, RevokeAccess
    <3> QED BY <3>1 DEF RevokeSessions
  <2>3. CASE c.method = "revokeAllAccess"
    <3>1. Decision(c).write = RevokeSessions(Bearer!SessionsOf(c.user))
      BY <2>3, Answers DEF Decision, RevokeAllAccess
    <3> QED BY <3>1 DEF RevokeSessions
  <2>4. CASE c.method = "rotateRefresh"
    <3> DEFINE row == docs[Refresh(c.token)]
               x == Refresh(c.new) :> Bearer!NewToken(row.session, row.expires)
                      @@ Refresh(c.token) :> [row EXCEPT !.rotated = TRUE]
               y == [answer |-> "reuse", write |-> RevokeSessions({row.session})]
    <3>1. Decision(c) = y \/ Decision(c) = Refuse("conflict") \/ Decision(c) = Ok(x)
      <4>1. Decision(c) = RotateRefresh(c)
        BY <2>4 DEF Decision
      <4> QED BY <4>1, Zenon DEF RotateRefresh
    <3> HIDE DEF x, row
    <3>2. Decision(c).write = RevokeSessions({row.session})
      BY <2>4, <3>1 DEF Ok, Refuse
    <3> QED BY <3>2 DEF RevokeSessions
  <2> QED BY <2>1, <2>2, <2>3, <2>4 DEF About
<1>2. OnlyRevokes(Decision(c).write)
  BY <1>1, RevokingWrites
<1> QED BY <1>2 DEF Takes, OnlyRevokes

\* What it is about is revoked by it, or was before.
LEMMA RevokedAfter ==
    ASSUME Sound, TokensOwned, NEW c, CallOK(c), Fits(c), NEW d, About(c, d),
           NEW w, WriteOK(w), OnlyRevokes(w), docs' = Written(w), docs[d].revoked \/ d \in DOMAIN w
    PROVE  docs'[d].revoked
<1>0. /\ \A e : Sets(w, e) => docs'[e] = w[e]
      /\ \A e : e \notin DOMAIN w /\ Exists(e) => docs'[e] = docs[e]
  BY WrittenDocs DEF Sound
<1>1. Exists(d)
  BY AboutDocs
<1>2. CASE d \notin DOMAIN w
  BY <1>0, <1>1, <1>2
<1>3. CASE d \in DOMAIN w
  <2> DEFINE row == docs[d]
  <2>1. w[d] = [row EXCEPT !.revoked = TRUE]
    BY <1>3 DEF OnlyRevokes
  <2>2. \/ row \in Cookie!Record \/ row \in Bearer!AccessSession \/ row \in Bearer!RefreshToken
    <3>1. \/ \E t : d = Session(t)
          \/ \E sid : d = Access(sid)
          \/ \E t : d = Refresh(t)
      BY DEF About, SessionDocs, BearerDocs
    <3> QED BY <1>1, <3>1, TypedSessions DEF Sound
  <2> HIDE DEF row
  <2>3. CASE row \in Cookie!Record
    <3>1. w[d] \in Cookie!Record /\ w[d].revoked
      BY <2>1, <2>3 DEF Cookie!Record
    <3> QED BY <1>0, <1>3, <3>1, SomeSession DEF Sets
  <2>4. CASE row \in Bearer!AccessSession
    <3>1. w[d] \in Bearer!AccessSession /\ w[d].revoked
      BY <2>1, <2>4 DEF Bearer!AccessSession
    <3> QED BY <1>0, <1>3, <3>1, SomeSession DEF Sets
  <2>5. CASE row \in Bearer!RefreshToken
    <3>1. w[d] \in Bearer!RefreshToken /\ w[d].revoked
      BY <2>1, <2>5 DEF Bearer!RefreshToken
    <3> QED BY <1>0, <1>3, <3>1, SomeSession DEF Sets
  <2> QED BY <2>2, <2>3, <2>4, <2>5
<1> QED BY <1>2, <1>3

\* A spent token that is exchanged is written, so that its exchange is never empty.
LEMMA EmptyExchange ==
    ASSUME NEW c, c.method = "rotateRefresh", Decision(c).answer \in {"ok", "reuse"},
           DOMAIN Decision(c).write = {}
    PROVE  Decision(c).answer = "reuse"
<1> DEFINE row == docs[Refresh(c.token)]
           x == Refresh(c.new) :> Bearer!NewToken(row.session, row.expires)
                  @@ Refresh(c.token) :> [row EXCEPT !.rotated = TRUE]
           y == [answer |-> "reuse", write |-> RevokeSessions({row.session})]
<1>1. Decision(c) = y \/ Decision(c) = Refuse("conflict") \/ Decision(c) = Ok(x)
  <2>1. Decision(c) = RotateRefresh(c)
    BY DEF Decision
  <2> QED BY <2>1, Zenon DEF RotateRefresh
<1>2. Refresh(c.token) \in DOMAIN x
  BY WritesOf DEF Writes
<1> HIDE DEF x, row
<1> QED BY <1>1, <1>2, Answers DEF Ok, Refuse

\* A sign-out, RevokeAll and the detection of a reused token leave nothing that they are
\* about unrevoked: the documents that were there when they were called, and the replacement
\* that a rotation inserted before they took effect (AccessSessionStore.Revoke,
\* SessionStore.RevokeAll and RefreshTokenStore.Rotate).
THEOREM RevocationsComplete == Spec => RevokedBeforeAnswer
<1> DEFINE Complete(r) ==
      /\ \/ Prepared(r) /\ Commit(r)
            /\ (req[r].call.method = "rotateRefresh" => req[r].out.answer = "reuse")
         \/ Open(r) /\ Run(r)
            /\ Decision(req[r].call).answer \in {"ok", "reuse"}
            /\ DOMAIN Decision(req[r].call).write = {}
      => \A d \in req[r].seen : docs'[d].revoked
<1>1. ASSUME Inv, More, NEW r \in Requests PROVE Complete(r)
  <2>0. PICK c, w : c = req[r].call /\ w = req[r].out.write
    OBVIOUS
  <2>1. Sound /\ TokensOwned
    BY <1>1 DEF Inv, More
  <2>2. ASSUME Prepared(r), Commit(r), c.method = "rotateRefresh" => req[r].out.answer = "reuse",
               NEW d \in req[r].seen
        PROVE  docs'[d].revoked
    <3>1. docs' = Written(w)
      BY <2>0, <2>2 DEF Commit, Effect
    <3>2. c # None /\ Safe(w)
      BY <1>1, <2>0, <2>2 DEF Inv, PreparedOK
    <3>3. CallOK(c) /\ Fits(c) /\ About(c, d) /\ StillDecides(c, req[r].out)
      BY <1>1, <2>0, <2>2, <3>2 DEF Inv, ReqOK, Idle, Prepared, More, RecordOK
    <3>4. Revokes(req[r])
      BY <2>0, <2>2 DEF Revokes
    <3>5. docs[d].revoked \/ d \in DOMAIN w
      BY <1>1, <2>0, <2>2, <3>2, <3>4 DEF More, RecordOK, Prepared
    <3>6. OnlyRevokes(w)
      BY <2>0, <2>2, <3>3, RevocationsRevoke DEF StillDecides
    <3> QED BY <2>1, <3>1, <3>2, <3>3, <3>5, <3>6, RevokedAfter DEF Safe
  <2>3. ASSUME Open(r), Run(r), Decision(c).answer \in {"ok", "reuse"},
               DOMAIN Decision(c).write = {}, NEW d \in req[r].seen
        PROVE  docs'[d].revoked
    <3>0. PICK v : v = Decision(c).write
      OBVIOUS
    <3>1. CallOK(c) /\ Fits(c) /\ About(c, d)
      BY <1>1, <2>0, <2>3 DEF Inv, ReqOK, Idle, Open, More, RecordOK
    <3>2. docs[d].revoked
      BY <2>1, <2>3, <3>1, DecidesNow, EmptyExchange
    <3>3. Exists(d)
      BY <2>1, <3>1, AboutDocs
    <3>4. docs' = docs \/ docs' = Written(v)
      BY <2>0, <2>3, <3>0 DEF Run, Attempt, Put, Effect
    <3>5. d \notin DOMAIN v /\ d \in DOMAIN docs
      BY <2>3, <3>0, <3>3 DEF Exists
    <3>6. docs' = Written(v) => docs'[d] = docs[d]
      BY <3>5 DEF Written
    <3> QED BY <3>2, <3>4, <3>6
  <2> QED BY <2>0, <2>2, <2>3
<1>2. Inv /\ More => [\A r \in Requests : Complete(r)]_vars
  BY <1>1
<1> QED BY InitInv, NextInv, InitMore, NextMore, <1>2, PTL DEF Spec, RevokedBeforeAnswer

-----------------------------------------------------------------------------
(***************************************************************************)
(* The sessions implement the abstract stores.                             *)
(***************************************************************************)

\* What any key holds after a write.
LEMMA DocAfter ==
    ASSUME DocsOK, NEW w, WriteOK(w), docs' = Written(w), NEW d
    PROVE  Doc(d)' = IF d \in DOMAIN w THEN w[d] ELSE Doc(d)
BY WrittenDocs DEF Sets, Erases

\* ... and the cookie sessions.
LEMMA SessionAfter ==
    ASSUME DocsOK, NEW w, WriteOK(w), docs' = Written(w)
    PROVE  [t \in SessionTokens |-> Doc(Session(t))]' =
              [t \in SessionTokens |-> IF Session(t) \in DOMAIN w THEN w[Session(t)]
                                       ELSE Doc(Session(t))]
<1>1. ASSUME NEW t \in SessionTokens
      PROVE  Doc(Session(t))' = IF Session(t) \in DOMAIN w THEN w[Session(t)] ELSE Doc(Session(t))
  <2>1. PICK d : d = Session(t)
    OBVIOUS
  <2>2. Doc(d)' = IF d \in DOMAIN w THEN w[d] ELSE Doc(d)
    BY DocAfter
  <2> QED BY <2>1, <2>2 DEF Doc, Exists, Session
<1> QED BY <1>1

\* The cookie sessions after a write of their store: the steps of the abstract one, RevokeAll
\* of the sessions that its snapshot held.
LEMMA CookieEffect ==
    ASSUME Sound, NEW c, SessionCall(c), Fits(c), NEW w, WriteOK(w), Takes(c, w),
           docs' = Written(w)
    PROVE  [Cookie!StoreNext \/ Cookie!StoreRevokeSome]_[t \in SessionTokens |-> Doc(Session(t))]
<1> DEFINE old == [t \in SessionTokens |-> Doc(Session(t))]
           new == [t \in SessionTokens |-> IF Session(t) \in DOMAIN w THEN w[Session(t)]
                                           ELSE Doc(Session(t))]
<1>1. [t \in SessionTokens |-> Doc(Session(t))]' = new
  BY SessionAfter DEF Sound
<1>2. \A t, u : Session(t) = Session(u) => t = u
  BY Keys
<1>3. \A t : Exists(Session(t)) => docs[Session(t)] \in Cookie!Record /\ docs[Session(t)] # None
  BY TypedSessions, SomeSession DEF Sound
<1>4. \A t : /\ Exists(Session(t)) => Doc(Session(t)) = docs[Session(t)]
             /\ ~Exists(Session(t)) <=> Doc(Session(t)) = None
  BY <1>3 DEF Doc
<1>5. \A t \in SessionTokens : old[t] = Doc(Session(t))
  OBVIOUS
<1>6. CASE DOMAIN w = {}
  BY <1>1, <1>6
<1>7. CASE DOMAIN w # {} /\ c \in [method: {"create"}, rec: Cookie!Record]
  <2> DEFINE one == Session(c.rec.hash) :> c.rec
  <2>1. w = Create(c).write
    BY <1>7 DEF Decision, Takes, RevokesSeveral
  <2>2. w = one /\ ~Exists(Session(c.rec.hash))
    BY <1>7, <2>1, NothingOK DEF Create, Ok, Refuse
  <2>3. DOMAIN one = {Session(c.rec.hash)} /\ one[Session(c.rec.hash)] = c.rec
    BY DEF :>
  <2>4. PICK t \in SessionTokens, u \in Subjects, at \in Times : c.rec = Cookie!NewRecord(t, u, at)
    BY <1>7 DEF Fits
  <2>5. c.rec.hash = t
    BY <2>4 DEF Cookie!NewRecord
  <2> HIDE DEF one
  <2>6. new = [old EXCEPT ![t] = c.rec]
    BY <1>2, <2>2, <2>3, <2>5
  <2>7. old[t] = None
    BY <1>4, <2>2, <2>5
  <2> HIDE DEF old, new
  <2>8. Cookie!StoreCreate(Cookie!NewRecord(t, u, at))
    BY <1>1, <2>4, <2>5, <2>6, <2>7 DEF Cookie!StoreCreate, Cookie!Exists, old
  <2> QED BY <2>8 DEF Cookie!StoreNext, Times, Cookie!Times
<1>8. CASE DOMAIN w # {} /\ c \in [method: {"extend"}, token: SessionTokens, at: Times, expires: Nat]
  <2> DEFINE t == c.token
             d == Session(t)
             rec == [docs[d] EXCEPT !.last = c.at, !.expires = c.expires]
             one == d :> rec
  <2>1. Decision(c) = Extend(c) /\ w = Extend(c).write
    BY <1>8 DEF Decision, Takes, RevokesSeveral
  <2>2. \/ Extend(c) = Refuse("inactive")
        \/ Cookie!Extendable(t, c.at, c.expires) /\ Extend(c) = Ok(one)
    BY Zenon DEF Extend
  <2>3. DOMAIN one = {d} /\ one[d] = rec
    <3> HIDE DEF rec, d
    <3> QED BY DEF :>
  <2>4. Cookie!Extendable(t, c.at, c.expires) /\ w = one
    <3> HIDE DEF one
    <3> QED BY <1>8, <2>1, <2>2, NothingOK, Answers
  <2>5. t \in SessionTokens /\ c.at \in Times
    BY <1>8
  <2>6. Extension /\ Exists(d) /\ c.expires = Cookie!ExtendedExpiry(docs[d], c.at)
    BY <1>8 DEF Fits
  <2> HIDE DEF one, rec
  <2>7. old[t] = docs[d]
    BY <1>4, <2>5, <2>6
  <2>8. new = [old EXCEPT ![t] = rec]
    BY <1>2, <2>3, <2>4, <2>5
  <2>9. rec = [[old[t] EXCEPT !.last = c.at] EXCEPT !.expires = c.expires]
    BY <2>7 DEF rec
  <2> HIDE DEF old, new, t, d
  <2>10. new = [old EXCEPT ![t].last = c.at, ![t].expires = c.expires]
    <3>1. [old EXCEPT ![t].last = c.at, ![t].expires = c.expires] =
             [old EXCEPT ![t] = [[old[t] EXCEPT !.last = c.at] EXCEPT !.expires = c.expires]]
      OBVIOUS
    <3> QED BY <2>8, <2>9, <3>1
  <2>11. c.expires = Cookie!ExtendedExpiry(old[t], c.at)
    BY <2>6, <2>7
  <2>12. Cookie!StoreExtend(t, c.at, Cookie!ExtendedExpiry(old[t], c.at))
    BY <1>1, <2>4, <2>10, <2>11 DEF Cookie!StoreExtend, old
  <2> QED BY <2>5, <2>6, <2>12 DEF Cookie!StoreNext, Times, Cookie!Times, old
<1>9. CASE DOMAIN w # {} /\ c \in [method: {"rotate"}, token: SessionTokens, at: Times, rec: Cookie!Record]
  <2> DEFINE one == Session(c.rec.hash) :> c.rec
             gone == Revoking({Session(c.token)})
             t == c.token
  <2>1. w = Rotate(c).write
    BY <1>9 DEF Decision, Takes, RevokesSeveral
  <2>2. /\ w = one @@ gone
        /\ Cookie!Rotatable(t, c.at) /\ Exists(Session(t)) /\ ~Exists(Session(c.rec.hash))
    <3> HIDE DEF one, gone
    <3> QED BY <1>9, <2>1, NothingOK DEF Rotate, Ok, Refuse, one, gone
  <2>3. DOMAIN one = {Session(c.rec.hash)} /\ one[Session(c.rec.hash)] = c.rec
    BY DEF :>
  <2>4. t \in SessionTokens /\ c.at \in Times
    BY <1>9
  <2>5. ~docs[Session(t)].revoked
    BY <2>2, <2>4, CookieRecord
  <2>6. DOMAIN gone = {Session(t)} /\ gone[Session(t)] = [docs[Session(t)] EXCEPT !.revoked = TRUE]
    BY <2>2, <2>5 DEF Revoking
  <2>7. PICK u \in SessionTokens, born \in Times :
           c.rec = Cookie!NewRecord(u, docs[Session(t)].subject, born)
    BY <1>9 DEF Fits
  <2>8. c.rec.hash = u
    BY <2>7 DEF Cookie!NewRecord
  <2> HIDE DEF one, gone, t
  <2>9. old[t] = docs[Session(t)] /\ old[u] = None /\ u # t
    BY <1>4, <2>2, <2>4, <2>8
  <2>10. new = [[old EXCEPT ![t] = [old[t] EXCEPT !.revoked = TRUE]] EXCEPT ![u] = c.rec]
    <3>1. PICK spent : spent = [old[t] EXCEPT !.revoked = TRUE]
      OBVIOUS
    <3>2. Session(u) \in DOMAIN w /\ w[Session(u)] = c.rec
      BY <2>2, <2>3, <2>8 DEF @@
    <3>3. Session(t) \in DOMAIN w /\ w[Session(t)] = spent
      BY <1>2, <2>2, <2>3, <2>6, <2>8, <2>9, <3>1 DEF @@
    <3>4. \A x : Session(x) \in DOMAIN w => x = t \/ x = u
      BY <1>2, <2>2, <2>3, <2>6, <2>8 DEF @@
    <3>5. new = [[old EXCEPT ![t] = spent] EXCEPT ![u] = c.rec]
      BY <2>4, <2>9, <3>2, <3>3, <3>4
    <3> QED BY <3>1, <3>5
  <2> HIDE DEF old, new
  <2>11. new = [old EXCEPT ![t].revoked = TRUE, ![u] = c.rec]
    BY <2>10
  <2>12. c.rec = Cookie!NewRecord(u, old[t].subject, born)
    BY <2>7, <2>9
  <2>13. Cookie!NewRecord(u, old[t].subject, born).hash = u
    BY DEF Cookie!NewRecord
  <2>14. Cookie!StoreRotate(t, Cookie!NewRecord(u, old[t].subject, born), c.at)
    BY <1>1, <2>2, <2>9, <2>11, <2>12, <2>13 DEF Cookie!StoreRotate, Cookie!Exists, old
  <2> QED BY <2>4, <2>7, <2>14 DEF Cookie!StoreNext, Times, Cookie!Times, old
<1>10. CASE DOMAIN w # {} /\ c \in [method: {"revoke"}, token: SessionTokens]
  <2> DEFINE gone == Revoking({Session(c.token)})
             t == c.token
  <2>1. w = Revoke(c).write
    BY <1>10 DEF Decision, Takes, RevokesSeveral
  <2>2. w = gone
    <3> HIDE DEF gone
    <3> QED BY <1>10, <2>1, NothingOK DEF Revoke, Ok, Refuse, gone
  <2>3. /\ Exists(Session(t)) /\ DOMAIN gone = {Session(t)}
        /\ gone[Session(t)] = [docs[Session(t)] EXCEPT !.revoked = TRUE]
    BY <1>10, <2>2 DEF Revoking
  <2>4. t \in SessionTokens
    BY <1>10
  <2> HIDE DEF gone, t
  <2>5. old[t] = docs[Session(t)] /\ old[t] # None
    BY <1>4, <2>3, <2>4
  <2>6. new = [old EXCEPT ![t] = Cookie!Revoked(old[t])]
    BY <1>2, <2>2, <2>3, <2>4, <2>5 DEF Cookie!Revoked
  <2> HIDE DEF old, new
  <2>7. Cookie!StoreRevoke(t)
    BY <1>1, <2>5, <2>6 DEF Cookie!StoreRevoke, Cookie!Exists, old
  <2> QED BY <2>4, <2>7 DEF Cookie!StoreNext
<1>11. CASE DOMAIN w # {} /\ c \in [method: {"revokeAll"}, user: Subjects]
  <2> DEFINE S == {t \in SessionTokens : Session(t) \in DOMAIN w}
  <2>1. Decision(c).write = Revoking(SessionDocs(c.user))
    BY <1>11, Answers DEF Decision, RevokeAll
  <2>2. ASSUME NEW d \in DOMAIN w
        PROVE  d \in SessionDocs(c.user) /\ w[d] = [docs[d] EXCEPT !.revoked = TRUE]
    BY <1>11, <2>1 DEF Takes, RevokesSeveral, Revoking
  <2>3. S \subseteq Cookie!BelongTo(c.user)
    BY <1>2, <2>2 DEF SessionDocs
  <2>4. \A t \in S : Exists(Session(t))
    BY <1>4, <2>3 DEF Cookie!BelongTo, Cookie!Exists
  <2>5. \A t \in S : w[Session(t)] = Cookie!Revoked(old[t])
    BY <1>4, <2>2, <2>4 DEF Cookie!Revoked
  <2>6. \A t \in SessionTokens : Session(t) \in DOMAIN w <=> t \in S
    OBVIOUS
  <2> HIDE DEF S
  <2>7. new = [t \in SessionTokens |-> IF t \in S THEN Cookie!Revoked(old[t]) ELSE old[t]]
    BY <2>5, <2>6
  <2> HIDE DEF old, new
  <2>8. CASE new = old
    BY <1>1, <2>8 DEF old
  <2>9. CASE new # old
    <3>1. Cookie!StoreRevokeSome
      BY <1>1, <1>11, <2>3, <2>7, <2>9 DEF Cookie!StoreRevokeSome, old
    <3> QED BY <3>1
  <2> QED BY <2>8, <2>9
<1> QED BY <1>6, <1>7, <1>8, <1>9, <1>10, <1>11 DEF SessionCall

\* The bearer sessions and the tokens after a write.
LEMMA BearerAfter ==
    ASSUME DocsOK, NEW w, WriteOK(w), docs' = Written(w)
    PROVE  /\ [sid \in SessionIDs |-> Doc(Access(sid))]' =
                 [sid \in SessionIDs |-> IF Access(sid) \in DOMAIN w THEN w[Access(sid)]
                                         ELSE Doc(Access(sid))]
           /\ [t \in Tokens |-> Doc(Refresh(t))]' =
                 [t \in Tokens |-> IF Refresh(t) \in DOMAIN w THEN w[Refresh(t)]
                                   ELSE Doc(Refresh(t))]
<1>1. ASSUME NEW sid \in SessionIDs
      PROVE  Doc(Access(sid))' = IF Access(sid) \in DOMAIN w THEN w[Access(sid)] ELSE Doc(Access(sid))
  <2>1. PICK d : d = Access(sid)
    OBVIOUS
  <2>2. Doc(d)' = IF d \in DOMAIN w THEN w[d] ELSE Doc(d)
    BY DocAfter
  <2> QED BY <2>1, <2>2 DEF Doc, Exists, Access
<1>2. ASSUME NEW t \in Tokens
      PROVE  Doc(Refresh(t))' = IF Refresh(t) \in DOMAIN w THEN w[Refresh(t)] ELSE Doc(Refresh(t))
  <2>1. PICK d : d = Refresh(t)
    OBVIOUS
  <2>2. Doc(d)' = IF d \in DOMAIN w THEN w[d] ELSE Doc(d)
    BY DocAfter
  <2> QED BY <2>1, <2>2 DEF Doc, Exists, Refresh
<1> QED BY <1>1, <1>2

\* What the documents of bearer sessions and tokens are, by name.
LEMMA BearerRecords ==
    ASSUME Sound
    PROVE  /\ \A x, y : Access(x) = Access(y) => x = y
           /\ \A x, y : Refresh(x) = Refresh(y) => x = y
           /\ \A x, y : Access(x) # Refresh(y)
           /\ \A x : Exists(Access(x)) =>
                 docs[Access(x)] \in Bearer!AccessSession /\ Doc(Access(x)) = docs[Access(x)]
           /\ \A x : Exists(Refresh(x)) =>
                 docs[Refresh(x)] \in Bearer!RefreshToken /\ Doc(Refresh(x)) = docs[Refresh(x)]
           /\ \A x : ~Exists(Access(x)) <=> Doc(Access(x)) = None
           /\ \A x : ~Exists(Refresh(x)) <=> Doc(Refresh(x)) = None
<1>1. /\ \A x, y : Access(x) = Access(y) => x = y
      /\ \A x, y : Refresh(x) = Refresh(y) => x = y
      /\ \A x, y : Access(x) # Refresh(y)
  BY Keys
<1>2. /\ \A x : Exists(Access(x)) => docs[Access(x)] \in Bearer!AccessSession
      /\ \A x : Exists(Refresh(x)) => docs[Refresh(x)] \in Bearer!RefreshToken
  BY TypedSessions DEF Sound
<1> QED BY <1>1, <1>2, SomeSession DEF Doc

\* A write that revokes all that is unrevoked of some sessions, and nothing else, revokes
\* these sessions with all their tokens.
LEMMA RevokeEffect ==
    ASSUME Sound, NEW sids, NEW w, WriteOK(w), docs' = Written(w), OnlyRevokes(w),
           DOMAIN w \subseteq BearerDocs(sids),
           \A d \in BearerDocs(sids) : Exists(d) /\ ~docs[d].revoked => d \in DOMAIN w
    PROVE  Bearer!StoreRevoke(sids)
<1> DEFINE access == [sid \in SessionIDs |-> Doc(Access(sid))]
           refresh == [t \in Tokens |-> Doc(Refresh(t))]
<1>1. \A sid : Access(sid) \in BearerDocs(sids) <=> sid \in sids
  BY BearerRecords DEF BearerDocs
<1>2. \A t : Refresh(t) \in BearerDocs(sids) <=> t \in TokensOf(sids)
  BY BearerRecords DEF BearerDocs
<1>3. \A d \in DOMAIN w : Exists(d) /\ w[d] = [docs[d] EXCEPT !.revoked = TRUE]
  BY DEF OnlyRevokes
<1>4. ASSUME NEW row, row \in Bearer!AccessSession \/ row \in Bearer!RefreshToken, row.revoked
      PROVE  row = [row EXCEPT !.revoked = TRUE]
  <2>1. row.revoked = TRUE
    BY <1>4 DEF Bearer!AccessSession, Bearer!RefreshToken
  <2> QED BY <1>4, <2>1 DEF Bearer!AccessSession, Bearer!RefreshToken
<1>5. [sid \in SessionIDs |-> Doc(Access(sid))]' =
         [sid \in SessionIDs |-> IF access[sid] # None /\ sid \in sids
                                   THEN [access[sid] EXCEPT !.revoked = TRUE] ELSE access[sid]]
  <2>1. ASSUME NEW sid \in SessionIDs
        PROVE  (IF Access(sid) \in DOMAIN w THEN w[Access(sid)] ELSE Doc(Access(sid))) =
                  IF access[sid] # None /\ sid \in sids
                    THEN [access[sid] EXCEPT !.revoked = TRUE] ELSE access[sid]
    <3>1. access[sid] = Doc(Access(sid))
      OBVIOUS
    <3>2. PICK d : d = Access(sid)
      OBVIOUS
    <3>3. /\ Exists(d) => docs[d] \in Bearer!AccessSession /\ access[sid] = docs[d]
          /\ ~Exists(d) <=> access[sid] = None
          /\ d \in BearerDocs(sids) <=> sid \in sids
      BY <1>1, <3>1, <3>2, BearerRecords
    <3> HIDE DEF access
    <3>4. CASE d \in DOMAIN w
      <4>1. w[d] = [docs[d] EXCEPT !.revoked = TRUE] /\ access[sid] # None /\ sid \in sids
        BY <1>3, <3>3, <3>4
      <4> QED BY <3>2, <3>3, <3>4, <4>1
    <3>5. CASE d \notin DOMAIN w /\ Exists(d) /\ sid \in sids
      <4>1. docs[d] = [docs[d] EXCEPT !.revoked = TRUE]
        BY <1>4, <3>3, <3>5
      <4> QED BY <3>1, <3>2, <3>3, <3>5, <4>1
    <3>6. CASE d \notin DOMAIN w /\ ~(Exists(d) /\ sid \in sids)
      BY <3>1, <3>2, <3>3, <3>6
    <3> QED BY <3>4, <3>5, <3>6
  <2> HIDE DEF access
  <2> QED BY <2>1, BearerAfter DEF Sound
<1>6. [t \in Tokens |-> Doc(Refresh(t))]' =
         [t \in Tokens |-> IF refresh[t] # None /\ refresh[t].session \in sids
                             THEN [refresh[t] EXCEPT !.revoked = TRUE] ELSE refresh[t]]
  <2>1. ASSUME NEW t \in Tokens
        PROVE  (IF Refresh(t) \in DOMAIN w THEN w[Refresh(t)] ELSE Doc(Refresh(t))) =
                  IF refresh[t] # None /\ refresh[t].session \in sids
                    THEN [refresh[t] EXCEPT !.revoked = TRUE] ELSE refresh[t]
    <3>1. refresh[t] = Doc(Refresh(t))
      OBVIOUS
    <3>2. PICK d : d = Refresh(t)
      OBVIOUS
    <3>3. /\ Exists(d) => docs[d] \in Bearer!RefreshToken /\ refresh[t] = docs[d]
          /\ ~Exists(d) <=> refresh[t] = None
          /\ d \in BearerDocs(sids) <=> Exists(d) /\ docs[d].session \in sids
      BY <1>2, <3>1, <3>2, BearerRecords DEF TokensOf
    <3> HIDE DEF refresh
    <3>4. CASE d \in DOMAIN w
      <4>1. /\ w[d] = [docs[d] EXCEPT !.revoked = TRUE]
            /\ refresh[t] # None /\ refresh[t].session \in sids
        BY <1>3, <3>3, <3>4
      <4> QED BY <3>2, <3>3, <3>4, <4>1
    <3>5. CASE d \notin DOMAIN w /\ Exists(d) /\ docs[d].session \in sids
      <4>1. docs[d] = [docs[d] EXCEPT !.revoked = TRUE]
        BY <1>4, <3>3, <3>5
      <4> QED BY <3>1, <3>2, <3>3, <3>5, <4>1
    <3>6. CASE d \notin DOMAIN w /\ ~(Exists(d) /\ docs[d].session \in sids)
      BY <3>1, <3>2, <3>3, <3>6
    <3> QED BY <3>4, <3>5, <3>6
  <2> HIDE DEF refresh
  <2> QED BY <2>1, BearerAfter DEF Sound
<1> QED BY <1>5, <1>6 DEF Bearer!StoreRevoke

\* What revokeAccessSession writes for one session is all of it.
LEMMA RevokeOne ==
    ASSUME Sound, NEW sid, NEW w, WriteOK(w), docs' = Written(w), w = RevokeSessions({sid})
    PROVE  Bearer!StoreRevoke({sid})
<1>1. OnlyRevokes(w)
  BY RevokingWrites DEF RevokeSessions
<1>2. DOMAIN w = {d \in BearerDocs({sid}) : Exists(d) /\ ~docs[d].revoked}
  BY DEF RevokeSessions, Revoking, BearerDocs
<1>3. PICK sids : sids = {sid}
  OBVIOUS
<1>4. Bearer!StoreRevoke(sids)
  BY <1>1, <1>2, <1>3, RevokeEffect
<1> QED BY <1>3, <1>4

\* The bearer sessions and tokens after a write of their stores: RevokeAll revokes the
\* sessions that its snapshot held, each with all its tokens.
LEMMA BearerEffect ==
    ASSUME Sound, NEW c, BearerCall(c), Fits(c), NEW w, WriteOK(w), Takes(c, w),
           docs' = Written(w)
    PROVE  [Bearer!StoreNext \/ Bearer!StoreRevokeSome]_<<[sid \in SessionIDs |-> Doc(Access(sid))],
                                                         [t \in Tokens |-> Doc(Refresh(t))]>>
<1> DEFINE access == [sid \in SessionIDs |-> Doc(Access(sid))]
           refresh == [t \in Tokens |-> Doc(Refresh(t))]
           access1 == [sid \in SessionIDs |-> IF Access(sid) \in DOMAIN w THEN w[Access(sid)]
                                              ELSE Doc(Access(sid))]
           refresh1 == [t \in Tokens |-> IF Refresh(t) \in DOMAIN w THEN w[Refresh(t)]
                                         ELSE Doc(Refresh(t))]
<1>1. /\ [sid \in SessionIDs |-> Doc(Access(sid))]' = access1
      /\ [t \in Tokens |-> Doc(Refresh(t))]' = refresh1
  BY BearerAfter DEF Sound
<1>2. CASE DOMAIN w = {}
  BY <1>1, <1>2
<1>3. CASE /\ DOMAIN w # {}
           /\ c \in [method: {"createSession"}, sid: SessionIDs, user: Subjects, new: Tokens, at: Times]
  <2> DEFINE sid == c.sid
             t == c.new
             session == Bearer!NewSession(c.user, c.at)
             token == Bearer!NewToken(sid, c.at + RefreshLifetime)
             x == Access(sid) :> session @@ Refresh(t) :> token
  <2>1. w = CreateSession(c).write
    BY <1>3 DEF Decision, Takes, RevokesSeveral
  <2>2. \/ CreateSession(c) = Refuse("error")
        \/ ~Exists(Access(sid)) /\ ~Exists(Refresh(t)) /\ CreateSession(c) = Ok(x)
    BY Zenon DEF CreateSession
  <2>3. w = x /\ ~Exists(Access(sid)) /\ ~Exists(Refresh(t))
    <3> HIDE DEF x
    <3> QED BY <1>3, <2>1, <2>2, NothingOK, Answers
  <2>4. sid \in SessionIDs /\ t \in Tokens /\ c.user \in Subjects /\ c.at \in Times
    BY <1>3
  <2> HIDE DEF session, token
  <2>5. /\ DOMAIN x = {Access(sid), Refresh(t)}
        /\ x[Access(sid)] = session /\ x[Refresh(t)] = token
    BY BearerRecords DEF :>, @@
  <2> HIDE DEF x, sid, t
  <2>6. access[sid] = None /\ refresh[t] = None
    BY <2>3, <2>4, BearerRecords
  <2>7. access1 = [access EXCEPT ![sid] = session]
    BY <2>3, <2>4, <2>5, BearerRecords
  <2>8. refresh1 = [refresh EXCEPT ![t] = token]
    BY <2>3, <2>4, <2>5, BearerRecords
  <2> HIDE DEF access, refresh, access1, refresh1
  <2>9. Bearer!StoreCreate(sid, c.user, t, c.at)
    BY <1>1, <2>6, <2>7, <2>8 DEF Bearer!StoreCreate, access, refresh, session, token
  <2> QED BY <2>4, <2>9 DEF Bearer!StoreNext, Times, Bearer!Times
<1>4. CASE c \in [method: {"revokeAccess"}, sid: SessionIDs]
  <2>1. w = RevokeSessions({c.sid})
    BY <1>4, Answers DEF Decision, Takes, RevokesSeveral, RevokeAccess
  <2>2. PICK sid \in SessionIDs : sid = c.sid
    BY <1>4
  <2>3. Bearer!StoreRevoke({sid})
    BY <2>1, <2>2, RevokeOne
  <2> QED BY <2>3 DEF Bearer!StoreNext
<1>5. CASE c \in [method: {"revokeAllAccess"}, user: Subjects]
  <2>0. PICK S : S = Bearer!SessionsOf(c.user)
    OBVIOUS
  <2>1. PICK sids : sids = {sid \in S : DOMAIN w \cap BearerDocs({sid}) # {}}
    OBVIOUS
  <2>2. Decision(c).write = RevokeSessions(S)
    BY <1>5, <2>0, Answers DEF Decision, RevokeAllAccess
  <2>3. ASSUME NEW d \in DOMAIN w
        PROVE  /\ d \in BearerDocs(S) /\ Exists(d) /\ ~docs[d].revoked
               /\ w[d] = [docs[d] EXCEPT !.revoked = TRUE]
    BY <1>5, <2>2 DEF Takes, RevokesSeveral, RevokeSessions, Revoking, BearerDocs
  <2>4. OnlyRevokes(w)
    BY <2>3 DEF OnlyRevokes
  <2>5. DOMAIN w \subseteq BearerDocs(sids)
    <3>1. \A d \in BearerDocs(S) : \E sid \in S : d \in BearerDocs({sid})
      BY DEF BearerDocs, TokensOf
    <3>2. \A sid \in sids : BearerDocs({sid}) \subseteq BearerDocs(sids)
      BY DEF BearerDocs, TokensOf
    <3> QED BY <2>1, <2>3, <3>1, <3>2
  <2>6. \A d \in BearerDocs(sids) : Exists(d) /\ ~docs[d].revoked => d \in DOMAIN w
    <3>1. \A d \in BearerDocs(sids) : \E sid \in sids : d \in BearerDocs({sid})
      BY DEF BearerDocs, TokensOf
    <3>2. Whole(w) /\ S \subseteq SessionIDs
      BY <1>5, <2>0 DEF Takes, RevokesSeveral, Bearer!SessionsOf
    <3> QED BY <2>1, <3>1, <3>2 DEF Whole
  <2>7. Bearer!StoreRevoke(sids)
    BY <2>4, <2>5, <2>6, RevokeEffect
  <2>8. sids \in SUBSET Bearer!SessionsOf(c.user) /\ c.user \in Subjects
    BY <1>5, <2>0, <2>1
  <2> QED BY <2>7, <2>8 DEF Bearer!StoreRevokeSome
<1>6. CASE DOMAIN w # {} /\ c \in [method: {"rotateRefresh"}, token: Tokens, new: Tokens, at: Times]
  <2> DEFINE t == c.token
             u == c.new
             token == docs[Refresh(t)]
             new == Bearer!NewToken(token.session, token.expires)
             spent == [token EXCEPT !.rotated = TRUE]
             x == Refresh(u) :> new @@ Refresh(t) :> spent
             y == [answer |-> "reuse", write |-> RevokeSessions({token.session})]
  <2>1. w = RotateRefresh(c).write
    BY <1>6 DEF Decision, Takes, RevokesSeveral
  <2>2. \/ ~Bearer!RefreshActive(t, c.at) /\ RotateRefresh(c) = y
        \/ RotateRefresh(c) = Refuse("conflict")
        \/ Bearer!RefreshActive(t, c.at) /\ ~Exists(Refresh(u)) /\ RotateRefresh(c) = Ok(x)
    BY Zenon DEF RotateRefresh
  <2>3. \/ ~Bearer!RefreshActive(t, c.at) /\ w = RevokeSessions({token.session})
        \/ Bearer!RefreshActive(t, c.at) /\ ~Exists(Refresh(u)) /\ w = x
    <3> HIDE DEF x, token
    <3> QED BY <1>6, <2>1, <2>2, NothingOK, Answers
  <2>4. Exists(Refresh(t)) /\ t \in Tokens /\ u \in Tokens /\ c.at \in Times
    BY <1>6 DEF Fits
  <2>5. refresh[t] = token /\ refresh[t] # None
    BY <2>4, BearerRecords
  <2> HIDE DEF t, u
  <2>6. CASE Bearer!RefreshActive(t, c.at)
    <3>1. w = x /\ ~Exists(Refresh(u))
      BY <2>3, <2>6
    <3>2. refresh[u] = None /\ u # t
      BY <2>4, <3>1, BearerRecords
    <3> HIDE DEF new, spent, token
    <3>3. /\ Refresh(u) \in DOMAIN w /\ w[Refresh(u)] = new
          /\ Refresh(t) \in DOMAIN w /\ w[Refresh(t)] = spent
          /\ \A z : Refresh(z) \in DOMAIN w => z = t \/ z = u
          /\ \A z : Access(z) \notin DOMAIN w
      BY <3>1, <3>2, BearerRecords DEF :>, @@
    <3> HIDE DEF x
    <3>4. access1 = access
      BY <3>3
    <3>5. refresh1 = [[refresh EXCEPT ![t] = spent] EXCEPT ![u] = new]
      BY <2>4, <3>2, <3>3
    <3>6. spent = [refresh[t] EXCEPT !.rotated = TRUE]
          /\ new = Bearer!NewToken(refresh[t].session, refresh[t].expires)
      BY <2>5 DEF spent, new
    <3> HIDE DEF access, refresh, access1, refresh1
    <3>7. refresh1 = [refresh EXCEPT ![t].rotated = TRUE,
                         ![u] = Bearer!NewToken(refresh[t].session, refresh[t].expires)]
      BY <3>5, <3>6
    <3>8. Bearer!StoreRotate(t, u, c.at)
      BY <1>1, <2>6, <3>2, <3>4, <3>7 DEF Bearer!StoreRotate, access, refresh
    <3> QED BY <2>4, <3>8 DEF Bearer!StoreNext, Times, Bearer!Times
  <2>7. CASE ~Bearer!RefreshActive(t, c.at)
    <3>1. PICK sid : sid = refresh[t].session
      OBVIOUS
    <3>2. w = RevokeSessions({sid})
      BY <2>3, <2>5, <2>7, <3>1
    <3>3. Bearer!StoreRevoke({sid})
      BY <3>2, RevokeOne
    <3>4. Bearer!StoreRevoke({refresh[t].session})
      BY <3>1, <3>3
    <3>5. Bearer!StoreReuse(t, c.at)
      BY <2>5, <2>7, <3>4 DEF Bearer!StoreReuse
    <3> QED BY <2>4, <3>5 DEF Bearer!StoreNext, Times, Bearer!Times
  <2> QED BY <2>6, <2>7
<1> QED BY <1>2, <1>3, <1>4, <1>5, <1>6 DEF BearerCall

\* What the methods of other stores write is no session.
LEMMA OtherWrites ==
    ASSUME NEW c, CallOK(c), NEW w, Takes(c, w)
    PROVE  /\ ~SessionCall(c) => \A d \in DOMAIN w : d[1] # "sessions"
           /\ ~BearerCall(c) => \A d \in DOMAIN w : d[1] \notin BearerCollections
<1>0. DOMAIN w \subseteq DOMAIN Decision(c).write
  BY DEF Takes
<1>1. CASE SessionCall(c) \/ BearerCall(c)
  BY <1>0, <1>1, SessionWrites DEF Of, BearerCollections
<1>2. CASE ~SessionCall(c) /\ ~BearerCall(c) /\ c.method # "issue"
  BY <1>0, <1>2, PlainDecisions DEF Plain, SessionCollections, BearerCollections
<1>3. CASE ~SessionCall(c) /\ ~BearerCall(c) /\ c.method = "issue"
  <2>1. Decision(c).write = Mail(c.kind, c.user) :> c.token
    BY <1>3 DEF Decision, Issue, Ok
  <2>2. c.kind \in Kinds
    BY <1>3 DEF CallOK, PasswordCall, MailCall, IdentityCall, PasskeyCall, TotpCall, FlowCall
  <2>3. DOMAIN w \subseteq {Mail(c.kind, c.user)}
    BY <1>0, <2>1 DEF :>
  <2>4. Mail(c.kind, c.user)[1] \notin SessionCollections
    BY <2>2, PlainKeys
  <2> QED BY <2>3, <2>4 DEF SessionCollections, BearerCollections
<1> QED BY <1>1, <1>2, <1>3

\* A step changes no document, or a write takes effect that its method may decide on then.
LEMMA DocsStep ==
    ASSUME Inv, More, [Next]_vars
    PROVE  \/ UNCHANGED docs
           \/ \E c, w : /\ CallOK(c) /\ Fits(c) /\ Takes(c, w) /\ WriteOK(w)
                        /\ docs' = Written(w)
<1>1. ASSUME NEW r \in Requests, Run(r)
      PROVE  \/ UNCHANGED docs
             \/ \E c, w : /\ CallOK(c) /\ Fits(c) /\ Takes(c, w) /\ WriteOK(w)
                          /\ docs' = Written(w)
  <2>1. PICK c, w : c = req[r].call /\ w = Decision(c).write
    OBVIOUS
  <2>2. Open(r) /\ c # None
    BY <1>1, <2>1 DEF Run, Open
  <2>3. CallOK(c) /\ Fits(c)
    BY <2>1, <2>2 DEF Inv, ReqOK, Idle, More, RecordOK
  <2>4. Sound /\ TokensOwned
    BY DEF Inv, More
  <2>5. Takes(c, w)
    BY <2>1, <2>3, <2>4, DecidesNow
  <2>6. WriteOK(w)
    BY <2>1, <2>2, DecidedOK DEF Safe
  <2>7. UNCHANGED docs \/ docs' = Written(w)
    BY <1>1, <2>1 DEF Run, Put, Attempt, Effect
  <2> QED BY <2>3, <2>5, <2>6, <2>7
<1>2. ASSUME NEW r \in Requests, Commit(r)
      PROVE  \E c, w : /\ CallOK(c) /\ Fits(c) /\ Takes(c, w) /\ WriteOK(w)
                       /\ docs' = Written(w)
  <2>1. PICK c, w : c = req[r].call /\ w = req[r].out.write
    OBVIOUS
  <2>2. Prepared(r) /\ docs' = Written(w)
    BY <1>2, <2>1 DEF Commit, Effect
  <2>3. c # None /\ Safe(w)
    BY <2>1, <2>2 DEF Inv, PreparedOK
  <2>4. CallOK(c) /\ Fits(c) /\ Takes(c, w)
    BY <2>1, <2>2, <2>3 DEF Inv, ReqOK, Idle, Prepared, More, RecordOK, StillDecides
  <2> QED BY <2>2, <2>3, <2>4 DEF Safe
<1>3. ASSUME NEW r \in Requests, Calls(r) PROVE UNCHANGED docs
  BY <1>3 DEF Calls, SessionCalls, BearerCalls, AccountCalls, TotpCalls, FlowCalls, Call,
              PasswordCalls, MailCalls, IdentityCalls, PasskeyCalls, CallCreate, CallExtend,
              CallRotate, CallRevoke, CallRevokeAll, CallCreateSession, CallRevokeAccess,
              CallRevokeAllAccess, CallRotateRefresh
<1>4. ASSUME NEW r \in Requests, Fail(r) PROVE UNCHANGED docs
  BY <1>4 DEF Fail
<1>5. Tick \/ UNCHANGED vars => UNCHANGED docs
  BY DEF Tick, vars
<1> QED BY <1>1, <1>2, <1>3, <1>4, <1>5 DEF Next

\* Every step of the adapter is a step of the store of cookie sessions, or a stutter.
LEMMA CookieStep ==
    ASSUME Inv, More, [Next]_vars
    PROVE  [Cookie!StoreNext \/ Cookie!StoreRevokeSome]_[t \in SessionTokens |-> Doc(Session(t))]
<1>1. CASE UNCHANGED docs
  BY <1>1 DEF Doc, Exists, Session
<1>2. CASE \E c, w : CallOK(c) /\ Fits(c) /\ Takes(c, w) /\ WriteOK(w) /\ docs' = Written(w)
  <2>1. PICK c, w : CallOK(c) /\ Fits(c) /\ Takes(c, w) /\ WriteOK(w) /\ docs' = Written(w)
    BY <1>2
  <2>2. CASE SessionCall(c)
    BY <2>1, <2>2, CookieEffect DEF Inv
  <2>3. CASE ~SessionCall(c)
    <3>1. [t \in SessionTokens |-> Doc(Session(t))]' =
             [t \in SessionTokens |-> IF Session(t) \in DOMAIN w THEN w[Session(t)]
                                      ELSE Doc(Session(t))]
      BY <2>1, SessionAfter DEF Inv, Sound
    <3>2. \A t : Session(t) \notin DOMAIN w
      BY <2>1, <2>3, OtherWrites, Keys
    <3>3. UNCHANGED [t \in SessionTokens |-> Doc(Session(t))]
      BY <3>1, <3>2
    <3> QED BY <3>3
  <2> QED BY <2>2, <2>3
<1> QED BY <1>1, <1>2, DocsStep

\* ... and one of the stores of bearer sessions.
LEMMA BearerStep ==
    ASSUME Inv, More, [Next]_vars
    PROVE  [Bearer!StoreNext \/ Bearer!StoreRevokeSome]_<<[sid \in SessionIDs |-> Doc(Access(sid))],
                                                         [t \in Tokens |-> Doc(Refresh(t))]>>
<1>1. CASE UNCHANGED docs
  BY <1>1 DEF Doc, Exists, Access, Refresh
<1>2. CASE \E c, w : CallOK(c) /\ Fits(c) /\ Takes(c, w) /\ WriteOK(w) /\ docs' = Written(w)
  <2>1. PICK c, w : CallOK(c) /\ Fits(c) /\ Takes(c, w) /\ WriteOK(w) /\ docs' = Written(w)
    BY <1>2
  <2>2. CASE BearerCall(c)
    BY <2>1, <2>2, BearerEffect DEF Inv
  <2>3. CASE ~BearerCall(c)
    <3>1. /\ [sid \in SessionIDs |-> Doc(Access(sid))]' =
                [sid \in SessionIDs |-> IF Access(sid) \in DOMAIN w THEN w[Access(sid)]
                                        ELSE Doc(Access(sid))]
          /\ [t \in Tokens |-> Doc(Refresh(t))]' =
                [t \in Tokens |-> IF Refresh(t) \in DOMAIN w THEN w[Refresh(t)]
                                  ELSE Doc(Refresh(t))]
      BY <2>1, BearerAfter DEF Inv, Sound
    <3>2. /\ \A sid : Access(sid) \notin DOMAIN w
          /\ \A t : Refresh(t) \notin DOMAIN w
      BY <2>1, <2>3, OtherWrites, Keys DEF BearerCollections
    <3>3. /\ UNCHANGED [sid \in SessionIDs |-> Doc(Access(sid))]
          /\ UNCHANGED [t \in Tokens |-> Doc(Refresh(t))]
      BY <3>1, <3>2
    <3> QED BY <3>3
  <2> QED BY <2>2, <2>3
<1> QED BY <1>1, <1>2, DocsStep

\* Both kinds of sessions in MongoDB are what their managers are promised, although a closure
\* decides on a snapshot and commits later: each method takes effect in one step on the
\* documents it then finds, except that RevokeAll may miss a session created meanwhile
\* (StoresSpec).
THEOREM ImplementsStores == Spec => StoresSpec
<1>1. Init => Cookie!StoreInit /\ Bearer!StoreInit
  BY DEF Init, Cookie!StoreInit, Bearer!StoreInit, Doc, Exists
<1>2. Inv /\ More /\ [Next]_vars =>
         [Cookie!StoreNext \/ Cookie!StoreRevokeSome]_[t \in SessionTokens |-> Doc(Session(t))]
  BY CookieStep
<1>3. Inv /\ More /\ [Next]_vars =>
         [Bearer!StoreNext \/ Bearer!StoreRevokeSome]_<<[sid \in SessionIDs |-> Doc(Access(sid))],
                                                       [t \in Tokens |-> Doc(Refresh(t))]>>
  BY BearerStep
<1>4. Spec => Cookie!WeakStoreSpec
  BY <1>1, <1>2, InitInv, NextInv, InitMore, NextMore, PTL DEF Spec, Cookie!WeakStoreSpec
<1>5. Spec => Bearer!WeakStoreSpec
  BY <1>1, <1>3, InitInv, NextInv, InitMore, NextMore, PTL DEF Spec, Bearer!WeakStoreSpec
<1> QED BY <1>4, <1>5, PTL DEF StoresSpec

\* The managers of both kinds of sessions can rely on MongoDB as on the abstract stores, and
\* on every revocation that has been answered: PromisesKept.
THEOREM PromisesAreKept == Spec => PromisesKept
BY ImplementsStores, RevocationsComplete, PTL DEF PromisesKept

=============================================================================
