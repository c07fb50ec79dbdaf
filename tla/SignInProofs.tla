---------------------------- MODULE SignInProofs ----------------------------
(***************************************************************************)
(* Proofs about signing in: SignIn and the accounts behind it, for any     *)
(* number of requests, sessions, passwords, Google subjects, passkeys and  *)
(* mailed tokens, and, in the second part, Totp, the second factor, for    *)
(* any number of calls, secrets, challenges and recovery codes and for any *)
(* lifetimes.                                                              *)
(*                                                                         *)
(* The account comes first, whoever calls its managers' methods.  The      *)
(* handlers use it only through these methods, so whatever is shown of the *)
(* account holds behind them.                                              *)
(***************************************************************************)
EXTENDS SignIn, Totp, FiniteSetTheorems, TLAPS

\* TypeOK without the pairing of the lock with its holder.
Types ==
    /\ now \in 0..MaxTime
    /\ exists \in BOOLEAN /\ verified \in BOOLEAN
    /\ password \in Hash \cup {None}
    /\ identity \in Providers \cup {None}
    /\ passkeys \subseteq Keys
    /\ reset \in Mail \cup {None} /\ verification \in Mail \cup {None}
    /\ lock \in Requests \cup {None}
    /\ hashes \in 0..MaxHashes
    /\ drawn \subseteq Tokens
    /\ uses \in [Tokens -> Nat]
    /\ req \in [Requests -> Request]

\* A request on its way to LinkIdentity carries a Google subject, one on its way to
\* ReplacePasswordHash a hash; a login renews the hash of the password it matched.
Carried ==
    \A r \in Requests :
        /\ req[r].pc = "link" => req[r].arg \in Providers
        /\ req[r].pc \in {"rehash", "replace"} => req[r].new \in Hash
        /\ req[r].pc = "rehash" => req[r].old \in Hash /\ req[r].new.pw = req[r].old.pw

\* The request that deletes is the one that has the user's row locked.
HolderLocked == \A r \in Requests : req[r].pc \in Holding <=> lock = r

\* One Argon2 run yields a hash and stays within the bound on runs.
LEMMA HashOnceType ==
  ASSUME AccountsAssumption, hashes \in 0..MaxHashes, HashOnce, NEW pw \in Passwords
  PROVE  hashes' \in 0..MaxHashes /\ Hashed(pw) \in Hash
  BY DEF HashOnce, Hashed, Hash, AccountsAssumption

\* A request that answers its client keeps its type.
LEMMA ReportType ==
  ASSUME NEW r \in Requests, NEW result \in Reported, req \in [Requests -> Request],
         Report(r, result)
  PROVE  req' \in [Requests -> Request]
  BY DEF Report, Request, Idle

\* So does one that starts working.
LEMMA StartType ==
  ASSUME NEW r \in Requests, NEW pc \in Working, req \in [Requests -> Request],
         Start(r, pc)
  PROVE  req' \in [Requests -> Request]
  BY DEF Start, Request, Idle

\* Every step keeps the tables and the requests well formed.
LEMMA TypesInductive == Types /\ Carried /\ [Next]_vars => Types'
<1> SUFFICES ASSUME Types, Carried, [Next]_vars PROVE Types'
  OBVIOUS
<1> USE AccountsAssumption DEF Types
<1>1. ASSUME NEW r \in Requests, NEW pw \in Passwords, Register(r, pw) PROVE Types'
  BY <1>1, HashOnceType, ReportType DEF Register, ledger, Reported
<1>2. ASSUME NEW r \in Requests, NEW pw \in Passwords, Login(r, pw) PROVE Types'
  <2>1. CASE Report(r, "authenticated") /\ UNCHANGED hashes
    BY <1>2, <2>1, ReportType DEF Login, rows, ledger, Reported
  <2>2. CASE HashOnce /\ req' = [req EXCEPT ![r] = [Idle EXCEPT !.pc = "rehash",
                                          !.old = password, !.new = Hashed(pw)]]
    <3>1. req' \in [Requests -> Request]
      BY <2>2, HashOnceType DEF Request, Idle, Working
    <3> QED BY <1>2, <2>2, <3>1, HashOnceType DEF Login, rows, ledger
  <2> QED BY <1>2, <2>1, <2>2 DEF Login
<1>3. ASSUME NEW r \in Requests, NEW p \in Providers, ResolveSignIn(r, p) PROVE Types'
  BY <1>3, ReportType DEF ResolveSignIn, rows, ledger, Reported
<1>5. ASSUME NEW r \in Requests, RequestReset(r) PROVE Types'
  BY <1>5, StartType DEF RequestReset, rows, ledger, Working
<1>6. ASSUME NEW r \in Requests, RequestVerification(r) PROVE Types'
  BY <1>6, StartType DEF RequestVerification, rows, ledger, Working
<1>7. ASSUME NEW r \in Requests, NEW tok \in Tokens, NEW pw \in Passwords,
             ResetPassword(r, tok, pw)
      PROVE Types'
  BY <1>7, HashOnceType, ReportType DEF ResetPassword, Spent, Used, Reported
<1>8. ASSUME NEW r \in Requests, NEW tok \in Tokens, VerifyEmail(r, tok) PROVE Types'
  BY <1>8, ReportType DEF VerifyEmail, Used, Reported
<1>9. ASSUME NEW r \in Requests, NEW current \in Passwords, NEW new \in Passwords,
             ChangePassword(r, current, new)
      PROVE Types'
  <2>1. req' \in [Requests -> Request]
    BY <1>9, HashOnceType DEF ChangePassword, Request, Idle, Working
  <2> QED BY <1>9, <2>1, HashOnceType DEF ChangePassword, rows, ledger
<1>10. ASSUME NEW r \in Requests, NEW pw \in Passwords, AddPassword(r, pw) PROVE Types'
  BY <1>10, HashOnceType, ReportType DEF AddPassword, ledger, Reported
<1>11. ASSUME NEW r \in Requests, NEW pw \in Passwords, RemovePassword(r, pw) PROVE Types'
  <2>1. req' \in [Requests -> Request]
    BY <1>11 DEF RemovePassword, Request, Idle, Working
  <2> QED BY <1>11, <2>1 DEF RemovePassword, rows, ledger
<1>12. ASSUME NEW r \in Requests, UnlinkIdentity(r) PROVE Types'
  BY <1>12, StartType DEF UnlinkIdentity, rows, ledger, Working
<1>13. ASSUME NEW r \in Requests, NEW k \in Keys, DeletePasskey(r, k) PROVE Types'
  <2>1. req' \in [Requests -> Request]
    BY <1>13 DEF DeletePasskey, Request, Idle, Working
  <2> QED BY <1>13, <2>1 DEF DeletePasskey, rows, ledger
<1>14. ASSUME NEW r \in Requests, NEW k \in Keys, CompleteRegistration(r, k) PROVE Types'
  BY <1>14, ReportType DEF CompleteRegistration, ledger, Reported
<1>15. ASSUME NEW r \in Requests, NEW p \in Providers, FindIdentity(r, p) PROVE Types'
  <2>1. req' \in [Requests -> Request]
    BY <1>15 DEF FindIdentity, Request, Idle, Working
  <2> QED BY <1>15, <2>1 DEF FindIdentity, rows, ledger
<1>16. ASSUME NEW r \in Requests, ReplacePasswordHash(r) PROVE Types'
  <2>1. req' \in [Requests -> Request]
    BY <1>16, ReportType DEF ReplacePasswordHash, Reported
  <2>2. password' \in Hash \cup {None}
    BY <1>16 DEF ReplacePasswordHash, Carried
  <2> QED BY <1>16, <2>1, <2>2 DEF ReplacePasswordHash, ledger
<1>17. ASSUME NEW r \in Requests, LockAndCount(r) PROVE Types'
  <2>1. CASE MayRemove(r)
    <3>1. req' \in [Requests -> Request]
      BY <1>17, <2>1 DEF LockAndCount, Request, Working
    <3> QED BY <1>17, <2>1, <3>1 DEF LockAndCount, rows, ledger
  <2>2. CASE ~MayRemove(r)
    BY <1>17, <2>2, ReportType DEF LockAndCount, rows, ledger, Reported
  <2> QED BY <2>1, <2>2
<1>18. ASSUME NEW r \in Requests, DeleteAndCommit(r) PROVE Types'
  BY <1>18, ReportType DEF DeleteAndCommit, ledger, Reported
<1>19. ASSUME NEW r \in Requests, LinkIdentity(r) PROVE Types'
  BY <1>19, ReportType DEF LinkIdentity, ledger, Reported, Carried
<1>20. ASSUME NEW r \in Requests, NEW tok \in Tokens, IssueReset(r, tok) PROVE Types'
  BY <1>20, ReportType DEF IssueReset, NewMail, Mail, Reported
<1>21. ASSUME NEW r \in Requests, NEW tok \in Tokens, IssueVerification(r, tok) PROVE Types'
  BY <1>21, ReportType DEF IssueVerification, NewMail, Mail, Reported
<1>22. ASSUME NEW r \in Requests, Abandon(r) PROVE Types'
  BY <1>22, ReportType DEF Abandon, RolledBack, rows, ledger, Reported
<1>23. CASE Tick
  BY <1>23 DEF Tick, rows, ledger
<1>24. CASE UNCHANGED vars
  BY <1>24 DEF vars, rows
<1> QED
  BY <1>1, <1>2, <1>3, <1>5, <1>6, <1>7, <1>8, <1>9, <1>10, <1>11, <1>12, <1>13,
     <1>14, <1>15, <1>16, <1>17, <1>18, <1>19, <1>20, <1>21, <1>22, <1>23, <1>24
  DEF Next, Public, Owned, Step

\* What Report leaves of the facts about single requests.
LEMMA ReportCarried ==
  ASSUME NEW r \in Requests, NEW result \in Reported, req \in [Requests -> Request],
         Report(r, result), Carried
  PROVE  Carried'
  BY DEF Report, Carried, Reported, Idle

\* Every step keeps what the requests carry from one call to the next.
LEMMA CarriedInductive == Types /\ Carried /\ [Next]_vars => Carried'
<1> SUFFICES ASSUME Types, Carried, [Next]_vars PROVE Carried'
  OBVIOUS
<1> req \in [Requests -> Request]
  BY DEF Types
<1>1. ASSUME NEW r \in Requests,
             \/ \E pw \in Passwords : Register(r, pw) \/ AddPassword(r, pw)
             \/ \E p \in Providers : ResolveSignIn(r, p)
             \/ \E tok \in Tokens, pw \in Passwords : ResetPassword(r, tok, pw)
             \/ \E tok \in Tokens : VerifyEmail(r, tok)
             \/ \E k \in Keys : CompleteRegistration(r, k)
             \/ DeleteAndCommit(r) \/ LinkIdentity(r) \/ Abandon(r)
             \/ \E tok \in Tokens : IssueReset(r, tok) \/ IssueVerification(r, tok)
      PROVE  Carried'
  <2>1. \E result \in Reported : Report(r, result)
    BY <1>1 DEF Register, AddPassword, ResolveSignIn, ResetPassword,
       VerifyEmail, CompleteRegistration, DeleteAndCommit, LinkIdentity, Abandon,
       IssueReset, IssueVerification, Reported
  <2> QED BY <2>1, ReportCarried
<1>2. ASSUME NEW r \in Requests, NEW pw \in Passwords, Login(r, pw) PROVE Carried'
  <2>1. CASE Report(r, "authenticated")
    BY <2>1, ReportCarried DEF Reported
  <2>2. CASE HashOnce /\ req' = [req EXCEPT ![r] = [Idle EXCEPT !.pc = "rehash",
                                          !.old = password, !.new = Hashed(pw)]]
    <3>1. password \in Hash /\ password.pw = pw
      BY <1>2 DEF Login, Matches, Types
    <3>2. Hashed(pw) \in Hash /\ Hashed(pw).pw = pw
      BY <2>2, HashOnceType, AccountsAssumption DEF Types, Hashed
    <3> QED BY <2>2, <3>1, <3>2 DEF Carried, Idle
  <2> QED BY <1>2, <2>1, <2>2 DEF Login
<1>3. ASSUME NEW r \in Requests, NEW current \in Passwords, NEW new \in Passwords,
             ChangePassword(r, current, new)
      PROVE Carried'
  BY <1>3, HashOnceType, AccountsAssumption DEF ChangePassword, Carried, Idle, Types
<1>4. ASSUME NEW r \in Requests, RequestReset(r) \/ RequestVerification(r) \/ UnlinkIdentity(r)
      PROVE Carried'
  BY <1>4 DEF RequestReset, RequestVerification, UnlinkIdentity, Start, Carried, Idle
<1>5. ASSUME NEW r \in Requests, NEW pw \in Passwords, RemovePassword(r, pw) PROVE Carried'
  BY <1>5 DEF RemovePassword, Carried, Idle
<1>6. ASSUME NEW r \in Requests, NEW k \in Keys, DeletePasskey(r, k) PROVE Carried'
  BY <1>6 DEF DeletePasskey, Carried, Idle
<1>7. ASSUME NEW r \in Requests, NEW p \in Providers, FindIdentity(r, p) PROVE Carried'
  BY <1>7 DEF FindIdentity, Carried, Idle
<1>8. ASSUME NEW r \in Requests, ReplacePasswordHash(r) PROVE Carried'
  BY <1>8, ReportCarried DEF ReplacePasswordHash, Reported
<1>9. ASSUME NEW r \in Requests, LockAndCount(r) PROVE Carried'
  <2>1. CASE MayRemove(r)
    BY <1>9, <2>1 DEF LockAndCount, Carried, Request
  <2>2. CASE ~MayRemove(r)
    BY <1>9, <2>2, ReportCarried DEF LockAndCount, Reported
  <2> QED BY <2>1, <2>2
<1>10. CASE Tick \/ UNCHANGED vars
  BY <1>10 DEF Tick, vars, Carried
<1> QED
  BY <1>1, <1>2, <1>3, <1>4, <1>5, <1>6, <1>7, <1>8, <1>9, <1>10
  DEF Next, Public, Owned, Step

-----------------------------------------------------------------------------
(***************************************************************************)
(* The lock and what is counted under it.                                  *)
(***************************************************************************)

\* What the count under the lock established still holds when the row is deleted.
RemovalSafe ==
    \A r \in Requests :
        /\ req[r].pc = "removing" => identity # None \/ passkeys # {}
        /\ req[r].pc = "unlinking" => password # None \/ passkeys # {}
        /\ req[r].pc = "deleting" /\ exists =>
              password # None \/ identity # None \/ \E k \in passkeys : k # req[r].arg

Inv ==
    /\ Types /\ Carried /\ HolderLocked
    /\ IsFiniteSet(passkeys)
    /\ NeverLockedOut /\ RemovalSafe

\* A step of a request that neither holds the lock nor takes it.
Outside(r) ==
    /\ req[r].pc \notin Holding
    /\ lock' = lock
    /\ \E x \in Request : x.pc \notin Holding /\ req' = [req EXCEPT ![r] = x]

\* No sign-in method goes away, and a new account has one.
MethodsKept ==
    /\ exists' => exists \/ password' # None \/ identity' # None
    /\ password # None => password' # None
    /\ identity # None => identity' # None
    /\ passkeys \subseteq passkeys'

\* A step outside the lock that keeps the sign-in methods keeps what the lock protects.
LEMMA OutsideKeeps ==
  ASSUME Inv, NEW r \in Requests, Outside(r), MethodsKept
  PROVE  HolderLocked' /\ NeverLockedOut' /\ RemovalSafe'
<1>1. PICK x \in Request : x.pc \notin Holding /\ req' = [req EXCEPT ![r] = x]
  BY DEF Outside
<1>2. req \in [Requests -> Request]
  BY DEF Inv, Types
<1>3. \A q \in Requests : req'[q].pc \in Holding => q # r /\ req'[q] = req[q]
  BY <1>1, <1>2
<1>4. HolderLocked'
  <2> SUFFICES ASSUME NEW q \in Requests PROVE (req'[q].pc \in Holding) <=> (lock' = q)
    BY DEF HolderLocked
  <2>1. CASE q = r
    BY <1>1, <1>2, <2>1 DEF Inv, HolderLocked, Outside
  <2>2. CASE q # r
    BY <1>1, <1>2, <2>2 DEF Inv, HolderLocked, Outside
  <2> QED BY <2>1, <2>2
<1>5. NeverLockedOut'
  BY DEF Inv, NeverLockedOut, MethodsKept
<1>6. RemovalSafe'
  BY <1>3 DEF Inv, RemovalSafe, MethodsKept, Holding
<1> QED BY <1>4, <1>5, <1>6

\* Answering without holding the lock is such a step.
LEMMA ReportOutside ==
  ASSUME Inv, NEW r \in Requests, NEW result \in Reported, req[r].pc \notin Holding,
         Report(r, result), lock' = lock
  PROVE  Outside(r)
<1>1. [Idle EXCEPT !.pc = result] \in Request
  BY DEF Request, Idle
<1>2. [Idle EXCEPT !.pc = result].pc \notin Holding
  BY DEF Idle, Holding, Reported
<1> QED BY <1>1, <1>2 DEF Report, Outside

\* So is starting on work that does not need it.
LEMMA StartOutside ==
  ASSUME Inv, NEW r \in Requests, NEW pc \in Working \ Holding, req[r].pc \notin Holding,
         Start(r, pc), lock' = lock
  PROVE  Outside(r)
<1>1. [Idle EXCEPT !.pc = pc] \in Request
  BY DEF Request, Idle
<1>2. [Idle EXCEPT !.pc = pc].pc \notin Holding
  BY DEF Idle
<1> QED BY <1>1, <1>2 DEF Start, Outside

\* The steps that neither take the lock nor hold it.
LEMMA OutsideSteps ==
  ASSUME Inv, NEW r \in Requests,
         Public(r) \/ Owned(r) \/ ReplacePasswordHash(r) \/ LinkIdentity(r)
         \/ \E tok \in Tokens : IssueReset(r, tok) \/ IssueVerification(r, tok)
  PROVE  Outside(r) /\ MethodsKept
<1> USE AccountsAssumption, NoRowAssumption DEF Inv
<1>0. req \in [Requests -> Request] /\ hashes \in 0..MaxHashes
  BY DEF Types
<1>1. Free(r) => req[r].pc \notin Holding
  BY DEF Free, Working, Holding
<1>2. ASSUME NEW pw \in Passwords, Register(r, pw) PROVE Outside(r) /\ MethodsKept
  BY <1>0, <1>1, <1>2, ReportOutside, HashOnceType DEF Register, Reported, MethodsKept
<1>3. ASSUME NEW pw \in Passwords, Login(r, pw) PROVE Outside(r) /\ MethodsKept
  <2>1. MethodsKept
    BY <1>3 DEF Login, rows, MethodsKept
  <2>2. CASE Report(r, "authenticated") /\ UNCHANGED hashes
    BY <1>1, <1>3, <2>1, <2>2, ReportOutside DEF Login, Reported
  <2>3. CASE HashOnce /\ req' = [req EXCEPT ![r] = [Idle EXCEPT !.pc = "rehash",
                                          !.old = password, !.new = Hashed(pw)]]
    <3> DEFINE x == [Idle EXCEPT !.pc = "rehash", !.old = password, !.new = Hashed(pw)]
    <3>1. x \in Request /\ x.pc \notin Holding
      BY <1>0, <2>3, HashOnceType DEF Request, Idle, Working, Holding, Types
    <3> QED BY <1>1, <1>3, <2>1, <2>3, <3>1 DEF Login, Outside
  <2> QED BY <1>3, <2>2, <2>3 DEF Login
<1>4. ASSUME NEW p \in Providers, ResolveSignIn(r, p) PROVE Outside(r) /\ MethodsKept
  BY <1>1, <1>4, ReportOutside DEF ResolveSignIn, Reported, rows, MethodsKept
<1>6. ASSUME RequestReset(r) \/ RequestVerification(r) \/ UnlinkIdentity(r)
      PROVE Outside(r) /\ MethodsKept
  <2>1. MethodsKept
    BY <1>6 DEF RequestReset, RequestVerification, UnlinkIdentity, rows, MethodsKept
  <2>2. Outside(r)
    BY <1>1, <1>6, StartOutside
    DEF RequestReset, RequestVerification, UnlinkIdentity, Working, Holding
  <2> QED BY <2>1, <2>2
<1>7. ASSUME NEW tok \in Tokens, NEW pw \in Passwords, ResetPassword(r, tok, pw)
      PROVE Outside(r) /\ MethodsKept
  BY <1>0, <1>1, <1>7, ReportOutside, HashOnceType DEF ResetPassword, Reported, MethodsKept
<1>8. ASSUME NEW tok \in Tokens, VerifyEmail(r, tok) PROVE Outside(r) /\ MethodsKept
  BY <1>1, <1>8, ReportOutside DEF VerifyEmail, Reported, MethodsKept
<1>9. ASSUME NEW current \in Passwords, NEW new \in Passwords, ChangePassword(r, current, new)
      PROVE Outside(r) /\ MethodsKept
  <2> DEFINE x == [Idle EXCEPT !.pc = "replace", !.old = password, !.new = Hashed(new)]
  <2>1. x \in Request /\ x.pc \notin Holding
    BY <1>0, <1>9, HashOnceType DEF ChangePassword, Request, Idle, Working, Holding, Types
  <2> QED BY <1>1, <1>9, <2>1 DEF ChangePassword, Outside, rows, MethodsKept
<1>10. ASSUME NEW pw \in Passwords, AddPassword(r, pw) PROVE Outside(r) /\ MethodsKept
  BY <1>0, <1>1, <1>10, ReportOutside, HashOnceType DEF AddPassword, Reported, MethodsKept
<1>11. ASSUME NEW pw \in Passwords, RemovePassword(r, pw) PROVE Outside(r) /\ MethodsKept
  <2> DEFINE x == [Idle EXCEPT !.pc = "remove", !.old = password]
  <2>1. x \in Request /\ x.pc \notin Holding
    BY <1>11 DEF RemovePassword, Request, Idle, Working, Holding, Types
  <2> QED BY <1>1, <1>11, <2>1 DEF RemovePassword, Outside, rows, MethodsKept
<1>12. ASSUME NEW k \in Keys, DeletePasskey(r, k) PROVE Outside(r) /\ MethodsKept
  <2> DEFINE x == [Idle EXCEPT !.pc = "deletekey", !.arg = k]
  <2>1. x \in Request /\ x.pc \notin Holding
    BY DEF Request, Idle, Working, Holding
  <2> QED BY <1>1, <1>12, <2>1 DEF DeletePasskey, Outside, rows, MethodsKept
<1>13. ASSUME NEW k \in Keys, CompleteRegistration(r, k) PROVE Outside(r) /\ MethodsKept
  BY <1>1, <1>13, ReportOutside DEF CompleteRegistration, Reported, MethodsKept
<1>14. ASSUME NEW p \in Providers, FindIdentity(r, p) PROVE Outside(r) /\ MethodsKept
  <2> DEFINE x == [Idle EXCEPT !.pc = "link", !.arg = p]
  <2>1. x \in Request /\ x.pc \notin Holding
    BY DEF Request, Idle, Working, Holding
  <2> QED BY <1>1, <1>14, <2>1 DEF FindIdentity, Outside, rows, MethodsKept
<1>15. ASSUME ReplacePasswordHash(r) PROVE Outside(r) /\ MethodsKept
  <2>1. Outside(r)
    BY <1>15, ReportOutside DEF ReplacePasswordHash, Reported, Holding
  <2>2. MethodsKept
    BY <1>15 DEF ReplacePasswordHash, MethodsKept, Carried
  <2> QED BY <2>1, <2>2
<1>16. ASSUME LinkIdentity(r) PROVE Outside(r) /\ MethodsKept
  BY <1>16, ReportOutside DEF LinkIdentity, Reported, Holding, MethodsKept, Carried
<1>17. ASSUME NEW tok \in Tokens, IssueReset(r, tok) \/ IssueVerification(r, tok)
       PROVE Outside(r) /\ MethodsKept
  BY <1>17, ReportOutside DEF IssueReset, IssueVerification, Reported, Holding, MethodsKept
<1> QED
  BY <1>2, <1>3, <1>4, <1>6, <1>7, <1>8, <1>9, <1>10, <1>11, <1>12, <1>13, <1>14,
     <1>15, <1>16, <1>17
  DEF Public, Owned

\* The count under the lock: another method is left once this one is deleted.
LEMMA CountedUnderLock ==
  ASSUME NEW r \in Requests, MayRemove(r), IsFiniteSet(passkeys)
  PROVE  /\ req[r].pc = "remove" => identity # None \/ passkeys # {}
         /\ req[r].pc = "unlink" => password # None \/ passkeys # {}
         /\ req[r].pc = "deletekey" =>
               password # None \/ identity # None \/ passkeys = {}
               \/ \E k \in passkeys : k # req[r].arg
<1>1. Cardinality({}) = 0
  BY FS_EmptySet
<1>2. CASE req[r].pc = "remove"
  BY <1>1, <1>2 DEF MayRemove, OtherCredentialCount, IdentityCount
<1>3. CASE req[r].pc = "unlink"
  BY <1>1, <1>3 DEF MayRemove, PasswordCount
<1>4. CASE req[r].pc = "deletekey"
  <2> SUFFICES ASSUME password = None, identity = None, passkeys # {},
                      \A k \in passkeys : k = req[r].arg
               PROVE FALSE
    BY <1>4
  <2>1. passkeys = {req[r].arg}
    OBVIOUS
  <2>2. Cardinality(passkeys) = 1
    BY <2>1, FS_Singleton
  <2> QED BY <1>4, <2>2 DEF MayRemove, PasswordCount, IdentityCount
<1> QED BY <1>2, <1>3, <1>4

\* The passkeys stay a finite set, so that counting them means something.
LEMMA FiniteInductive == Inv /\ [Next]_vars => IsFiniteSet(passkeys')
<1> SUFFICES ASSUME Inv, [Next]_vars PROVE IsFiniteSet(passkeys')
  OBVIOUS
<1>1. IsFiniteSet(passkeys)
  BY DEF Inv
<1>2. \/ passkeys' = passkeys
      \/ \E k \in Keys : passkeys' = passkeys \cup {k}
      \/ \E r \in Requests : passkeys' = passkeys \ {req[r].arg}
  BY DEF Next, Public, Owned, Step, Register, Login, ResolveSignIn,
     RequestReset, RequestVerification, ResetPassword, VerifyEmail, ChangePassword,
     AddPassword, RemovePassword, UnlinkIdentity, DeletePasskey, CompleteRegistration,
     FindIdentity, ReplacePasswordHash, LockAndCount, DeleteAndCommit, LinkIdentity,
     IssueReset, IssueVerification, Abandon, Tick, vars, rows
<1> QED BY <1>1, <1>2, FS_AddElement, FS_RemoveElement

\* The transactions around the lock.
LEMMA LockSteps ==
  ASSUME Inv, NEW r \in Requests, LockAndCount(r) \/ DeleteAndCommit(r) \/ Abandon(r)
  PROVE  HolderLocked' /\ NeverLockedOut' /\ RemovalSafe'
<1> USE AccountsAssumption, NoRowAssumption
<1>0. req \in [Requests -> Request] /\ IsFiniteSet(passkeys)
  BY DEF Inv, Types
<1>1. CASE LockAndCount(r) /\ ~MayRemove(r)
  <2>1. Outside(r)
    BY <1>1, ReportOutside DEF LockAndCount, Reported, Holding
  <2>2. MethodsKept
    BY <1>1 DEF LockAndCount, rows, MethodsKept
  <2> QED BY <2>1, <2>2, OutsideKeeps
<1>2. CASE LockAndCount(r) /\ MayRemove(r)
  <2>1. /\ lock = None /\ lock' = r
        /\ req'[r].pc \in Holding
        /\ req'[r].arg = req[r].arg
        /\ \A q \in Requests \ {r} : req'[q] = req[q]
    BY <1>0, <1>2 DEF LockAndCount, Unlocked, Holding, Request
  <2>2. \A q \in Requests : req[q].pc \notin Holding
    BY <2>1 DEF Inv, HolderLocked
  <2>3. HolderLocked'
    BY <2>1, <2>2 DEF HolderLocked
  <2>4. NeverLockedOut'
    BY <1>2 DEF Inv, NeverLockedOut, LockAndCount, rows
  <2>5. /\ req'[r].pc = "removing" => req[r].pc = "remove"
        /\ req'[r].pc = "unlinking" => req[r].pc = "unlink"
        /\ req'[r].pc = "deleting" => req[r].pc = "deletekey"
    BY <1>0, <1>2 DEF LockAndCount, Request
  <2>6. RemovalSafe'
    <3> SUFFICES ASSUME NEW q \in Requests
                 PROVE /\ req'[q].pc = "removing" => identity' # None \/ passkeys' # {}
                       /\ req'[q].pc = "unlinking" => password' # None \/ passkeys' # {}
                       /\ req'[q].pc = "deleting" /\ exists' =>
                             password' # None \/ identity' # None
                             \/ \E k \in passkeys' : k # req'[q].arg
      BY DEF RemovalSafe
    <3>1. CASE q # r
      BY <2>1, <2>2, <3>1 DEF Holding
    <3>2. CASE q = r
      BY <1>0, <1>2, <2>1, <2>5, <3>2, CountedUnderLock
      DEF LockAndCount, rows, Inv, NeverLockedOut
    <3> QED BY <3>1, <3>2
  <2> QED BY <2>3, <2>4, <2>6
<1>3. CASE DeleteAndCommit(r)
  <2>1. lock = r /\ lock' = None
    BY <1>3 DEF DeleteAndCommit, Inv, HolderLocked
  <2>2. req'[r].pc = "done" /\ \A q \in Requests \ {r} : req'[q] = req[q]
    BY <1>0, <1>3 DEF DeleteAndCommit, Report, Idle
  <2>3. \A q \in Requests : req'[q].pc \notin Holding
    BY <2>1, <2>2 DEF Inv, HolderLocked, Holding
  <2>4. HolderLocked'
    BY <2>1, <2>3 DEF HolderLocked
  <2>5. RemovalSafe'
    BY <2>3 DEF RemovalSafe, Holding
  <2>6. NeverLockedOut'
    BY <1>3 DEF DeleteAndCommit, Inv, RemovalSafe, NeverLockedOut, Holding
  <2> QED BY <2>4, <2>5, <2>6
<1>4. CASE Abandon(r)
  <2>1. req'[r].pc = "done" /\ \A q \in Requests \ {r} : req'[q] = req[q]
    BY <1>0, <1>4 DEF Abandon, Report, Idle
  <2>2. HolderLocked'
    <3> SUFFICES ASSUME NEW q \in Requests PROVE (req'[q].pc \in Holding) <=> (lock' = q)
      BY DEF HolderLocked
    <3>1. CASE q = r
      BY <1>4, <2>1, <3>1 DEF Abandon, RolledBack, Holding
    <3>2. CASE q # r
      BY <1>4, <2>1, <3>2 DEF Abandon, RolledBack, Inv, HolderLocked
    <3> QED BY <3>1, <3>2
  <2>3. NeverLockedOut'
    BY <1>4 DEF Abandon, rows, Inv, NeverLockedOut
  <2>4. RemovalSafe'
    BY <1>4, <2>1 DEF Abandon, rows, Inv, RemovalSafe
  <2> QED BY <2>2, <2>3, <2>4
<1> QED BY <1>1, <1>2, <1>3, <1>4

\* Every step keeps the invariant.
LEMMA InvInductive == Inv /\ [Next]_vars => Inv'
<1> SUFFICES ASSUME Inv, [Next]_vars PROVE Inv'
  OBVIOUS
<1>1. Types' /\ Carried'
  BY TypesInductive, CarriedInductive DEF Inv
<1>2. IsFiniteSet(passkeys')
  BY FiniteInductive
<1>3. HolderLocked' /\ NeverLockedOut' /\ RemovalSafe'
  <2>1. ASSUME NEW r \in Requests, Public(r) \/ Owned(r) \/ Step(r) \/ Abandon(r)
        PROVE HolderLocked' /\ NeverLockedOut' /\ RemovalSafe'
    BY <2>1, OutsideSteps, OutsideKeeps, LockSteps DEF Step
  <2>2. CASE Tick \/ UNCHANGED vars
    BY <2>2 DEF Tick, vars, rows, Inv, HolderLocked, NeverLockedOut, RemovalSafe
  <2> QED BY <2>1, <2>2 DEF Next
<1> QED BY <1>1, <1>2, <1>3 DEF Inv

\* It holds at the start.
LEMMA InvInitially == Init => Inv
<1> SUFFICES ASSUME Init PROVE Inv
  OBVIOUS
<1> USE AccountsAssumption DEF Init
<1>1. Types
  <2>1. Idle \in Request
    BY DEF Request, Idle, Reported
  <2>2. req \in [Requests -> Request] /\ uses \in [Tokens -> Nat]
    BY <2>1
  <2>3. now \in 0..MaxTime /\ hashes \in 0..MaxHashes
    OBVIOUS
  <2> QED BY <2>2, <2>3 DEF Types
<1>2. Carried /\ HolderLocked /\ RemovalSafe
  BY DEF Carried, HolderLocked, RemovalSafe, Idle, Holding
<1>3. NeverLockedOut
  BY DEF NeverLockedOut
<1>4. IsFiniteSet(passkeys)
  BY FS_EmptySet
<1> QED BY <1>1, <1>2, <1>3, <1>4 DEF Inv

\* The tables hold what the managers take them to hold, and the user's row is
\* locked exactly while one of the removing transactions is between its count and
\* its DELETE.
THEOREM TypeCorrect == Spec => []TypeOK
<1>1. Inv => TypeOK
  BY Zenon DEF Inv, Types, HolderLocked, TypeOK
<1> QED BY <1>1, InvInitially, InvInductive, PTL DEF Spec

\* However many requests remove the account's password, Google identity and passkeys
\* at the same time, it keeps one of them.
THEOREM AlwaysAWayIn == Spec => []NeverLockedOut
<1>1. Inv => NeverLockedOut
  BY DEF Inv
<1> QED BY <1>1, InvInitially, InvInductive, PTL DEF Spec

-----------------------------------------------------------------------------
(***************************************************************************)
(* The hash a login renews.                                                *)
(***************************************************************************)

\* A step belongs to one request.
LEMMA OneRequestSteps ==
  ASSUME NEW q \in Requests, req \in [Requests -> Request],
         Public(q) \/ Owned(q) \/ Step(q) \/ Abandon(q)
  PROVE  \A r \in Requests \ {q} : req'[r] = req[r]
<1>1. \/ \E x : req' = [req EXCEPT ![q] = x]
      \/ \E x : req' = [req EXCEPT ![q].pc = x]
  BY DEF Public, Owned, Step, Register, Login, ResolveSignIn, Start, Report,
     RequestReset, RequestVerification, ResetPassword, VerifyEmail, ChangePassword,
     AddPassword, RemovePassword, UnlinkIdentity, DeletePasskey, CompleteRegistration,
     FindIdentity, ReplacePasswordHash, LockAndCount, DeleteAndCommit, LinkIdentity,
     IssueReset, IssueVerification, Abandon
<1> QED BY <1>1

\* A login that renews a hash keeps the password that is in force.
THEOREM RehashReinstatesNothing == Spec => RehashKeepsPassword
<1> DEFINE Keeps(r) ==
      req[r].pc = "rehash" /\ req'[r].pc = "authenticated" /\ password' # password
      => password # None /\ password'.pw = password.pw
<1>1. ASSUME Inv, [Next]_vars, NEW r \in Requests PROVE Keeps(r)
  <2> SUFFICES ASSUME req[r].pc = "rehash", req'[r].pc = "authenticated",
                      password' # password
               PROVE  password # None /\ password'.pw = password.pw
    OBVIOUS
  <2>1. req \in [Requests -> Request]
    BY <1>1 DEF Inv, Types
  <2>2. PICK q \in Requests : Public(q) \/ Owned(q) \/ Step(q) \/ Abandon(q)
    BY <1>1 DEF Next, Tick, vars, rows
  <2>3. q = r
    BY <2>1, <2>2, OneRequestSteps
  <2>4. ~Free(r) /\ ~Abandon(r)
    BY <2>1 DEF Free, Working, Abandon, Report, Idle
  <2>5. Step(r)
    BY <2>2, <2>3, <2>4
    DEF Public, Owned, Register, Login, ResolveSignIn, RequestReset,
        RequestVerification, ResetPassword, VerifyEmail, ChangePassword, AddPassword,
        RemovePassword, UnlinkIdentity, DeletePasskey, CompleteRegistration, FindIdentity
  <2>6. ReplacePasswordHash(r)
    BY <2>5 DEF Step, LockAndCount, DeleteAndCommit, LinkIdentity, IssueReset,
       IssueVerification, Holding
  <2> QED BY <1>1, <2>6, NoRowAssumption DEF ReplacePasswordHash, Replaceable, Inv, Carried
<1>2. Inv /\ [Next]_vars => [\A r \in Requests : Keeps(r)]_vars
  BY <1>1
<1> QED BY <1>2, InvInitially, InvInductive, PTL DEF Spec, RehashKeepsPassword, Keeps

-----------------------------------------------------------------------------
(***************************************************************************)
(* Mailed tokens.                                                          *)
(***************************************************************************)

\* The token a row waits for has been drawn for that row and not been used.
Pending(mail) == mail # None => mail.tok \in drawn /\ uses[mail.tok] = 0

Unused ==
    /\ MailedTokenOnce
    /\ Pending(reset) /\ Pending(verification)
    /\ reset # None /\ verification # None => reset.tok # verification.tok
    /\ \A tok \in Tokens \ drawn : uses[tok] = 0

\* Every step keeps the bookkeeping of mailed tokens: one that was not drawn was not used.
LEMMA UnusedInductive == Inv /\ Unused /\ [Next]_vars => Unused'
<1> SUFFICES ASSUME Inv, Unused, [Next]_vars PROVE Unused'
  OBVIOUS
<1> USE NoRowAssumption, AccountsAssumption
<1>0. /\ reset \in Mail \cup {None} /\ verification \in Mail \cup {None}
      /\ uses \in [Tokens -> Nat] /\ drawn \subseteq Tokens
  BY DEF Inv, Types
<1>1. ASSUME NEW r \in Requests, NEW tok \in Tokens, NEW pw \in Passwords,
             ResetPassword(r, tok, pw)
      PROVE Unused'
  <2>1. /\ reset # None /\ reset.tok = tok /\ reset' = None
        /\ uses' = [uses EXCEPT ![tok] = @ + 1]
        /\ verification' = verification /\ drawn' = drawn
    BY <1>1 DEF ResetPassword, Usable, Used, Spent
  <2> QED BY <1>0, <2>1 DEF Unused, MailedTokenOnce, Pending, Mail
<1>2. ASSUME NEW r \in Requests, NEW tok \in Tokens, VerifyEmail(r, tok) PROVE Unused'
  <2>1. /\ verification # None /\ verification.tok = tok /\ verification' = None
        /\ uses' = [uses EXCEPT ![tok] = @ + 1]
        /\ reset' = reset /\ drawn' = drawn
    BY <1>2 DEF VerifyEmail, Verifiable, Usable, Used
  <2> QED BY <1>0, <2>1 DEF Unused, MailedTokenOnce, Pending, Mail
<1>3. ASSUME NEW r \in Requests, NEW tok \in Tokens, IssueReset(r, tok) PROVE Unused'
  <2>1. /\ tok \notin drawn /\ reset'.tok = tok /\ drawn' = drawn \cup {tok}
        /\ verification' = verification /\ uses' = uses
    BY <1>3 DEF IssueReset, NewMail
  <2> QED BY <1>0, <2>1 DEF Unused, MailedTokenOnce, Pending, Mail
<1>4. ASSUME NEW r \in Requests, NEW tok \in Tokens, IssueVerification(r, tok) PROVE Unused'
  <2>1. /\ tok \notin drawn /\ verification'.tok = tok /\ drawn' = drawn \cup {tok}
        /\ reset' = reset /\ uses' = uses
    BY <1>4 DEF IssueVerification, NewMail
  <2> QED BY <1>0, <2>1 DEF Unused, MailedTokenOnce, Pending, Mail
<1>5. CASE UNCHANGED <<reset, verification, drawn, uses>>
  BY <1>5 DEF Unused, MailedTokenOnce, Pending
<1>6. \/ \E r \in Requests, tok \in Tokens, pw \in Passwords : ResetPassword(r, tok, pw)
      \/ \E r \in Requests, tok \in Tokens :
            VerifyEmail(r, tok) \/ IssueReset(r, tok) \/ IssueVerification(r, tok)
      \/ UNCHANGED <<reset, verification, drawn, uses>>
  BY ZenonT(40) DEF Next, Public, Owned, Step, Register, Login, ResolveSignIn,
     RequestReset, RequestVerification, ChangePassword, AddPassword, RemovePassword,
     UnlinkIdentity, DeletePasskey, CompleteRegistration, FindIdentity,
     ReplacePasswordHash, LockAndCount, DeleteAndCommit, LinkIdentity, Abandon, Tick,
     vars, rows, ledger
<1> QED BY <1>1, <1>2, <1>3, <1>4, <1>5, <1>6

\* A mailed reset or verification token is accepted at most once.
THEOREM TokensSpentOnce == Spec => []MailedTokenOnce
<1>1. Init => Unused
  BY DEF Init, Unused, MailedTokenOnce, Pending
<1>2. Unused => MailedTokenOnce
  BY DEF Unused
<1> QED BY <1>1, <1>2, InvInitially, InvInductive, UnusedInductive, PTL DEF Spec

-----------------------------------------------------------------------------
(***************************************************************************)
(* The inductive invariant.                                                *)
(***************************************************************************)

SessionTypes ==
    /\ live \subseteq born /\ born \subseteq Sessions
    /\ stage \in [Requests -> Stages]
    /\ before \in [Requests -> SUBSET born]
    /\ vouched \in BOOLEAN /\ required \in BOOLEAN

\* Nobody has got in: there is no session, no handler on its way to issue one, no
\* Google identity or passkey to sign in with, and no owner's request that could link
\* an identity or change the password.
Closed ==
    /\ live = {} /\ identity = None /\ passkeys = {}
    /\ \A r \in Requests : /\ stage[r] \notin {"admit", "reissue", "renew"}
                           /\ req[r].pc \notin {"link", "replace"}

\* What the handlers keep with a required address: none mails before it issues, a
\* password or a mailed token leads to no session before the verification, and nothing
\* does before the application vouches for the owner.
Gate ==
    required => /\ \A r \in Requests : stage[r] \notin {"mailfirst", "mailing"}
                /\ ~verified => /\ \A r \in Requests : stage[r] # "issue"
                                /\ ~vouched => Closed

\* From the moment the sessions are revoked until the answer, the request has nothing
\* left to end.
Ended ==
    \A r \in Requests : stage[r] \in {"renew", "answered"} => before[r] \cap live = {}

HandlersOK == SessionTypes /\ Gate /\ Ended

-----------------------------------------------------------------------------
(***************************************************************************)
(* The handlers implement the account.                                     *)
(***************************************************************************)

\* What a handler does to the account is a step of one of its managers.
LEMMA AccountCalls == [SignInNext]_allvars => [Next]_vars
<1> SUFFICES ASSUME [SignInNext]_allvars PROVE [Next]_vars
  OBVIOUS
<1>1. CASE UNCHANGED allvars
  BY <1>1 DEF allvars
<1>2. CASE Tick /\ UNCHANGED handlers
  BY <1>2 DEF Next
<1>3. ASSUME NEW s \in Sessions, SignOut(s)
      PROVE  [Next]_vars
  BY <1>3 DEF SignOut
<1>4. ASSUME NEW r \in Requests, HandlerStep(r)
      PROVE  [Next]_vars
  <2>1. \/ UNCHANGED vars
        \/ Public(r) \/ Owned(r) \/ Step(r) \/ Abandon(r)
    BY <1>4 DEF HandlerStep, SignUp, SignInByPassword, SignInByProvider,
      SignInBySSO, SignInByPasskey, CompleteVerification,
      CompleteReset, SendMail, OwnedRequest, RevokeRequest, ManagerStep, MailVerification,
      CheckVerified, IssueSession, RevokeAllSessions, Drop, Public
  <2> QED BY <2>1 DEF Next
<1> QED BY <1>1, <1>2, <1>3, <1>4 DEF SignInNext

\* The handlers implement the account's specification.
THEOREM ImplementsAccount == SignInSpec => Spec
<1>1. SignInInit => Init
  BY DEF SignInInit
<1> QED BY <1>1, AccountCalls, PTL DEF SignInSpec, Spec

-----------------------------------------------------------------------------
(***************************************************************************)
(* The steps.                                                              *)
(***************************************************************************)

\* A request moves on to another stage.
LEMMA Moved ==
  ASSUME SessionTypes, NEW r \in Requests, NEW s \in Stages, Goto(r, s)
  PROVE  /\ stage' \in [Requests -> Stages] /\ stage'[r] = s
         /\ \A q \in Requests : q # r => stage'[q] = stage[q]
  BY DEF SessionTypes, Goto

\* What a request remembers of the sessions it is to end.
LEMMA Remembered ==
  ASSUME SessionTypes, NEW r \in Requests, born \subseteq born',
         UNCHANGED before \/ Forget(r) \/ Remember(r)
  PROVE  /\ before' \in [Requests -> SUBSET born']
         /\ \A q \in Requests : q # r => before'[q] = before[q]
<1>1. before \in [Requests -> SUBSET born'] /\ live \subseteq born'
  BY DEF SessionTypes
<1> QED BY <1>1 DEF Forget, Remember

\* Every stage a handler leaves for, but the two that follow a revocation.
Onward == Stages \ {"renew", "answered"}

\* A handler's step that leaves the sessions alone and ends no revocation.
LEMMA OnwardStep ==
  ASSUME SessionTypes, Ended, NEW r \in Requests, NEW s \in Onward, Goto(r, s),
         UNCHANGED before \/ Forget(r) \/ Remember(r),
         UNCHANGED <<live, born, required>>, vouched' \in BOOLEAN
  PROVE  /\ SessionTypes' /\ Ended'
         /\ stage'[r] = s /\ \A q \in Requests : q # r => stage'[q] = stage[q]
<1>1. /\ stage' \in [Requests -> Stages] /\ stage'[r] = s
      /\ \A q \in Requests : q # r => stage'[q] = stage[q]
  BY Moved DEF Onward
<1>2. /\ before' \in [Requests -> SUBSET born]
      /\ \A q \in Requests : q # r => before'[q] = before[q]
  BY Remembered
<1>3. SessionTypes'
  BY <1>1, <1>2 DEF SessionTypes
<1>4. Ended'
  BY <1>1, <1>2 DEF Ended, Onward
<1> QED BY <1>1, <1>3, <1>4

\* The stage a handler goes on to after each of its calls, as a set of alternatives.
LEMMA Destination ==
  ASSUME SessionTypes, NEW r \in Requests,
         \/ SignUp(r) \/ SignInByPassword(r) \/ SignInByProvider(r)
         \/ SignInBySSO(r) \/ SignInByPasskey(r)
         \/ CompleteVerification(r) \/ CompleteReset(r) \/ SendMail(r)
         \/ OwnedRequest(r) \/ RevokeRequest(r) \/ ManagerStep(r) \/ MailVerification(r)
         \/ CheckVerified(r) \/ Drop(r)
  PROVE  /\ \E s \in Onward : Goto(r, s)
         /\ UNCHANGED before \/ Forget(r) \/ Remember(r)
         /\ UNCHANGED <<live, born, required>> /\ vouched' \in BOOLEAN
<1>1. CASE ManagerStep(r)
  BY <1>1 DEF SessionTypes, ManagerStep, Onward, Stages, AfterLogin, AfterChange
<1>2. CASE ~ManagerStep(r)
  BY <1>2 DEF SessionTypes, SignUp, SignInByPassword, SignInByProvider,
    SignInBySSO, SignInByPasskey, CompleteVerification,
    CompleteReset, SendMail, OwnedRequest, RevokeRequest, MailVerification, CheckVerified, Drop,
    Onward, Stages, AfterRegister, AfterLogin, AfterReset, AfterVerify
<1> QED BY <1>1, <1>2

\* A request that issues a session: it is not one that anybody remembers.
LEMMA IssueStep ==
  ASSUME SessionTypes, Ended, NEW r \in Requests, NEW s \in Sessions, IssueSession(r, s)
  PROVE  SessionTypes' /\ Ended'
<1>1. /\ s \notin born /\ born' = born \cup {s} /\ live' = live \cup {s} /\ before' = before
      /\ UNCHANGED <<vouched, required>> /\ stage[r] \in {"issue", "admit", "renew"}
  BY DEF IssueSession
<1>2. PICK d \in Stages : Goto(r, d) /\ (d \in {"renew", "answered"} => stage[r] = "renew")
  BY <1>1 DEF IssueSession, Stages
<1>3. /\ stage' \in [Requests -> Stages] /\ stage'[r] = d
      /\ \A q \in Requests : q # r => stage'[q] = stage[q]
  BY <1>2, Moved
<1>4. SessionTypes'
  BY <1>1, <1>3 DEF SessionTypes
<1>5. \A q \in Requests : before[q] \cap live = {} => before'[q] \cap live' = {}
  BY <1>1 DEF SessionTypes
<1>6. Ended'
  BY <1>2, <1>3, <1>5 DEF Ended
<1> QED BY <1>4, <1>6

\* A request that revokes the sessions: there are none left to end.
LEMMA RevokeStep ==
  ASSUME SessionTypes, Ended, NEW r \in Requests, RevokeAllSessions(r)
  PROVE  SessionTypes' /\ Ended'
<1>1. /\ live' \in {live, {}} /\ UNCHANGED <<born, vouched, required>>
      /\ UNCHANGED before \/ Forget(r)
  BY DEF RevokeAllSessions
<1>2. PICK d \in Stages : Goto(r, d) /\ (d \in {"renew", "answered"} => live' = {})
  BY DEF RevokeAllSessions, Stages
<1>3. /\ stage' \in [Requests -> Stages] /\ stage'[r] = d
      /\ \A q \in Requests : q # r => stage'[q] = stage[q]
  BY <1>2, Moved
<1>4. /\ before' \in [Requests -> SUBSET born]
      /\ \A q \in Requests : q # r => before'[q] = before[q]
  BY <1>1, Remembered
<1>5. SessionTypes'
  BY <1>1, <1>3, <1>4 DEF SessionTypes
<1>6. Ended'
  BY <1>1, <1>2, <1>3, <1>4 DEF Ended
<1> QED BY <1>5, <1>6

\* Every step keeps the sessions' types and what a revocation has ended.
LEMMA EndedInductive == SessionTypes /\ Ended /\ [SignInNext]_allvars => SessionTypes' /\ Ended'
<1> SUFFICES ASSUME SessionTypes, Ended, [SignInNext]_allvars PROVE SessionTypes' /\ Ended'
  OBVIOUS
<1>1. CASE UNCHANGED handlers
  BY <1>1 DEF handlers, SessionTypes, Ended
<1>2. ASSUME NEW s \in Sessions, SignOut(s)
      PROVE  SessionTypes' /\ Ended'
  <2>1. live' = live \ {s} /\ UNCHANGED <<born, stage, before, vouched, required>>
    BY <1>2 DEF SignOut
  <2> QED BY <2>1 DEF SessionTypes, Ended
<1>3. ASSUME NEW r \in Requests, HandlerStep(r)
      PROVE  SessionTypes' /\ Ended'
  BY <1>3, Destination, OnwardStep, IssueStep, RevokeStep DEF HandlerStep
<1> QED BY <1>1, <1>2, <1>3 DEF SignInNext, allvars

-----------------------------------------------------------------------------
(***************************************************************************)
(* No session before the address is verified.                              *)
(***************************************************************************)

\* While nobody has got in, a request's manager can only look for the password, send
\* mail, or refuse: it links no identity, registers no passkey and changes no password.
LEMMA OutsideManagers ==
  ASSUME Types, Closed, NEW r \in Requests, Step(r)
  PROVE  identity' = None /\ passkeys' = {} /\ req'[r].pc \notin {"link", "replace", "changed"}
<1>0. /\ req[r].pc \notin {"link", "replace"} /\ identity = None /\ passkeys = {}
      /\ req \in [Requests -> Request]
  BY DEF Closed, Types
<1>1. \A result : Report(r, result) => req'[r].pc = result
  BY <1>0 DEF Report, Idle
<1>2. CASE ReplacePasswordHash(r)
  BY <1>0, <1>1, <1>2 DEF ReplacePasswordHash
<1>3. CASE LockAndCount(r)
  <2>1. identity' = None /\ passkeys' = {}
    BY <1>0, <1>3 DEF LockAndCount, rows
  <2>2. CASE MayRemove(r)
    BY <1>0, <1>3, <2>1, <2>2 DEF LockAndCount, Request
  <2>3. CASE ~MayRemove(r)
    BY <1>1, <1>3, <2>1, <2>3 DEF LockAndCount
  <2> QED BY <2>1, <2>2, <2>3
<1>4. CASE DeleteAndCommit(r)
  BY <1>0, <1>1, <1>4 DEF DeleteAndCommit
<1>5. CASE LinkIdentity(r)
  BY <1>0, <1>5 DEF LinkIdentity
<1>6. CASE \E tok \in Tokens : IssueReset(r, tok) \/ IssueVerification(r, tok)
  BY <1>0, <1>1, <1>6 DEF IssueReset, IssueVerification
<1> QED BY <1>2, <1>3, <1>4, <1>5, <1>6 DEF Step

\* A handler's step while the address is required and not verified and the application
\* has not vouched for the owner, seen from the request that takes it.
LEMMA ShutOut ==
  ASSUME Types, SessionTypes, Gate, required, ~verified, ~verified', ~vouched, ~vouched',
         NEW r \in Requests, HandlerStep(r)
  PROVE  /\ live' = {} /\ identity' = None /\ passkeys' = {}
         /\ req'[r].pc \notin {"link", "replace"}
         /\ \E s \in Stages \ {"admit", "reissue", "renew"} : Goto(r, s)
         /\ UNCHANGED vars \/ Public(r) \/ Owned(r) \/ Step(r) \/ Abandon(r)
<1> DEFINE Safe == Stages \ {"admit", "reissue", "renew"}
<1>0. /\ live = {} /\ identity = None /\ passkeys = {}
      /\ stage[r] \notin {"issue", "admit", "reissue", "renew", "mailfirst", "mailing"}
      /\ req[r].pc \notin {"link", "replace"} /\ req \in [Requests -> Request]
      /\ Closed
  BY DEF Gate, Closed, Types
<1>1. \A result : Report(r, result) => req'[r].pc = result
  BY <1>0 DEF Report, Idle
<1>2. \A pc : Start(r, pc) => req'[r].pc = pc
  BY <1>0 DEF Start, Idle
<1>3. CASE SignUp(r)
  <2>1. identity' = None /\ passkeys' = {} /\ req'[r].pc = "done"
    BY <1>0, <1>1, <1>3 DEF SignUp, Register
  <2> QED BY <1>0, <1>3, <2>1 DEF SignUp, AfterRegister, Stages, Public
<1>4. CASE SignInByPassword(r)
  <2>1. PICK pw \in Passwords : Login(r, pw)
    BY <1>4 DEF SignInByPassword
  <2>2. identity' = None /\ passkeys' = {} /\ req'[r].pc \in {"authenticated", "rehash"}
    BY <1>0, <1>1, <2>1 DEF Login, rows, Idle
  <2> QED BY <1>0, <1>4, <2>2 DEF SignInByPassword, AfterLogin, Stages, Public
<1>5. CASE SignInByProvider(r)
  BY <1>0, <1>5, AccountsAssumption DEF SignInByProvider, ResolveSignIn
<1>5a. CASE SignInBySSO(r) \/ SignInByPasskey(r)
  BY <1>0, <1>5a DEF SignInBySSO, SignInByPasskey
<1>6. CASE CompleteVerification(r)
  BY <1>6 DEF CompleteVerification, VerifyEmail
<1>7. CASE CompleteReset(r)
  <2>1. identity' = None /\ passkeys' = {} /\ req'[r].pc = "reset"
    BY <1>0, <1>1, <1>7 DEF CompleteReset, ResetPassword
  <2> QED BY <1>0, <1>7, <2>1 DEF CompleteReset, AfterReset, Stages, Public
<1>8. CASE SendMail(r)
  <2>1. identity' = None /\ passkeys' = {} /\ req'[r].pc \in {"issuereset", "issueverification"}
    BY <1>0, <1>2, <1>8 DEF SendMail, RequestReset, RequestVerification, rows
  <2> QED BY <1>0, <1>8, <2>1 DEF SendMail, Stages, Public
<1>9. CASE OwnedRequest(r) \/ RevokeRequest(r)
  BY <1>0, <1>9 DEF OwnedRequest, RevokeRequest, RequireSession
<1>10. CASE ManagerStep(r)
  <2>1. Step(r) /\ live' = live
    BY <1>10 DEF ManagerStep
  <2>2. identity' = None /\ passkeys' = {} /\ req'[r].pc \notin {"link", "replace", "changed"}
    BY <1>0, <2>1, OutsideManagers
  <2>3. \E s \in Safe : Goto(r, s)
    BY <1>0, <1>10, <2>2 DEF ManagerStep, AfterLogin, Stages
  <2> QED BY <1>0, <2>1, <2>2, <2>3
<1>11. CASE MailVerification(r)
  <2>1. RequestVerification(r) /\ stage[r] = "mail" /\ live' = live /\ Goto(r, "manager")
    BY <1>0, <1>11 DEF MailVerification
  <2>2. identity' = None /\ passkeys' = {} /\ req'[r].pc = "issueverification"
    BY <1>0, <1>2, <2>1 DEF RequestVerification, rows
  <2> QED BY <1>0, <2>1, <2>2 DEF Stages, Public
<1>12. CASE CheckVerified(r)
  BY <1>0, <1>12 DEF CheckVerified, Stages, vars, rows
<1>13. ASSUME NEW s \in Sessions, IssueSession(r, s)
       PROVE  FALSE
  BY <1>0, <1>13 DEF IssueSession
<1>14. CASE RevokeAllSessions(r)
  BY <1>0, <1>14 DEF RevokeAllSessions, Stages, vars, rows
<1>15. CASE Drop(r)
  <2>1. identity' = None /\ passkeys' = {} /\ req'[r].pc \notin {"link", "replace"}
    BY <1>0, <1>1, <1>15 DEF Drop, Abandon, vars, rows
  <2> QED BY <1>0, <1>15, <2>1 DEF Drop, Stages
<1> QED BY <1>3, <1>4, <1>5, <1>5a, <1>6, <1>7, <1>8, <1>9, <1>10, <1>11, <1>12, <1>13, <1>14, <1>15
  DEF HandlerStep

\* A verified address stays verified.
LEMMA VerifiedStays == Types /\ [Next]_vars => (verified => verified')
  BY DEF Types, Next, vars, rows, Tick, Public, Owned, Step, Register, Login, ResolveSignIn,
     RequestReset, RequestVerification, ResetPassword, VerifyEmail, ChangePassword,
     AddPassword, RemovePassword, UnlinkIdentity, DeletePasskey, CompleteRegistration,
     FindIdentity, ReplacePasswordHash, LockAndCount, DeleteAndCommit, LinkIdentity,
     IssueReset, IssueVerification, Abandon

\* With a required address, no handler ever gets ready to mail before it issues.
LEMMA NoMailFirst ==
  ASSUME SessionTypes, Gate, required, NEW r \in Requests, HandlerStep(r)
  PROVE  \E s \in Stages \ {"mailfirst", "mailing"} : Goto(r, s)
<1>1. stage[r] \notin {"mailfirst", "mailing"}
  BY DEF Gate
<1>2. CASE ManagerStep(r)
  BY <1>2 DEF ManagerStep, Stages, AfterLogin, AfterChange
<1>3. CASE ~ManagerStep(r)
  BY <1>1, <1>3 DEF HandlerStep, SignUp, SignInByPassword, SignInByProvider,
    SignInBySSO, SignInByPasskey, CompleteVerification,
    CompleteReset, SendMail, OwnedRequest, RevokeRequest, MailVerification, CheckVerified, Drop,
    IssueSession, RevokeAllSessions,
    Stages, AfterRegister, AfterLogin, AfterReset, AfterVerify
<1> QED BY <1>2, <1>3

\* A password or a mailed token leads to no session while the address is to be verified,
\* whoever else is let in.
LEMMA NoIssueUnverified ==
  ASSUME SessionTypes, Gate, required, ~verified, ~verified', NEW r \in Requests, HandlerStep(r)
  PROVE  \E s \in Stages \ {"issue"} : Goto(r, s)
<1>1. stage[r] \notin {"mailfirst", "mailing", "issue"}
  BY DEF Gate
<1>2. CASE ManagerStep(r)
  BY <1>1, <1>2 DEF ManagerStep, Stages, AfterLogin, AfterChange
<1>3. CASE CompleteVerification(r)
  BY <1>3 DEF CompleteVerification, VerifyEmail
<1>4. CASE MailVerification(r)
  BY <1>1, <1>4 DEF MailVerification, Stages
<1>5. CASE ~ManagerStep(r) /\ ~CompleteVerification(r) /\ ~MailVerification(r)
  BY <1>1, <1>5 DEF HandlerStep, SignUp, SignInByPassword, SignInByProvider, SignInBySSO,
    SignInByPasskey, CompleteReset, SendMail, OwnedRequest, RevokeRequest, CheckVerified, Drop,
    IssueSession, RevokeAllSessions, Stages, AfterRegister, AfterLogin, AfterReset
<1> QED BY <1>2, <1>3, <1>4, <1>5

\* Every step keeps the gate.
LEMMA GateInductive == Types /\ SessionTypes /\ Gate /\ [SignInNext]_allvars => Gate'
<1> SUFFICES ASSUME Types, SessionTypes, Gate, [SignInNext]_allvars PROVE Gate'
  OBVIOUS
<1>1. CASE UNCHANGED <<live, stage, required, vouched, verified, identity, passkeys, req>>
  BY <1>1 DEF Gate, Closed
<1>2. ASSUME NEW s \in Sessions, SignOut(s)
      PROVE  Gate'
  <2>1. /\ live' = live \ {s}
        /\ UNCHANGED <<stage, required, vouched, verified, identity, passkeys, req>>
    BY <1>2 DEF SignOut, vars, rows
  <2> QED BY <2>1 DEF Gate, Closed
<1>3. ASSUME NEW r \in Requests, HandlerStep(r), required'
      PROVE  Gate'
  <2>1. required /\ (vouched => vouched') /\ (verified => verified')
    <3>1. required' = required
      BY <1>3, Destination DEF HandlerStep, IssueSession, RevokeAllSessions
    <3>2. vouched => vouched'
      BY <1>3 DEF HandlerStep, SignUp, SignInByPassword, SignInByProvider, SignInBySSO,
        SignInByPasskey, CompleteVerification, CompleteReset, SendMail, OwnedRequest,
        RevokeRequest, ManagerStep, MailVerification, CheckVerified, IssueSession,
        RevokeAllSessions, Drop
    <3> QED BY <1>3, <3>1, <3>2, AccountCalls, VerifiedStays
  <2>2. \A q \in Requests : stage'[q] \notin {"mailfirst", "mailing"}
    <3>1. PICK s \in Stages \ {"mailfirst", "mailing"} : Goto(r, s)
      BY <1>3, <2>1, NoMailFirst
    <3>2. stage'[r] = s /\ \A q \in Requests : q # r => stage'[q] = stage[q]
      BY <3>1, Moved
    <3> QED BY <2>1, <3>1, <3>2 DEF Gate
  <2>3. ASSUME ~verified'
        PROVE  \A q \in Requests : stage'[q] # "issue"
    <3>1. PICK s \in Stages \ {"issue"} : Goto(r, s)
      BY <1>3, <2>1, <2>3, NoIssueUnverified
    <3>2. stage'[r] = s /\ \A q \in Requests : q # r => stage'[q] = stage[q]
      BY <3>1, Moved
    <3> QED BY <2>1, <2>3, <3>1, <3>2 DEF Gate
  <2>4. ASSUME ~verified', ~vouched'
        PROVE  Closed'
    <3>1. /\ live' = {} /\ identity' = None /\ passkeys' = {}
          /\ req'[r].pc \notin {"link", "replace"}
          /\ \E s \in Stages \ {"admit", "reissue", "renew"} : Goto(r, s)
          /\ UNCHANGED vars \/ Public(r) \/ Owned(r) \/ Step(r) \/ Abandon(r)
      BY <1>3, <2>1, <2>4, ShutOut
    <3>2. /\ stage'[r] \notin {"admit", "reissue", "renew"}
          /\ \A q \in Requests : q # r => stage'[q] = stage[q]
      BY <3>1, Moved
    <3>3. \A q \in Requests : q # r => req'[q] = req[q]
      BY <3>1, OneRequestSteps DEF Types, vars
    <3>4. Closed
      BY <2>1, <2>4 DEF Gate
    <3> QED BY <3>1, <3>2, <3>3, <3>4 DEF Closed
  <2> QED BY <2>2, <2>3, <2>4 DEF Gate
<1>4. ASSUME NEW r \in Requests, HandlerStep(r)
      PROVE  Gate'
  BY <1>3, <1>4 DEF Gate
<1>5. CASE Tick /\ UNCHANGED handlers
  BY <1>1, <1>5 DEF Tick, handlers, rows
<1>6. CASE UNCHANGED allvars
  BY <1>1, <1>6 DEF allvars, vars, rows, handlers
<1> QED BY <1>2, <1>4, <1>5, <1>6 DEF SignInNext

-----------------------------------------------------------------------------
(***************************************************************************)
(* The theorems.                                                           *)
(***************************************************************************)

\* The account behind the handlers keeps its types.
LEMMA AccountTypes == SignInSpec => []Types
<1>1. TypeOK => Types
  BY DEF TypeOK, Types
<1> QED BY <1>1, ImplementsAccount, TypeCorrect, PTL

\* The handlers' invariant holds throughout.
LEMMA HandlersInvariant == SignInSpec => []HandlersOK
<1>1. SignInInit => HandlersOK
  <2> SUFFICES ASSUME SignInInit PROVE HandlersOK
    OBVIOUS
  <2>1. /\ live = {} /\ born = {} /\ identity = None /\ passkeys = {}
        /\ vouched = FALSE /\ required \in BOOLEAN
        /\ stage = [r \in Requests |-> "idle"] /\ before = [r \in Requests |-> {}]
        /\ req = [r \in Requests |-> Idle]
    BY DEF SignInInit, Init
  <2>2. SessionTypes
    BY <2>1 DEF SessionTypes, Stages
  <2>3. Gate
    BY <2>1 DEF Gate, Closed, Idle
  <2> QED BY <2>1, <2>2, <2>3 DEF HandlersOK, Ended
<1>2. Types /\ HandlersOK /\ [SignInNext]_allvars => HandlersOK'
  BY EndedInductive, GateInductive DEF HandlersOK
<1> QED BY <1>1, <1>2, AccountTypes, PTL DEF SignInSpec

\* What is proved of an account holds behind the handlers: however they interleave, it
\* keeps a way in, a mailed token takes effect once, and a rehash brings no replaced
\* password back.
THEOREM AccountsHold ==
  SignInSpec => []NeverLockedOut /\ []MailedTokenOnce /\ RehashKeepsPassword
  BY ImplementsAccount, AlwaysAWayIn, TokensSpentOnce, RehashReinstatesNothing, PTL

\* SignInConsistent is an invariant: the account, its sessions and the handlers keep their
\* types, and with RequireEmailVerification and until the address is verified a password
\* or a mailed token leads to no session, and neither does Google, a passkey or a change
\* of password unless an SSO callback has let the owner in before.
THEOREM SessionsConsistent == SignInSpec => []SignInConsistent
<1>1. TypeOK /\ HandlersOK => SignInConsistent
  BY DEF HandlersOK, SessionTypes, Gate, Closed, SignInConsistent, SignInTypeOK,
    VerifiedBeforeSession
<1> QED BY <1>1, HandlersInvariant, ImplementsAccount, TypeCorrect, PTL

\* AnsweredRevocationComplete is an invariant: once a reset, a change that ends the other
\* sessions or a revocation has been answered with success, none of the sessions it was
\* to end is active, whatever is signed in meanwhile.
THEOREM RevocationsComplete == SignInSpec => []AnsweredRevocationComplete
<1>1. HandlersOK => AnsweredRevocationComplete
  BY DEF HandlersOK, Ended, AnsweredRevocationComplete
<1> QED BY <1>1, HandlersInvariant, PTL

-----------------------------------------------------------------------------
(***************************************************************************)
(* The second factor.                                                      *)
(***************************************************************************)

\* A six-digit code is never a recovery code.
LEMMA KindsDiffer == Code \cap RecoveryCode = {}
<1> SUFFICES ASSUME NEW c \in Code, c \in RecoveryCode PROVE FALSE
  OBVIOUS
<1>1. DOMAIN c = {"secret", "counter"}
  BY DEF Code
<1>2. DOMAIN c = {"secret", "number"}
  BY DEF RecoveryCode
<1> QED BY <1>1, <1>2

-----------------------------------------------------------------------------
(***************************************************************************)
(* Type correctness, with what a request carries to its transaction: the   *)
(* code it matched and a challenge that was found, whose row is never      *)
(* deleted.                                                                *)
(***************************************************************************)

CarriedBy(x) ==
    /\ x.pc \in {"enable", "complete"} => x.code \in Code
    /\ x.pc = "redeem" => x.code \in RecoveryCode
    /\ x.pc \in {"complete", "redeem"} => x.chal \in Challenges /\ challenges[x.chal] # NoRow

TotpCarried == \A r \in Calls : CarriedBy(call[r])

TotpTypes == TotpTypeOK /\ TotpCarried /\ (enrollment # NoRow => enrollment.secret \in issued)

\* The request of a free slot has the type of one.
LEMMA IdleType == NoCall \in CallState
  BY TotpAssumption DEF NoCall, CallState, Times, ChallengeAttempts

\* A request that begins carries what its transaction needs.
LEMMA BeginTypes ==
  ASSUME TotpTypes, NEW r \in Calls, Begin(r)
  PROVE  TotpTypes'
<1> USE TotpAssumption
<1>1. ASSUME NEW x \in CallState, call' = [call EXCEPT ![r] = x], CarriedBy(x),
             UNCHANGED <<period, stored>>
      PROVE  TotpTypes'
  BY <1>1 DEF TotpTypes, TotpTypeOK, TotpCarried, CarriedBy, stored
<1>a. period \in Times
  BY DEF TotpTypes, TotpTypeOK
<1>2. CASE CheckEnabled(r)
  <2> DEFINE x == [NoCall EXCEPT !.pc = "challenge"]
  <2>1. x \in CallState /\ CarriedBy(x)
    BY IdleType DEF CallState, NoCall, Running, CarriedBy
  <2> HIDE DEF x
  <2>2. call' = [call EXCEPT ![r] = x] /\ UNCHANGED <<period, stored>>
    BY <1>2 DEF CheckEnabled, x
  <2> QED BY <1>1, <2>1, <2>2
<1>3. ASSUME NEW code \in Code, FindEnrollment(r, code)
      PROVE  TotpTypes'
  <2> DEFINE x == [NoCall EXCEPT !.pc = "enable", !.code = code, !.at = period]
  <2>1. x \in CallState /\ CarriedBy(x)
    BY <1>a, IdleType DEF CallState, NoCall, Running, CarriedBy
  <2> HIDE DEF x
  <2>2. call' = [call EXCEPT ![r] = x] /\ UNCHANGED <<period, stored>>
    BY <1>3 DEF FindEnrollment, x
  <2> QED BY <1>1, <2>1, <2>2
<1>4. ASSUME NEW h \in Challenges, NEW code \in Code, FindForCode(r, h, code)
      PROVE  TotpTypes'
  <2> DEFINE x == [NoCall EXCEPT !.pc = "complete", !.chal = h, !.code = code, !.at = period]
  <2>1. challenges[h] # NoRow
    BY <1>4 DEF FindForCode, Open
  <2>2. x \in CallState /\ CarriedBy(x)
    BY <1>a, <2>1, IdleType DEF CallState, NoCall, Running, CarriedBy
  <2> HIDE DEF x
  <2>3. call' = [call EXCEPT ![r] = x] /\ UNCHANGED <<period, stored>>
    BY <1>4 DEF FindForCode, x
  <2> QED BY <1>1, <2>2, <2>3
<1>5. ASSUME NEW h \in Challenges, NEW code \in RecoveryCode, FindForRecovery(r, h, code)
      PROVE  TotpTypes'
  <2> DEFINE x == [NoCall EXCEPT !.pc = "redeem", !.chal = h, !.code = code, !.at = period]
  <2>1. challenges[h] # NoRow
    BY <1>5 DEF FindForRecovery, Open
  <2>2. x \in CallState /\ CarriedBy(x)
    BY <1>a, <2>1, IdleType DEF CallState, NoCall, Running, CarriedBy
  <2> HIDE DEF x
  <2>3. call' = [call EXCEPT ![r] = x] /\ UNCHANGED <<period, stored>>
    BY <1>5 DEF FindForRecovery, x
  <2> QED BY <1>1, <2>2, <2>3
<1> QED BY <1>2, <1>3, <1>4, <1>5 DEF Begin

\* Requests that return leave the others as they are, whose challenges remain.
LEMMA ReturnTypes ==
  ASSUME TotpTypes, NEW r \in Calls, Return(r),
         \A h \in Challenges : challenges[h] # NoRow => challenges'[h] # NoRow
  PROVE  call' \in [Calls -> CallState] /\ TotpCarried'
  BY IdleType DEF Return, TotpTypes, TotpTypeOK, TotpCarried, CarriedBy, NoCall

\* consumeTOTPChallenge writes one row, which was there.
LEMMA ConsumedTypes ==
  ASSUME TotpTypes, NEW r \in Calls, call[r].pc \in {"complete", "redeem"},
         challenges' = Consumed(r)
  PROVE  /\ challenges' \in [Challenges -> Challenge \cup {NoRow}]
         /\ \A h \in Challenges : challenges[h] # NoRow => challenges'[h] # NoRow
         /\ call[r].chal \in Challenges /\ challenges[call[r].chal] # NoRow
         /\ challenges'[call[r].chal].consumed
         /\ \A h \in Challenges : h # call[r].chal => challenges'[h] = challenges[h]
<1>1. call[r].chal \in Challenges /\ challenges[call[r].chal] \in Challenge
  BY DEF TotpTypes, TotpTypeOK, TotpCarried, CarriedBy
<1> DEFINE row == [challenges[call[r].chal] EXCEPT !.consumed = TRUE]
<1>2. row \in Challenge /\ row.consumed
  BY <1>1 DEF Challenge
<1>3. challenges' = [challenges EXCEPT ![call[r].chal] = row]
  BY DEF Consumed
<1> HIDE DEF row
<1> QED BY <1>1, <1>2, <1>3, NoTotpRowAssumption DEF TotpTypes, TotpTypeOK

\* The calls of a request keep the types.
LEMMA StepTypes ==
  ASSUME TotpTypes, NEW r \in Calls, TotpStep(r)
  PROVE  TotpTypes'
<1> USE TotpAssumption, NoTotpRowAssumption
<1>0. call[r] \in CallState /\ CarriedBy(call[r])
  BY DEF TotpTypes, TotpTypeOK, TotpCarried
<1>1. CASE UNCHANGED stored /\ Return(r) /\ UNCHANGED period
  BY <1>1, ReturnTypes DEF stored, TotpTypes, TotpTypeOK
<1>2. CASE Enable(r) /\ EnableApply(r)
  <2>1. call[r].code \in Code /\ enrollment \in Enrollment
    BY <1>0, <1>2 DEF Enable, EnableApply, Enableable, CarriedBy, TotpTypes, TotpTypeOK
  <2>2. credential' \in Credential
    BY <1>2, <2>1 DEF EnableApply, Credential, Enrollment, Code
  <2>3. recovery' \subseteq RecoveryCode
    BY <1>2 DEF EnableApply, RecoveryCodesOf
  <2>4. auths' \subseteq [chal: Challenges \cup {NoRow}, code: Code \cup RecoveryCode]
    BY <1>2, <2>1 DEF EnableApply, TotpTypes, TotpTypeOK
  <2>5. call' \in [Calls -> CallState] /\ TotpCarried'
    BY <1>2, ReturnTypes DEF Enable, EnableApply
  <2> QED BY <1>2, <2>2, <2>3, <2>4, <2>5 DEF Enable, EnableApply, TotpTypes, TotpTypeOK
<1>3. ASSUME NEW h \in Challenges, CreateChallenge(r, h)
      PROVE  TotpTypes'
  <2>0. UNCHANGED <<period, enrollment, credential, recovery, issued, abandoned, auths>>
    BY <1>3 DEF CreateChallenge
  <2>1. /\ challenges' \in [Challenges -> Challenge \cup {NoRow}]
        /\ \A g \in Challenges : challenges[g] # NoRow => challenges'[g] # NoRow
    <3> DEFINE row == [expires |-> period + ChallengeLifetime, consumed |-> FALSE]
    <3>1. row \in Challenge
      BY DEF Challenge, TotpTypes, TotpTypeOK, Times
    <3>2. challenges' = challenges \/ challenges' = [challenges EXCEPT ![h] = row]
      BY <1>3 DEF CreateChallenge
    <3> HIDE DEF row
    <3> QED BY <3>1, <3>2 DEF TotpTypes, TotpTypeOK
  <2>2. call' \in [Calls -> CallState] /\ TotpCarried'
    <3>1. CASE Return(r)
      BY <2>1, <3>1, ReturnTypes
    <3>2. CASE ~Return(r)
      <4> DEFINE x == [call[r] EXCEPT !.tries = @ + 1]
      <4>1. call' = [call EXCEPT ![r] = x] /\ call[r].tries + 1 # ChallengeAttempts
            /\ call[r].pc = "challenge"
        BY <1>3, <3>2 DEF CreateChallenge, Redraw
      <4>2. call[r].tries + 1 \in 0..(ChallengeAttempts - 1)
        BY <1>0, <4>1 DEF CallState, ChallengeAttempts
      <4>3. x \in CallState /\ x.pc = "challenge"
        BY <1>0, <4>1, <4>2 DEF CallState
      <4> HIDE DEF x
      <4> QED BY <2>1, <4>1, <4>3 DEF TotpTypes, TotpTypeOK, TotpCarried, CarriedBy
    <3> QED BY <3>1, <3>2
  <2> QED BY <2>0, <2>1, <2>2 DEF TotpTypes, TotpTypeOK
<1>4. CASE CompleteCode(r) /\ CompleteCodeApply(r)
  <2>1. call[r].code \in Code /\ call[r].chal \in Challenges /\ credential \in Credential
    BY <1>0, <1>4
    DEF CompleteCode, CompleteCodeApply, FreshCounter, Enabled, CarriedBy, TotpTypes, TotpTypeOK
  <2>2. credential' \in Credential
    BY <1>4, <2>1 DEF CompleteCodeApply, Credential, Code
  <2>3. auths' \subseteq [chal: Challenges \cup {NoRow}, code: Code \cup RecoveryCode]
    BY <1>4, <2>1 DEF CompleteCodeApply, Proves, TotpTypes, TotpTypeOK
  <2>4. call' \in [Calls -> CallState] /\ TotpCarried'
        /\ challenges' \in [Challenges -> Challenge \cup {NoRow}]
    BY <1>4, ReturnTypes, ConsumedTypes DEF CompleteCode, CompleteCodeApply
  <2> QED BY <1>4, <2>2, <2>3, <2>4 DEF CompleteCode, CompleteCodeApply, TotpTypes, TotpTypeOK
<1>5. CASE CompleteRecovery(r) /\ CompleteRecoveryApply(r)
  <2>1. call[r].code \in RecoveryCode /\ call[r].chal \in Challenges
    BY <1>0, <1>5 DEF CompleteRecovery, CarriedBy
  <2>2. recovery' \subseteq RecoveryCode
    BY <1>5 DEF CompleteRecoveryApply, Redeemed, TotpTypes, TotpTypeOK
  <2>3. auths' \subseteq [chal: Challenges \cup {NoRow}, code: Code \cup RecoveryCode]
    BY <1>5, <2>1 DEF CompleteRecoveryApply, Proves, TotpTypes, TotpTypeOK
  <2>4. call' \in [Calls -> CallState] /\ TotpCarried'
        /\ challenges' \in [Challenges -> Challenge \cup {NoRow}]
    BY <1>5, ReturnTypes, ConsumedTypes DEF CompleteRecovery, CompleteRecoveryApply
  <2> QED BY <1>5, <2>2, <2>3, <2>4 DEF CompleteRecovery, CompleteRecoveryApply, TotpTypes,
                                        TotpTypeOK
<1> QED BY <1>1, <1>2, <1>3, <1>4, <1>5 DEF TotpStep, Enable, CompleteCode, CompleteRecovery,
                                            Refused

\* So does every step.
LEMMA TotpTypesInductive == TotpTypes /\ [TotpNext]_TotpVars => TotpTypes'
<1> SUFFICES ASSUME TotpTypes, [TotpNext]_TotpVars PROVE TotpTypes'
  OBVIOUS
<1> USE TotpAssumption, NoTotpRowAssumption
<1>1. CASE NextPeriod
  BY <1>1 DEF NextPeriod, stored, TotpTypes, TotpTypeOK, Times, TotpCarried, CarriedBy
<1>2. CASE Disable
  <2>1. credential' \in Credential \cup {NoRow} /\ recovery' \subseteq RecoveryCode
    BY <1>2 DEF Disable, TotpTypes, TotpTypeOK, Credential
  <2> QED BY <1>2, <2>1 DEF Disable, TotpTypes, TotpTypeOK, TotpCarried, CarriedBy
<1>3. ASSUME NEW secret \in Secrets, BeginEnrollment(secret)
      PROVE  TotpTypes'
  <2>1. enrollment' \in Enrollment /\ enrollment'.secret = secret
    BY <1>3 DEF BeginEnrollment, Enrollment, TotpTypes, TotpTypeOK, Times
  <2>2. issued' \subseteq Secrets /\ abandoned' \subseteq issued' /\ secret \in issued'
    BY <1>3 DEF BeginEnrollment, TotpTypes, TotpTypeOK
  <2> QED BY <1>3, <2>1, <2>2 DEF BeginEnrollment, TotpTypes, TotpTypeOK, TotpCarried, CarriedBy
<1>4. CASE UNCHANGED TotpVars
  BY <1>4 DEF TotpVars, TotpTypes, TotpTypeOK, TotpCarried, CarriedBy
<1> QED BY <1>1, <1>2, <1>3, <1>4, BeginTypes, StepTypes DEF TotpNext

\* They hold at the start.
LEMMA TypesInitially == TotpInit => TotpTypes
  BY TotpAssumption, IdleType DEF TotpInit, TotpTypes, TotpTypeOK, Times, TotpCarried,
                                  CarriedBy, NoCall

-----------------------------------------------------------------------------
(***************************************************************************)
(* The inductive invariant.  A secret is shown once, so the enrollment     *)
(* under way, the credential and the abandoned secrets never share one,    *)
(* and nothing was ever proven with the secret that is being enrolled.     *)
(***************************************************************************)

SecretsFresh ==
    /\ enrollment # NoRow =>
         /\ enrollment.secret \notin abandoned
         /\ \A a \in auths : a.code.secret # enrollment.secret
         /\ \A r \in Calls : call[r].pc = "complete" => call[r].code.secret # enrollment.secret
    /\ credential # NoRow => credential.secret \in issued \ abandoned
    /\ enrollment # NoRow /\ credential # NoRow => enrollment.secret # credential.secret
    /\ \A a \in auths : a.code.secret \in issued
    /\ \A r \in Calls : call[r].pc \in {"enable", "complete"} => call[r].code.secret \in issued

\* The counter of every code accepted for the credential's secret is behind its last one.
Counters ==
    credential # NoRow =>
        \A a \in auths : a.code \in Code /\ a.code.secret = credential.secret
                         => a.code.counter <= credential.last

\* Unused recovery codes are those of the enabled secret, and have proven nothing.
RecoverySound ==
    \A c \in recovery : /\ Enabled /\ c.secret = credential.secret
                        /\ \A a \in auths : a.code # c

TotpInv ==
    /\ TotpTypes /\ SecretsFresh /\ Counters /\ RecoverySound
    /\ ChallengeConsumedByCode /\ CodeOnceWhileEnabled /\ RecoveryCodeOnce

\* A request that only reads: its code is of a secret that was shown, and a sign-in's is
\* not of the one being enrolled.
LEMMA BeginInv ==
  ASSUME TotpInv, NEW r \in Calls, Begin(r)
  PROVE  TotpInv'
<1>1. TotpTypes'
  BY BeginTypes DEF TotpInv
<1>2. UNCHANGED stored
  BY DEF Begin, CheckEnabled, FindEnrollment, FindForCode, FindForRecovery
<1>3. Counters' /\ RecoverySound' /\ ChallengeConsumedByCode' /\ CodeOnceWhileEnabled'
      /\ RecoveryCodeOnce'
  BY <1>2 DEF TotpInv, stored, Counters, RecoverySound, ChallengeConsumedByCode,
              CodeOnceWhileEnabled, RecoveryCodeOnce, Enabled
<1>4. /\ call'[r].pc \in {"enable", "complete"} => call'[r].code.secret \in issued
      /\ call'[r].pc = "complete" /\ enrollment # NoRow => call'[r].code.secret # enrollment.secret
      /\ \A q \in Calls : q # r => call'[q] = call[q]
  <2>0. call \in [Calls -> CallState]
    BY DEF TotpInv, TotpTypes, TotpTypeOK
  <2>1. CASE CheckEnabled(r)
    BY <2>0, <2>1 DEF CheckEnabled, NoCall
  <2>2. ASSUME NEW code \in Code, FindEnrollment(r, code) PROVE <1>4!:
    BY <2>0, <2>2 DEF FindEnrollment, NoCall, MatchCounter, TotpInv, TotpTypes
  <2>3. ASSUME NEW h \in Challenges, NEW code \in Code, FindForCode(r, h, code) PROVE <1>4!:
    BY <2>0, <2>3 DEF FindForCode, Open, Enabled, NoCall, MatchCounter, TotpInv, SecretsFresh
  <2>4. ASSUME NEW h \in Challenges, NEW code \in RecoveryCode, FindForRecovery(r, h, code)
        PROVE <1>4!:
    BY <2>0, <2>4 DEF FindForRecovery, NoCall
  <2> QED BY <2>1, <2>2, <2>3, <2>4 DEF Begin
<1>5. SecretsFresh'
  BY <1>2, <1>4 DEF TotpInv, SecretsFresh, stored
<1> QED BY <1>1, <1>3, <1>5 DEF TotpInv

\* A method that returns without having written, or draws another token.
LEMMA UnwrittenInv ==
  ASSUME TotpInv, NEW r \in Calls, TotpTypes', UNCHANGED stored,
         \/ Return(r)
         \/ \A q \in Calls : call'[q].pc = call[q].pc /\ call'[q].code = call[q].code
  PROVE  TotpInv'
<1>1. Counters' /\ RecoverySound' /\ ChallengeConsumedByCode' /\ CodeOnceWhileEnabled'
      /\ RecoveryCodeOnce'
  BY DEF TotpInv, stored, Counters, RecoverySound, ChallengeConsumedByCode,
              CodeOnceWhileEnabled, RecoveryCodeOnce, Enabled
<1>2. \A q \in Calls : call'[q].pc \in {"enable", "complete"} =>
          call[q].pc = call'[q].pc /\ call'[q].code = call[q].code
  BY DEF Return, NoCall, TotpInv, TotpTypes, TotpTypeOK
<1>3. SecretsFresh'
  BY <1>2 DEF TotpInv, SecretsFresh, stored
<1> QED BY <1>1, <1>3 DEF TotpInv

\* Enabling: nothing has been proven with the secret that becomes the second factor.
LEMMA EnableInv ==
  ASSUME TotpInv, NEW r \in Calls, Enable(r), EnableApply(r), TotpTypes'
  PROVE  TotpInv'
<1> USE TotpAssumption, NoTotpRowAssumption
<1> DEFINE s == enrollment.secret
           new == [chal |-> NoRow, code |-> call[r].code]
<1>1. /\ call[r].code \in Code /\ call[r].code.secret \in issued
      /\ enrollment # NoRow
      /\ s \in issued \ abandoned /\ \A a \in auths : a.code.secret # s
  BY DEF TotpInv, TotpTypes, TotpCarried, CarriedBy, SecretsFresh, Enable, EnableApply, Enableable
<1>2. /\ credential' # NoRow /\ ~credential'.disabled /\ credential'.secret = s
      /\ credential'.last = call[r].code.counter
      /\ enrollment' = NoRow /\ auths' = auths \cup {new}
      /\ UNCHANGED <<challenges, issued, abandoned>>
      /\ recovery' = RecoveryCodesOf(s)
  <2>1. credential' \in Credential
    BY <1>1 DEF EnableApply, Credential, Code, Enrollment, TotpTypes, TotpTypeOK, TotpInv
  <2>2. credential' # NoRow
    BY <2>1
  <2> QED BY <2>2 DEF EnableApply
<1> HIDE DEF s
<1>3. SecretsFresh'
  <2>1. \A q \in Calls : call'[q].pc \in {"enable", "complete"} => call'[q] = call[q]
    BY DEF Enable, Return, NoCall, TotpInv, TotpTypes, TotpTypeOK
  <2> QED BY <1>1, <1>2, <2>1 DEF TotpInv, SecretsFresh
<1>4. Counters'
  BY <1>1, <1>2 DEF Counters, Code
<1>5. RecoverySound'
  BY <1>1, <1>2, KindsDiffer DEF RecoverySound, RecoveryCodesOf, Enabled
<1>6. ChallengeConsumedByCode'
  <2>1. \A h \in Challenges : {a \in auths' : a.chal = h} = {a \in auths : a.chal = h}
    BY <1>2
  <2> QED BY <1>2, <2>1 DEF TotpInv, ChallengeConsumedByCode
<1>7. CodeOnceWhileEnabled'
  BY <1>1, <1>2 DEF CodeOnceWhileEnabled
<1>8. RecoveryCodeOnce'
  BY <1>1, <1>2, KindsDiffer DEF TotpInv, RecoveryCodeOnce
<1> QED BY <1>3, <1>4, <1>5, <1>6, <1>7, <1>8 DEF TotpInv

\* Completing a challenge consumes it, and nothing was proven with it before.
LEMMA ConsumedOnce ==
  ASSUME TotpInv, NEW r \in Calls, call[r].pc \in {"complete", "redeem"},
         Consumable(r), challenges' = Consumed(r), Proves(r)
  PROVE  ChallengeConsumedByCode'
<1> DEFINE h == call[r].chal
           new == [chal |-> h, code |-> call[r].code]
<1>1. /\ h \in Challenges /\ challenges[h] # NoRow /\ ~challenges[h].consumed
      /\ challenges'[h] # NoRow /\ challenges'[h].consumed
      /\ \A g \in Challenges : g # h => challenges'[g] = challenges[g]
  BY ConsumedTypes DEF TotpInv, Consumable
<1>2. auths' = auths \cup {new} /\ new.chal = h
  BY DEF Proves
<1>3. {a \in auths : a.chal = h} = {}
  BY <1>1 DEF TotpInv, ChallengeConsumedByCode
<1> HIDE DEF h
<1>4. {a \in auths' : a.chal = h} = {new}
  BY <1>2, <1>3
<1>5. \A g \in Challenges : g # h => {a \in auths' : a.chal = g} = {a \in auths : a.chal = g}
  BY <1>2
<1> HIDE DEF new
<1> QED BY <1>1, <1>4, <1>5 DEF TotpInv, ChallengeConsumedByCode

\* The counter moves on past every code that was accepted for the secret.
LEMMA CompleteCodeInv ==
  ASSUME TotpInv, NEW r \in Calls, CompleteCode(r), CompleteCodeApply(r), TotpTypes'
  PROVE  TotpInv'
<1> USE TotpAssumption, NoTotpRowAssumption
<1> DEFINE new == [chal |-> call[r].chal, code |-> call[r].code]
<1>1. /\ call[r].code \in Code /\ call[r].code.secret \in issued
      /\ enrollment # NoRow => call[r].code.secret # enrollment.secret
      /\ credential \in Credential /\ credential # NoRow /\ Enabled
      /\ credential.last < call[r].code.counter
  BY DEF TotpInv, TotpTypes, TotpTypeOK, TotpCarried, CarriedBy, SecretsFresh, CompleteCode,
         CompleteCodeApply,
         FreshCounter, Enabled
<1>2. /\ credential' # NoRow /\ credential'.disabled = credential.disabled
      /\ credential'.secret = credential.secret /\ credential'.last = call[r].code.counter
      /\ auths' = auths \cup {new}
      /\ UNCHANGED <<enrollment, recovery, issued, abandoned>>
  <2>1. credential' \in Credential
    BY <1>1 DEF CompleteCodeApply, Credential, Code
  <2>2. credential' # NoRow
    BY <2>1
  <2> QED BY <1>1, <2>2 DEF CompleteCodeApply, Credential, Proves
<1>3. SecretsFresh'
  <2>1. \A q \in Calls : call'[q].pc \in {"enable", "complete"} => call'[q] = call[q]
    BY DEF CompleteCode, Return, NoCall, TotpInv, TotpTypes, TotpTypeOK
  <2> QED BY <1>1, <1>2, <2>1 DEF TotpInv, SecretsFresh
<1>4. \A a \in auths : a.code \in Code /\ a.code.secret = credential.secret
                       => a.code.counter < call[r].code.counter
  BY <1>1 DEF TotpInv, Counters, Code, Credential
<1>5. Counters'
  BY <1>1, <1>2, <1>4 DEF Counters, Code
<1>6. RecoverySound'
  BY <1>1, <1>2, KindsDiffer DEF TotpInv, TotpTypes, TotpTypeOK, RecoverySound, Enabled
<1>7. ChallengeConsumedByCode'
  BY ConsumedOnce DEF CompleteCode, CompleteCodeApply
<1>8. CodeOnceWhileEnabled'
  <2>1. \A a \in auths : a.code = new.code => a.code.secret # credential.secret
    BY <1>1, <1>4 DEF Code
  <2> HIDE DEF new
  <2> SUFFICES ASSUME NEW a \in auths', NEW b \in auths', a.code = b.code, a.code \in Code,
                      a.code.secret = credential.secret
               PROVE  a = b
    BY <1>2 DEF CodeOnceWhileEnabled
  <2>2. CASE a = new \/ b = new
    BY <1>2, <2>1, <2>2
  <2>3. CASE a \in auths /\ b \in auths
    BY <1>1, <2>3 DEF TotpInv, CodeOnceWhileEnabled
  <2> QED BY <1>2, <2>2, <2>3
<1>9. RecoveryCodeOnce'
  BY <1>1, <1>2, KindsDiffer DEF TotpInv, RecoveryCodeOnce
<1> QED BY <1>3, <1>5, <1>6, <1>7, <1>8, <1>9 DEF TotpInv

\* A recovery code leaves the unused ones when it is accepted.
LEMMA CompleteRecoveryInv ==
  ASSUME TotpInv, NEW r \in Calls, CompleteRecovery(r), CompleteRecoveryApply(r), TotpTypes'
  PROVE  TotpInv'
<1> DEFINE c == call[r].code
           new == [chal |-> call[r].chal, code |-> c]
<1>1. /\ c \in RecoveryCode /\ c \in recovery /\ Enabled /\ c.secret = credential.secret
      /\ \A a \in auths : a.code # c
  BY DEF TotpInv, TotpTypes, TotpTypeOK, TotpCarried, CarriedBy, CompleteRecovery,
         CompleteRecoveryApply,
         RecoverySound
<1>2. /\ auths' = auths \cup {new} /\ new.code = c
      /\ recovery' = recovery \ {c}
      /\ UNCHANGED <<enrollment, credential, issued, abandoned>>
  BY DEF CompleteRecoveryApply, Proves, Redeemed
<1>3. SecretsFresh'
  <2>1. \A q \in Calls : call'[q].pc \in {"enable", "complete"} => call'[q] = call[q]
    BY DEF CompleteRecovery, Return, NoCall, TotpInv, TotpTypes, TotpTypeOK
  <2> QED BY <1>1, <1>2, <2>1 DEF TotpInv, SecretsFresh, Enabled
<1> HIDE DEF new, c
<1>4. Counters'
  BY <1>1, <1>2, KindsDiffer DEF TotpInv, Counters
<1>5. RecoverySound'
  BY <1>1, <1>2 DEF TotpInv, RecoverySound, Enabled
<1>6. ChallengeConsumedByCode'
  BY ConsumedOnce DEF CompleteRecovery, CompleteRecoveryApply
<1>7. CodeOnceWhileEnabled'
  BY <1>1, <1>2, KindsDiffer DEF TotpInv, CodeOnceWhileEnabled
<1>8. RecoveryCodeOnce'
  BY <1>1, <1>2 DEF TotpInv, RecoveryCodeOnce
<1> QED BY <1>3, <1>4, <1>5, <1>6, <1>7, <1>8 DEF TotpInv

\* A new challenge has authenticated nothing yet.
LEMMA CreateInv ==
  ASSUME TotpInv, NEW r \in Calls, NEW h \in Challenges, CreateChallenge(r, h), TotpTypes'
  PROVE  TotpInv'
<1>0. UNCHANGED <<enrollment, credential, recovery, issued, abandoned, auths>>
  BY DEF CreateChallenge
<1>1. CASE UNCHANGED challenges
  <2>1. UNCHANGED stored
    BY <1>0, <1>1 DEF stored
  <2>2. \/ Return(r)
        \/ \A q \in Calls : call'[q].pc = call[q].pc /\ call'[q].code = call[q].code
    <3> SUFFICES ASSUME ~Return(r) PROVE <2>2!2
      OBVIOUS
    <3>1. call' = [call EXCEPT ![r] = [call[r] EXCEPT !.tries = @ + 1]]
      BY DEF CreateChallenge, Redraw
    <3>2. call[r] \in CallState /\ call \in [Calls -> CallState]
      BY DEF TotpInv, TotpTypes, TotpTypeOK
    <3> QED BY <3>1, <3>2 DEF CallState
  <2> QED BY <2>1, <2>2, UnwrittenInv
<1>2. CASE challenges' # challenges
  <2>1. /\ challenges[h] = NoRow /\ Return(r)
        /\ challenges' = [challenges EXCEPT ![h] =
                             [expires |-> period + ChallengeLifetime, consumed |-> FALSE]]
    BY <1>2 DEF CreateChallenge
  <2>2. /\ ~challenges'[h].consumed
        /\ \A g \in Challenges : g # h => challenges'[g] = challenges[g]
    BY <2>1 DEF TotpInv, TotpTypes, TotpTypeOK
  <2>3. ChallengeConsumedByCode'
    BY <1>0, <2>1, <2>2 DEF TotpInv, ChallengeConsumedByCode
  <2>4. SecretsFresh'
    <3>1. \A q \in Calls : call'[q].pc \in {"enable", "complete"} => call'[q] = call[q]
      BY <2>1 DEF Return, NoCall, TotpInv, TotpTypes, TotpTypeOK
    <3> QED BY <1>0, <3>1 DEF TotpInv, SecretsFresh
  <2>5. Counters' /\ RecoverySound' /\ CodeOnceWhileEnabled' /\ RecoveryCodeOnce'
    BY <1>0 DEF TotpInv, Counters, RecoverySound, CodeOnceWhileEnabled, RecoveryCodeOnce, Enabled
  <2> QED BY <2>3, <2>4, <2>5 DEF TotpInv
<1> QED BY <1>1, <1>2

\* The calls of a request keep the invariant.
LEMMA StepInv ==
  ASSUME TotpInv, NEW r \in Calls, TotpStep(r)
  PROVE  TotpInv'
<1>0. TotpTypes'
  BY StepTypes DEF TotpInv
<1>1. CASE UNCHANGED stored /\ Return(r)
  BY <1>0, <1>1, UnwrittenInv
<1>2. CASE Enable(r) /\ EnableApply(r)
  BY <1>0, <1>2, EnableInv
<1>3. ASSUME NEW h \in Challenges, CreateChallenge(r, h) PROVE TotpInv'
  BY <1>0, <1>3, CreateInv
<1>4. CASE CompleteCode(r) /\ CompleteCodeApply(r)
  BY <1>0, <1>4, CompleteCodeInv
<1>5. CASE CompleteRecovery(r) /\ CompleteRecoveryApply(r)
  BY <1>0, <1>5, CompleteRecoveryInv
<1> QED BY <1>1, <1>2, <1>3, <1>4, <1>5 DEF TotpStep, Enable, CompleteCode, CompleteRecovery,
                                            Refused

\* So does every step.
LEMMA Inductive == TotpInv /\ [TotpNext]_TotpVars => TotpInv'
<1> SUFFICES ASSUME TotpInv, [TotpNext]_TotpVars PROVE TotpInv'
  OBVIOUS
<1> USE TotpAssumption, NoTotpRowAssumption
<1>0. TotpTypes'
  BY TotpTypesInductive DEF TotpInv
<1>1. CASE UNCHANGED <<stored, call>>
  BY <1>0, <1>1 DEF stored, TotpInv, SecretsFresh, Counters, RecoverySound, ChallengeConsumedByCode,
                    CodeOnceWhileEnabled, RecoveryCodeOnce, Enabled
<1>2. CASE Disable
  <2>1. /\ recovery' = {} \/ (recovery' = recovery /\ credential' = credential)
        /\ credential # NoRow <=> credential' # NoRow
        /\ credential # NoRow => /\ credential'.secret = credential.secret
                                /\ credential'.last = credential.last
        /\ UNCHANGED <<period, enrollment, challenges, issued, abandoned, auths, call>>
    <3>1. credential # NoRow => credential' \in Credential
      BY <1>2 DEF Disable, TotpInv, TotpTypes, TotpTypeOK, Credential
    <3> QED BY <1>2, <3>1 DEF Disable, TotpInv, TotpTypes, TotpTypeOK, Credential
  <2> QED BY <1>0, <2>1 DEF TotpInv, SecretsFresh, Counters, RecoverySound, ChallengeConsumedByCode,
                            CodeOnceWhileEnabled, RecoveryCodeOnce, Enabled
<1>3. ASSUME NEW secret \in Secrets, BeginEnrollment(secret)
      PROVE  TotpInv'
  <2>1. /\ enrollment'.secret = secret /\ secret \notin issued /\ issued' = issued \cup {secret}
        /\ abandoned' = abandoned \cup (IF enrollment = NoRow THEN {} ELSE {enrollment.secret})
        /\ UNCHANGED <<period, credential, recovery, challenges, auths, call>>
    BY <1>3 DEF BeginEnrollment
  <2>2. secret \notin abandoned'
    BY <2>1 DEF TotpInv, TotpTypes, TotpTypeOK
  <2>3. SecretsFresh'
    BY <2>1, <2>2 DEF TotpInv, SecretsFresh
  <2>4. Counters' /\ RecoverySound' /\ ChallengeConsumedByCode' /\ CodeOnceWhileEnabled'
        /\ RecoveryCodeOnce'
    BY <2>1 DEF TotpInv, Counters, RecoverySound, ChallengeConsumedByCode,
                CodeOnceWhileEnabled, RecoveryCodeOnce, Enabled
  <2> QED BY <1>0, <2>3, <2>4 DEF TotpInv
<1> QED BY <1>1, <1>2, <1>3, BeginInv, StepInv DEF TotpNext, TotpVars, stored, NextPeriod

\* It holds at the start: no one is enrolled and no challenge is open.
LEMMA Initially == TotpInit => TotpInv
<1> SUFFICES ASSUME TotpInit PROVE TotpInv
  OBVIOUS
<1>1. TotpTypes
  BY TypesInitially
<1> QED BY <1>1 DEF TotpInit, NoCall, TotpInv, SecretsFresh, Counters, RecoverySound,
                    ChallengeConsumedByCode,
                CodeOnceWhileEnabled, RecoveryCodeOnce

\* So it holds throughout.
LEMMA Invariant == TotpSpec => []TotpInv
  BY Initially, Inductive, PTL DEF TotpSpec

-----------------------------------------------------------------------------
(***************************************************************************)
(* The theorems.                                                           *)
(***************************************************************************)

\* Consistent is an invariant: every row has its type, and a sign-in challenge is consumed
\* exactly by the one code it accepted (totp.Manager.Verify and Recover over
\* consumeTOTPChallenge), whatever requests race and whichever transactions fail.
THEOREM ChallengesConsistent == TotpSpec => []Consistent
<1>1. TotpInv => Consistent
  BY DEF TotpInv, TotpTypes, Consistent
<1> QED BY <1>1, Invariant, PTL

\* CodesOnce is an invariant: a code of the enabled secret serves once, as confirmation
\* or for one challenge, and so does each recovery code, however the requests that
\* matched it before the transaction interleave.
THEOREM CodesServeOnce == TotpSpec => []CodesOnce
<1>1. TotpInv => CodesOnce
  BY DEF TotpInv, CodesOnce
<1> QED BY <1>1, Invariant, PTL

\* AbandonedNeverEnabled is an invariant: Enable never enables a secret that a later
\* BeginEnrollment replaced, although a confirmation matched its code before.
THEOREM AbandonedStaysOut == TotpSpec => []AbandonedNeverEnabled
<1>1. TotpInv => AbandonedNeverEnabled
  BY DEF TotpInv, SecretsFresh, AbandonedNeverEnabled
<1> QED BY <1>1, Invariant, PTL

\* DisabledProvesNothing holds of every step: a challenge looked up while the second
\* factor was enabled proves nothing once Disable has committed.
THEOREM DisabledIsFinal == TotpSpec => DisabledProvesNothing
<1>1. ASSUME TotpInv, [TotpNext]_TotpVars
      PROVE  [\A a \in auths' \ auths : a.chal # NoRow => Enabled]_TotpVars
  <2>1. CASE UNCHANGED auths
    BY <2>1
  <2>2. ASSUME NEW r \in Calls, Enable(r), EnableApply(r)
        PROVE  \A a \in auths' \ auths : a.chal # NoRow => Enabled
    BY <2>2 DEF EnableApply
  <2>3. ASSUME NEW r \in Calls, CompleteCodeApply(r) PROVE Enabled
    BY <2>3 DEF CompleteCodeApply, FreshCounter
  <2>4. ASSUME NEW r \in Calls, CompleteRecoveryApply(r) PROVE Enabled
    BY <2>4, <1>1 DEF CompleteRecoveryApply, TotpInv, RecoverySound
  <2>5. \/ UNCHANGED auths
        \/ \E r \in Calls : \/ Enable(r) /\ EnableApply(r)
                            \/ CompleteCodeApply(r) \/ CompleteRecoveryApply(r)
    BY <1>1 DEF TotpNext, TotpVars, NextPeriod, Disable, BeginEnrollment, Begin, TotpStep,
                stored, CheckEnabled,
                FindEnrollment, FindForCode, FindForRecovery, Enable, CreateChallenge,
                CompleteCode, CompleteRecovery, Refused
  <2> QED BY <2>1, <2>2, <2>3, <2>4, <2>5
<1> QED BY <1>1, Invariant, PTL DEF TotpSpec, DisabledProvesNothing

=============================================================================
