---------------------------- MODULE MySQLAdapter ----------------------------
(***************************************************************************)
(* The MySQL adapter as a whole: all its stores in one database, run by    *)
(* the transactions of MySQLTransactions.                                  *)
(***************************************************************************)
EXTENDS MySQLSessions, MySQLAccounts, MySQLTotp

vars == <<rows, req, now>>

MethodOf(c) ==
    CASE c.method = "create" -> Create(c)
      [] c.method = "extend" -> Extend(c)
      [] c.method = "rotate" -> Rotate(c)
      [] c.method = "revoke" -> Revoke(c)
      [] c.method = "revokeAll" -> RevokeAll(c)
      [] c.method = "createSession" -> CreateSession(c)
      [] c.method = "revokeAccess" -> RevokeAccess(c)
      [] c.method = "revokeAllAccess" -> RevokeAllAccess(c)
      [] c.method = "rotateRefresh" -> RotateRefresh(c)
      [] c.method = "register" -> Register(c)
      [] c.method = "addPassword" -> AddPassword(c)
      [] c.method = "replaceHash" -> ReplacePasswordHash(c)
      [] c.method = "removePassword" -> RemovePassword(c)
      [] c.method = "issue" -> Issue(c)
      [] c.method = "verify" -> Verify(c)
      [] c.method = "reset" -> ResetPassword(c)
      [] c.method = "resolve" -> ResolveIdentity(c)
      [] c.method = "unlink" -> UnlinkIdentity(c)
      [] c.method = "createCeremony" -> CreateCeremony(c)
      [] c.method = "completeRegistration" -> CompleteRegistration(c)
      [] c.method = "completeAuthentication" -> CompleteAuthentication(c)
      [] c.method = "deleteCredential" -> DeleteCredential(c)
      [] c.method = "beginEnrollment" -> BeginEnrollment(c)
      [] c.method = "enable" -> Enable(c)
      [] c.method = "disable" -> Disable(c)
      [] c.method = "createChallenge" -> CreateChallenge(c)
      [] c.method = "completeCode" -> CompleteCode(c)
      [] c.method = "completeRecovery" -> CompleteRecovery(c)
      [] c.method = "createFlow" -> CreateFlow(c)
      [] c.method = "consumeFlow" -> ConsumeFlow(c)

\* The methods with a SELECT, which decide before they write.
Selecting == {"rotate", "revokeAll", "rotateRefresh", "addPassword", "removePassword", "verify",
              "reset", "resolve", "unlink", "deleteCredential", "enable", "consumeFlow"}

Run(r) ==
    /\ Open(r)
    /\ LET c == req[r].call IN
       \/ c.method \notin Selecting /\ Put(r, MethodOf(c))
       \/ /\ c.method \in Selecting
          /\ Begin(r, MethodOf(c), IF c.method = "revokeAll" THEN SessionRows(c.user) ELSE {})

Finish(r) == Decided(r) /\ Commit(r, MethodOf(req[r].call))

\* Bound: the rows and calls are those of one group of stores.  No method reads or writes
\* a row of another group, and each property is about one of them.
Only(tables, methods) ==
    /\ \A d \in DOMAIN rows : d[1] \in tables
    /\ \A x \in Requests : req[x].call # None => req[x].call.method \in methods

AccountsOnly ==
    Only({"users", "users.email", "password_credentials", "google_identities",
          "google_identities.user", "passkey_credentials", "passkey_ceremonies"} \cup Kinds,
         {"register", "addPassword", "replaceHash", "removePassword", "issue", "verify",
          "reset", "resolve", "unlink", "createCeremony", "completeRegistration",
          "completeAuthentication", "deleteCredential"})

SessionsOnly == Only({"sessions"}, {"create", "extend", "rotate", "revoke", "revokeAll"})

BearerOnly ==
    Only({"access_sessions", "refresh_tokens"},
         {"createSession", "revokeAccess", "revokeAllAccess", "rotateRefresh"})

TotpOnly ==
    Only({"totp_enrollments", "totp_credentials", "totp_recovery_codes", "totp_challenges"},
         {"beginEnrollment", "enable", "disable", "createChallenge", "completeCode",
          "completeRecovery"})

FlowsOnly == Only(FlowTables, {"createFlow", "consumeFlow"})

\* The methods of accounts do not look at the clock, which stands still for them.
Calls(r) ==
    \/ AccountsOnly /\ now = 0 /\ AccountCalls(r)
    \/ SessionsOnly /\ SessionCalls(r)
    \/ BearerOnly /\ BearerCalls(r)
    \/ TotpOnly /\ TotpCalls(r)
    \/ FlowsOnly /\ FlowCalls(r)

Init == rows = <<>> /\ req = [r \in Requests |-> Idle] /\ now = 0

Next ==
    \/ (SessionsOnly \/ BearerOnly \/ TotpOnly) /\ Tick
    \/ \E r \in Requests : Calls(r) \/ Run(r) \/ Finish(r) \/ Fail(r)

Spec == Init /\ [][Next]_vars

-----------------------------------------------------------------------------
\* The values the rows of a table may have.
Values(table) ==
    CASE table = "sessions" -> Cookie!Record
      [] table = "access_sessions" -> Bearer!AccessSession
      [] table = "refresh_tokens" -> Bearer!RefreshToken
      [] table = "users" -> [email: Emails, verified: BOOLEAN]
      [] table = "password_credentials" -> Hashes
      [] table \in Kinds -> MailTokens
      [] table = "google_identities.user" -> Identities
      [] table = "passkey_ceremonies" ->
            [type: {"registration", "authentication"}, user: Users \cup {None}, consumed: BOOLEAN]
      [] table = "totp_enrollments" -> [secret: Secrets, expires: Nat]
      [] table = "totp_credentials" -> [secret: Secrets, last: Nat, disabled: BOOLEAN]
      [] table = "totp_recovery_codes" -> [user: Subjects, used: BOOLEAN]
      [] table = "totp_challenges" -> [user: Subjects, expires: Nat, consumed: BOOLEAN]
      [] table \in FlowTables -> Nat
      [] OTHER -> Users     \* users.email, google_identities, passkey_credentials

Tables ==
    {"sessions", "access_sessions", "refresh_tokens", "users", "users.email",
     "password_credentials", "google_identities", "google_identities.user",
     "passkey_credentials", "passkey_ceremonies", "totp_enrollments", "totp_credentials",
     "totp_recovery_codes", "totp_challenges"}
      \cup Kinds \cup FlowTables

ASSUME MySQLAssumption ==
    /\ MaxTime \in Nat
    /\ Lifetime \in Nat /\ AbsoluteLifetime \in Nat /\ RefreshLifetime \in Nat
    /\ EnrollmentLifetime \in Nat /\ ChallengeLifetime \in Nat

ASSUME NoValueAssumption == \A table \in Tables : None \notin Values(table)

\* The rows keep their shape, and a row that exists is locked by one transaction.
TypeOK ==
    /\ \A d \in DOMAIN rows : rows[d] \in Values(d[1])
    /\ \A r, x \in Requests : \A d \in req[r].held \cap req[x].held : r # x => ~Exists(d)
    /\ now \in 0..MaxTime

\* What holds of the rows together, whichever calls race: their shape, a way to sign in,
\* one Google identity, one account per address, no recovery codes of a disabled factor.
Consistent ==
    TypeOK /\ NeverLockedOut /\ OneIdentityPerUser /\ EmailsUnique /\ CodesOnlyWhileEnabled

\* The one thing that no lock of RemovePassword keeps: it has compared the hash in a plain
\* SELECT, and ReplacePasswordHash, which does not lock the user's row, has replaced it
\* since.  A sign-in replaces it by another hash of the same password, ChangePassword by
\* one of a new password; the DELETE removes either.  What else the removal was decided
\* from still stands: there is a password, and another way to sign in.
HashReplaced(c) ==
    /\ c.method = "removePassword"
    /\ Exists(Password(c.user)) /\ rows[Password(c.user)] # c.current
    /\ IdentitiesOf(c.user) \cup PasskeysOf(c.user) # {}

\* What a transaction has decided is what its method would decide from the rows its
\* statements work on: a token is spent, a state consumed, a sign-in method removed only if
\* that is still right.  RemovePassword is excepted in one respect (HashReplaced): it may
\* delete a password that was set after it compared the hash.
DecisionsStillHold ==
    [][\A r \in Requests : Decided(r) /\ Finish(r) =>
          MethodOf(req[r].call).answer = req[r].answer \/ HashReplaced(req[r].call)]_vars

\* The two groups of sessions implement what their managers are promised: each method takes
\* effect in one step, on the rows it then finds.
StoresSpec == Cookie!StoreSpec /\ Bearer!StoreSpec

\* RevokeAll has revoked every session of the subject when it answers, those created or
\* rotated in while it ran included, and returns all of them: the manager removes from its
\* cache what it returns.  Revoke has, whether it answers success or an unknown session.
RevokedBeforeAnswer ==
    [][\A r \in Requests :
          /\ Finish(r) /\ req[r].call.method = "revokeAll" =>
                /\ SessionRows(req[r].call.user) = req[r].found
                /\ \A d \in DOMAIN rows' : d \in req[r].found => rows'[d].revoked
          /\ Open(r) /\ Run(r) /\ req[r].call.method = "revoke" =>
                \A d \in {Session(req[r].call.token)} \cap DOMAIN rows' : rows'[d].revoked]_vars

\* What the managers of sessions rely on, together: their stores change as the abstract ones
\* do, and a revocation that has been answered is complete.
PromisesKept == StoresSpec /\ RevokedBeforeAnswer

=============================================================================
