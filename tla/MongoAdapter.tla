---------------------------- MODULE MongoAdapter ----------------------------
(***************************************************************************)
(* The MongoDB adapter as a whole: all its stores in one database, written *)
(* by the two kinds of methods of MongoTransactions.                       *)
(***************************************************************************)
EXTENDS MongoSessions, MongoAccounts, MongoTotp

vars == <<docs, req, now>>

Decision(c) ==
    CASE c.method = "create" -> Create(c)
      [] c.method = "extend" -> Extend(c)
      [] c.method = "rotate" -> Rotate(c)
      [] c.method = "revoke" -> Revoke(c)
      [] c.method = "revokeAll" -> RevokeAll(c)
      [] c.method = "createSession" -> CreateSession(c)
      [] c.method = "revokeAccess" -> RevokeAccess(c)
      [] c.method = "revokeAllAccess" -> RevokeAllAccess(c)
      [] c.method = "rotateRefresh" -> RotateRefresh(c)
      [] c.method = "register" -> Register(c)
      [] c.method = "addPassword" -> AddPassword(c)
      [] c.method = "replaceHash" -> ReplacePasswordHash(c)
      [] c.method = "removePassword" -> RemovePassword(c)
      [] c.method = "issue" -> Issue(c)
      [] c.method = "verify" -> Verify(c)
      [] c.method = "reset" -> ResetPassword(c)
      [] c.method = "resolve" -> ResolveIdentity(c)
      [] c.method = "unlink" -> UnlinkIdentity(c)
      [] c.method = "createCeremony" -> CreateCeremony(c)
      [] c.method = "completeRegistration" -> CompleteRegistration(c)
      [] c.method = "completeAuthentication" -> CompleteAuthentication(c)
      [] c.method = "deleteCredential" -> DeleteCredential(c)
      [] c.method = "beginEnrollment" -> BeginEnrollment(c)
      [] c.method = "enable" -> Enable(c)
      [] c.method = "disable" -> Disable(c)
      [] c.method = "createChallenge" -> CreateChallenge(c)
      [] c.method = "completeCode" -> CompleteCode(c)
      [] c.method = "completeRecovery" -> CompleteRecovery(c)
      [] c.method = "createFlow" -> CreateFlow(c)
      [] c.method = "consumeFlow" -> ConsumeFlow(c)

\* The methods that are one write of one document, outside any transaction.
SingleWrites == {"create", "extend", "revoke", "replaceHash", "issue", "createCeremony",
                 "beginEnrollment", "createChallenge", "createFlow", "consumeFlow"}

Run(r) ==
    /\ Open(r)
    /\ \/ req[r].call.method \in SingleWrites /\ Put(r, Decision(req[r].call))
       \/ req[r].call.method \notin SingleWrites /\ Attempt(r, Decision(req[r].call))

\* Bound: the documents and calls are those of one group of stores.  No method reads or
\* writes a document of another group, and each property is about one of them.
Only(collections, methods) ==
    /\ \A d \in DOMAIN docs : d[1] \in collections
    /\ \A x \in Requests : req[x].call # None => req[x].call.method \in methods

AccountsOnly ==
    Only({"users", "users.email", "password_credentials", "google_identities",
          "passkey_credentials", "passkey_ceremonies"} \cup Kinds,
         {"register", "addPassword", "replaceHash", "removePassword", "issue", "verify",
          "reset", "resolve", "unlink", "createCeremony", "completeRegistration",
          "completeAuthentication", "deleteCredential"})

SessionsOnly == Only({"sessions"}, {"create", "extend", "rotate", "revoke", "revokeAll"})

BearerOnly ==
    Only({"access_sessions", "refresh_tokens"},
         {"createSession", "revokeAccess", "revokeAllAccess", "rotateRefresh"})

TotpOnly ==
    Only({"totp_enrollments", "totp_credentials", "totp_recovery_codes", "totp_challenges"},
         {"beginEnrollment", "enable", "disable", "createChallenge", "completeCode",
          "completeRecovery"})

FlowsOnly == Only(FlowCollections, {"createFlow", "consumeFlow"})

\* The methods of accounts do not look at the clock, which stands still for them.
Calls(r) ==
    \/ AccountsOnly /\ now = 0 /\ AccountCalls(r)
    \/ SessionsOnly /\ SessionCalls(r)
    \/ BearerOnly /\ BearerCalls(r)
    \/ TotpOnly /\ TotpCalls(r)
    \/ FlowsOnly /\ FlowCalls(r)

Init == docs = <<>> /\ req = [r \in Requests |-> Idle] /\ now = 0

Next ==
    \/ (SessionsOnly \/ BearerOnly \/ TotpOnly) /\ Tick
    \/ \E r \in Requests : Calls(r) \/ Run(r) \/ Commit(r) \/ Fail(r)

Spec == Init /\ [][Next]_vars

-----------------------------------------------------------------------------
\* The values the documents of a collection may have.
Values(collection) ==
    CASE collection = "sessions" -> Cookie!Record
      [] collection = "access_sessions" -> Bearer!AccessSession
      [] collection = "refresh_tokens" -> Bearer!RefreshToken
      [] collection = "users" -> [email: Emails, verified: BOOLEAN]
      [] collection = "password_credentials" -> Hashes
      [] collection \in Kinds -> MailTokens
      [] collection = "passkey_ceremonies" ->
            [type: {"registration", "authentication"}, user: Users \cup {None}, consumed: BOOLEAN]
      [] collection = "totp_enrollments" -> [secret: Secrets, expires: Nat]
      [] collection = "totp_credentials" -> [secret: Secrets, last: Nat, disabled: BOOLEAN]
      [] collection = "totp_recovery_codes" -> [user: Subjects, used: BOOLEAN]
      [] collection = "totp_challenges" -> [user: Subjects, expires: Nat, consumed: BOOLEAN]
      [] collection \in FlowCollections -> Nat
      [] OTHER -> Users     \* users.email, google_identities, passkey_credentials

Collections ==
    {"sessions", "access_sessions", "refresh_tokens", "users", "users.email",
     "password_credentials", "google_identities", "passkey_credentials", "passkey_ceremonies",
     "totp_enrollments", "totp_credentials", "totp_recovery_codes", "totp_challenges"}
      \cup Kinds \cup FlowCollections

ASSUME MongoAssumption ==
    /\ MaxTime \in Nat
    /\ Lifetime \in Nat /\ AbsoluteLifetime \in Nat /\ RefreshLifetime \in Nat
    /\ EnrollmentLifetime \in Nat /\ ChallengeLifetime \in Nat

ASSUME NoValueAssumption == \A collection \in Collections : None \notin Values(collection)

\* The documents keep their shape, and a decision that waits for its commit has a write.
TypeOK ==
    /\ \A d \in DOMAIN docs : docs[d] \in Values(d[1])
    /\ \A r \in Requests : Prepared(r) => req[r].out.write # <<>>
    /\ now \in 0..MaxTime

\* What holds of the documents together, whichever calls race: their shape, a way to sign
\* in, one Google identity, one account per address, no recovery codes of a disabled factor.
Consistent ==
    TypeOK /\ NeverLockedOut /\ OneIdentityPerUser /\ EmailsUnique /\ CodesOnlyWhileEnabled

\* What a transaction commits is still what its method would decide from the documents it
\* commits to, although MongoDB validates only the ones it writes.  RevokeAll alone may
\* miss documents that were inserted since its snapshot.
DecisionsStillHold ==
    [][\A r \in Requests : Prepared(r) /\ Commit(r) =>
          LET then == req[r].out
              today == Decision(req[r].call) IN
          /\ then.answer = today.answer
          /\ \A d \in DOMAIN then.write : d \in DOMAIN today.write /\ today.write[d] = then.write[d]
          /\ req[r].call.method \notin {"revokeAll", "revokeAllAccess"}
             => DOMAIN today.write = DOMAIN then.write]_vars

\* The two groups of sessions implement what their managers are promised: each method takes
\* effect in one step, except that RevokeAll may miss a session created meanwhile.
StoresSpec == Cookie!WeakStoreSpec /\ Bearer!WeakStoreSpec

\* RevokeAll, a sign-out and the detection of a reused token have revoked every document
\* they are about when they answer: those that were there when they were called, and the
\* replacement that a rotation inserted meanwhile.
RevokedBeforeAnswer ==
    [][\A r \in Requests :
          /\ \/ Prepared(r) /\ Commit(r)
                /\ (req[r].call.method = "rotateRefresh" => req[r].out.answer = "reuse")
             \/ Open(r) /\ Run(r)
                /\ Decision(req[r].call).answer \in {"ok", "reuse"}
                /\ DOMAIN Decision(req[r].call).write = {}
          => \A d \in req[r].seen : docs'[d].revoked]_vars

\* What the managers of sessions rely on, together: their stores change as the abstract ones
\* do, and a revocation that has been answered is complete.
PromisesKept == StoresSpec /\ RevokedBeforeAnswer

=============================================================================
