------------------------------- MODULE SignIn -------------------------------
(***************************************************************************)
(* The HTTP handlers between the account and its sessions: which requests  *)
(* are given a session, and which requests end the sessions there are.     *)
(*                                                                         *)
(* A handler calls a manager of Accounts and then, in further steps, the   *)
(* session manager.  A session manager is taken at its word here: Create   *)
(* and RevokeAll are one step each (CookieSessions and BearerSessions look *)
(* inside).  A second factor only delays the step that issues the session; *)
(* Totp models it.                                                         *)
(***************************************************************************)
EXTENDS Accounts

CONSTANT Sessions   \* session identifiers, each drawn once

VARIABLES
    live,     \* the account's active sessions
    born,     \* the sessions issued so far
    stage,    \* what the handler of each request does next
    before,   \* history: the sessions there were when a request set out to end them
    vouched,  \* history: the application has resolved an SSO identity to the account
              \* while its address was not verified
    required  \* EmailAndPassword.RequireEmailVerification, the same for the whole run

handlers == <<live, born, stage, before, vouched, required>>

allvars == <<vars, handlers>>

\* "mail" and "mailfirst" precede a verification mail that ends the request or
\* comes before its session; "mailing" follows "mailfirst".  A password or a mailed
\* token leads to "issue", the other ways to sign in, which ask nothing of the
\* address, to "admit".
Stages == {"idle", "manager", "mail", "mailfirst", "mailing", "check", "revoke", "reissue",
           "issue", "admit", "renew", "answered"}

Goto(r, s) == stage' = [stage EXCEPT ![r] = s]

Serving(r) == stage[r] \notin {"idle", "answered"}

\* requireSession: the request comes with a session that is active on arrival.
\* Sessions have no age here, so that some routes' demand for a fresh one is met.
RequireSession(r) == ~Serving(r) /\ live # {}

-----------------------------------------------------------------------------
(***************************************************************************)
(* The manager has returned: what the handler does with its answer.        *)
(***************************************************************************)

\* signUp: no session for an address that has to be verified first; otherwise a mail
\* may come before the session (EmailVerification.SendOnSignUp).
AfterRegister == IF required THEN {"mail"} ELSE {"mailfirst", "issue"}

\* Slip: signIn does not ask whether the address is verified.
AfterLoginUnchecked == "issue"

AfterLogin == IF required THEN "check" ELSE "issue"

\* resetPassword revokes every session (the default, KeepSessionsAfterReset unset).
AfterReset == "revoke"

\* changePassword: revokeOtherSessions is up to the client.
AfterChange == {"reissue", "idle"}

\* AutoSignInAfterVerification
AfterVerify == {"issue", "idle"}

\* The sessions that the request is to end.
Remember(r) == before' = [before EXCEPT ![r] = live]

Forget(r) == before' = [before EXCEPT ![r] = {}]

SignUp(r) ==
    /\ ~Serving(r)
    /\ \E pw \in Passwords : Register(r, pw)
    /\ \E s \in AfterRegister : Goto(r, s)
    /\ Forget(r)
    /\ UNCHANGED <<live, born, vouched, required>>

SignInByPassword(r) ==
    /\ ~Serving(r)
    /\ \E pw \in Passwords : Login(r, pw)
    /\ Goto(r, IF req'[r].pc = "authenticated" THEN AfterLogin ELSE "manager")
    /\ Forget(r)
    /\ UNCHANGED <<live, born, vouched, required>>

SignInByProvider(r) ==
    /\ ~Serving(r)
    /\ \E p \in Providers : ResolveSignIn(r, p)
    /\ Goto(r, "admit")
    /\ Forget(r)
    /\ UNCHANGED <<live, born, vouched, required>>

\* completeOIDC, completeSAML: the application says whose identity it is, and its word
\* is enough.
SignInBySSO(r) ==
    /\ ~Serving(r)
    /\ exists
    /\ vouched' = (vouched \/ ~verified)
    /\ Goto(r, "admit")
    /\ Forget(r)
    /\ UNCHANGED <<vars, live, born, required>>

\* verifyPasskeySignIn, with a store that completes the ceremony: Passkeys shows that
\* the adapters refuse it.
SignInByPasskey(r) ==
    /\ ~Serving(r)
    /\ passkeys # {}
    /\ Goto(r, "admit")
    /\ Forget(r)
    /\ UNCHANGED <<vars, live, born, vouched, required>>

CompleteVerification(r) ==
    /\ ~Serving(r)
    /\ \E tok \in Tokens : VerifyEmail(r, tok)
    /\ \E s \in AfterVerify : Goto(r, s)
    /\ Forget(r)
    /\ UNCHANGED <<live, born, vouched, required>>

CompleteReset(r) ==
    /\ ~Serving(r)
    /\ \E tok \in Tokens, pw \in Passwords : ResetPassword(r, tok, pw)
    /\ Goto(r, AfterReset)
    /\ Remember(r)
    /\ UNCHANGED <<live, born, vouched, required>>

SendMail(r) ==
    /\ ~Serving(r)
    /\ RequestReset(r) \/ RequestVerification(r)
    /\ Goto(r, "manager")
    /\ Forget(r)
    /\ UNCHANGED <<live, born, vouched, required>>

OwnedRequest(r) ==
    /\ RequireSession(r)
    /\ Owned(r)
    /\ Goto(r, IF Free(r)' THEN "idle" ELSE "manager")
    /\ Forget(r)
    /\ UNCHANGED <<live, born, vouched, required>>

\* revokeSessions, and revokeOtherSessions, which goes on to issue a new session.
RevokeRequest(r) ==
    /\ RequireSession(r)
    /\ \E s \in {"revoke", "reissue"} : Goto(r, s)
    /\ Remember(r)
    /\ UNCHANGED <<vars, live, born, vouched, required>>

ManagerStep(r) ==
    /\ stage[r] \in {"manager", "mailing"}
    /\ Step(r)
    /\ CASE req'[r].pc = "authenticated" -> Goto(r, AfterLogin) /\ UNCHANGED before
         [] req'[r].pc = "changed" ->
               \E s \in AfterChange :
                   Goto(r, s) /\ IF s = "idle" THEN UNCHANGED before ELSE Remember(r)
         [] req'[r].pc = "done" ->
               Goto(r, IF stage[r] = "mailing" THEN "issue" ELSE "idle") /\ UNCHANGED before
         [] OTHER -> Goto(r, "manager") /\ UNCHANGED before
    /\ UNCHANGED <<live, born, vouched, required>>

\* emailVerification.Request, called by signUp and signIn themselves.
MailVerification(r) ==
    /\ stage[r] \in {"mail", "mailfirst"}
    /\ \/ verified /\ UNCHANGED vars
          /\ Goto(r, IF stage[r] = "mail" THEN "idle" ELSE "issue")
       \/ RequestVerification(r)
          /\ Goto(r, IF stage[r] = "mail" THEN "manager" ELSE "mailing")
    /\ UNCHANGED <<live, born, before, vouched, required>>

-----------------------------------------------------------------------------
(***************************************************************************)
(* The session manager's part of a request.                                *)
(***************************************************************************)

\* signIn: IsVerified reads the address again; 403 when it is not verified, after a
\* mail with EmailVerification.SendOnSignIn.
CheckVerified(r) ==
    /\ stage[r] = "check"
    /\ \E s \in IF verified THEN {"issue"} ELSE {"mail", "idle"} : Goto(r, s)
    /\ UNCHANGED <<vars, live, born, before, vouched, required>>

\* issueSession, also at the end of a changePassword that has revoked the others.
IssueSession(r, s) ==
    /\ stage[r] \in {"issue", "admit", "renew"}
    /\ s \notin born
    /\ born' = born \cup {s}
    /\ live' = live \cup {s}
    /\ Goto(r, IF stage[r] = "renew" THEN "answered" ELSE "idle")
    /\ UNCHANGED <<vars, before, vouched, required>>

\* Slip: the error of RevokeAll is not looked at.
RevokeAllSessionsUnchecked(r) ==
    /\ stage[r] \in {"revoke", "reissue"}
    /\ live' \in {live, {}}
    /\ Goto(r, IF stage[r] = "revoke" THEN "answered" ELSE "renew")
    /\ UNCHANGED <<vars, born, before, vouched, required>>

\* revokeAllSessions; when it fails the answer is session_revocation_failed.
RevokeAllSessions(r) ==
    /\ stage[r] \in {"revoke", "reissue"}
    /\ \/ /\ live' = {}
          /\ Goto(r, IF stage[r] = "revoke" THEN "answered" ELSE "renew")
          /\ UNCHANGED before
       \/ live' \in {live, {}} /\ Goto(r, "idle") /\ Forget(r)
    /\ UNCHANGED <<vars, born, vouched, required>>

SignOut(s) ==
    /\ s \in live
    /\ live' = live \ {s}
    /\ UNCHANGED <<vars, born, stage, before, vouched, required>>

\* The server stops, the client goes away, or the handler or a call of it fails, as
\* completeProviderAuthentication does when tokens were to go with a redirect.
Drop(r) ==
    /\ Serving(r)
    /\ IF Free(r) THEN UNCHANGED vars ELSE Abandon(r)
    /\ Goto(r, "idle")
    /\ Forget(r)
    /\ UNCHANGED <<live, born, vouched, required>>

-----------------------------------------------------------------------------

SignInInit ==
    /\ Init
    /\ live = {} /\ born = {}
    /\ stage = [r \in Requests |-> "idle"]
    /\ before = [r \in Requests |-> {}]
    /\ vouched = FALSE
    /\ required \in BOOLEAN

HandlerStep(r) ==
    \/ SignUp(r) \/ SignInByPassword(r) \/ SignInByProvider(r) \/ SignInBySSO(r)
    \/ SignInByPasskey(r) \/ CompleteVerification(r) \/ CompleteReset(r) \/ SendMail(r)
    \/ OwnedRequest(r) \/ RevokeRequest(r) \/ ManagerStep(r) \/ MailVerification(r)
    \/ CheckVerified(r) \/ (\E s \in Sessions : IssueSession(r, s))
    \/ RevokeAllSessions(r) \/ Drop(r)

SignInNext ==
    \/ Tick /\ UNCHANGED handlers
    \/ \E s \in Sessions : SignOut(s)
    \/ \E r \in Requests : HandlerStep(r)

SignInSpec == SignInInit /\ [][SignInNext]_allvars

-----------------------------------------------------------------------------
(***************************************************************************)
(* Properties.                                                             *)
(***************************************************************************)

SignInTypeOK ==
    /\ TypeOK
    /\ live \subseteq born /\ born \subseteq Sessions
    /\ stage \in [Requests -> Stages]
    /\ before \in [Requests -> SUBSET Sessions]
    /\ vouched \in BOOLEAN
    /\ required \in BOOLEAN

\* Once a password reset, a change with revokeOtherSessions or a request to revoke
\* the sessions has been answered with success, none of the sessions there were
\* when the password was set or the request arrived is active, whatever was signed
\* in, changed or reset meanwhile.
AnsweredRevocationComplete ==
    \A r \in Requests : stage[r] = "answered" => before[r] \cap live = {}

\* With RequireEmailVerification and until the address is verified, no handler is ever
\* about to issue a session to a password or a mailed token, and no session at all is
\* active unless the application has resolved an SSO identity to the account: the
\* callbacks of OIDC and SAML ask nothing of the address.  Once they have let the owner
\* in, a Google identity or a passkey added from within may too; a password may not.
VerifiedBeforeSession ==
    required /\ ~verified =>
        /\ \A r \in Requests : stage[r] # "issue"
        /\ live # {} => vouched

\* What holds of the account, its sessions and the handlers under way together.
SignInConsistent == SignInTypeOK /\ VerifiedBeforeSession

=============================================================================
