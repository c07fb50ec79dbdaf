--------------------------- MODULE BearerSessions ---------------------------
(***************************************************************************)
(* Bearer sessions: bearerSessionManager over refreshtoken.Manager and     *)
(* accesstoken.Issuer / Verifier, and the routes that drive them.          *)
(*                                                                         *)
(* A durable access session owns a chain of refresh tokens.  The store's   *)
(* methods are atomic steps here, as refreshtoken.Store and                *)
(* AccessSessionStore promise (BearerStore); PostgresBearer and            *)
(* RedisBearer open them up.  Requests interleave between store calls, a   *)
(* store call may fail with or without having taken effect, and a request  *)
(* may be abandoned at any point, so a client may retry a refresh whose    *)
(* answer it never saw.  Where the code reads the clock in the call itself *)
(* (Rotate, ResolveSession) the reading and the store's step are one.      *)
(***************************************************************************)
EXTENDS Integers

CONSTANTS
    Requests,         \* request slots served concurrently
    SessionIDs,       \* access session IDs, drawn at random by Create
    Tokens,           \* refresh token hashes
    Subjects,
    RefreshLifetime,  \* BearerSessionConfig.RefreshTokenLifetime
    AccessLifetime,   \* BearerSessionConfig.AccessTokenLifetime
    Leeway,           \* BearerSessionConfig.Leeway
    MaxTime,          \* bound: the last instant of a modelled run
    None              \* no row, no value

ASSUME BearerAssumption ==
    /\ RefreshLifetime \in Nat /\ AccessLifetime \in Nat \ {0}
    /\ RefreshLifetime > AccessLifetime
    /\ Leeway \in Nat
    /\ MaxTime \in Nat
    /\ None \notin SessionIDs /\ None \notin Tokens /\ None \notin Subjects

VARIABLES
    now,
    access,   \* authlier_access_sessions
    refresh,  \* authlier_refresh_tokens
    jwts,     \* the signed access tokens clients hold
    req,      \* the request in each slot
    parent    \* history: the token each rotated-in refresh token replaced

vars == <<now, access, refresh, jwts, req, parent>>

Times == 0..MaxTime

AccessSession == [subject: Subjects, expires: Nat, revoked: BOOLEAN]

RefreshToken == [session: SessionIDs, expires: Nat, rotated: BOOLEAN, revoked: BOOLEAN]

AccessToken == [sid: SessionIDs, subject: Subjects, expires: Nat]

ASSUME NoneAssumption ==
    None \notin AccessSession /\ None \notin RefreshToken /\ None \notin AccessToken

CreationAttempts == 3

Running == {"create", "find", "session", "rotatefind", "rotate", "verify", "signout",
            "signoutfind", "revoke"}

Results == {"ok", "inactive", "reuse", "notfound", "failed"}

Request == [pc: {"idle"} \cup Running \cup Results,
            op: {"none", "create", "refresh", "resolve", "signout", "revoke", "revokeall"},
            tok: Tokens \cup {None}, new: Tokens \cup {None},
            sid: SessionIDs \cup {None}, jwt: AccessToken \cup {None},
            subject: Subjects \cup {None}, at: Nat,
            tries: 0..(CreationAttempts - 1), live: BOOLEAN]

Idle == [pc |-> "idle", op |-> "none", tok |-> None, new |-> None, sid |-> None,
         jwt |-> None, subject |-> None, at |-> 0, tries |-> 0, live |-> TRUE]

Free(r) == req[r].pc \notin Running

Goto(r, pc) == req' = [req EXCEPT ![r].pc = pc]

\* The method returns.  What the properties read of it stays until the slot
\* serves another request.
Return(r, result) ==
    req' = [req EXCEPT ![r] =
                [Idle EXCEPT !.pc = result, !.op = req[r].op,
                             !.tok = IF result = "reuse" THEN req[r].tok ELSE None,
                             !.live = req[r].live]]

-----------------------------------------------------------------------------
(***************************************************************************)
(* The store.                                                              *)
(***************************************************************************)

\* Slip: a rotated token is still taken for a live one.
RefreshActiveUnlessRevoked(t, at) ==
    /\ refresh[t] # None
    /\ ~refresh[t].revoked
    /\ at < refresh[t].expires

RefreshActive(t, at) ==
    /\ refresh[t] # None
    /\ ~refresh[t].rotated /\ ~refresh[t].revoked
    /\ at < refresh[t].expires

\* ResolveSession: WHERE id = sid AND revoked_at IS NULL AND expires_at > now.
SessionActive(sid) ==
    access[sid] # None /\ ~access[sid].revoked /\ now < access[sid].expires

CreateSession(sid, s, t, at) ==
    /\ access[sid] = None /\ refresh[t] = None
    /\ access' = [access EXCEPT ![sid] =
                     [subject |-> s, expires |-> at + RefreshLifetime, revoked |-> FALSE]]
    /\ refresh' = [refresh EXCEPT ![t] =
                     [session |-> sid, expires |-> at + RefreshLifetime,
                      rotated |-> FALSE, revoked |-> FALSE]]

RevokedTokens(sids) ==
    [t \in Tokens |-> IF refresh[t] # None /\ refresh[t].session \in sids
                      THEN [refresh[t] EXCEPT !.revoked = TRUE] ELSE refresh[t]]

\* Slip: the session's row is revoked and its refresh tokens are forgotten.
RevokeSessionRowOnly(sids) ==
    /\ access' = [sid \in SessionIDs |-> IF access[sid] # None /\ sid \in sids
                                         THEN [access[sid] EXCEPT !.revoked = TRUE]
                                         ELSE access[sid]]
    /\ UNCHANGED refresh

\* revokeAccessSession, for one session or for all sessions of a subject.
RevokeSessions(sids) ==
    /\ access' = [sid \in SessionIDs |-> IF access[sid] # None /\ sid \in sids
                                         THEN [access[sid] EXCEPT !.revoked = TRUE]
                                         ELSE access[sid]]
    /\ refresh' = RevokedTokens(sids)

\* Slip: the replacement starts a full lifetime of its own.
ReplacementRenewed(t) ==
    [session |-> refresh[t].session, expires |-> now + RefreshLifetime,
     rotated |-> FALSE, revoked |-> FALSE]

\* newIssued(current.SessionID, current.ExpiresAt)
Replacement(t) ==
    [session |-> refresh[t].session, expires |-> refresh[t].expires,
     rotated |-> FALSE, revoked |-> FALSE]

\* Rotate consumes an active token ...
Consume(t, u) ==
    /\ RefreshActive(t, now)
    /\ refresh[u] = None
    /\ refresh' = [refresh EXCEPT ![t].rotated = TRUE, ![u] = Replacement(t)]
    /\ parent' = [parent EXCEPT ![u] = t]
    /\ UNCHANGED access

\* Slip: reuse is reported and nothing is revoked.
DetectReuseOnly(t) ==
    /\ refresh[t] # None /\ ~RefreshActive(t, now)
    /\ UNCHANGED <<access, refresh, parent>>

\* ... and revokes the whole session when the token is no longer active.
DetectReuse(t) ==
    /\ refresh[t] # None /\ ~RefreshActive(t, now)
    /\ RevokeSessions({refresh[t].session})
    /\ UNCHANGED parent

SessionsOf(s) == {sid \in SessionIDs : access[sid] # None /\ access[sid].subject = s}

\* Slip: the access token gets its full lifetime whatever is left of the session.
IssueUnbounded(sid, s, until) == [sid |-> sid, subject |-> s, expires |-> now + AccessLifetime]

\* IssueUntil: the access token does not outlive the session.
IssueUntil(sid, s, until) ==
    [sid |-> sid, subject |-> s,
     expires |-> IF now + AccessLifetime > until THEN until ELSE now + AccessLifetime]

-----------------------------------------------------------------------------
(***************************************************************************)
(* Create.                                                                 *)
(***************************************************************************)

BeginCreate(r, s, sid, t) ==
    /\ Free(r)
    /\ req' = [req EXCEPT ![r] = [Idle EXCEPT
                  !.pc = "create", !.op = "create", !.subject = s, !.sid = sid, !.new = t,
                  !.at = now, !.jwt = IssueUntil(sid, s, now + RefreshLifetime)]]
    /\ UNCHANGED <<now, access, refresh, jwts, parent>>

\* One attempt: a colliding ID or token fails the request.
CreateInStore(r) ==
    LET Applied == CreateSession(req[r].sid, req[r].subject, req[r].new, req[r].at) IN
    /\ req[r].pc = "create"
    /\ \/ /\ Applied
          /\ Return(r, "ok")
          /\ jwts' = jwts \cup {req[r].jwt}
       \/ /\ Applied \/ UNCHANGED <<access, refresh>>
          /\ Return(r, "failed")
          /\ UNCHANGED jwts
    /\ UNCHANGED <<now, parent>>

-----------------------------------------------------------------------------
(***************************************************************************)
(* Refresh: look the token up, resolve its session, sign an access token,  *)
(* look the token up again and rotate it.                                  *)
(***************************************************************************)

\* Whether the session a refresh token belongs to had been revoked by then.
TokenLive(t) == refresh[t] = None \/ ~access[refresh[t].session].revoked

BeginRefresh(r, t) ==
    /\ Free(r)
    /\ req' = [req EXCEPT ![r] = [Idle EXCEPT !.pc = "find", !.op = "refresh", !.tok = t,
                                              !.live = TokenLive(t)]]
    /\ UNCHANGED <<now, access, refresh, jwts, parent>>

\* refreshTokens.Resolve; an inactive token goes straight on to Rotate, which
\* detects the reuse.
RefreshFind(r) ==
    LET t == req[r].tok IN
    /\ req[r].pc = "find"
    /\ \/ refresh[t] = None /\ Return(r, "notfound")
       \/ RefreshActive(t, now)
          /\ req' = [req EXCEPT ![r].pc = "session", ![r].sid = refresh[t].session]
       \/ refresh[t] # None /\ ~RefreshActive(t, now) /\ Goto(r, "rotatefind")
       \/ Return(r, "failed")
    /\ UNCHANGED <<now, access, refresh, jwts, parent>>

\* store.ResolveSession; any error reads as an inactive session.
RefreshSession(r) ==
    LET sid == req[r].sid IN
    /\ req[r].pc = "session"
    /\ \/ /\ SessionActive(sid)
          /\ req' = [req EXCEPT ![r].pc = "rotatefind",
                        ![r].jwt = IssueUntil(sid, access[sid].subject, access[sid].expires)]
       \/ Return(r, "inactive")
    /\ UNCHANGED <<now, access, refresh, jwts, parent>>

\* Rotate's own lookup, then newIssued.
RotateFind(r) ==
    /\ req[r].pc = "rotatefind"
    /\ \/ \E u \in Tokens : req' = [req EXCEPT ![r].pc = "rotate", ![r].new = u]
       \/ Return(r, "failed")
    /\ UNCHANGED <<now, access, refresh, jwts, parent>>

\* ErrConflict: another attempt, at most CreationAttempts in all.
Redraw(r) ==
    IF req[r].tries + 1 = CreationAttempts
    THEN Return(r, "failed")
    ELSE \E u \in Tokens : req' = [req EXCEPT ![r].tries = @ + 1, ![r].new = u]

RotateInStore(r) ==
    LET t == req[r].tok IN
    /\ req[r].pc = "rotate"
    /\ \/ /\ Consume(t, req[r].new)
          /\ jwts' = jwts \cup ({req[r].jwt} \ {None})
          /\ Return(r, IF req[r].jwt = None THEN "inactive" ELSE "ok")
       \/ /\ DetectReuse(t)
          /\ Return(r, "reuse")
          /\ UNCHANGED jwts
       \/ /\ RefreshActive(t, now) /\ refresh[req[r].new] # None
          /\ Redraw(r)
          /\ UNCHANGED <<access, refresh, jwts, parent>>
       \/ /\ Consume(t, req[r].new) \/ DetectReuse(t) \/ UNCHANGED <<access, refresh, parent>>
          /\ Return(r, "failed")
          /\ UNCHANGED jwts
    /\ UNCHANGED now

-----------------------------------------------------------------------------
(***************************************************************************)
(* Resolve, sign-out and the revocation routes.                            *)
(***************************************************************************)

\* VerifySession checks the JWT first: its signature, and its expiry with the
\* configured leeway.
Unexpired(jwt) == now < jwt.expires + Leeway

BeginResolve(r, jwt) ==
    /\ Free(r)
    /\ req' = [req EXCEPT ![r] = [Idle EXCEPT
                  !.pc = IF Unexpired(jwt) THEN "verify" ELSE "inactive",
                  !.op = "resolve", !.sid = jwt.sid, !.jwt = jwt,
                  !.live = ~access[jwt.sid].revoked]]
    /\ UNCHANGED <<now, access, refresh, jwts, parent>>

\* Slip: the durable session is looked up and its revocation ignored.
VerifiedUnlessExpired(jwt) == access[jwt.sid] # None /\ now < access[jwt.sid].expires

\* Then the durable session, which must belong to the token's subject.
Verified(jwt) == SessionActive(jwt.sid) /\ access[jwt.sid].subject = jwt.subject

VerifySession(r) ==
    /\ req[r].pc = "verify"
    /\ \/ Verified(req[r].jwt) /\ Return(r, "ok")
       \/ Return(r, "inactive")
    /\ UNCHANGED <<now, access, refresh, jwts, parent>>

\* signOut with an access token: resolve the session, then revoke it; a token
\* that does not resolve and no body is still answered with success.
BeginSignOut(r, jwt) ==
    /\ Free(r)
    /\ \/ /\ Unexpired(jwt) /\ Verified(jwt)
          /\ req' = [req EXCEPT ![r] = [Idle EXCEPT !.pc = "signout", !.op = "signout",
                                                    !.sid = jwt.sid]]
       \/ req' = [req EXCEPT ![r] = [Idle EXCEPT !.pc = "ok", !.op = "signout"]]
    /\ UNCHANGED <<now, access, refresh, jwts, parent>>

\* signOut with a refresh token: a token that is not active is answered with
\* success and nothing is revoked (invalidRefreshTokenError).
BeginSignOutRefresh(r, t) ==
    /\ Free(r)
    /\ req' = [req EXCEPT ![r] = [Idle EXCEPT !.pc = "signoutfind", !.op = "signout",
                                              !.tok = t, !.live = RefreshActive(t, now)]]
    /\ UNCHANGED <<now, access, refresh, jwts, parent>>

\* Slip: a lookup that fails is answered like an unknown token.
SignOutFindLenient(r) ==
    LET t == req[r].tok IN
    /\ req[r].pc = "signoutfind"
    /\ \/ RefreshActive(t, now)
          /\ req' = [req EXCEPT ![r].pc = "signout", ![r].sid = refresh[t].session]
       \/ Return(r, "ok")
    /\ UNCHANGED <<now, access, refresh, jwts, parent>>

SignOutFind(r) ==
    LET t == req[r].tok IN
    /\ req[r].pc = "signoutfind"
    /\ \/ RefreshActive(t, now)
          /\ req' = [req EXCEPT ![r].pc = "signout", ![r].sid = refresh[t].session]
       \/ ~RefreshActive(t, now) /\ Return(r, "ok")
       \/ Return(r, "failed")
    /\ UNCHANGED <<now, access, refresh, jwts, parent>>

\* RevokeByID: only a session the subject's list contains.
BeginRevokeByID(r, s, sid) ==
    /\ Free(r)
    /\ req' = [req EXCEPT ![r] = [Idle EXCEPT
                  !.pc = IF sid \in SessionsOf(s) THEN "revoke" ELSE "notfound",
                  !.op = "revoke", !.sid = sid]]
    /\ UNCHANGED <<now, access, refresh, jwts, parent>>

\* RevokeSessionID
RevokeInStore(r) ==
    /\ req[r].pc \in {"signout", "revoke"}
    /\ \/ RevokeSessions({req[r].sid}) /\ Return(r, "ok")
       \/ /\ RevokeSessions({req[r].sid}) \/ UNCHANGED <<access, refresh>>
          /\ Return(r, "failed")
    /\ UNCHANGED <<now, jwts, parent>>

RevokeAll(r, s) ==
    /\ Free(r)
    /\ \/ /\ RevokeSessions(SessionsOf(s))
          /\ req' = [req EXCEPT ![r] = [Idle EXCEPT !.pc = "ok", !.op = "revokeall"]]
       \/ /\ RevokeSessions(SessionsOf(s)) \/ UNCHANGED <<access, refresh>>
          /\ req' = [req EXCEPT ![r] = [Idle EXCEPT !.pc = "failed", !.op = "revokeall"]]
    /\ UNCHANGED <<now, jwts, parent>>

-----------------------------------------------------------------------------

\* The server stops, or the client disconnects and the context is cancelled.
Abandon(r) ==
    /\ ~Free(r)
    /\ Return(r, "failed")
    /\ UNCHANGED <<now, access, refresh, jwts, parent>>

Tick ==
    /\ now < MaxTime
    /\ now' = now + 1
    /\ UNCHANGED <<access, refresh, jwts, req, parent>>

Init ==
    /\ now = 0
    /\ access = [sid \in SessionIDs |-> None]
    /\ refresh = [t \in Tokens |-> None]
    /\ jwts = {}
    /\ req = [r \in Requests |-> Idle]
    /\ parent = [t \in Tokens |-> None]

Begin(r) ==
    \/ \E s \in Subjects, sid \in SessionIDs, t \in Tokens : BeginCreate(r, s, sid, t)
    \/ \E t \in Tokens : BeginRefresh(r, t) \/ BeginSignOutRefresh(r, t)
    \/ \E jwt \in jwts : BeginResolve(r, jwt) \/ BeginSignOut(r, jwt)
    \/ \E s \in Subjects, sid \in SessionIDs : BeginRevokeByID(r, s, sid)
    \/ \E s \in Subjects : RevokeAll(r, s)

Step(r) ==
    \/ CreateInStore(r)
    \/ RefreshFind(r) \/ RefreshSession(r) \/ RotateFind(r) \/ RotateInStore(r)
    \/ VerifySession(r)
    \/ SignOutFind(r) \/ RevokeInStore(r)

Next == Tick \/ \E r \in Requests : Begin(r) \/ Step(r) \/ Abandon(r)

Spec == Init /\ [][Next]_vars

-----------------------------------------------------------------------------
(***************************************************************************)
(* Properties.                                                             *)
(***************************************************************************)

TypeOK ==
    /\ now \in Times
    /\ access \in [SessionIDs -> AccessSession \cup {None}]
    /\ refresh \in [Tokens -> RefreshToken \cup {None}]
    /\ jwts \subseteq AccessToken
    /\ req \in [Requests -> Request]
    /\ parent \in [Tokens -> Tokens \cup {None}]

\* "A refresh token can be used only once": of all the tokens a session has been
\* given, however many refreshes race or are retried, at most one is unspent.
OneUnspentToken ==
    \A t, u \in Tokens :
        /\ refresh[t] # None /\ ~refresh[t].rotated
        /\ refresh[u] # None /\ ~refresh[u].rotated
        /\ refresh[t].session = refresh[u].session
        => t = u

\* The chain of refresh tokens does not branch, stays within one session and
\* never outlives it: rotation passes on the expiry of the token it replaces.
ChainWithinSession ==
    /\ \A t, u \in Tokens : parent[t] # None /\ parent[t] = parent[u] => t = u
    /\ \A t \in Tokens : refresh[t] # None =>
          /\ access[refresh[t].session] # None
          /\ refresh[t].expires = access[refresh[t].session].expires
          /\ parent[t] # None => /\ refresh[parent[t]].rotated
                                 /\ refresh[parent[t]].session = refresh[t].session

\* Revoking a session, by whatever route, leaves none of its refresh tokens usable,
\* and no refresh token dies while its session lives on.
RevokedTogether ==
    \A t \in Tokens : refresh[t] # None =>
        (refresh[t].revoked <=> access[refresh[t].session].revoked)

\* The refresh tokens of a session form one chain, with one unspent end, that lives and
\* ends with the session.
TokenChain == OneUnspentToken /\ ChainWithinSession /\ RevokedTogether

\* What holds of tables, tokens and requests together, between any two steps.
Consistent == TypeOK /\ TokenChain

\* An access token names the subject of a durable session and ends no later than it.
AccessTokenWithinSession ==
    \A jwt \in jwts :
        /\ access[jwt.sid] # None
        /\ jwt.subject = access[jwt.sid].subject
        /\ jwt.expires <= access[jwt.sid].expires

\* When a refresh answers that it detected reuse, the session is already revoked.
ReuseEndsSession ==
    \A r \in Requests : req[r].pc = "reuse" =>
        /\ refresh[req[r].tok] # None
        /\ access[refresh[req[r].tok].session].revoked

\* Revocation takes effect before the access token expires: a session revoked
\* before a request arrives neither authenticates it nor is refreshed by it.
RevokedNeverServed ==
    \A r \in Requests : req[r].op \in {"resolve", "refresh"} /\ req[r].pc = "ok" => req[r].live

\* A refresh that looked its session up before a concurrent revocation does not
\* spend the token after it: rotation happens only in a session neither revoked nor,
\* by the clock reading handed to Rotate, expired.
RotatesOnlyLiveSession ==
    [][\A t \in Tokens :
          /\ refresh[t] # None /\ ~refresh[t].rotated
          /\ refresh'[t].rotated
          => /\ ~access[refresh[t].session].revoked
             /\ now < access[refresh[t].session].expires]_vars

\* Revocation and rotation are final: no step brings a session or a token back.
NothingRevives ==
    [][/\ \A sid \in SessionIDs : access[sid] # None =>
             /\ access'[sid] # None
             /\ access'[sid].expires = access[sid].expires
             /\ access[sid].revoked => access'[sid].revoked
       /\ \A t \in Tokens : refresh[t] # None =>
             /\ refresh'[t] # None
             /\ refresh[t].rotated => refresh'[t].rotated
             /\ refresh[t].revoked => refresh'[t].revoked]_vars

\* A sign-out that carried a refresh token active on arrival ends its session before
\* it answers success, except when a refresh rotates the token under the lookup: the
\* token then reads as an old one, which signOut answers with success.
SignOutEndsSession ==
    [][\A r \in Requests, sid \in SessionIDs :
          /\ req[r].op = "signout" /\ req[r].pc \in Running
          /\ req[r].tok # None /\ req[r].live
          /\ refresh[req[r].tok].session = sid
          /\ req'[r].pc = "ok"
          => \/ ~SessionActive(sid)'
             \/ req[r].pc = "signoutfind" /\ refresh[req[r].tok].rotated]_vars

Store == INSTANCE BearerStore

\* The manager, with its racing, retried and abandoned requests, asks of the two tables
\* only what refreshtoken.Store and AccessSessionStore provide for.
StoreSpec == Store!StoreSpec

=============================================================================
