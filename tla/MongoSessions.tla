---------------------------- MODULE MongoSessions ----------------------------
(***************************************************************************)
(* The MongoDB adapter's SessionStore, AccessSessionStore and              *)
(* RefreshTokenStore.  Each method is an operator that says what it        *)
(* decides from the documents it finds (see MongoTransactions).            *)
(*                                                                         *)
(* RefreshTokenStore.Create has no caller: CreateSession writes the first  *)
(* token.  Rotate's `reused` outlives the attempts of its closure, but a   *)
(* token that was found spent stays spent, so every later attempt sets it  *)
(* again.                                                                  *)
(***************************************************************************)
EXTENDS MongoTransactions

CONSTANTS
    SessionTokens,     \* hashes of cookie session tokens
    Tokens,            \* hashes of refresh tokens
    SessionIDs,        \* bearer sessions
    Lifetime, Extension, AbsoluteLifetime,   \* of cookie sessions
    RefreshLifetime

Session(t) == <<"sessions", t>>
Access(sid) == <<"access_sessions", sid>>
Refresh(t) == <<"refresh_tokens", t>>

Cookie == INSTANCE SessionStore
            WITH Tokens <- SessionTokens, NoRecord <- None,
                 sessions <- [t \in SessionTokens |-> Doc(Session(t))]

Bearer == INSTANCE BearerStore
            WITH access <- [sid \in SessionIDs |-> Doc(Access(sid))],
                 refresh <- [t \in Tokens |-> Doc(Refresh(t))]

SessionDocs(s) == {Session(t) : t \in Cookie!BelongTo(s)}

\* UpdateMany of those of the documents whose revoked_at is not set.
Revoking(D) ==
    [d \in {e \in D : Exists(e) /\ ~docs[e].revoked} |-> [docs[d] EXCEPT !.revoked = TRUE]]

-----------------------------------------------------------------------------
(***************************************************************************)
(* Cookie sessions.                                                        *)
(***************************************************************************)

Create(c) ==
    IF Exists(Session(c.rec.hash)) THEN Refuse("conflict")
    ELSE Ok(Session(c.rec.hash) :> c.rec)

\* FindOneAndUpdate: one document, one step.
Extend(c) ==
    IF Cookie!Extendable(c.token, c.at, c.expires)
      THEN Ok(Session(c.token) :> [docs[Session(c.token)] EXCEPT !.last = c.at,
                                                               !.expires = c.expires])
    ELSE Refuse("inactive")

Rotate(c) ==
    IF ~Exists(Session(c.token)) THEN Refuse("not_found")
    ELSE IF ~Cookie!Rotatable(c.token, c.at) THEN Refuse("inactive")
    ELSE IF Exists(Session(c.rec.hash)) THEN Refuse("conflict")
    ELSE Ok(Session(c.rec.hash) :> c.rec @@ Revoking({Session(c.token)}))

\* UpdateOne of an unrevoked document; when none matched, FindOne tells a session that
\* is revoked already from an unknown one.
Revoke(c) ==
    IF Exists(Session(c.token)) THEN Ok(Revoking({Session(c.token)})) ELSE Refuse("not_found")

RevokeAll(c) == Ok(Revoking(SessionDocs(c.user)))

-----------------------------------------------------------------------------
(***************************************************************************)
(* Bearer sessions.                                                        *)
(***************************************************************************)

TokensOf(sids) == {t \in Tokens : Exists(Refresh(t)) /\ docs[Refresh(t)].session \in sids}

\* Slip: the session is revoked, its tokens are not.
RevokeSessionOnly(sids) == Revoking({Access(sid) : sid \in sids})

\* revokeAccessSession, and the two UpdateMany of RevokeAll
RevokeSessions(sids) ==
    Revoking({Access(sid) : sid \in sids} \cup {Refresh(t) : t \in TokensOf(sids)})

CreateSession(c) ==
    IF Exists(Access(c.sid)) \/ Exists(Refresh(c.new)) THEN Refuse("error")
    ELSE Ok(Access(c.sid) :> Bearer!NewSession(c.user, c.at)
              @@ Refresh(c.new) :> Bearer!NewToken(c.sid, c.at + RefreshLifetime))

RevokeAccess(c) == Ok(RevokeSessions({c.sid}))

RevokeAllAccess(c) == Ok(RevokeSessions(Bearer!SessionsOf(c.user)))

RotateRefresh(c) ==
    LET token == docs[Refresh(c.token)] IN
    IF ~Bearer!RefreshActive(c.token, c.at) THEN
            [answer |-> "reuse", write |-> RevokeSessions({token.session})]
    ELSE IF Exists(Refresh(c.new)) THEN Refuse("conflict")
    ELSE Ok(Refresh(c.new) :> Bearer!NewToken(token.session, token.expires)
              @@ Refresh(c.token) :> [token EXCEPT !.rotated = TRUE])

-----------------------------------------------------------------------------
(***************************************************************************)
(* The calls.  The managers have looked up the session or token they pass  *)
(* on; a token that is drawn is not one somebody presents already.         *)
(***************************************************************************)

Presented(t) ==
    \E x \in Requests : /\ req[x].call # None /\ "token" \in DOMAIN req[x].call
                         /\ req[x].call.token = t

CallCreate(r, t, s) ==
    /\ ~Presented(t)
    /\ Call(r, [method |-> "create", rec |-> Cookie!NewRecord(t, s, now)], {})

CallExtend(r, t) ==
    /\ Extension /\ Exists(Session(t))
    /\ Call(r, [method |-> "extend", token |-> t, at |-> now,
                expires |-> Cookie!ExtendedExpiry(docs[Session(t)], now)], {})

CallRotate(r, t, u) ==
    /\ Exists(Session(t)) /\ Cookie!ActiveAt(docs[Session(t)], now)
    /\ ~Presented(u)
    /\ Call(r, [method |-> "rotate", token |-> t, at |-> now,
                rec |-> Cookie!NewRecord(u, docs[Session(t)].subject, now)], {})

CallRevoke(r, t) == Call(r, [method |-> "revoke", token |-> t], {})

CallRevokeAll(r, s) == Call(r, [method |-> "revokeAll", user |-> s], SessionDocs(s))

SessionCalls(r) ==
    \/ \E t \in SessionTokens :
          \/ \E s \in Subjects : CallCreate(r, t, s)
          \/ \E u \in SessionTokens : CallRotate(r, t, u)
          \/ CallExtend(r, t) \/ CallRevoke(r, t)
    \/ \E s \in Subjects : CallRevokeAll(r, s)

BearerDocs(sids) == {Access(sid) : sid \in sids} \cup {Refresh(t) : t \in TokensOf(sids)}

CallCreateSession(r, sid, s, t) ==
    /\ ~Presented(t)
    /\ Call(r, [method |-> "createSession", sid |-> sid, user |-> s, new |-> t, at |-> now], {})

CallRevokeAccess(r, sid) ==
    /\ Exists(Access(sid))
    /\ Call(r, [method |-> "revokeAccess", sid |-> sid], BearerDocs({sid}))

CallRevokeAllAccess(r, s) ==
    Call(r, [method |-> "revokeAllAccess", user |-> s], BearerDocs(Bearer!SessionsOf(s)))

\* FindByTokenHash found t.
CallRotateRefresh(r, t, u) ==
    /\ Exists(Refresh(t)) /\ ~Presented(u)
    /\ Call(r, [method |-> "rotateRefresh", token |-> t, new |-> u, at |-> now],
            BearerDocs({docs[Refresh(t)].session}))

BearerCalls(r) ==
    \/ \E sid \in SessionIDs :
          \/ \E s \in Subjects, t \in Tokens : CallCreateSession(r, sid, s, t)
          \/ CallRevokeAccess(r, sid)
    \/ \E s \in Subjects : CallRevokeAllAccess(r, s)
    \/ \E t, u \in Tokens : CallRotateRefresh(r, t, u)

=============================================================================
