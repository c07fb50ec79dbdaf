---------------------------- MODULE MySQLSessions ----------------------------
(***************************************************************************)
(* The MySQL adapter's SessionStore, AccessSessionStore and                *)
(* RefreshTokenStore, each method by what it locks, decides and writes     *)
(* (see MySQLTransactions).  RefreshTokenStore.Create has no caller.       *)
(*                                                                         *)
(* AccessSessionStore.RevokeAll has no SELECT of its own, but InnoDB locks *)
(* what the sub-select of its UPDATE reads.                                *)
(***************************************************************************)
EXTENDS MySQLTransactions

CONSTANTS
    SessionTokens,     \* hashes of cookie session tokens
    Tokens,            \* hashes of refresh tokens
    SessionIDs,        \* bearer sessions
    Lifetime, Extension, AbsoluteLifetime,   \* of cookie sessions
    RefreshLifetime

Session(t) == <<"sessions", t>>
SubjectIndex(s) == <<"sessions.subject", s>>
Access(sid) == <<"access_sessions", sid>>
Refresh(t) == <<"refresh_tokens", t>>

Cookie == INSTANCE SessionStore
            WITH Tokens <- SessionTokens, NoRecord <- None,
                 sessions <- [t \in SessionTokens |-> Row(Session(t))]

Bearer == INSTANCE BearerStore
            WITH access <- [sid \in SessionIDs |-> Row(Access(sid))],
                 refresh <- [t \in Tokens |-> Row(Refresh(t))]

\* UPDATE ... SET revoked_at = COALESCE(revoked_at, ?)
Revoking(D) == [d \in {e \in D : Exists(e)} |-> [rows[d] EXCEPT !.revoked = TRUE]]

\* Slip: the row is read without FOR UPDATE.
ForUpdateMissing(d) == {}

\* SELECT ... FOR UPDATE of one row.
ForUpdate(d) == {d}

-----------------------------------------------------------------------------
(***************************************************************************)
(* Cookie sessions.                                                        *)
(***************************************************************************)

Create(c) == Method({}, "ok", Statements(Session(c.rec.hash) :> c.rec, <<>>))

Extend(c) ==
    LET found == {t \in {c.token} : Cookie!Extendable(t, c.at, c.expires)} IN
    Method({}, IF found = {} THEN "inactive" ELSE "ok",
        Statements(<<>>, [d \in {Session(t) : t \in found} |->
                            [rows[d] EXCEPT !.last = c.at, !.expires = c.expires]]))

Rotate(c) ==
    Method(ForUpdate(Session(c.token)),
        IF ~Exists(Session(c.token)) THEN "not_found"
        ELSE IF ~Cookie!Rotatable(c.token, c.at) THEN "inactive" ELSE "ok",
        Statements(Session(c.rec.hash) :> c.rec, Revoking({Session(c.token)})))

\* The UPDATE of a row that is revoked already changes nothing: the driver reports no row
\* affected, which the method answers as an unknown session.
Revoke(c) ==
    Method({}, IF Exists(Session(c.token)) /\ ~rows[Session(c.token)].revoked THEN "ok"
               ELSE "not_found",
        Statements(<<>>, Revoking({Session(c.token)})))

SessionRows(s) == {Session(t) : t \in Cookie!BelongTo(s)}

\* SELECT ... WHERE subject_id = ? FOR UPDATE: the rows and the range of the index.
SubjectRange(s) == SessionRows(s) \cup {SubjectIndex(s)}

RevokeAll(c) ==
    Method(SubjectRange(c.user), "ok", Statements(<<>>, Revoking(SessionRows(c.user))))

-----------------------------------------------------------------------------
(***************************************************************************)
(* Bearer sessions.                                                        *)
(***************************************************************************)

TokensOf(sids) == {t \in Tokens : Exists(Refresh(t)) /\ rows[Refresh(t)].session \in sids}

\* revokeAccessSession, and the two UPDATEs of RevokeAll
RevokeSessions(sids) ==
    Statements(<<>>,
        Revoking({Access(sid) : sid \in sids} \cup {Refresh(t) : t \in TokensOf(sids)}))

CreateSession(c) ==
    Method({}, "ok",
        Statements(Access(c.sid) :> Bearer!NewSession(c.user, c.at)
                     @@ Refresh(c.new) :> Bearer!NewToken(c.sid, c.at + RefreshLifetime), <<>>))

RevokeAccess(c) == Method({}, "ok", RevokeSessions({c.sid}))

RevokeAllAccess(c) == Method({}, "ok", RevokeSessions(Bearer!SessionsOf(c.user)))

\* The replacement is inserted before the current token is marked as rotated.
RotateRefresh(c) ==
    LET token == rows[Refresh(c.token)] IN
    [locks |-> ForUpdate(Refresh(c.token)),
     answer |-> IF Bearer!RefreshActive(c.token, c.at) THEN "ok" ELSE "reuse",
     write |-> [ok |-> Statements(Refresh(c.new) :> Bearer!NewToken(token.session, token.expires),
                                  Refresh(c.token) :> [token EXCEPT !.rotated = TRUE]),
                reuse |-> RevokeSessions({token.session})]]

-----------------------------------------------------------------------------
(***************************************************************************)
(* The calls.  The managers have looked up the session or token they pass  *)
(* on; a token that is drawn is not one somebody presents already.         *)
(***************************************************************************)

Presented(t) ==
    \E x \in Requests : /\ req[x].call # None /\ "token" \in DOMAIN req[x].call
                         /\ req[x].call.token = t

SessionCalls(r) ==
    \/ \E t \in SessionTokens, s \in Subjects :
          ~Presented(t) /\ Call(r, [method |-> "create", rec |-> Cookie!NewRecord(t, s, now)])
    \/ \E t \in SessionTokens :
          /\ Exists(Session(t))
          /\ \/ /\ Extension
                /\ Call(r, [method |-> "extend", token |-> t, at |-> now,
                            expires |-> Cookie!ExtendedExpiry(rows[Session(t)], now)])
             \/ /\ Cookie!ActiveAt(rows[Session(t)], now)
                /\ \E u \in SessionTokens : ~Presented(u) /\
                      Call(r, [method |-> "rotate", token |-> t, at |-> now,
                               rec |-> Cookie!NewRecord(u, rows[Session(t)].subject, now)])
    \/ \E t \in SessionTokens : Call(r, [method |-> "revoke", token |-> t])
    \/ \E s \in Subjects : Call(r, [method |-> "revokeAll", user |-> s])

BearerCalls(r) ==
    \/ \E sid \in SessionIDs, s \in Subjects, t \in Tokens :
          ~Presented(t) /\ Call(r, [method |-> "createSession", sid |-> sid, user |-> s,
                                    new |-> t, at |-> now])
    \/ \E sid \in SessionIDs :
          Exists(Access(sid)) /\ Call(r, [method |-> "revokeAccess", sid |-> sid])
    \/ \E s \in Subjects : Call(r, [method |-> "revokeAllAccess", user |-> s])
    \/ \E t, u \in Tokens :
          /\ Exists(Refresh(t)) /\ ~Presented(u)
          /\ Call(r, [method |-> "rotateRefresh", token |-> t, new |-> u, at |-> now])

=============================================================================
