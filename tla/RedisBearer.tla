----------------------------- MODULE RedisBearer -----------------------------
(***************************************************************************)
(* The Redis adapter's AccessSessionStore and RefreshTokenStore: two       *)
(* hashes of records, a set of session IDs per subject and a set of token  *)
(* hashes per session, written by optimistic transactions (Adapter.watch). *)
(*                                                                         *)
(* Every transaction here watches both hashes and every EXEC writes one of *)
(* them, so an EXEC spoils every other transaction under way.  A pipeline  *)
(* without commands is answered by the client library and checks nothing.  *)
(*                                                                         *)
(* RefreshTokenStore.Create has no caller: CreateSession writes the first  *)
(* token.  A call that a spoilt transaction makes read different states is *)
(* discarded whole, so the records of one session are read in one step.    *)
(***************************************************************************)
EXTENDS BearerStore

CONSTANTS
    Requests,
    WatchAttempts    \* 16 in Adapter.watch

VARIABLES
    now,
    bySubject,   \* access:subject:*
    bySession,   \* refresh:session:*
    req

vars == <<access, refresh, now, bySubject, bySession, req>>

Reading == {"create", "rotate", "subject", "members", "records", "exec"}

\* seen: history, the sessions this call has to end if it is a revocation.
Request == [method: {"create", "rotate", "revoke", "revokeAll"},
            pc: {"idle", "watch"} \cup Reading,
            sid: SessionIDs \cup {None}, subject: Subjects \cup {None},
            tok: Tokens \cup {None}, new: Tokens \cup {None}, at: Times,
            tries: 0..(WatchAttempts - 1), dirty: BOOLEAN, reused: BOOLEAN,
            todo: SUBSET SessionIDs, fields: SUBSET Tokens, seen: SUBSET SessionIDs,
            access: [SessionIDs -> AccessSession \cup {None}],
            refresh: [Tokens -> RefreshToken \cup {None}],
            answer: {"none", "ok", "reuse", "conflict", "contention"}]

NoAccess == [sid \in SessionIDs |-> None]
NoRefresh == [t \in Tokens |-> None]

Free(r) == req[r].pc = "idle"

\* The instant a call was made at decides nothing in a revocation.
Called(method, sid, s, t, u, seen) ==
    [method |-> method, pc |-> "watch", sid |-> sid, subject |-> s, tok |-> t, new |-> u,
     at |-> IF method \in {"revoke", "revokeAll"} THEN 0 ELSE now,
     tries |-> 0, dirty |-> FALSE, reused |-> FALSE, todo |-> {}, fields |-> {},
     seen |-> seen, access |-> NoAccess, refresh |-> NoRefresh, answer |-> "none"]

Begin(r, call) ==
    /\ Free(r)
    /\ req' = [req EXCEPT ![r] = call]
    /\ UNCHANGED <<access, refresh, now, bySubject, bySession>>

Answered(q, answer) ==
    [q EXCEPT !.method = "create", !.pc = "idle", !.sid = None, !.subject = None,
              !.tok = None, !.new = None, !.at = 0, !.tries = 0,
              !.dirty = FALSE, !.reused = FALSE, !.todo = {}, !.fields = {}, !.seen = {}, !.access = NoAccess,
              !.refresh = NoRefresh, !.answer = answer]

Answer(r, answer) == req' = [req EXCEPT ![r] = Answered(@, answer)]

-----------------------------------------------------------------------------
(***************************************************************************)
(* The calls of bearerSessionManager and refreshtoken.Manager, which have  *)
(* looked their session or token up before.                                *)
(***************************************************************************)

Resolves(sid) == access[sid] # None /\ ~access[sid].revoked /\ now < access[sid].expires

Listed(s) == {sid \in bySubject[s] : access[sid] # None}

CreateSession(r, sid, s, t) == Begin(r, Called("create", sid, s, t, t, {}))

Revoke(r, s, sid) ==
    /\ sid \in Listed(s) \/ Resolves(sid)
    /\ Begin(r, Called("revoke", sid, None, None, None, {sid}))

RevokeAll(r, s) == Begin(r, Called("revokeAll", None, s, None, None, SessionsOf(s)))

\* FindByTokenHash found t.
Rotate(r, t, u) ==
    /\ refresh[t] # None
    /\ Begin(r, Called("rotate", refresh[t].session, None, t, u, {refresh[t].session}))

-----------------------------------------------------------------------------
(***************************************************************************)
(* The transaction.                                                        *)
(***************************************************************************)

\* Each attempt starts over, except that Rotate's `reused` outlives it.
Watching(q) ==
    [q EXCEPT !.dirty = FALSE, !.access = NoAccess, !.refresh = NoRefresh,
              !.pc = CASE q.method = "create" -> "create"
                       [] q.method = "rotate" -> "rotate"
                       [] q.method = "revoke" -> "members"
                       [] q.method = "revokeAll" -> "subject",
              !.todo = IF q.method = "revoke" THEN {q.sid} ELSE {}]

Watch(r) ==
    /\ req[r].pc = "watch"
    /\ req' = [req EXCEPT ![r] = Watching(@)]
    /\ UNCHANGED <<access, refresh, now, bySubject, bySession>>

ReadForCreate(r) ==
    LET q == req[r] IN
    /\ q.pc = "create"
    /\ IF access[q.sid] # None \/ refresh[q.tok] # None
         THEN Answer(r, "conflict")
         ELSE req' = [req EXCEPT ![r].pc = "exec",
                  ![r].access[q.sid] = NewSession(q.subject, q.at),
                  ![r].refresh[q.tok] = NewToken(q.sid, q.at + RefreshLifetime)]
    /\ UNCHANGED <<access, refresh, now, bySubject, bySession>>

\* The session's own row is not looked at.
ReadForRotate(r) ==
    LET q == req[r] IN
    /\ q.pc = "rotate"
    /\ \/ /\ ~RefreshActive(q.tok, q.at)
          /\ req' = [req EXCEPT ![r].pc = "members", ![r].reused = TRUE, ![r].todo = {q.sid}]
       \/ RefreshActive(q.tok, q.at) /\ refresh[q.new] # None /\ Answer(r, "conflict")
       \/ /\ RefreshActive(q.tok, q.at) /\ refresh[q.new] = None
          /\ req' = [req EXCEPT ![r].pc = "exec",
                  ![r].refresh[q.tok] = [refresh[q.tok] EXCEPT !.rotated = TRUE],
                  ![r].refresh[q.new] = NewToken(q.sid, refresh[q.tok].expires)]
    /\ UNCHANGED <<access, refresh, now, bySubject, bySession>>

ReadSubject(r) ==
    /\ req[r].pc = "subject"
    /\ req' = [req EXCEPT ![r].todo = bySubject[req[r].subject],
                  ![r].pc = IF bySubject[req[r].subject] = {} THEN "exec" ELSE "members"]
    /\ UNCHANGED <<access, refresh, now, bySubject, bySession>>

ReadMembers(r) ==
    /\ req[r].pc = "members"
    /\ \E sid \in req[r].todo :
          req' = [req EXCEPT ![r].pc = "records", ![r].sid = sid, ![r].fields = bySession[sid]]
    /\ UNCHANGED <<access, refresh, now, bySubject, bySession>>

\* RevokeAll leaves out the tokens that are revoked already, the others write them again.
ToRevoke(q) ==
    {t \in q.fields : refresh[t] # None /\ (q.method = "revokeAll" => ~refresh[t].revoked)}

ReadRecords(r) ==
    LET q == req[r]
        left == q.todo \ {q.sid} IN
    /\ q.pc = "records"
    /\ req' = [req EXCEPT ![r].pc = IF left = {} THEN "exec" ELSE "members",
                  ![r].todo = left, ![r].fields = {},
                  ![r].access[q.sid] = IF access[q.sid] # None /\ ~access[q.sid].revoked
                      THEN [access[q.sid] EXCEPT !.revoked = TRUE] ELSE None,
                  ![r].refresh = [t \in Tokens |-> IF t \in ToRevoke(q)
                      THEN [refresh[t] EXCEPT !.revoked = TRUE] ELSE q.refresh[t]]]
    /\ UNCHANGED <<access, refresh, now, bySubject, bySession>>

Clean(r) == ~req[r].dirty

\* Slip: Rotate forgets the set of the session.
MembersAtCreation(r) ==
    IF req[r].method = "create"
      THEN [bySession EXCEPT ![req[r].sid] = @ \cup {req[r].tok}] ELSE bySession

\* SADD of the token that CreateSession or Rotate adds.
Members(r) ==
    LET q == req[r] IN
    IF q.method = "create" \/ (q.method = "rotate" /\ ~q.reused)
      THEN [bySession EXCEPT ![q.sid] = @ \cup {q.new}] ELSE bySession

\* The next attempt follows the spoilt EXEC at once: its WATCH is part of this step.
Retry(r) ==
    IF req[r].tries + 1 < WatchAttempts
      THEN req' = [req EXCEPT ![r] = [Watching(req[r]) EXCEPT !.tries = req[r].tries + 1]]
      ELSE Answer(r, "contention")

Outcome(r) == IF req[r].reused THEN "reuse" ELSE "ok"

Empty(r) == req[r].access = NoAccess /\ req[r].refresh = NoRefresh

\* The whole pipeline takes effect and every other watcher is spoilt; the answer
\* may be lost.
Apply(r) ==
    LET q == req[r] IN
    /\ access' = [sid \in SessionIDs |-> IF q.access[sid] # None THEN q.access[sid] ELSE access[sid]]
    /\ refresh' = [t \in Tokens |-> IF q.refresh[t] # None THEN q.refresh[t] ELSE refresh[t]]
    /\ bySubject' = IF q.method = "create"
                      THEN [bySubject EXCEPT ![q.subject] = @ \cup {q.sid}] ELSE bySubject
    /\ bySession' = Members(r)
    /\ \E answer \in {Outcome(r), "none"} : req' = [x \in Requests |->
           IF x = r THEN Answered(q, answer)
           ELSE IF req[x].pc \in Reading THEN [req[x] EXCEPT !.dirty = TRUE] ELSE req[x]]

Exec(r) ==
    /\ req[r].pc = "exec"
    /\ \/ /\ Empty(r)
          /\ Answer(r, Outcome(r))
          /\ UNCHANGED <<access, refresh, bySubject, bySession>>
       \/ ~Empty(r) /\ Clean(r) /\ Apply(r)
       \/ /\ ~Empty(r) /\ ~Clean(r)
          /\ Retry(r)
          /\ UNCHANGED <<access, refresh, bySubject, bySession>>
    /\ UNCHANGED now

\* A command fails before it has an effect.
Fail(r) ==
    /\ ~Free(r)
    /\ Answer(r, "none")
    /\ UNCHANGED <<access, refresh, now, bySubject, bySession>>

Tick ==
    /\ now < MaxTime
    /\ now' = now + 1
    /\ UNCHANGED <<access, refresh, bySubject, bySession, req>>

Init ==
    /\ StoreInit
    /\ now = 0
    /\ bySubject = [s \in Subjects |-> {}]
    /\ bySession = [sid \in SessionIDs |-> {}]
    /\ req = [r \in Requests |-> Answered(Called("create", None, None, None, None, {}), "none")]

Step(r) ==
    \/ Watch(r) \/ ReadForCreate(r) \/ ReadForRotate(r) \/ ReadSubject(r)
    \/ ReadMembers(r) \/ ReadRecords(r) \/ Exec(r)

Next ==
    \/ Tick
    \/ \E r \in Requests :
          \/ \E s \in Subjects, sid \in SessionIDs :
                Revoke(r, s, sid) \/ \E t \in Tokens : CreateSession(r, sid, s, t)
          \/ \E s \in Subjects : RevokeAll(r, s)
          \/ \E t, u \in Tokens : Rotate(r, t, u)
          \/ Step(r) \/ Fail(r)

Spec == Init /\ [][Next]_vars

-----------------------------------------------------------------------------
\* Every record, set and call keeps its shape, within the attempts of Adapter.watch.
TypeOK ==
    /\ access \in [SessionIDs -> AccessSession \cup {None}]
    /\ refresh \in [Tokens -> RefreshToken \cup {None}]
    /\ now \in Times
    /\ bySubject \in [Subjects -> SUBSET SessionIDs]
    /\ bySession \in [SessionIDs -> SUBSET Tokens]
    /\ req \in [Requests -> Request]

\* Sign-out, RevokeAll and the detection of a reused token have revoked every session
\* they are about when they answer, with all its tokens: the replacement included that
\* a rotation inserted while they were collecting them.
RevokedBeforeAnswer ==
    [][\A r \in Requests :
          /\ ~Free(r)
          /\ \/ req[r].method \in {"revoke", "revokeAll"} /\ req'[r].answer = "ok"
             \/ req[r].method = "rotate" /\ req'[r].answer = "reuse"
          => /\ \A sid \in req[r].seen : access'[sid].revoked
             /\ \A t \in Tokens : refresh'[t] # None /\ refresh'[t].session \in req[r].seen
                    => refresh'[t].revoked]_vars

=============================================================================
