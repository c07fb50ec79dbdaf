---------------------------- MODULE RedisSessions ----------------------------
(***************************************************************************)
(* The Redis adapter's SessionStore.  The sessions are fields of one hash, *)
(* the token hashes of each subject a set beside it, and a method is an    *)
(* optimistic transaction: WATCH, reads, then MULTI and EXEC, which does   *)
(* nothing when a watched key was written since the WATCH.  The adapter    *)
(* then starts over, up to WatchAttempts times.                            *)
(*                                                                         *)
(* Every method watches the hash of sessions, so every EXEC that writes    *)
(* spoils every other transaction under way.  The hash of session IDs is   *)
(* folded into it: an ID is drawn and written together with its token.     *)
(*                                                                         *)
(* The module shows that these transactions implement SessionStore.        *)
(***************************************************************************)
EXTENDS SessionStore

CONSTANTS
    Requests,
    WatchAttempts    \* 16 in Adapter.watch

VARIABLES
    now,
    index,   \* sessions:subject:*, the token hashes of each subject
    req

vars == <<sessions, now, index, req>>

Methods == {"create", "extend", "rotate", "revoke", "revokeAll"}

\* write: the record each field will be set to, if any.  dirty: a watched key was written.
Request == [method: Methods, pc: {"idle", "watch", "read", "records", "exec"},
            token: Tokens \cup {NoRecord}, rec: Record \cup {NoRecord},
            subject: Subjects \cup {NoRecord},
            at: Times, expires: Nat, tries: 0..(WatchAttempts - 1), dirty: BOOLEAN,
            fields: SUBSET Tokens, write: [Tokens -> Record \cup {NoRecord}],
            answer: {"none", "ok", "not_found", "inactive", "conflict", "contention"}]

NoWrite == [t \in Tokens |-> NoRecord]

Free(r) == req[r].pc = "idle"

Begin(r, with) ==
    /\ Free(r)
    /\ req' = [req EXCEPT ![r] = with]
    /\ UNCHANGED <<sessions, now, index>>

\* The instant a call was made at decides nothing in a revocation.
Called(method, t, s, rec, expires) ==
    [method |-> method, pc |-> "watch", token |-> t, rec |-> rec, subject |-> s,
     at |-> IF method \in {"revoke", "revokeAll"} THEN 0 ELSE now, expires |-> expires, tries |-> 0, dirty |-> FALSE,
     fields |-> {}, write |-> NoWrite, answer |-> "none"]

Answered(q, answer) ==
    [q EXCEPT !.method = "create", !.pc = "idle", !.token = NoRecord,
              !.rec = NoRecord, !.subject = NoRecord, !.at = 0, !.expires = 0,
              !.tries = 0, !.dirty = FALSE, !.fields = {}, !.write = NoWrite, !.answer = answer]

Answer(r, answer) == req' = [req EXCEPT ![r] = Answered(@, answer)]

-----------------------------------------------------------------------------
(***************************************************************************)
(* The calls of sessiontoken.Manager.  Extend and Rotate pass on what the  *)
(* manager computed from a record it had read.                             *)
(***************************************************************************)

Create(r, t, s) == Begin(r, Called("create", t, s, NewRecord(t, s, now), 0))

Extend(r, t) ==
    /\ Extension /\ Exists(t)
    /\ Begin(r, Called("extend", t, sessions[t].subject, NoRecord,
                       ExtendedExpiry(sessions[t], now)))

Rotate(r, t, u) ==
    /\ Exists(t) /\ ActiveAt(sessions[t], now)
    /\ Begin(r, Called("rotate", t, sessions[t].subject,
                       NewRecord(u, sessions[t].subject, now), 0))

Revoke(r, t, s) == Begin(r, Called("revoke", t, s, NoRecord, 0))

RevokeAll(r, s) == Begin(r, Called("revokeAll", NoRecord, s, NoRecord, 0))

-----------------------------------------------------------------------------
(***************************************************************************)
(* The transaction.                                                        *)
(***************************************************************************)

Watch(r) ==
    /\ req[r].pc = "watch"
    /\ req' = [req EXCEPT ![r].pc = "read", ![r].dirty = FALSE]
    /\ UNCHANGED <<sessions, now, index>>

Executing(r, write) == req' = [req EXCEPT ![r].pc = "exec", ![r].write = write]

ReadForCreate(r) ==
    /\ req[r].method = "create"
    /\ IF Exists(req[r].token)
         THEN Answer(r, "conflict")
         ELSE Executing(r, [NoWrite EXCEPT ![req[r].token] = req[r].rec])

ReadForExtend(r) ==
    LET q == req[r] IN
    /\ q.method = "extend"
    /\ IF Extendable(q.token, q.at, q.expires)
         THEN Executing(r, [NoWrite EXCEPT ![q.token] =
                  [sessions[q.token] EXCEPT !.last = q.at, !.expires = q.expires]])
         ELSE Answer(r, "inactive")

ReadForRotate(r) ==
    LET q == req[r] IN
    /\ q.method = "rotate"
    /\ \/ ~Exists(q.token) /\ Answer(r, "not_found")
       \/ Exists(q.token) /\ ~ActiveAt(sessions[q.token], q.at) /\ Answer(r, "inactive")
       \/ Rotatable(q.token, q.at) /\ Exists(q.rec.hash) /\ Answer(r, "conflict")
       \/ /\ Rotatable(q.token, q.at) /\ ~Exists(q.rec.hash)
          /\ Executing(r, [NoWrite EXCEPT ![q.token] = Revoked(sessions[q.token]),
                                       ![q.rec.hash] = q.rec])

\* A session that is revoked already needs no EXEC: Revoke is idempotent.
ReadForRevoke(r) ==
    LET t == req[r].token IN
    /\ req[r].method = "revoke"
    /\ \/ ~Exists(t) /\ Answer(r, "not_found")
       \/ Exists(t) /\ sessions[t].revoked /\ Answer(r, "ok")
       \/ Exists(t) /\ ~sessions[t].revoked
          /\ Executing(r, [NoWrite EXCEPT ![t] = Revoked(sessions[t])])

\* RevokeAll reads the subject's set ...
ReadMembers(r) ==
    /\ req[r].method = "revokeAll"
    /\ IF index[req[r].subject] = {}
         THEN Answer(r, "ok")
         ELSE req' = [req EXCEPT ![r].pc = "records", ![r].fields = index[req[r].subject]]

Read(r) ==
    /\ req[r].pc = "read"
    /\ \/ ReadForCreate(r) \/ ReadForExtend(r) \/ ReadForRotate(r) \/ ReadForRevoke(r)
       \/ ReadMembers(r)
    /\ UNCHANGED <<sessions, now, index>>

\* ... and then the records.
ReadRecords(r) ==
    /\ req[r].pc = "records"
    /\ Executing(r, [t \in Tokens |-> IF t \in req[r].fields /\ Exists(t)
                                        THEN Revoked(sessions[t]) ELSE NoRecord])
    /\ UNCHANGED <<sessions, now, index>>

Clean(r) == ~req[r].dirty

\* SADD of the tokens that Create and Rotate write.
Indexed(r) ==
    IF req[r].method \in {"create", "rotate"}
      THEN [index EXCEPT ![req[r].subject] = @ \cup {t \in Tokens : req[r].write[t] # NoRecord}]
      ELSE index

\* The next attempt follows the spoilt EXEC at once: its WATCH is part of this step.
Retry(r) ==
    IF req[r].tries + 1 < WatchAttempts
      THEN req' = [req EXCEPT ![r].pc = "read", ![r].dirty = FALSE, ![r].tries = @ + 1,
                              ![r].fields = {}, ![r].write = NoWrite]
      ELSE Answer(r, "contention")

\* EXEC applies the whole write and marks every other watcher; its answer may be lost.
Exec(r) ==
    /\ req[r].pc = "exec"
    /\ IF Clean(r)
         THEN /\ sessions' = [t \in Tokens |-> IF req[r].write[t] # NoRecord
                                                 THEN req[r].write[t] ELSE sessions[t]]
              /\ index' = Indexed(r)
              /\ \E answer \in {"ok", "none"} : req' = [x \in Requests |->
                     IF x = r THEN Answered(req[r], answer)
                     ELSE IF req[x].pc \in {"read", "records", "exec"}
                       THEN [req[x] EXCEPT !.dirty = TRUE] ELSE req[x]]
         ELSE Retry(r) /\ UNCHANGED <<sessions, index>>
    /\ UNCHANGED now

\* A command fails before it has an effect.
Fail(r) ==
    /\ ~Free(r)
    /\ Answer(r, "none")
    /\ UNCHANGED <<sessions, now, index>>

Tick ==
    /\ now < MaxTime
    /\ now' = now + 1
    /\ UNCHANGED <<sessions, index, req>>

Init ==
    /\ StoreInit
    /\ now = 0
    /\ index = [s \in Subjects |-> {}]
    /\ req = [r \in Requests |->
                 Answered(Called("create", NoRecord, NoRecord, NoRecord, 0), "none")]

Step(r) == Watch(r) \/ Read(r) \/ ReadRecords(r) \/ Exec(r)

Next ==
    \/ Tick
    \/ \E r \in Requests :
          \/ \E t \in Tokens, s \in Subjects :
                Create(r, t, s) \/ Revoke(r, t, s) \/ RevokeAll(r, s)
          \/ \E t \in Tokens : Extend(r, t)
          \/ \E t, u \in Tokens : Rotate(r, t, u)
          \/ Step(r) \/ Fail(r)

Spec == Init /\ [][Next]_vars

-----------------------------------------------------------------------------
\* Every record, set and call keeps its shape, within the attempts of Adapter.watch.
TypeOK ==
    /\ sessions \in [Tokens -> Record \cup {NoRecord}]
    /\ now \in Times
    /\ index \in [Subjects -> SUBSET Tokens]
    /\ req \in [Requests -> Request]

\* When RevokeAll answers, every session of the subject is revoked, those included
\* that Create or Rotate wrote while it was collecting them.
RevokeAllComplete ==
    [][\A r \in Requests :
          /\ req[r].method = "revokeAll" /\ ~Free(r)
          /\ req'[r].answer = "ok"
          => \A t \in Tokens :
                 sessions'[t] # NoRecord /\ sessions'[t].subject = req[r].subject
                 => sessions'[t].revoked]_vars

=============================================================================
