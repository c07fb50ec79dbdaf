------------------------ MODULE CookieSessionsProofs ------------------------
(***************************************************************************)
(* Proofs about CookieSessions, for any number of requests, tokens and     *)
(* subjects, any lifetimes, with and without extension and with and        *)
(* without a cache.                                                        *)
(***************************************************************************)
EXTENDS CookieSessions, TLAPS

-----------------------------------------------------------------------------
(***************************************************************************)
(* The inductive invariant.  Beside the table it says what each request    *)
(* relies on at the call it is about to make, given the table S and        *)
(* whether there is a cache.                                               *)
(***************************************************************************)

\* A record newIssued has drawn.
Fresh(rec) == \E t \in Tokens, s \in Subjects, at \in Times : rec = NewRecord(t, s, at)

\* Behind, over any table.
BehindIn(rec, S) ==
    /\ S[rec.hash] # NoRecord
    /\ rec.subject = S[rec.hash].subject
    /\ rec.created = S[rec.hash].created
    /\ rec.expires <= S[rec.hash].expires
    /\ rec.last <= S[rec.hash].last
    /\ ~rec.revoked

\* A Resolve has this record in hand and may answer with it.
Answerable(x, rec, S, hc) ==
    /\ rec \in Record /\ BehindIn(rec, S) /\ rec.hash = x.tok
    /\ x.at < rec.expires
    /\ ~hc => x.live

SoundBy(x, S, hc) ==
    /\ x.pc \in {"create", "rotate"} => Fresh(x.rec)
    /\ x.pc = "create" => x.op = "create"
    /\ x.pc \in {"get", "find", "evict", "drop", "purge", "extend"} => x.op = "resolve"
    /\ x.pc = "get" => hc
    /\ x.op = "resolve" => /\ x.tok \in Tokens /\ x.at \in Times
                           /\ ~hc /\ ~x.live => S[x.tok] # NoRecord /\ S[x.tok].revoked
    /\ x.pc \in {"rotatefind", "rotate"} => x.op = "rotate"
    /\ x.pc = "rotate" => x.at \in Times /\ S[x.tok] # NoRecord /\ x.rec.subject = S[x.tok].subject
    /\ x.pc = "revoke" => x.op = "revoke"
    /\ x.pc = "delete" => x.op \in {"revoke", "rotate"}
    /\ x.pc = "deleteall" => x.op = "revokeall"
    /\ x.pc \in {"rotatefind", "rotate", "revoke", "delete"} => x.tok \in Tokens
    /\ x.pc \in {"fill", "set"} => /\ hc /\ x.op \in {"create", "resolve", "rotate"}
                                   /\ x.rec \in Record /\ BehindIn(x.rec, S)
                                   /\ x.op = "rotate" => x.tok \in Tokens
    /\ x.pc = "extend" => x.fills <= 1 /\ ExtensionDue(x.rec, x.at)
    /\ x.pc \in {"extend", "fill", "set"} /\ x.op = "resolve" => Answerable(x, x.rec, S, hc)
    /\ x.pc = "ok" /\ x.op = "resolve" => /\ S[x.tok] # NoRecord
                                          /\ x.at < S[x.tok].expires
                                          /\ x.rec.subject = S[x.tok].subject
                                          /\ ~hc => x.live

Sound == \A r \in Requests : SoundBy(req[r], sessions, hasCache)

\* The table: rows under their own hash, each with the expiry its history gives it.
TableOK ==
    /\ sessions \in [Tokens -> Record \cup {NoRecord}]
    /\ \A t \in Tokens : Exists(t) => sessions[t].hash = t
    /\ IdleWindow

Inv == TypeOK /\ TableOK /\ Sound /\ CacheBehindStore /\ RotationUnique

-----------------------------------------------------------------------------
(***************************************************************************)
(* The table.  A method of the store never undoes what a request may       *)
(* rely on.                                                                *)
(***************************************************************************)

\* How a row may have changed.
Later(old, new) ==
    /\ new # NoRecord
    /\ new.hash = old.hash /\ new.subject = old.subject /\ new.created = old.created
    /\ old.expires <= new.expires /\ old.last <= new.last
    /\ old.revoked => new.revoked

Persistent == \A t \in Tokens : Exists(t) => Later(sessions[t], sessions'[t])

\* What newIssued draws is a record with one lifetime of validity.
LEMMA NewRecordType ==
  ASSUME NEW t \in Tokens, NEW s \in Subjects, NEW at \in Nat
  PROVE  /\ NewRecord(t, s, at) \in Record
         /\ NewRecord(t, s, at).hash = t /\ NewRecord(t, s, at).subject = s
         /\ NewRecord(t, s, at).created = at /\ NewRecord(t, s, at).last = at
         /\ NewRecord(t, s, at).expires = at + Lifetime /\ ~NewRecord(t, s, at).revoked
  BY LifetimeAssumption DEF NewRecord, Record

\* The expiry of one row, as IdleWindow has it.
Window(rec) ==
    rec.expires = IF Extension THEN ExtendedExpiry(rec, rec.last) ELSE rec.created + Lifetime

\* One row replaced by a later one.
LEMMA RowReplaced ==
  ASSUME TableOK, NEW t \in Tokens, NEW row \in Record, row.hash = t, Window(row),
         Exists(t) => Later(sessions[t], row),
         sessions' = [sessions EXCEPT ![t] = row]
  PROVE  TableOK' /\ Persistent
<1> USE NoRecordAssumption
<1>1. sessions'[t] = row /\ \A u \in Tokens : u # t => sessions'[u] = sessions[u]
  BY DEF TableOK
<1>2. sessions' \in [Tokens -> Record \cup {NoRecord}]
  BY DEF TableOK
<1>3. \A u \in Tokens : Exists(u) => Later(sessions[u], sessions[u])
  BY DEF TableOK, Exists, Later, Record
<1>4. Persistent
  BY <1>1, <1>3 DEF Persistent
<1>5. IdleWindow'
  BY <1>1 DEF TableOK, IdleWindow, Window, Exists, ExtendedExpiry
<1> QED BY <1>1, <1>2, <1>4, <1>5 DEF TableOK, Exists

\* Revoking a row changes nothing else of it.
LEMMA RevokedRow ==
  ASSUME NEW rec \in Record, Window(rec)
  PROVE  /\ Revoked(rec) \in Record /\ Revoked(rec).hash = rec.hash
         /\ Later(rec, Revoked(rec)) /\ Window(Revoked(rec)) /\ Revoked(rec).revoked
<1>1. Revoked(rec) \in Record
  BY DEF Revoked, Record
<1>2. /\ Revoked(rec).hash = rec.hash /\ Revoked(rec).subject = rec.subject
      /\ Revoked(rec).created = rec.created /\ Revoked(rec).expires = rec.expires
      /\ Revoked(rec).last = rec.last /\ Revoked(rec).revoked
  BY DEF Revoked, Record
<1>3. Later(rec, Revoked(rec))
  BY <1>1, <1>2, NoRecordAssumption DEF Later, Record
<1> HIDE DEF Revoked
<1> QED BY <1>1, <1>2, <1>3 DEF Window, ExtendedExpiry

\* An extension moves the expiry of one row forward, within its window.
LEMMA ExtendTable ==
  ASSUME TableOK, NEW t \in Tokens, NEW at \in Times, Extension,
         StoreExtend(t, at, ExtendedExpiry(sessions[t], at))
  PROVE  TableOK' /\ Persistent
<1> USE LifetimeAssumption, NoRecordAssumption
<1> DEFINE old == sessions[t]
           expires == ExtendedExpiry(old, at)
           row == [old EXCEPT !.last = at, !.expires = expires]
<1>1. old \in Record /\ old.hash = t /\ Window(old) /\ old.expires < expires
  BY DEF StoreExtend, Extendable, Exists, TableOK, IdleWindow, Window
<1>2. expires \in Nat /\ at \in Nat
  BY <1>1 DEF ExtendedExpiry, Earlier, Times, Record
<1>3. old.last < at
  BY <1>1, <1>2 DEF Window, ExtendedExpiry, Earlier, Record
<1> HIDE DEF expires
<1>4. /\ row \in Record /\ row.hash = t /\ row.subject = old.subject /\ row.created = old.created
      /\ row.last = at /\ row.expires = expires /\ row.revoked = old.revoked
  BY <1>1, <1>2 DEF Record
<1>5. sessions' = [sessions EXCEPT ![t] = row]
  BY DEF StoreExtend, expires
<1> HIDE DEF row
<1>6. Window(row)
  BY <1>4 DEF Window, ExtendedExpiry, expires
<1>7. Later(old, row)
  BY <1>1, <1>2, <1>3, <1>4 DEF Later, Record
<1> QED BY <1>4, <1>5, <1>6, <1>7, RowReplaced

\* Every method of the store keeps the table in order and undoes no row.
LEMMA TableStep == TableOK /\ [StoreNext]_sessions => TableOK' /\ Persistent
<1> SUFFICES ASSUME TableOK, [StoreNext]_sessions PROVE TableOK' /\ Persistent
  OBVIOUS
<1> USE LifetimeAssumption, NoRecordAssumption
<1>0. ASSUME NEW t \in Tokens, Exists(t)
      PROVE  sessions[t] \in Record /\ Window(sessions[t]) /\ sessions[t].hash = t
  BY <1>0 DEF TableOK, Exists, IdleWindow, Window
<1>1. CASE UNCHANGED sessions
  <2>1. TableOK'
    BY <1>1 DEF TableOK, IdleWindow, Exists
  <2> QED BY <1>0, <1>1, <2>1 DEF Persistent, Later, Record, Exists
<1>2. ASSUME NEW t \in Tokens, NEW s \in Subjects, NEW at \in Times
      PROVE  /\ Window(NewRecord(t, s, at)) /\ NewRecord(t, s, at) \in Record
             /\ NewRecord(t, s, at).hash = t
  <2>1. at \in Nat
    BY DEF Times
  <2> QED BY <2>1, NewRecordType DEF Window, ExtendedExpiry, Earlier
<1>3. ASSUME NEW t \in Tokens, NEW s \in Subjects, NEW at \in Times,
             StoreCreate(NewRecord(t, s, at))
      PROVE  TableOK' /\ Persistent
  BY <1>2, <1>3, RowReplaced DEF StoreCreate
<1>4. ASSUME NEW t \in Tokens, NEW u \in Tokens, NEW at \in Times, NEW born \in Times,
             StoreRotate(t, NewRecord(u, sessions[t].subject, born), at)
      PROVE  TableOK' /\ Persistent
  <2> DEFINE new == NewRecord(u, sessions[t].subject, born)
             old == Revoked(sessions[t])
  <2>1. Exists(t) /\ sessions[t] \in Record /\ Window(sessions[t]) /\ sessions[t].hash = t
    BY <1>0, <1>4 DEF StoreRotate, Rotatable
  <2>2. new \in Record /\ new.hash = u /\ Window(new)
    BY <1>2, <2>1 DEF Record
  <2>3. old \in Record /\ old.hash = t /\ Window(old) /\ Later(sessions[t], old)
    BY <2>1, RevokedRow
  <2>4. sessions' = [sessions EXCEPT ![t] = old, ![u] = new] /\ ~Exists(u)
    BY <1>4, <2>2 DEF StoreRotate, Revoked
  <2> HIDE DEF old, new
  <2>5. /\ t # u /\ sessions'[t] = old /\ sessions'[u] = new
        /\ \A v \in Tokens : v # t /\ v # u => sessions'[v] = sessions[v]
        /\ sessions' \in [Tokens -> Record \cup {NoRecord}]
    BY <2>1, <2>2, <2>3, <2>4 DEF TableOK
  <2>6. \A v \in Tokens : Exists(v) => Later(sessions[v], sessions[v])
    BY <1>0 DEF Exists, Later, Record
  <2>7. Persistent
    BY <2>3, <2>4, <2>5, <2>6 DEF Persistent
  <2>8. \A v \in Tokens : Exists(v)' => sessions'[v].hash = v /\ Window(sessions'[v])
    BY <1>0, <2>2, <2>3, <2>5 DEF Exists
  <2>9. IdleWindow'
    BY <2>8 DEF IdleWindow, Window, Exists, ExtendedExpiry
  <2> QED BY <2>5, <2>7, <2>8, <2>9 DEF TableOK
<1>5. ASSUME NEW t \in Tokens, StoreRevoke(t) PROVE TableOK' /\ Persistent
  <2>1. Exists(t) /\ sessions' = [sessions EXCEPT ![t] = Revoked(sessions[t])]
    BY <1>5 DEF StoreRevoke
  <2>2. /\ Revoked(sessions[t]) \in Record /\ Revoked(sessions[t]).hash = t
        /\ Window(Revoked(sessions[t])) /\ Later(sessions[t], Revoked(sessions[t]))
    BY <1>0, <2>1, RevokedRow
  <2> QED BY <2>1, <2>2, RowReplaced
<1>6. ASSUME NEW s \in Subjects, StoreRevokeAll(s) PROVE TableOK' /\ Persistent
  <2>1. ASSUME NEW t \in Tokens, Exists(t)
        PROVE  /\ sessions'[t] \in Record /\ sessions'[t].hash = t /\ Window(sessions'[t])
               /\ Later(sessions[t], sessions'[t])
    <3>1. sessions'[t] = Revoked(sessions[t]) \/ sessions'[t] = sessions[t]
      BY <1>6 DEF StoreRevokeAll
    <3>2. Later(sessions[t], sessions[t])
      BY <1>0, <2>1 DEF Later, Record
    <3> QED BY <1>0, <2>1, <3>1, <3>2, RevokedRow
  <2>2. ASSUME NEW t \in Tokens, ~Exists(t) PROVE sessions'[t] = NoRecord
    BY <1>6, <2>2 DEF StoreRevokeAll, BelongTo, Exists
  <2>3. sessions' \in [Tokens -> Record \cup {NoRecord}]
    BY <1>6, <2>1, <2>2 DEF StoreRevokeAll
  <2>4. IdleWindow'
    BY <2>1, <2>2 DEF IdleWindow, Window, Exists, ExtendedExpiry
  <2> QED BY <2>1, <2>2, <2>3, <2>4 DEF TableOK, Persistent, Exists
<1> QED BY <1>1, <1>3, <1>4, <1>5, <1>6, ExtendTable DEF StoreNext

-----------------------------------------------------------------------------
(***************************************************************************)
(* Every step of the manager is a call the store provides for.  This is    *)
(* the step of the refinement, and the rest of the induction rests on it.  *)
(***************************************************************************)

\* A step of the manager changes the table by one method of the store at most.
LEMMA StoreCalls == Inv /\ [Next]_vars => [StoreNext]_sessions
<1> SUFFICES ASSUME Inv, [Next]_vars, sessions' # sessions PROVE StoreNext
  OBVIOUS
<1> USE LifetimeAssumption, NoRecordAssumption
<1>0. ASSUME NEW r \in Requests
      PROVE  req[r] \in Request /\ SoundBy(req[r], sessions, hasCache)
  BY DEF Inv, TypeOK, Sound
<1>1. ASSUME NEW r \in Requests, CreateInStore(r) PROVE StoreNext
  <2>1. StoreCreate(req[r].rec) /\ Fresh(req[r].rec)
    BY <1>0, <1>1 DEF CreateInStore, SoundBy
  <2> QED BY <2>1 DEF Fresh, StoreNext
<1>2. ASSUME NEW r \in Requests, ExtendInStore(r) PROVE StoreNext
  <2> DEFINE x == req[r]
  <2>1. /\ x.pc = "extend" /\ StoreExtend(x.tok, x.at, DueExpiry(x.rec, x.at))
    BY <1>2 DEF ExtendInStore
  <2>2. /\ x.tok \in Tokens /\ x.at \in Times /\ Extension
        /\ x.rec.created = sessions[x.tok].created
    BY <1>0, <2>1 DEF SoundBy, Answerable, BehindIn, ExtensionDue
  <2>3. DueExpiry(x.rec, x.at) = ExtendedExpiry(sessions[x.tok], x.at)
    BY <2>2 DEF DueExpiry, ExtendedExpiry
  <2> QED BY <2>1, <2>2, <2>3 DEF StoreNext
<1>3. ASSUME NEW r \in Requests, RotateInStore(r) PROVE StoreNext
  <2> DEFINE x == req[r]
  <2>1. x.pc = "rotate" /\ StoreRotate(x.tok, x.rec, x.at)
    BY <1>3 DEF RotateInStore
  <2>2. /\ x.tok \in Tokens /\ x.at \in Times /\ Fresh(x.rec)
        /\ x.rec.subject = sessions[x.tok].subject
    BY <1>0, <2>1 DEF SoundBy
  <2>3. PICK u \in Tokens, s \in Subjects, born \in Times : x.rec = NewRecord(u, s, born)
    BY <2>2 DEF Fresh
  <2>4. s = sessions[x.tok].subject
    BY <2>2, <2>3 DEF NewRecord
  <2> QED BY <2>1, <2>2, <2>3, <2>4 DEF StoreNext
<1>4. ASSUME NEW r \in Requests, RevokeInStore(r) PROVE StoreNext
  <2>1. req[r].tok \in Tokens /\ StoreRevoke(req[r].tok)
    BY <1>0, <1>4 DEF RevokeInStore, SoundBy
  <2> QED BY <2>1 DEF StoreNext
<1>5. ASSUME NEW r \in Requests, NEW s \in Subjects, BeginRevokeAll(r, s) PROVE StoreNext
  BY <1>5 DEF BeginRevokeAll, StoreNext
<1> QED BY <1>1, <1>2, <1>3, <1>4, <1>5
  DEF Next, vars, Tick, Begin, Step, Abandon, BeginCreate, BeginResolve, BeginRotate, BeginRevoke,
      BeginRevokeByID, ComputeTTL, CacheSet, DeleteCached, DeleteQuietly, DeleteAllCached,
      CacheGet, FindByTokenHash, RotateFind

-----------------------------------------------------------------------------
(***************************************************************************)
(* Requests.                                                               *)
(***************************************************************************)

\* What the steps of the induction may assume.
Context == Inv /\ TableOK' /\ Persistent /\ UNCHANGED hasCache

ReqOK == req \in [Requests -> Request] /\ Sound

\* A copy that lags behind its row goes on doing so.
LEMMA BehindKept ==
  ASSUME Context, NEW rec \in Record, BehindIn(rec, sessions)
  PROVE  BehindIn(rec, sessions')
<1>1. rec.hash \in Tokens /\ sessions[rec.hash] \in Record
  BY DEF BehindIn, Context, Inv, TableOK, Record
<1>2. Later(sessions[rec.hash], sessions'[rec.hash])
  BY <1>1 DEF Context, Persistent, Exists, BehindIn
<1>3. sessions'[rec.hash] \in Record
  BY <1>1, <1>2 DEF Context, TableOK, Later
<1> QED BY <1>1, <1>2, <1>3 DEF BehindIn, Later, Record

\* What a waiting request relies on, it can rely on until it is served.
LEMMA SoundKept ==
  ASSUME Context, NEW r \in Requests
  PROVE  SoundBy(req[r], sessions', hasCache)
<1> DEFINE x == req[r]
<1>1. x \in Request /\ SoundBy(x, sessions, hasCache)
  BY DEF Context, Inv, TypeOK, Sound
<1>2. x.rec \in Record /\ BehindIn(x.rec, sessions) => BehindIn(x.rec, sessions')
  BY BehindKept
<1>3. x.tok \in Tokens /\ sessions[x.tok] # NoRecord =>
        /\ Later(sessions[x.tok], sessions'[x.tok])
        /\ sessions[x.tok] \in Record /\ sessions'[x.tok] \in Record
  BY DEF Context, Inv, TableOK, Persistent, Exists, Later
<1>4. x.at \in Nat
  BY <1>1 DEF Request
<1> HIDE DEF x
<1>5. SoundBy(x, sessions', hasCache)
  <2>1. Answerable(x, x.rec, sessions, hasCache) => Answerable(x, x.rec, sessions', hasCache)
    BY <1>2 DEF Answerable
  <2>2. x.op = "resolve" =>
           /\ x.tok \in Tokens /\ x.at \in Times
           /\ ~hasCache /\ ~x.live => sessions'[x.tok] # NoRecord /\ sessions'[x.tok].revoked
    BY <1>1, <1>3 DEF SoundBy, Later
  <2>3. x.pc = "ok" /\ x.op = "resolve" => /\ sessions'[x.tok] # NoRecord
                                           /\ x.at < sessions'[x.tok].expires
                                           /\ x.rec.subject = sessions'[x.tok].subject
                                           /\ ~hasCache => x.live
    BY <1>1, <1>3, <1>4, <2>2 DEF SoundBy, Later, Record
  <2>4. x.pc = "rotate" => /\ x.at \in Times /\ sessions'[x.tok] # NoRecord
                           /\ x.rec.subject = sessions'[x.tok].subject
    BY <1>1, <1>3 DEF SoundBy, Later
  <2> QED BY <1>1, <1>2, <2>1, <2>2, <2>3, <2>4 DEF SoundBy
<1> QED BY <1>5 DEF x

\* Changing one request leaves what the others rely on.
LEMMA UpdateSound ==
  ASSUME Context, NEW r \in Requests, NEW x \in Request, req' = [req EXCEPT ![r] = x],
         SoundBy(x, sessions', hasCache)
  PROVE  ReqOK'
<1>1. \A q \in Requests : q # r => req'[q] = req[q]
  BY DEF Context, Inv, TypeOK
<1>2. req'[r] = x /\ req' \in [Requests -> Request] /\ hasCache' = hasCache
  BY DEF Context, Inv, TypeOK
<1> QED BY <1>1, <1>2, SoundKept DEF Sound, ReqOK

\* The request of a free slot has the type of one.
LEMMA IdleType == Idle \in Request
  BY DEF Idle, Request, Ops, CreationAttempts

\* A method returns; a Resolve accepts only with a record it may answer with.
LEMMA ReturnSound ==
  ASSUME Context, NEW r \in Requests, NEW result \in Results,
         NEW rec \in Record \cup {NoRecord}, ReturnWith(r, result, rec),
         req[r].op = "resolve" /\ result = "ok" => Answerable(req[r], rec, sessions', hasCache)
  PROVE  ReqOK'
<1> USE NoRecordAssumption
<1>0. req[r] \in Request /\ SoundBy(req[r], sessions', hasCache)
  BY SoundKept DEF Context, Inv, TypeOK
<1>1. CASE req[r].op = "resolve"
  <2> DEFINE kept == IF result = "ok" THEN rec ELSE NoRecord
             x == [Idle EXCEPT !.pc = result, !.op = "resolve", !.tok = req[r].tok,
                               !.at = req[r].at, !.live = req[r].live, !.rec = kept]
  <2>1. kept \in Record \cup {NoRecord}
    OBVIOUS
  <2>2. /\ req[r].tok \in Tokens \cup {NoToken} /\ req[r].at \in Nat /\ req[r].live \in BOOLEAN
    BY <1>0 DEF Request
  <2> HIDE DEF kept
  <2>3. x \in Request
    BY <2>1, <2>2, IdleType DEF Request, Ops
  <2>4. /\ x.pc = result /\ x.op = "resolve" /\ x.tok = req[r].tok /\ x.at = req[r].at
        /\ x.live = req[r].live /\ x.rec = kept
    BY DEF Idle
  <2>5. req' = [req EXCEPT ![r] = x]
    BY <1>1 DEF ReturnWith, kept
  <2> HIDE DEF x
  <2>6. result = "ok" => /\ sessions'[x.tok] # NoRecord /\ x.at < sessions'[x.tok].expires
                         /\ x.rec.subject = sessions'[x.tok].subject
                         /\ ~hasCache => x.live
    <3> SUFFICES ASSUME result = "ok" PROVE <2>6!2
      OBVIOUS
    <3>1. /\ rec \in Record /\ rec.hash = x.tok /\ BehindIn(rec, sessions') /\ x.at < rec.expires
          /\ ~hasCache => x.live
      BY <1>1, <2>4 DEF Answerable
    <3>2. x.rec = rec
      BY <2>4 DEF kept
    <3>3. sessions'[x.tok] \in Record
      BY <3>1 DEF Context, TableOK, BehindIn, Record
    <3> QED BY <2>2, <2>4, <3>1, <3>2, <3>3 DEF BehindIn, Record
  <2>7. SoundBy(x, sessions', hasCache)
    BY <1>0, <1>1, <2>4, <2>6 DEF SoundBy, Results
  <2> QED BY <2>3, <2>5, <2>7, UpdateSound
<1>2. CASE req[r].op # "resolve"
  <2> DEFINE x == [Idle EXCEPT !.pc = result, !.op = req[r].op]
  <2>1. req[r].op \in Ops
    BY <1>0 DEF Request
  <2>2. x \in Request
    BY <2>1, IdleType DEF Request
  <2>3. x.pc = result /\ x.op = req[r].op
    BY DEF Idle
  <2>4. req' = [req EXCEPT ![r] = x]
    BY <1>2 DEF ReturnWith
  <2> HIDE DEF x
  <2>5. SoundBy(x, sessions', hasCache)
    BY <1>2, <2>3 DEF SoundBy, Results
  <2> QED BY <2>2, <2>4, <2>5, UpdateSound
<1> QED BY <1>1, <1>2

\* A method that returns an error, or anything but a Resolve that succeeds.
LEMMA PlainReturn ==
  ASSUME Context, NEW r \in Requests, NEW result \in Results, Return(r, result),
         req[r].op # "resolve" \/ result # "ok"
  PROVE  ReqOK'
<1>1. req[r].rec \in Record \cup {NoRecord}
  BY DEF Context, Inv, TypeOK, Request
<1> QED BY <1>1, ReturnSound DEF Return

\* A request goes on at a call that relies on no record.
LEMMA GotoSound ==
  ASSUME Context, NEW r \in Requests, NEW pc, Goto(r, pc),
         \/ pc \in {"find", "evict", "drop", "purge"} /\ req[r].op = "resolve"
         \/ pc = "delete" /\ req[r].op \in {"revoke", "rotate"} /\ req[r].tok \in Tokens
  PROVE  ReqOK'
<1> DEFINE x == [req[r] EXCEPT !.pc = pc]
<1>0. req[r] \in Request /\ SoundBy(req[r], sessions', hasCache)
  BY SoundKept DEF Context, Inv, TypeOK
<1>1. pc \in Running
  BY DEF Running
<1>2. x \in Request
  BY <1>0, <1>1 DEF Request
<1>3. /\ x.pc = pc /\ x.op = req[r].op /\ x.tok = req[r].tok /\ x.at = req[r].at
      /\ x.live = req[r].live
  BY <1>0 DEF Request
<1>4. req' = [req EXCEPT ![r] = x]
  BY DEF Goto
<1> HIDE DEF x
<1>5. SoundBy(x, sessions', hasCache)
  BY <1>0, <1>3 DEF SoundBy
<1> QED BY <1>2, <1>4, <1>5, UpdateSound

\* A record is in hand that the cache may be given and a Resolve may answer with.
Fillable(x, rec, S, hc) ==
    /\ x.op \in {"create", "resolve", "rotate"}
    /\ x.op = "rotate" => x.tok \in Tokens
    /\ rec \in Record /\ BehindIn(rec, S)
    /\ x.op = "resolve" => Answerable(x, rec, S, hc)

\* populateCache is entered with a copy of a row, or skipped without a cache.
LEMMA FillSound ==
  ASSUME Context, NEW r \in Requests, NEW rec, NEW n \in 0..2, Fill(r, rec, n),
         Fillable(req[r], rec, sessions', hasCache)
  PROVE  ReqOK'
<1>0. req[r] \in Request /\ SoundBy(req[r], sessions', hasCache)
  BY SoundKept DEF Context, Inv, TypeOK
<1>1. CASE hasCache
  <2> DEFINE x == [req[r] EXCEPT !.pc = "fill", !.rec = rec, !.fills = n, !.tries = 0]
  <2>0. "fill" \in Running /\ 0 \in 0..(CreationAttempts - 1) /\ rec \in Record
    BY DEF Running, CreationAttempts, Fillable
  <2>1. x \in Request
    BY <1>0, <2>0 DEF Request
  <2>2. /\ x.pc = "fill" /\ x.op = req[r].op /\ x.tok = req[r].tok /\ x.at = req[r].at
        /\ x.live = req[r].live /\ x.rec = rec
    BY <1>0 DEF Request
  <2>3. req' = [req EXCEPT ![r] = x]
    BY <1>1 DEF Fill
  <2> HIDE DEF x
  <2>4. SoundBy(x, sessions', hasCache)
    BY <1>0, <1>1, <2>2 DEF SoundBy, Fillable, Answerable
  <2> QED BY <2>1, <2>3, <2>4, UpdateSound
<1>2. CASE ~hasCache
  BY <1>2, ReturnSound DEF Fill, Fillable, Results
<1> QED BY <1>1, <1>2

\* One of the cache writes is done.
LEMMA FillDoneSound ==
  ASSUME Context, NEW r \in Requests, req[r].pc \in {"fill", "set"}, FillDone(r)
  PROVE  ReqOK'
<1>0. req[r] \in Request /\ SoundBy(req[r], sessions', hasCache)
  BY SoundKept DEF Context, Inv, TypeOK
<1>1. CASE req[r].fills > 1
  <2> DEFINE x == [req[r] EXCEPT !.pc = "fill", !.fills = @ - 1, !.ttl = 0]
  <2>0. req[r].fills - 1 \in 0..2
    BY <1>0, <1>1 DEF Request
  <2>1. x \in Request
    BY <1>0, <2>0 DEF Request, Running
  <2>2. /\ x.pc = "fill" /\ x.op = req[r].op /\ x.tok = req[r].tok /\ x.at = req[r].at
        /\ x.live = req[r].live /\ x.rec = req[r].rec
    BY <1>0 DEF Request
  <2>3. req' = [req EXCEPT ![r] = x]
    BY <1>1 DEF FillDone
  <2> HIDE DEF x
  <2>4. SoundBy(x, sessions', hasCache)
    BY <1>0, <2>2 DEF SoundBy, Answerable
  <2> QED BY <2>1, <2>3, <2>4, UpdateSound
<1>2. CASE ~(req[r].fills > 1)
  <2>1. AfterFills(r)
    BY <1>2 DEF FillDone
  <2>2. CASE req[r].op = "rotate"
    BY <1>0, <2>1, <2>2, GotoSound DEF AfterFills, SoundBy
  <2>3. CASE req[r].op # "rotate"
    <3>1. ReturnWith(r, "ok", req[r].rec)
      BY <2>1, <2>3 DEF AfterFills, Return
    <3>2. req[r].rec \in Record
      BY <1>0 DEF SoundBy
    <3>3. req[r].op = "resolve" => Answerable(req[r], req[r].rec, sessions', hasCache)
      BY <1>0 DEF SoundBy
    <3> QED BY <3>1, <3>2, <3>3, ReturnSound DEF Results
  <2> QED BY <2>2, <2>3
<1> QED BY <1>1, <1>2

\* extendIfDue, with a record found in the cache or in the store.
LEMMA ExtendingSound ==
  ASSUME Context, NEW r \in Requests, req[r].op = "resolve", NEW rec, NEW n \in 0..1,
         Extending(r, rec, n), Answerable(req[r], rec, sessions', hasCache)
  PROVE  ReqOK'
<1>0. req[r] \in Request /\ SoundBy(req[r], sessions', hasCache)
  BY SoundKept DEF Context, Inv, TypeOK
<1>1. rec \in Record
  BY DEF Answerable
<1>2. CASE ExtensionDue(rec, req[r].at)
  <2> DEFINE x == [req[r] EXCEPT !.pc = "extend", !.rec = rec, !.fills = n]
  <2>0. "extend" \in Running /\ n \in 0..2
    BY DEF Running
  <2>1. x \in Request
    BY <1>0, <1>1, <2>0 DEF Request
  <2>2. /\ x.pc = "extend" /\ x.op = req[r].op /\ x.tok = req[r].tok /\ x.at = req[r].at
        /\ x.live = req[r].live /\ x.rec = rec /\ x.fills = n
    BY <1>0 DEF Request
  <2>3. req' = [req EXCEPT ![r] = x]
    BY <1>2 DEF Extending
  <2> HIDE DEF x
  <2>4. SoundBy(x, sessions', hasCache)
    BY <1>0, <1>2, <2>2 DEF SoundBy, Answerable
  <2> QED BY <2>1, <2>3, <2>4, UpdateSound
<1>3. CASE ~ExtensionDue(rec, req[r].at) /\ n = 0
  BY <1>1, <1>3, ReturnSound DEF Extending, Results
<1>4. CASE ~ExtensionDue(rec, req[r].at) /\ n # 0
  <2>1. Fillable(req[r], rec, sessions', hasCache)
    BY DEF Fillable, Answerable
  <2> QED BY <1>4, <2>1, FillSound DEF Extending
<1> QED BY <1>2, <1>3, <1>4

-----------------------------------------------------------------------------
(***************************************************************************)
(* Every action keeps the requests sound.                                  *)
(***************************************************************************)

\* A request starts with what it relies on.
LEMMA BeginSound ==
  ASSUME Context, NEW r \in Requests, Begin(r)
  PROVE  ReqOK'
<1> USE ManagerAssumption, LifetimeAssumption, NoRecordAssumption
<1>0. Drawable \subseteq Tokens /\ now \in Times /\ now \in Nat
  BY DEF Context, Inv, TypeOK, Drawable, Times
<1>1. ASSUME NEW s \in Subjects, NEW t \in Drawable, BeginCreate(r, s, t) PROVE ReqOK'
  <2> DEFINE rec == NewRecord(t, s, now)
             x == [Idle EXCEPT !.pc = "create", !.op = "create", !.rec = rec]
  <2>1. rec \in Record /\ Fresh(rec)
    BY <1>0, NewRecordType DEF Fresh
  <2> HIDE DEF rec
  <2>2. x \in Request
    BY <2>1, IdleType DEF Request, Running, Ops
  <2>3. x.pc = "create" /\ x.op = "create" /\ x.rec = rec
    BY DEF Idle
  <2>4. req' = [req EXCEPT ![r] = x]
    BY <1>1 DEF BeginCreate, rec
  <2> HIDE DEF x
  <2>5. SoundBy(x, sessions', hasCache)
    BY <2>1, <2>3 DEF SoundBy
  <2> QED BY <2>2, <2>4, <2>5, UpdateSound
<1>2. ASSUME NEW t \in Drawable, BeginResolve(r, t) PROVE ReqOK'
  <2> DEFINE pc == IF hasCache THEN "get" ELSE "find"
             live == ~(Exists(t) /\ sessions[t].revoked)
             x == [Idle EXCEPT !.pc = pc, !.op = "resolve", !.tok = t, !.at = now, !.live = live]
  <2>1. /\ pc \in Running /\ pc \in {"get", "find"} /\ (pc = "get" => hasCache)
        /\ live \in BOOLEAN
    BY DEF Running
  <2>2. ~live => sessions'[t] # NoRecord /\ sessions'[t].revoked
    BY <1>0, <1>2 DEF BeginResolve, Exists
  <2> HIDE DEF pc, live
  <2>3. x \in Request
    BY <1>0, <2>1, IdleType DEF Request, Ops
  <2>4. x.pc = pc /\ x.op = "resolve" /\ x.tok = t /\ x.at = now /\ x.live = live
    BY DEF Idle
  <2>5. req' = [req EXCEPT ![r] = x]
    BY <1>2 DEF BeginResolve, pc, live
  <2> HIDE DEF x
  <2>6. SoundBy(x, sessions', hasCache)
    BY <1>0, <2>1, <2>2, <2>4 DEF SoundBy
  <2> QED BY <2>3, <2>5, <2>6, UpdateSound
<1>3. ASSUME NEW x \in Request, req' = [req EXCEPT ![r] = x],
             x.op \in {"rotate", "revoke", "revokeall"},
             \/ x.pc = "rotatefind" /\ x.op = "rotate" /\ x.tok \in Tokens
             \/ x.pc = "revoke" /\ x.op = "revoke" /\ x.tok \in Tokens
             \/ x.pc = "deleteall" /\ x.op = "revokeall"
             \/ x.pc \in Results
      PROVE  ReqOK'
  <2>1. SoundBy(x, sessions', hasCache)
    BY <1>3 DEF SoundBy, Results
  <2> QED BY <1>3, <2>1, UpdateSound
<1>4. ASSUME NEW t \in Drawable, BeginRotate(r, t) PROVE ReqOK'
  <2> DEFINE x == [Idle EXCEPT !.pc = "rotatefind", !.op = "rotate", !.tok = t]
  <2>1. x \in Request
    BY <1>0, IdleType DEF Request, Running, Ops
  <2>2. x.pc = "rotatefind" /\ x.op = "rotate" /\ x.tok = t
    BY DEF Idle
  <2>3. req' = [req EXCEPT ![r] = x]
    BY <1>4 DEF BeginRotate
  <2> HIDE DEF x
  <2> QED BY <1>0, <1>3, <2>1, <2>2, <2>3
<1>5. ASSUME NEW t \in Drawable, NEW pc \in {"revoke", "refused"},
             req' = [req EXCEPT ![r] = [Idle EXCEPT !.pc = pc, !.op = "revoke", !.tok = t]]
      PROVE ReqOK'
  <2> DEFINE x == [Idle EXCEPT !.pc = pc, !.op = "revoke", !.tok = t]
  <2>0. pc \in Running \cup Results
    BY DEF Running, Results
  <2>1. x \in Request
    BY <1>0, <2>0, IdleType DEF Request, Ops
  <2>2. x.pc = pc /\ x.op = "revoke" /\ x.tok = t
    BY DEF Idle
  <2>3. req' = [req EXCEPT ![r] = x]
    BY <1>5
  <2> HIDE DEF x
  <2> QED BY <1>0, <1>3, <2>1, <2>2, <2>3 DEF Results
<1>6. ASSUME NEW t \in Drawable, BeginRevoke(r, t) PROVE ReqOK'
  BY <1>5, <1>6 DEF BeginRevoke
<1>7. ASSUME NEW s \in Subjects, NEW t \in Drawable, BeginRevokeByID(r, s, t) PROVE ReqOK'
  <2> DEFINE pc == IF t \in BelongTo(s) THEN "revoke" ELSE "refused"
  <2>1. /\ pc \in {"revoke", "refused"}
        /\ req' = [req EXCEPT ![r] = [Idle EXCEPT !.pc = pc, !.op = "revoke", !.tok = t]]
    BY <1>7 DEF BeginRevokeByID
  <2> HIDE DEF pc
  <2> QED BY <1>5, <2>1
<1>8. ASSUME NEW s \in Subjects, BeginRevokeAll(r, s) PROVE ReqOK'
  <2> DEFINE pc == IF hasCache THEN "deleteall" ELSE "ok"
             todo == IF hasCache THEN BelongTo(s) ELSE {}
             x == [Idle EXCEPT !.pc = pc, !.op = "revokeall", !.todo = todo]
             y == [Idle EXCEPT !.pc = "failed", !.op = "revokeall"]
  <2>1. /\ pc \in Running \cup Results /\ pc \in {"deleteall", "ok"} /\ todo \subseteq Tokens
        /\ "failed" \in Results /\ "ok" \in Results
    BY DEF Running, Results, BelongTo
  <2> HIDE DEF pc, todo
  <2>2. x \in Request /\ x.pc = pc /\ x.op = "revokeall"
    <3>1. x \in Request
      BY <2>1, IdleType DEF Request, Ops
    <3> QED BY <3>1 DEF Idle
  <2>3. y \in Request /\ y.pc = "failed" /\ y.op = "revokeall"
    <3>1. y \in Request
      BY <2>1, IdleType DEF Request, Ops
    <3> QED BY <3>1 DEF Idle
  <2>4. req' = [req EXCEPT ![r] = x] \/ req' = [req EXCEPT ![r] = y]
    BY <1>8 DEF BeginRevokeAll, pc, todo
  <2> HIDE DEF x, y
  <2> QED BY <1>3, <2>1, <2>2, <2>3, <2>4
<1> QED BY <1>1, <1>2, <1>4, <1>6, <1>7, <1>8 DEF Begin

\* populateCache, deleteCached and the loop of RevokeAll.
LEMMA CacheStepSound ==
  ASSUME Context, NEW r \in Requests,
         ComputeTTL(r) \/ CacheSet(r) \/ DeleteCached(r) \/ DeleteQuietly(r) \/ DeleteAllCached(r)
  PROVE  ReqOK'
<1> USE ManagerAssumption, LifetimeAssumption
<1>0. req[r] \in Request /\ SoundBy(req[r], sessions', hasCache) /\ now \in Nat
  BY SoundKept DEF Context, Inv, TypeOK, Times
<1>1. CASE ComputeTTL(r)
  <2> DEFINE remaining == req[r].rec.expires - now
             ttl == Earlier(CacheTTL, remaining)
             x == [req[r] EXCEPT !.pc = "set", !.ttl = ttl]
  <2>1. req[r].pc = "fill" /\ req[r].rec \in Record
    BY <1>0, <1>1 DEF ComputeTTL, SoundBy
  <2>2. CASE remaining <= 0
    BY <1>1, <2>1, <2>2, FillDoneSound DEF ComputeTTL
  <2>3. CASE ~(remaining <= 0)
    <3>1. ttl \in Nat /\ "set" \in Running
      BY <1>0, <2>1, <2>3 DEF Earlier, Record, Running
    <3>2. req' = [req EXCEPT ![r] = x]
      BY <1>1, <2>3 DEF ComputeTTL
    <3> HIDE DEF ttl
    <3>3. x \in Request
      BY <1>0, <3>1 DEF Request
    <3>4. /\ x.pc = "set" /\ x.op = req[r].op /\ x.tok = req[r].tok /\ x.at = req[r].at
          /\ x.live = req[r].live /\ x.rec = req[r].rec
      BY <1>0 DEF Request
    <3> HIDE DEF x
    <3>5. SoundBy(x, sessions', hasCache)
      BY <1>0, <2>1, <3>4 DEF SoundBy, Answerable
    <3> QED BY <3>2, <3>3, <3>5, UpdateSound
  <2> QED BY <2>2, <2>3
<1>2. CASE CacheSet(r)
  BY <1>2, FillDoneSound DEF CacheSet
<1>3. CASE DeleteCached(r)
  BY <1>0, <1>3, PlainReturn DEF DeleteCached, SoundBy, Results
<1>4. CASE DeleteQuietly(r)
  <2>1. req[r].op = "resolve"
    BY <1>0, <1>4 DEF DeleteQuietly, SoundBy
  <2>2. Goto(r, "find") \/ Return(r, "refused")
    BY <1>4 DEF DeleteQuietly
  <2> QED BY <2>1, <2>2, GotoSound, PlainReturn DEF Results
<1>5. CASE DeleteAllCached(r)
  <2>1. req[r].pc = "deleteall" /\ req[r].op = "revokeall" /\ req[r].todo \subseteq Tokens
    BY <1>0, <1>5 DEF DeleteAllCached, SoundBy, Request
  <2>2. CASE req[r].todo = {}
    BY <1>5, <2>1, <2>2, PlainReturn DEF DeleteAllCached, Results
  <2>3. ASSUME NEW t \in req[r].todo, NEW x, req' = [req EXCEPT ![r] = x],
               \/ x = [req[r] EXCEPT !.todo = @ \ {t}]
               \/ x = [req[r] EXCEPT !.todo = @ \ {t}, !.unsynced = TRUE]
        PROVE ReqOK'
    <3>1. x \in Request
      BY ZenonT(40), <1>0, <2>1, <2>3 DEF Request
    <3>2. x.pc = req[r].pc /\ x.op = req[r].op
      BY <1>0, <2>3 DEF Request
    <3>3. SoundBy(x, sessions', hasCache)
      BY <2>1, <3>2 DEF SoundBy
    <3> QED BY <2>3, <3>1, <3>3, UpdateSound
  <2>4. CASE req[r].todo # {}
    <3>1. PICK t \in req[r].todo :
             \/ req' = [req EXCEPT ![r].todo = @ \ {t}]
             \/ req' = [req EXCEPT ![r].todo = @ \ {t}, ![r].unsynced = TRUE]
      BY <1>5, <2>4 DEF DeleteAllCached
    <3>2. \/ req' = [req EXCEPT ![r] = [req[r] EXCEPT !.todo = @ \ {t}]]
          \/ req' = [req EXCEPT ![r] = [req[r] EXCEPT !.todo = @ \ {t}, !.unsynced = TRUE]]
      BY <3>1
    <3> QED BY <2>3, <3>2
  <2> QED BY <2>2, <2>4
<1> QED BY <1>1, <1>2, <1>3, <1>4, <1>5

\* ErrConflict: the next credential is drawn like the first.
LEMMA RedrawSound ==
  ASSUME Context, NEW r \in Requests, req[r].pc \in {"create", "rotate"}, Redraw(r)
  PROVE  ReqOK'
<1> USE ManagerAssumption, NoRecordAssumption
<1>0. /\ req[r] \in Request /\ SoundBy(req[r], sessions', hasCache) /\ now \in Nat
      /\ now \in Times /\ Drawable \subseteq Tokens
  BY SoundKept DEF Context, Inv, TypeOK, Times, Drawable
<1>1. CASE req[r].tries + 1 = CreationAttempts
  BY <1>1, PlainReturn DEF Redraw, Results
<1>2. CASE req[r].tries + 1 # CreationAttempts
  <2>1. PICK t \in Drawable :
           req' = [req EXCEPT ![r].tries = @ + 1,
                              ![r].rec = NewRecord(t, req[r].rec.subject, now)]
    BY <1>2 DEF Redraw
  <2> DEFINE rec == NewRecord(t, req[r].rec.subject, now)
             x == [req[r] EXCEPT !.tries = @ + 1, !.rec = rec]
  <2>2. req[r].rec.subject \in Subjects
    <3>1. PICK u \in Tokens, s \in Subjects, at \in Times : req[r].rec = NewRecord(u, s, at)
      BY <1>0 DEF SoundBy, Fresh
    <3> QED BY <3>1 DEF NewRecord
  <2>3. rec \in Record /\ Fresh(rec) /\ rec.subject = req[r].rec.subject
    BY <1>0, <2>2, NewRecordType DEF Fresh
  <2>4. req[r].tries + 1 \in 0..(CreationAttempts - 1)
    BY <1>0, <1>2 DEF Request, CreationAttempts
  <2>5. req' = [req EXCEPT ![r] = x]
    BY <2>1
  <2> HIDE DEF rec
  <2>6. x \in Request
    BY <1>0, <2>3, <2>4 DEF Request
  <2>7. /\ x.pc = req[r].pc /\ x.op = req[r].op /\ x.tok = req[r].tok /\ x.at = req[r].at
        /\ x.rec = rec
    BY <1>0 DEF Request
  <2> HIDE DEF x
  <2>8. SoundBy(x, sessions', hasCache)
    BY <1>0, <2>3, <2>7 DEF SoundBy
  <2> QED BY <2>5, <2>6, <2>8, UpdateSound
<1> QED BY <1>1, <1>2

\* A record just inserted can be cached.
LEMMA InsertedFillable ==
  ASSUME Context, NEW rec, Fresh(rec), sessions'[rec.hash] = rec
  PROVE  rec \in Record /\ BehindIn(rec, sessions')
<1> USE NoRecordAssumption
<1>1. PICK t \in Tokens, s \in Subjects, at \in Times : rec = NewRecord(t, s, at)
  BY DEF Fresh
<1>2. at \in Nat
  BY LifetimeAssumption DEF Times
<1>3. rec \in Record /\ ~rec.revoked
  BY <1>1, <1>2, NewRecordType
<1> QED BY <1>3 DEF BehindIn, Record

\* Create goes on with the record it inserted, or draws again.
LEMMA CreateSound ==
  ASSUME Context, NEW r \in Requests, CreateInStore(r)
  PROVE  ReqOK'
<1>0. req[r] \in Request /\ SoundBy(req[r], sessions, hasCache)
  BY DEF Context, Inv, TypeOK, Sound
<1>1. req[r].pc = "create" /\ req[r].op = "create" /\ Fresh(req[r].rec)
  BY <1>0 DEF CreateInStore, SoundBy
<1>2. CASE StoreCreate(req[r].rec) /\ Fill(r, req[r].rec, 1)
  <2>1. req[r].rec.hash \in Tokens
    BY <1>1 DEF Fresh, NewRecord
  <2>2. sessions'[req[r].rec.hash] = req[r].rec
    BY <1>2, <2>1 DEF StoreCreate, Context, Inv, TableOK
  <2>3. Fillable(req[r], req[r].rec, sessions', hasCache)
    BY <1>1, <2>2, InsertedFillable DEF Fillable
  <2> QED BY <1>2, <2>3, FillSound
<1>3. CASE Redraw(r)
  BY <1>1, <1>3, RedrawSound
<1>4. CASE Return(r, "failed")
  BY <1>4, PlainReturn DEF Results
<1> QED BY <1>2, <1>3, <1>4 DEF CreateInStore

\* The record a Resolve finds, in the cache or in the store.
LEMMA FindSound ==
  ASSUME Context, NEW r \in Requests, CacheGet(r) \/ FindByTokenHash(r)
  PROVE  ReqOK'
<1> USE NoRecordAssumption
<1> DEFINE t == req[r].tok
<1>0. /\ req[r] \in Request /\ SoundBy(req[r], sessions, hasCache) /\ req[r].op = "resolve"
      /\ t \in Tokens /\ UNCHANGED sessions
  BY DEF Context, Inv, TypeOK, Sound, SoundBy, CacheGet, FindByTokenHash
<1>1. CASE CacheGet(r)
  <2>1. hasCache
    BY <1>0, <1>1 DEF CacheGet, SoundBy
  <2>2. CASE Goto(r, "find") \/ Goto(r, "evict")
    BY <1>0, <2>2, GotoSound
  <2>3. CASE /\ cache[t] # NoEntry /\ ActiveAt(cache[t].rec, req[r].at)
             /\ Extending(r, cache[t].rec, 0)
    <3>1. cache[t] \in [rec: Record, until: Nat] /\ cache[t].rec.hash = t /\ Behind(cache[t].rec)
      BY <1>0, <2>3 DEF Context, Inv, TypeOK, Entry, CacheBehindStore
    <3>2. Answerable(req[r], cache[t].rec, sessions', hasCache)
      BY <1>0, <2>1, <2>3, <3>1 DEF Answerable, Behind, BehindIn, Exists, ActiveAt
    <3> QED BY <1>0, <2>3, <3>2, ExtendingSound
  <2> QED BY <1>1, <2>2, <2>3 DEF CacheGet
<1>2. CASE FindByTokenHash(r)
  <2>1. CASE Return(r, "refused") \/ Return(r, "failed")
    BY <2>1, PlainReturn DEF Results
  <2>2. CASE Goto(r, "drop")
    BY <1>0, <2>2, GotoSound
  <2>3. CASE Exists(t) /\ ActiveAt(sessions[t], req[r].at) /\ Extending(r, sessions[t], 1)
    <3>1. sessions[t] \in Record /\ sessions[t].hash = t
      BY <1>0, <2>3 DEF Context, Inv, TableOK, Exists
    <3>2. ~hasCache => req[r].live
      BY <1>0, <2>3 DEF SoundBy, ActiveAt, Request
    <3>3. Answerable(req[r], sessions[t], sessions', hasCache)
      BY <1>0, <2>3, <3>1, <3>2 DEF Answerable, BehindIn, Exists, ActiveAt, Record
    <3> QED BY <1>0, <2>3, <3>3, ExtendingSound
  <2> QED BY <1>2, <2>1, <2>2, <2>3 DEF FindByTokenHash
<1> QED BY <1>1, <1>2

\* What the store answers to Extend.
LEMMA ExtendSound ==
  ASSUME Context, NEW r \in Requests, ExtendInStore(r)
  PROVE  ReqOK'
<1> USE NoRecordAssumption, LifetimeAssumption
<1> DEFINE t == req[r].tok
           at == req[r].at
           expires == DueExpiry(req[r].rec, at)
           extended == [sessions[t] EXCEPT !.last = at, !.expires = expires]
<1>0. /\ req[r] \in Request /\ SoundBy(req[r], sessions, hasCache) /\ req[r].op = "resolve"
      /\ t \in Tokens /\ at \in Nat /\ req[r].fills \in 0..1 /\ req[r].pc = "extend"
      /\ SoundBy(req[r], sessions', hasCache)
  <2>1. req[r] \in Request /\ SoundBy(req[r], sessions, hasCache) /\ req[r].pc = "extend"
    BY DEF Context, Inv, TypeOK, Sound, ExtendInStore
  <2> QED BY <2>1, SoundKept DEF SoundBy, Request
<1>1. /\ Answerable(req[r], req[r].rec, sessions, hasCache)
      /\ Answerable(req[r], req[r].rec, sessions', hasCache)
  BY <1>0 DEF SoundBy
<1>2. CASE StoreExtend(t, at, expires) /\ Fill(r, extended, req[r].fills + 1)
  <2>1. /\ sessions[t] \in Record /\ sessions[t].hash = t /\ ~sessions[t].revoked
        /\ at < sessions[t].expires /\ sessions[t].expires < expires
    BY <1>0, <1>2 DEF StoreExtend, Extendable, Exists, ActiveAt, Context, Inv, TableOK
  <2>2. expires \in Nat
    BY <1>0, <1>1 DEF DueExpiry, Earlier, Answerable, Record
  <2>3. sessions'[t] = extended
    BY <1>0, <1>2 DEF StoreExtend, Context, Inv, TableOK
  <2> HIDE DEF expires
  <2>4. /\ extended \in Record /\ extended.hash = t /\ ~extended.revoked
        /\ extended.expires = expires
    BY <1>0, <2>1, <2>2 DEF Record
  <2> HIDE DEF extended
  <2>5. Answerable(req[r], extended, sessions', hasCache)
    BY <1>0, <1>1, <2>1, <2>2, <2>3, <2>4 DEF Answerable, BehindIn, Record
  <2>6. Fillable(req[r], extended, sessions', hasCache)
    BY <1>0, <2>5 DEF Fillable, Answerable
  <2>7. req[r].fills + 1 \in 0..2
    BY <1>0
  <2> QED BY <1>2, <2>6, <2>7, FillSound
<1>3. CASE Goto(r, "purge") \/ Return(r, "refused")
  BY <1>0, <1>3, GotoSound, PlainReturn DEF Results
<1>4. CASE Return(r, "ok")
  BY <1>1, <1>4, ReturnSound DEF Return, Results, Answerable
<1>5. CASE Fill(r, req[r].rec, req[r].fills)
  <2>1. Fillable(req[r], req[r].rec, sessions', hasCache) /\ req[r].fills \in 0..2
    BY <1>0, <1>1 DEF Fillable, Answerable
  <2> QED BY <1>5, <2>1, FillSound
<1> QED BY <1>2, <1>3, <1>4, <1>5 DEF ExtendInStore

\* Rotate carries a fresh credential for the owner of the one it replaces.
LEMMA RotateSound ==
  ASSUME Context, NEW r \in Requests, RotateFind(r) \/ RotateInStore(r)
  PROVE  ReqOK'
<1> USE NoRecordAssumption, ManagerAssumption
<1> DEFINE t == req[r].tok
<1>0. /\ req[r] \in Request /\ SoundBy(req[r], sessions, hasCache) /\ req[r].op = "rotate"
      /\ t \in Tokens /\ now \in Nat /\ now \in Times
  BY DEF Context, Inv, TypeOK, Sound, SoundBy, RotateFind, RotateInStore, Times
<1>1. CASE Return(r, "refused") \/ Return(r, "failed")
  BY <1>1, PlainReturn DEF Results
<1>2. CASE RotateFind(r) /\ ~(Return(r, "refused") \/ Return(r, "failed"))
  <2>1. Exists(t) /\ sessions' = sessions
    BY <1>2 DEF RotateFind
  <2>2. PICK u \in Drawable :
           req' = [req EXCEPT ![r].pc = "rotate", ![r].at = now,
                              ![r].rec = NewRecord(u, sessions[t].subject, now)]
    BY <1>2 DEF RotateFind
  <2> DEFINE rec == NewRecord(u, sessions[t].subject, now)
             x == [req[r] EXCEPT !.pc = "rotate", !.at = now, !.rec = rec]
  <2>3. sessions[t].subject \in Subjects /\ u \in Tokens
    BY <1>0, <2>1 DEF Context, Inv, TableOK, Exists, Record, Drawable
  <2>4. rec \in Record /\ Fresh(rec) /\ rec.subject = sessions[t].subject
    BY <1>0, <2>3, NewRecordType DEF Fresh
  <2>5. req' = [req EXCEPT ![r] = x]
    BY <2>2
  <2> HIDE DEF rec
  <2>6. "rotate" \in Running
    BY DEF Running
  <2>7. x \in Request
    BY <1>0, <2>4, <2>6 DEF Request
  <2>8. x.pc = "rotate" /\ x.op = req[r].op /\ x.tok = t /\ x.at = now /\ x.rec = rec
    BY <1>0 DEF Request
  <2> HIDE DEF x
  <2>9. SoundBy(x, sessions', hasCache)
    BY <1>0, <2>1, <2>4, <2>8 DEF SoundBy, Exists
  <2> QED BY <2>5, <2>7, <2>9, UpdateSound
<1>3. CASE RotateInStore(r) /\ Redraw(r)
  BY <1>3, RedrawSound DEF RotateInStore
<1>4. CASE RotateInStore(r) /\ StoreRotate(t, req[r].rec, req[r].at) /\ Fill(r, req[r].rec, 1)
  <2>1. Fresh(req[r].rec)
    BY <1>0, <1>4 DEF RotateInStore, SoundBy
  <2>2. req[r].rec.hash \in Tokens
    BY <2>1 DEF Fresh, NewRecord
  <2>3. sessions'[req[r].rec.hash] = req[r].rec
    BY <1>4, <2>2 DEF StoreRotate, Context, Inv, TableOK
  <2>4. Fillable(req[r], req[r].rec, sessions', hasCache)
    BY <1>0, <2>1, <2>3, InsertedFillable DEF Fillable
  <2> QED BY <1>4, <2>4, FillSound
<1> QED BY <1>1, <1>2, <1>3, <1>4 DEF RotateInStore

\* Each call hands the next one what it relies on.
LEMMA StepSound ==
  ASSUME Context, NEW r \in Requests, Step(r) \/ Abandon(r)
  PROVE  ReqOK'
<1>1. CASE RevokeInStore(r)
  <2>1. req[r].op = "revoke" /\ req[r].tok \in Tokens
    BY <1>1 DEF Context, Inv, Sound, SoundBy, RevokeInStore
  <2> QED BY <1>1, <2>1, GotoSound, PlainReturn DEF RevokeInStore, Results
<1>2. CASE Abandon(r)
  BY <1>2, PlainReturn DEF Abandon, Results
<1> QED BY <1>1, <1>2, CacheStepSound, CreateSound, FindSound, ExtendSound, RotateSound DEF Step

-----------------------------------------------------------------------------
(***************************************************************************)
(* The cache and the rotations.                                            *)
(***************************************************************************)

\* A cache entry is always a copy some request held, and rows only grow.
LEMMA CacheStep ==
  ASSUME Context, [Next]_vars
  PROVE  cache' \in [Tokens -> Entry] /\ CacheBehindStore'
<1> USE NoRecordAssumption, ManagerAssumption
<1> DEFINE Good(t, e) == e = NoEntry \/ (/\ e \in [rec: Record, until: Nat] /\ e.rec.hash = t
                                         /\ BehindIn(e.rec, sessions'))
<1>0. \A t \in Tokens : Good(t, cache[t])
  BY BehindKept DEF Context, Inv, TypeOK, Entry, CacheBehindStore, Behind, BehindIn, Exists
<1>1. ASSUME DOMAIN cache' = Tokens, cache' = [t \in Tokens |-> cache'[t]],
             \A t \in Tokens : Good(t, cache'[t])
      PROVE  cache' \in [Tokens -> Entry] /\ CacheBehindStore'
  BY <1>1 DEF Entry, CacheBehindStore, Behind, BehindIn, Exists
<1>2. ASSUME NEW t \in Tokens, NEW e, Good(t, e), cache' = [cache EXCEPT ![t] = e]
      PROVE  cache' \in [Tokens -> Entry] /\ CacheBehindStore'
  <2> HIDE DEF Good
  <2>1. cache' = [u \in Tokens |-> IF u = t THEN e ELSE cache[u]]
    BY <1>2 DEF Context, Inv, TypeOK
  <2>2. \A u \in Tokens : Good(u, cache'[u])
    BY <1>0, <1>2, <2>1
  <2> QED BY <1>1, <2>1, <2>2
<1>3. CASE UNCHANGED cache
  <2>1. cache = [t \in Tokens |-> cache[t]]
    BY DEF Context, Inv, TypeOK
  <2> HIDE DEF Good
  <2> QED BY <1>0, <1>1, <1>3, <2>1
<1>4. CASE Tick
  <2>1. cache' = [t \in Tokens |-> IF cache[t].until <= now' THEN NoEntry ELSE cache[t]]
    BY <1>4 DEF Tick
  <2>2. \A t \in Tokens : cache'[t] = NoEntry \/ cache'[t] = cache[t]
    BY <2>1
  <2>3. \A t \in Tokens : Good(t, cache'[t])
    BY <1>0, <2>2
  <2> HIDE DEF Good
  <2> QED BY <1>1, <2>1, <2>3
<1>5. ASSUME NEW r \in Requests, CacheSet(r), cache' # cache
      PROVE  cache' \in [Tokens -> Entry] /\ CacheBehindStore'
  <2> DEFINE e == [rec |-> req[r].rec, until |-> now + req[r].ttl]
  <2>1. cache' = [cache EXCEPT ![req[r].rec.hash] = e] /\ req[r].pc = "set"
    BY <1>5 DEF CacheSet
  <2>2. /\ req[r] \in Request /\ SoundBy(req[r], sessions', hasCache) /\ now \in Nat
    BY SoundKept, LifetimeAssumption DEF Context, Inv, TypeOK, Times
  <2>3. req[r].rec \in Record /\ BehindIn(req[r].rec, sessions') /\ req[r].ttl \in Nat
    BY <2>1, <2>2 DEF SoundBy, Request
  <2>4. Good(req[r].rec.hash, e) /\ req[r].rec.hash \in Tokens
    BY <2>2, <2>3 DEF Record
  <2> HIDE DEF Good, e
  <2> QED BY <1>2, <2>1, <2>4
<1>6. ASSUME NEW t \in Tokens, cache' \in {cache, Deleted(t)}
      PROVE  cache' \in [Tokens -> Entry] /\ CacheBehindStore'
  <2>1. Good(t, NoEntry)
    OBVIOUS
  <2> HIDE DEF Good
  <2> QED BY <1>2, <1>3, <1>6, <2>1 DEF Deleted
<1>7. ASSUME NEW r \in Requests, DeleteCached(r) \/ DeleteQuietly(r)
      PROVE  cache' \in [Tokens -> Entry] /\ CacheBehindStore'
  <2>1. req[r].tok \in Tokens
    BY <1>7 DEF DeleteCached, DeleteQuietly, Context, Inv, Sound, SoundBy
  <2> QED BY <1>6, <1>7, <2>1 DEF DeleteCached, DeleteQuietly
<1>8. ASSUME NEW r \in Requests, DeleteAllCached(r)
      PROVE  cache' \in [Tokens -> Entry] /\ CacheBehindStore'
  <2>1. req[r].todo \subseteq Tokens
    BY DEF Context, Inv, TypeOK, Request
  <2> QED BY <1>3, <1>6, <1>8, <2>1 DEF DeleteAllCached
<1> HIDE DEF Good
<1> QED BY <1>3, <1>4, <1>5, <1>7, <1>8
  DEF Next, vars, Begin, Step, Abandon, BeginCreate, BeginResolve, BeginRotate, BeginRevoke,
      BeginRevokeByID, BeginRevokeAll, ComputeTTL, CreateInStore, CacheGet, FindByTokenHash,
      ExtendInStore, RotateFind, RotateInStore, RevokeInStore, CacheSet

\* A rotation is applied to a live credential, which therefore has no successor yet.
LEMMA RotationStep ==
  ASSUME Context, [Next]_vars
  PROVE  parent' \in [Tokens -> Tokens \cup {NoToken}] /\ RotationUnique'
<1> USE NoRecordAssumption, ManagerAssumption
<1>0. /\ parent \in [Tokens -> Tokens \cup {NoToken}] /\ RotationUnique
      /\ \A t \in Tokens : Exists(t) => /\ Exists(t)' /\ sessions'[t].subject = sessions[t].subject
                                        /\ sessions[t].revoked => sessions'[t].revoked
  BY DEF Context, Inv, TypeOK, Persistent, Later, Exists
<1>1. CASE UNCHANGED parent
  BY <1>0, <1>1 DEF RotationUnique
<1>2. ASSUME NEW r \in Requests, RotateInStore(r), parent' # parent
      PROVE  parent' \in [Tokens -> Tokens \cup {NoToken}] /\ RotationUnique'
  <2> DEFINE t == req[r].tok
             u == req[r].rec.hash
  <2>1. /\ req[r].pc = "rotate" /\ StoreRotate(t, req[r].rec, req[r].at)
        /\ parent' = [parent EXCEPT ![u] = t]
    BY <1>2 DEF RotateInStore
  <2>2. /\ Fresh(req[r].rec) /\ t \in Tokens /\ req[r].rec.subject = sessions[t].subject
    BY <2>1 DEF Context, Inv, Sound, SoundBy
  <2>3. u \in Tokens
    BY <2>2 DEF Fresh, NewRecord
  <2>4. Exists(t) /\ ~sessions[t].revoked /\ ~Exists(u) /\ t # u
    BY <2>1 DEF StoreRotate, Rotatable, ActiveAt
  <2>5. sessions'[u] = req[r].rec /\ sessions'[t] = [sessions[t] EXCEPT !.revoked = TRUE]
    BY <2>1, <2>2, <2>3, <2>4 DEF StoreRotate, Context, Inv, TableOK
  <2>6. sessions'[t].revoked /\ sessions[t] \in Record
    BY <2>2, <2>4, <2>5 DEF Context, Inv, TableOK, Exists, Record
  <2>7. sessions'[u] # NoRecord
    <3>1. req[r].rec \in Record
      BY <2>2, <2>3, <2>5, InsertedFillable
    <3> QED BY <2>5, <3>1
  <2> HIDE DEF t, u
  <2>8. parent'[u] = t /\ \A v \in Tokens : v # u => parent'[v] = parent[v]
    BY <1>0, <2>1, <2>3
  <2>9. \A v \in Tokens : parent[v] # t
    BY <1>0, <2>2, <2>4 DEF RotationUnique
  <2>10. parent' \in [Tokens -> Tokens \cup {NoToken}]
    BY <1>0, <2>1, <2>2, <2>3
  <2>11. \A v, w \in Tokens : parent'[v] # NoToken /\ parent'[v] = parent'[w] => v = w
    BY <1>0, <2>8, <2>9 DEF RotationUnique
  <2>12. ASSUME NEW v \in Tokens, parent'[v] # NoToken
         PROVE  /\ sessions'[v] # NoRecord /\ sessions'[parent'[v]] # NoRecord
                /\ sessions'[v].subject = sessions'[parent'[v]].subject
                /\ sessions'[parent'[v]].revoked
    <3>1. CASE v = u
      <4>1. sessions'[t] # NoRecord /\ sessions'[t].subject = sessions[t].subject
        BY <1>0, <2>2, <2>4 DEF Exists
      <4> QED BY <2>2, <2>5, <2>6, <2>7, <2>8, <3>1, <4>1 DEF u
    <3>2. CASE v # u
      <4>1. /\ parent[v] \in Tokens /\ Exists(v) /\ Exists(parent[v])
            /\ sessions[v].subject = sessions[parent[v]].subject /\ sessions[parent[v]].revoked
        BY <1>0, <2>8, <2>12, <3>2 DEF RotationUnique
      <4>2. Exists(parent[v])' = (sessions'[parent'[v]] # NoRecord)
        BY <2>8, <3>2 DEF Exists
      <4> QED BY <1>0, <2>8, <3>2, <4>1 DEF Exists
    <3> QED BY <3>1, <3>2
  <2> QED BY <2>10, <2>11, <2>12 DEF RotationUnique, Exists
<1> QED BY <1>1, <1>2
  DEF Next, vars, Tick, Begin, Step, Abandon, BeginCreate, BeginResolve, BeginRotate, BeginRevoke,
      BeginRevokeByID, BeginRevokeAll, ComputeTTL, CreateInStore, CacheGet, FindByTokenHash,
      ExtendInStore, RotateFind, RevokeInStore, CacheSet, DeleteCached, DeleteQuietly,
      DeleteAllCached

-----------------------------------------------------------------------------

\* Every step keeps the invariant.
LEMMA Inductive == Inv /\ [Next]_vars => Inv'
<1> SUFFICES ASSUME Inv, [Next]_vars PROVE Inv'
  OBVIOUS
<1>1. TableOK' /\ Persistent
  BY StoreCalls, TableStep DEF Inv
<1>2. hasCache' = hasCache
  BY DEF Next, vars
<1>3. Context
  BY <1>1, <1>2 DEF Context
<1>4. ReqOK'
  <2>1. CASE Tick \/ UNCHANGED vars
    <3>1. req' = req /\ req \in [Requests -> Request]
      BY <2>1 DEF Tick, vars, Inv, TypeOK
    <3> QED BY <1>2, <1>3, <3>1, SoundKept DEF ReqOK, Sound
  <2> QED BY <1>3, <2>1, BeginSound, StepSound DEF Next
<1>5. now' \in Times
  <2>1. CASE Tick
    BY <2>1, ManagerAssumption, LifetimeAssumption DEF Tick, LastInstant, Times, Inv, TypeOK
  <2>2. CASE now' = now
    BY <2>2 DEF Inv, TypeOK
  <2> QED BY ZenonT(40), <2>1, <2>2
    DEF Next, vars, Begin, Step, Abandon, BeginCreate, BeginResolve, BeginRotate, BeginRevoke,
      BeginRevokeByID, BeginRevokeAll, ComputeTTL, CreateInStore, CacheGet, FindByTokenHash,
      ExtendInStore, RotateFind, RotateInStore, RevokeInStore, CacheSet, DeleteCached,
      DeleteQuietly, DeleteAllCached
<1>6. TypeOK'
  BY <1>1, <1>2, <1>3, <1>4, <1>5, CacheStep, RotationStep DEF Inv, TypeOK, TableOK, ReqOK
<1> QED BY <1>1, <1>3, <1>4, <1>6, CacheStep, RotationStep DEF Inv, ReqOK

\* It holds at the start: the table and the cache are empty.
LEMMA Initially == Init => Inv
<1> SUFFICES ASSUME Init PROVE Inv
  OBVIOUS
<1>1. TypeOK
  BY IdleType, LifetimeAssumption DEF Init, StoreInit, TypeOK, Times, Entry
<1>2. TableOK /\ CacheBehindStore /\ RotationUnique
  BY DEF Init, StoreInit, TableOK, IdleWindow, Exists, CacheBehindStore, RotationUnique
<1>3. Sound
  BY DEF Init, Sound, SoundBy, Idle
<1> QED BY <1>1, <1>2, <1>3 DEF Inv

\* So it holds throughout.
LEMMA Invariant == Spec => []Inv
  BY Initially, Inductive, PTL DEF Spec

-----------------------------------------------------------------------------
(***************************************************************************)
(* What makes Resolve refuse.                                              *)
(***************************************************************************)

\* What the next call of request r is, after a step of its own.
LEMMA NextCall ==
  ASSUME Inv, NEW r \in Requests
  PROVE  /\ \A pc \in Running : Goto(r, pc) => req'[r].pc = pc
         /\ \A result \in Results : \A rec : ReturnWith(r, result, rec) => req'[r].pc = result
         /\ \A result \in Results : Return(r, result) => req'[r].pc = result
         /\ \A rec, n : Fill(r, rec, n) => req'[r].pc \in {"fill", "ok"}
         /\ \A rec, n : Extending(r, rec, n) => req'[r].pc \in {"extend", "fill", "ok"}
<1>0. req \in [Requests -> Request] /\ req[r] \in Request
  BY DEF Inv, TypeOK
<1>1. \A pc \in Running : Goto(r, pc) => req'[r].pc = pc
  BY <1>0 DEF Goto, Request
<1>2. \A result \in Results : \A rec : ReturnWith(r, result, rec) => req'[r].pc = result
  BY <1>0 DEF ReturnWith, Idle
<1>3. \A result \in Results : Return(r, result) => req'[r].pc = result
  BY <1>2 DEF Return
<1>4. ASSUME NEW rec, NEW n, Fill(r, rec, n)
      PROVE  req'[r].pc \in {"fill", "ok"}
  <2>1. CASE hasCache
    BY <1>0, <1>4, <2>1 DEF Fill, Request
  <2>2. CASE ~hasCache
    BY <1>2, <1>4, <2>2 DEF Fill, Results
  <2> QED BY <2>1, <2>2
<1>5. ASSUME NEW rec, NEW n, Extending(r, rec, n)
      PROVE  req'[r].pc \in {"extend", "fill", "ok"}
  <2>1. CASE ExtensionDue(rec, req[r].at)
    BY <1>0, <1>5, <2>1 DEF Extending, Request
  <2>2. CASE ~ExtensionDue(rec, req[r].at)
    BY <1>2, <1>4, <1>5, <2>2 DEF Extending, Results
  <2> QED BY <2>1, <2>2
<1> QED BY <1>1, <1>2, <1>3, <1>4, <1>5

\* A step of one request leaves the others where they are.
LEMMA OthersKept ==
  ASSUME Inv, NEW r \in Requests, NEW q \in Requests, q # r,
         Begin(q) \/ Step(q) \/ Abandon(q)
  PROVE  req'[r] = req[r]
<1>0. req \in [Requests -> Request]
  BY DEF Inv, TypeOK
<1>1. \A x : req' = [req EXCEPT ![q] = x] => req'[r] = req[r]
  BY <1>0
<1>2. \A pc : Goto(q, pc) => req'[r] = req[r]
  BY <1>0 DEF Goto
<1>3. \A result, rec : ReturnWith(q, result, rec) => req'[r] = req[r]
  BY <1>0 DEF ReturnWith
<1>4. \A result : Return(q, result) => req'[r] = req[r]
  BY <1>3 DEF Return
<1>5. \A rec, n : Fill(q, rec, n) => req'[r] = req[r]
  BY <1>0, <1>3 DEF Fill
<1>6. \A rec, n : Extending(q, rec, n) => req'[r] = req[r]
  BY <1>0, <1>3, <1>5 DEF Extending
<1>7. FillDone(q) => req'[r] = req[r]
  BY <1>0, <1>2, <1>4 DEF FillDone, AfterFills
<1>8. Redraw(q) => req'[r] = req[r]
  BY <1>0, <1>4 DEF Redraw
<1>9. CASE Begin(q)
  BY <1>1, <1>9 DEF Begin, BeginCreate, BeginResolve, BeginRotate, BeginRevoke, BeginRevokeByID,
                    BeginRevokeAll
<1>10. CASE ComputeTTL(q) \/ CacheSet(q) \/ DeleteCached(q) \/ DeleteQuietly(q) \/ DeleteAllCached(q)
  <2>1. CASE ComputeTTL(q)
    BY <1>0, <1>7, <2>1 DEF ComputeTTL
  <2>2. CASE DeleteAllCached(q)
    BY <1>0, <1>4, <2>2 DEF DeleteAllCached
  <2> QED BY <1>2, <1>4, <1>7, <1>10, <2>1, <2>2 DEF CacheSet, DeleteCached, DeleteQuietly
<1>11. CASE CreateInStore(q) \/ CacheGet(q) \/ FindByTokenHash(q) \/ ExtendInStore(q)
  BY <1>2, <1>4, <1>5, <1>6, <1>8, <1>11
     DEF CreateInStore, CacheGet, FindByTokenHash, ExtendInStore
<1>12. CASE RotateFind(q) \/ RotateInStore(q) \/ RevokeInStore(q) \/ Abandon(q)
  <2>1. CASE RotateFind(q)
    BY <1>0, <1>4, <2>1 DEF RotateFind
  <2> QED BY <1>2, <1>4, <1>5, <1>8, <1>12, <2>1 DEF RotateInStore, RevokeInStore, Abandon
<1> QED BY <1>9, <1>10, <1>11, <1>12 DEF Step

\* A durable answer that makes Resolve refuse: the row is no longer active, or it has been
\* extended past the record this request computed its extension from.
LEMMA RefusalStep ==
  ASSUME Inv, [Next]_vars, NEW r \in Requests,
         req[r].op = "resolve", req[r].pc \in {"find", "extend"},
         req'[r].pc \in {"drop", "purge", "refused"}, Exists(req[r].tok)
  PROVE  \/ ~ActiveAt(sessions[req[r].tok], req[r].at)
         \/ req[r].rec # NoRecord /\ req[r].rec.expires < sessions[req[r].tok].expires
<1>1. req'[r] # req[r]
  OBVIOUS
<1>2. Begin(r) \/ Step(r) \/ Abandon(r)
  BY <1>1, OthersKept DEF Next, vars, Tick
<1>3. Step(r)
  <2>1. ~Begin(r)
    BY DEF Begin, BeginCreate, BeginResolve, BeginRotate, BeginRevoke, BeginRevokeByID,
           BeginRevokeAll, Free, Running
  <2>2. ~Abandon(r)
    BY NextCall DEF Abandon, Results
  <2> QED BY <1>2, <2>1, <2>2
<1>4. FindByTokenHash(r) \/ ExtendInStore(r)
  BY <1>3 DEF Step, ComputeTTL, CacheSet, DeleteCached, DeleteQuietly, DeleteAllCached,
              CreateInStore, CacheGet, RotateFind, RotateInStore, RevokeInStore
<1>5. CASE FindByTokenHash(r)
  <2>1. \A n : ~Extending(r, sessions[req[r].tok], n)
    BY NextCall
  <2>2. ~Return(r, "failed")
    BY NextCall DEF Results
  <2> QED BY <1>5, <2>1, <2>2 DEF FindByTokenHash
<1>6. CASE ExtendInStore(r)
  <2>1. /\ \A rec, n : ~Fill(r, rec, n)
        /\ ~Return(r, "ok")
    BY NextCall DEF Results
  <2>2. req[r].pc = "extend" /\ ~Extendable(req[r].tok, req[r].at, DueExpiry(req[r].rec, req[r].at))
    BY <1>6, <2>1 DEF ExtendInStore
  <2>3. /\ req[r].rec \in Record /\ req[r].at \in Nat
        /\ DueExpiry(req[r].rec, req[r].at) > req[r].rec.expires
    BY <2>2 DEF Inv, Sound, SoundBy, Answerable, ExtensionDue, TypeOK, Request
  <2>4. req[r].tok \in Tokens /\ sessions[req[r].tok] \in Record
    BY DEF Inv, Sound, SoundBy, TableOK, Exists
  <2>5. DueExpiry(req[r].rec, req[r].at) \in Nat
    BY <2>3, LifetimeAssumption DEF DueExpiry, Earlier, Record
  <2> QED BY <2>2, <2>3, <2>4, <2>5, NoRecordAssumption DEF Extendable, Record
<1> QED BY <1>4, <1>5, <1>6

-----------------------------------------------------------------------------
(***************************************************************************)
(* The theorems.                                                           *)
(***************************************************************************)

\* Consistent is an invariant: a session lives one lifetime from its creation or its last
\* extension, a cache entry is a past state of its own session, and of the concurrent
\* rotations of a credential one is applied, however the calls of any number of servers
\* interleave and fail.
THEOREM AlwaysConsistent == Spec => []Consistent
<1>1. Inv => Consistent
  BY DEF Inv, TableOK, Consistent
<1> QED BY <1>1, Invariant, PTL

\* AcceptedBeforeExpiry is an invariant: Resolve authenticates only before the durable
\* expiry and as the durable record's owner, even when it answers from a stale cache entry.
THEOREM AcceptedInTime == Spec => []AcceptedBeforeExpiry
<1>1. Inv => AcceptedBeforeExpiry
  BY DEF Inv, Sound, SoundBy, Accepted, AcceptedBeforeExpiry, Exists
<1> QED BY <1>1, Invariant, PTL

\* RevokedNeverAccepted is an invariant: without a cache, a credential revoked before the
\* request arrived does not authenticate it.
THEOREM RevokedIsRefused == Spec => []RevokedNeverAccepted
<1>1. Inv => RevokedNeverAccepted
  BY DEF Inv, Sound, SoundBy, Accepted, RevokedNeverAccepted
<1> QED BY <1>1, Invariant, PTL

\* RefusedOnlyIfInactive holds of every step: the store's answer makes Resolve refuse a
\* session only if it is revoked or expired, or if a concurrent request has extended it
\* beyond the record this one decided by.
THEOREM RefusalsAreJustified == Spec => RefusedOnlyIfInactive
<1>1. Inv /\ [Next]_vars =>
        [\A r \in Requests :
            /\ req[r].op = "resolve" /\ req[r].pc \in {"find", "extend"}
            /\ req'[r].pc \in {"drop", "purge", "refused"} /\ Exists(req[r].tok)
            => \/ ~ActiveAt(sessions[req[r].tok], req[r].at)
               \/ req[r].rec # NoRecord /\ req[r].rec.expires < sessions[req[r].tok].expires]_vars
  BY RefusalStep
<1> QED BY <1>1, Invariant, PTL DEF Spec, RefusedOnlyIfInactive

\* The manager implements the durable table's specification: its cached copies, retries,
\* failures and abandoned requests change the table only by whole methods of
\* sessiontoken.Store, with expiries computed from the row itself.
THEOREM ImplementsStore == Spec => StoreSpec
<1>1. Init => StoreInit
  BY DEF Init
<1>2. Inv /\ [Next]_vars => [StoreNext]_sessions
  BY StoreCalls
<1> QED BY <1>1, <1>2, Invariant, PTL DEF Spec, StoreSpec

=============================================================================
