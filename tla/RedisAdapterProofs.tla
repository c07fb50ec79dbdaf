------------------------- MODULE RedisAdapterProofs -------------------------
(***************************************************************************)
(* What the optimistic transactions of the Redis adapter guarantee, for    *)
(* any number of calls at once, of accounts, sessions, tokens and          *)
(* recovery codes, and any number of attempts.                             *)
(*                                                                         *)
(* One argument runs through the four groups.  What a transaction has read *)
(* and decided is right as long as it is clean: whoever writes a key that  *)
(* it watches marks it, and a marked one writes nothing.  The invariants   *)
(* below say so, with what a call carries from its caller.                 *)
(***************************************************************************)
EXTENDS RedisAdapter, TLAPS

-----------------------------------------------------------------------------
(***************************************************************************)
(* Cookie sessions: the inductive invariant.                               *)
(***************************************************************************)

\* The sets beside the hash list exactly the sessions of each subject.
CookieIndexed ==
    \A u \in Users :
        index[u] = {t \in SessionTokens : sessions[t] # None /\ sessions[t].subject = u}

\* What a call of sessiontoken.Manager brings: records stay and keep their subject and
\* their creation, so what the manager computed from one remains right.
CookieCarried(q, s) ==
    /\ q.answer = "none" /\ q.subject \in Users
    /\ q.method # "revokeAll" => q.token \in SessionTokens
    /\ q.method = "create" => q.rec = Cookie!NewRecord(q.token, q.subject, q.at)
    /\ q.method = "extend" =>
          /\ Extension /\ s[q.token] # None
          /\ q.expires = Cookie!ExtendedExpiry(s[q.token], q.at)
    /\ q.method = "rotate" =>
          /\ s[q.token] # None /\ q.subject = s[q.token].subject
          /\ \E h \in SessionTokens : q.rec = Cookie!NewRecord(h, q.subject, q.at)

\* The write that a method decides on when it finds the sessions s and the sets ix.
CookieDecided(q, s, ix) ==
    /\ q.method = "create" =>
          /\ s[q.token] = None
          /\ q.write = [Cookie!NoWrite EXCEPT ![q.token] = q.rec]
    /\ q.method = "extend" =>
          /\ s[q.token] # None /\ Cookie!ActiveAt(s[q.token], q.at)
          /\ s[q.token].expires < q.expires
          /\ q.write = [Cookie!NoWrite EXCEPT ![q.token] =
                           [s[q.token] EXCEPT !.last = q.at, !.expires = q.expires]]
    /\ q.method = "rotate" =>
          /\ s[q.token] # None /\ Cookie!ActiveAt(s[q.token], q.at)
          /\ s[q.rec.hash] = None
          /\ q.write = [Cookie!NoWrite EXCEPT ![q.token] = Cookie!Revoked(s[q.token]),
                                              ![q.rec.hash] = q.rec]
    /\ q.method = "revoke" =>
          /\ s[q.token] # None
          /\ q.write = [Cookie!NoWrite EXCEPT ![q.token] = Cookie!Revoked(s[q.token])]
    /\ q.method = "revokeAll" =>
          q.write = [t \in SessionTokens |-> IF t \in ix[q.subject] /\ s[t] # None
                                               THEN Cookie!Revoked(s[t]) ELSE None]

CookieRelies(q, s, ix) ==
    /\ q.pc # "idle" => CookieCarried(q, s)
    /\ q.pc = "records" => q.method = "revokeAll"
    /\ q.pc = "records" /\ ~q.dirty => q.fields = ix[q.subject]
    /\ q.pc = "exec" /\ ~q.dirty => CookieDecided(q, s, ix)

CookieInv ==
    /\ Cookie!TypeOK /\ CookieIndexed
    /\ \A r \in Requests : CookieRelies(cookieReq[r], sessions, index)

-----------------------------------------------------------------------------
(***************************************************************************)
(* Cookie sessions: steps that write nothing.                              *)
(***************************************************************************)

\* A step of one call that leaves sessions and sets alone.
LEMMA CookieMoves ==
    ASSUME CookieInv, NEW r \in Requests, NEW q \in Cookie!Request,
           CookieRelies(q, sessions, index),
           cookieReq' = [cookieReq EXCEPT ![r] = q], UNCHANGED <<sessions, cookieNow, index>>
    PROVE  CookieInv'
<1>1. Cookie!TypeOK'
  BY DEF CookieInv, Cookie!TypeOK
<1>2. CookieIndexed'
  BY DEF CookieInv, CookieIndexed
<1>3. ASSUME NEW x \in Requests PROVE CookieRelies(cookieReq[x], sessions, index)'
  <2>1. cookieReq[x]' = IF x = r THEN q ELSE cookieReq[x]
    BY DEF CookieInv, Cookie!TypeOK
  <2> QED BY <2>1 DEF CookieInv
<1> QED BY <1>1, <1>2, <1>3 DEF CookieInv

\* The empty pipeline writes no record.
LEMMA CookieNoWrite == Cookie!NoWrite \in [SessionTokens -> Cookie!Record \cup {None}]
BY DEF Cookie!NoWrite

\* A call that is over relies on nothing.
LEMMA CookieAnswered ==
    ASSUME NEW q \in Cookie!Request,
           NEW answer \in {"none", "ok", "not_found", "inactive", "conflict", "contention"}
    PROVE  /\ Cookie!Answered(q, answer) \in Cookie!Request
           /\ Cookie!Answered(q, answer).pc = "idle"
           /\ Cookie!Answered(q, answer).answer = answer
           /\ \A s, ix : CookieRelies(Cookie!Answered(q, answer), s, ix)
<1>1. /\ Cookie!Answered(q, answer).pc = "idle"
      /\ Cookie!Answered(q, answer).answer = answer
  BY DEF Cookie!Answered, Cookie!Request
<1>2. Cookie!Answered(q, answer) \in Cookie!Request
  <2>1. 0 \in Cookie!Times /\ 0 \in 0..(WatchAttempts - 1) /\ "create" \in Cookie!Methods
    BY WatchAssumption, LifetimesAssumption DEF Cookie!Methods, Cookie!Times
  <2> QED BY <2>1, CookieNoWrite DEF Cookie!Answered, Cookie!Request
<1> QED BY <1>1, <1>2 DEF CookieRelies

\* A method that answers without an EXEC keeps the invariant.
LEMMA CookieAnswers ==
    ASSUME CookieInv, NEW r \in Requests,
           NEW answer \in {"none", "ok", "not_found", "inactive", "conflict", "contention"},
           Cookie!Answer(r, answer), UNCHANGED <<sessions, cookieNow, index>>
    PROVE  CookieInv'
<1>1. cookieReq[r] \in Cookie!Request
  BY DEF CookieInv, Cookie!TypeOK
<1>2. cookieReq' = [cookieReq EXCEPT ![r] = Cookie!Answered(cookieReq[r], answer)]
  BY DEF Cookie!Answer
<1> HIDE DEF CookieInv
<1> QED BY <1>1, <1>2, CookieAnswered, CookieMoves

\* A new call relies on what its caller computed.
LEMMA CookieBegins ==
    ASSUME CookieInv, NEW r \in Requests, NEW method \in Cookie!Methods,
           NEW t \in SessionTokens \cup {None}, NEW u \in Users,
           NEW rec \in Cookie!Record \cup {None}, NEW expires \in Nat,
           Cookie!Begin(r, Cookie!Called(method, t, u, rec, expires)),
           CookieCarried(Cookie!Called(method, t, u, rec, expires), sessions)
    PROVE  CookieInv'
<1> DEFINE q == Cookie!Called(method, t, u, rec, expires)
<1>1. q \in Cookie!Request
  <2>1. /\ 0 \in Cookie!Times /\ cookieNow \in Cookie!Times
        /\ 0 \in 0..(WatchAttempts - 1)
    BY WatchAssumption, LifetimesAssumption DEF CookieInv, Cookie!TypeOK, Cookie!Times
  <2>2. (IF method \in {"revoke", "revokeAll"} THEN 0 ELSE cookieNow) \in Cookie!Times
    BY <2>1
  <2> QED BY <2>1, <2>2, CookieNoWrite DEF Cookie!Called, Cookie!Request
<1>2. CookieRelies(q, sessions, index)
  BY DEF CookieRelies, Cookie!Called
<1>3. cookieReq' = [cookieReq EXCEPT ![r] = q] /\ UNCHANGED <<sessions, cookieNow, index>>
  BY DEF Cookie!Begin
<1> HIDE DEF q
<1> QED BY <1>1, <1>2, <1>3, CookieMoves

\* The records that the manager draws.
LEMMA CookieNewRecord ==
    ASSUME NEW t \in SessionTokens, NEW u \in Users, NEW at \in Cookie!Times
    PROVE  Cookie!NewRecord(t, u, at) \in Cookie!Record
BY LifetimesAssumption DEF Cookie!NewRecord, Cookie!Record, Cookie!Times

\* A revoked record is a record of the same session.
LEMMA CookieRevoked ==
    ASSUME NEW rec \in Cookie!Record
    PROVE  /\ Cookie!Revoked(rec) \in Cookie!Record /\ Cookie!Revoked(rec) # None
           /\ Cookie!Revoked(rec).revoked
           /\ Cookie!Revoked(rec).subject = rec.subject
           /\ Cookie!Revoked(rec).created = rec.created
<1>1. Cookie!Revoked(rec) \in Cookie!Record
  BY DEF Cookie!Revoked, Cookie!Record
<1> QED BY <1>1, NoRowAssumption DEF Cookie!Revoked, Cookie!Record

\* A computed expiry is an instant.
LEMMA CookieExpiry ==
    ASSUME NEW rec \in Cookie!Record, NEW at \in Cookie!Times
    PROVE  Cookie!ExtendedExpiry(rec, at) \in Nat
BY LifetimesAssumption DEF Cookie!ExtendedExpiry, Cookie!Earlier, Cookie!Record, Cookie!Times

\* Every call of the manager.
LEMMA CookieCalls ==
    ASSUME CookieInv, NEW r \in Requests,
           \/ \E t \in SessionTokens, u \in Users :
                 Cookie!Create(r, t, u) \/ Cookie!Revoke(r, t, u) \/ Cookie!RevokeAll(r, u)
           \/ \E t \in SessionTokens : Cookie!Extend(r, t)
           \/ \E t, v \in SessionTokens : Cookie!Rotate(r, t, v)
    PROVE  CookieInv'
<1>0. /\ cookieNow \in Cookie!Times
      /\ \A t \in SessionTokens : sessions[t] \in Cookie!Record \cup {None}
      /\ \A t \in SessionTokens : sessions[t] # None => sessions[t].subject \in Users
      /\ 0 \in Nat
      /\ {"create", "extend", "rotate", "revoke", "revokeAll"} \subseteq Cookie!Methods
  BY DEF CookieInv, Cookie!TypeOK, Cookie!Record, Cookie!Methods
<1>1. ASSUME NEW t \in SessionTokens, NEW u \in Users, Cookie!Create(r, t, u)
      PROVE  CookieInv'
  <2>1. CookieCarried(Cookie!Called("create", t, u, Cookie!NewRecord(t, u, cookieNow), 0),
                      sessions)
    BY DEF CookieCarried, Cookie!Called
  <2> QED BY <1>0, <1>1, <2>1, CookieNewRecord, CookieBegins DEF Cookie!Create
<1>2. ASSUME NEW t \in SessionTokens, NEW u \in Users, Cookie!Revoke(r, t, u)
      PROVE  CookieInv'
  <2>1. CookieCarried(Cookie!Called("revoke", t, u, None, 0), sessions)
    BY DEF CookieCarried, Cookie!Called
  <2> QED BY <1>0, <1>2, <2>1, CookieBegins DEF Cookie!Revoke
<1>3. ASSUME NEW u \in Users, Cookie!RevokeAll(r, u) PROVE CookieInv'
  <2>1. CookieCarried(Cookie!Called("revokeAll", None, u, None, 0), sessions)
    BY DEF CookieCarried, Cookie!Called
  <2> QED BY <1>0, <1>3, <2>1, CookieBegins DEF Cookie!RevokeAll
<1>4. ASSUME NEW t \in SessionTokens, Cookie!Extend(r, t) PROVE CookieInv'
  <2> DEFINE u == sessions[t].subject
             e == Cookie!ExtendedExpiry(sessions[t], cookieNow)
  <2>1. Extension /\ sessions[t] # None /\ Cookie!Begin(r, Cookie!Called("extend", t, u, None, e))
    BY <1>4 DEF Cookie!Extend, Cookie!Exists
  <2>2. u \in Users /\ e \in Nat
    BY <1>0, <2>1, CookieExpiry
  <2>3. CookieCarried(Cookie!Called("extend", t, u, None, e), sessions)
    BY <2>1, <2>2 DEF CookieCarried, Cookie!Called
  <2> HIDE DEF u, e
  <2> QED BY <1>0, <2>1, <2>2, <2>3, CookieBegins
<1>5. ASSUME NEW t \in SessionTokens, NEW v \in SessionTokens, Cookie!Rotate(r, t, v)
      PROVE  CookieInv'
  <2> DEFINE u == sessions[t].subject
             rec == Cookie!NewRecord(v, u, cookieNow)
  <2>1. sessions[t] # None /\ Cookie!Begin(r, Cookie!Called("rotate", t, u, rec, 0))
    BY <1>5 DEF Cookie!Rotate, Cookie!Exists
  <2>2. u \in Users /\ rec \in Cookie!Record
    BY <1>0, <2>1, CookieNewRecord
  <2>3. CookieCarried(Cookie!Called("rotate", t, u, rec, 0), sessions)
    BY <2>1, <2>2 DEF CookieCarried, Cookie!Called
  <2> HIDE DEF u, rec
  <2> QED BY <1>0, <2>1, <2>2, <2>3, CookieBegins
<1> QED BY <1>1, <1>2, <1>3, <1>4, <1>5

-----------------------------------------------------------------------------
(***************************************************************************)
(* Cookie sessions: the transaction.                                       *)
(***************************************************************************)

\* WATCH: the request starts reading unmarked.
LEMMA CookieWatch ==
    ASSUME CookieInv, NEW r \in Requests, Cookie!Watch(r) PROVE CookieInv'
<1> DEFINE q == [cookieReq[r] EXCEPT !.pc = "read", !.dirty = FALSE]
<1>1. cookieReq \in [Requests -> Cookie!Request] /\ cookieReq[r] \in Cookie!Request
  BY DEF CookieInv, Cookie!TypeOK
<1>2. q \in Cookie!Request
  BY <1>1 DEF Cookie!Request
<1>3. CookieRelies(q, sessions, index)
  BY <1>1 DEF CookieInv, CookieRelies, CookieCarried, Cookie!Watch, Cookie!Request
<1>4. cookieReq' = [cookieReq EXCEPT ![r] = q] /\ UNCHANGED <<sessions, cookieNow, index>>
  BY <1>1 DEF Cookie!Watch
<1> HIDE DEF q
<1> QED BY <1>2, <1>3, <1>4, CookieMoves

\* A method that has decided goes on to its EXEC with the write.
LEMMA CookieExecuting ==
    ASSUME CookieInv, NEW r \in Requests, cookieReq[r].pc \in {"read", "records"},
           NEW write \in [SessionTokens -> Cookie!Record \cup {None}],
           Cookie!Executing(r, write), UNCHANGED <<sessions, cookieNow, index>>,
           ~cookieReq[r].dirty => CookieDecided([cookieReq[r] EXCEPT !.write = write], sessions, index)
    PROVE  CookieInv'
<1> DEFINE q == [cookieReq[r] EXCEPT !.pc = "exec", !.write = write]
<1>1. cookieReq \in [Requests -> Cookie!Request] /\ cookieReq[r] \in Cookie!Request
  BY DEF CookieInv, Cookie!TypeOK
<1>2. q \in Cookie!Request
  BY <1>1 DEF Cookie!Request
<1>3. CookieCarried(q, sessions)
  BY <1>1 DEF CookieInv, CookieRelies, CookieCarried, Cookie!Request
<1>4. ~q.dirty => CookieDecided(q, sessions, index)
  BY <1>1 DEF CookieDecided, Cookie!Request
<1>5. CookieRelies(q, sessions, index)
  BY <1>1, <1>3, <1>4 DEF CookieRelies, Cookie!Request
<1>6. cookieReq' = [cookieReq EXCEPT ![r] = q]
  BY <1>1 DEF Cookie!Executing
<1> HIDE DEF q
<1> QED BY <1>2, <1>5, <1>6, CookieMoves

\* A read decides on the record it finds, or answers.
LEMMA CookieRead ==
    ASSUME CookieInv, NEW r \in Requests, Cookie!Read(r) PROVE CookieInv'
<1> DEFINE q == cookieReq[r]
<1>0. /\ cookieReq \in [Requests -> Cookie!Request] /\ q \in Cookie!Request
      /\ sessions \in [SessionTokens -> Cookie!Record \cup {None}]
      /\ q.pc = "read" /\ UNCHANGED <<sessions, cookieNow, index>>
      /\ CookieCarried(q, sessions)
  BY DEF CookieInv, Cookie!TypeOK, Cookie!Read, CookieRelies
<1>1. ASSUME NEW answer \in {"none", "ok", "not_found", "inactive", "conflict", "contention"},
             Cookie!Answer(r, answer)
      PROVE  CookieInv'
  BY <1>0, <1>1, CookieAnswers
<1>2. CASE Cookie!ReadForCreate(r)
  <2> DEFINE w == [Cookie!NoWrite EXCEPT ![q.token] = q.rec]
  <2>1. CASE Cookie!Answer(r, "conflict")
    BY <1>1, <2>1
  <2>2. CASE sessions[q.token] = None /\ Cookie!Executing(r, w)
    <3>1. w \in [SessionTokens -> Cookie!Record \cup {None}]
      BY <1>0, <1>2, CookieNoWrite DEF Cookie!ReadForCreate, Cookie!Request, CookieCarried
    <3>2. CookieDecided([q EXCEPT !.write = w], sessions, index)
      BY <1>0, <1>2, <2>2, <3>1 DEF CookieDecided, Cookie!Request, Cookie!ReadForCreate
    <3> HIDE DEF w
    <3> QED BY <1>0, <2>2, <3>1, <3>2, CookieExecuting
  <2> QED BY <1>2, <2>1, <2>2 DEF Cookie!ReadForCreate, Cookie!Exists
<1>3. CASE Cookie!ReadForExtend(r)
  <2> DEFINE w == [Cookie!NoWrite EXCEPT ![q.token] =
                      [sessions[q.token] EXCEPT !.last = q.at, !.expires = q.expires]]
  <2>1. CASE Cookie!Answer(r, "inactive")
    BY <1>1, <2>1
  <2>2. CASE Cookie!Extendable(q.token, q.at, q.expires) /\ Cookie!Executing(r, w)
    <3>0. q.token \in SessionTokens /\ sessions[q.token] \in Cookie!Record
      BY <1>0, <1>3 DEF Cookie!ReadForExtend, CookieCarried
    <3>1. w \in [SessionTokens -> Cookie!Record \cup {None}]
      <4>1. q.at \in Nat /\ q.expires \in Nat
        BY <1>0, LifetimesAssumption DEF Cookie!Request, Cookie!Times
      <4>2. [sessions[q.token] EXCEPT !.last = q.at, !.expires = q.expires] \in Cookie!Record
        BY <3>0, <4>1 DEF Cookie!Record
      <4> QED BY <3>0, <4>2, CookieNoWrite
    <3>2. CookieDecided([q EXCEPT !.write = w], sessions, index)
      BY <1>0, <1>3, <2>2, <3>1
      DEF CookieDecided, Cookie!Request, Cookie!ReadForExtend, Cookie!Extendable, Cookie!Exists
    <3> HIDE DEF w
    <3> QED BY <1>0, <2>2, <3>1, <3>2, CookieExecuting
  <2> QED BY <1>3, <2>1, <2>2 DEF Cookie!ReadForExtend
<1>4. CASE Cookie!ReadForRotate(r)
  <2> DEFINE w == [Cookie!NoWrite EXCEPT ![q.token] = Cookie!Revoked(sessions[q.token]),
                                       ![q.rec.hash] = q.rec]
  <2>1. CASE \E answer \in {"not_found", "inactive", "conflict"} : Cookie!Answer(r, answer)
    BY <1>1, <2>1
  <2>2. CASE /\ Cookie!Rotatable(q.token, q.at) /\ sessions[q.rec.hash] = None
             /\ Cookie!Executing(r, w)
    <3>0. /\ q.token \in SessionTokens /\ sessions[q.token] \in Cookie!Record
          /\ q.rec \in Cookie!Record /\ q.rec.hash \in SessionTokens
      <4>1. PICK h \in SessionTokens : q.rec = Cookie!NewRecord(h, q.subject, q.at)
        BY <1>0, <1>4 DEF Cookie!ReadForRotate, CookieCarried
      <4>2. q.at \in Cookie!Times /\ q.subject \in Users /\ q.token \in SessionTokens
        BY <1>0, <1>4 DEF Cookie!Request, CookieCarried, Cookie!ReadForRotate
      <4>3. q.rec \in Cookie!Record
        BY <4>1, <4>2, CookieNewRecord
      <4> QED BY <1>0, <1>4, <4>2, <4>3 DEF Cookie!Record, Cookie!ReadForRotate, CookieCarried
    <3>1. w \in [SessionTokens -> Cookie!Record \cup {None}]
      BY <3>0, CookieRevoked, CookieNoWrite
    <3>2. CookieDecided([q EXCEPT !.write = w], sessions, index)
      BY <1>0, <1>4, <2>2, <3>1
      DEF CookieDecided, Cookie!Request, Cookie!ReadForRotate, Cookie!Rotatable, Cookie!Exists
    <3> HIDE DEF w
    <3> QED BY <1>0, <2>2, <3>1, <3>2, CookieExecuting
  <2> QED BY <1>4, <2>1, <2>2 DEF Cookie!ReadForRotate, Cookie!Exists
<1>5. CASE Cookie!ReadForRevoke(r)
  <2> DEFINE w == [Cookie!NoWrite EXCEPT ![q.token] = Cookie!Revoked(sessions[q.token])]
  <2>1. CASE \E answer \in {"not_found", "ok"} : Cookie!Answer(r, answer)
    BY <1>1, <2>1
  <2>2. CASE sessions[q.token] # None /\ Cookie!Executing(r, w)
    <3>0. q.token \in SessionTokens /\ sessions[q.token] \in Cookie!Record
      BY <1>0, <1>5, <2>2 DEF Cookie!ReadForRevoke, CookieCarried
    <3>1. w \in [SessionTokens -> Cookie!Record \cup {None}]
      BY <3>0, CookieRevoked, CookieNoWrite
    <3>2. CookieDecided([q EXCEPT !.write = w], sessions, index)
      BY <1>0, <1>5, <2>2, <3>1 DEF CookieDecided, Cookie!Request, Cookie!ReadForRevoke
    <3> HIDE DEF w
    <3> QED BY <1>0, <2>2, <3>1, <3>2, CookieExecuting
  <2> QED BY <1>5, <2>1, <2>2 DEF Cookie!ReadForRevoke, Cookie!Exists
<1>6. CASE Cookie!ReadMembers(r)
  <2> DEFINE p == [q EXCEPT !.pc = "records", !.fields = index[q.subject]]
  <2>1. CASE Cookie!Answer(r, "ok")
    BY <1>1, <2>1
  <2>2. CASE cookieReq' = [cookieReq EXCEPT ![r].pc = "records", ![r].fields = index[q.subject]]
    <3>1. index[q.subject] \in SUBSET SessionTokens
      BY <1>0 DEF CookieInv, Cookie!TypeOK, CookieCarried
    <3>2. p \in Cookie!Request
      BY <1>0, <3>1 DEF Cookie!Request
    <3>3. CookieRelies(p, sessions, index)
      BY <1>0, <1>6 DEF CookieRelies, CookieCarried, Cookie!Request, Cookie!ReadMembers
    <3>4. cookieReq' = [cookieReq EXCEPT ![r] = p]
      BY <1>0, <2>2
    <3> HIDE DEF p
    <3> QED BY <1>0, <3>2, <3>3, <3>4, CookieMoves
  <2> QED BY <1>6, <2>1, <2>2 DEF Cookie!ReadMembers
<1> QED BY <1>2, <1>3, <1>4, <1>5, <1>6 DEF Cookie!Read

\* RevokeAll decides on the records of the subject's set.
LEMMA CookieReadRecords ==
    ASSUME CookieInv, NEW r \in Requests, Cookie!ReadRecords(r) PROVE CookieInv'
<1> DEFINE q == cookieReq[r]
           w == [t \in SessionTokens |-> IF t \in q.fields /\ sessions[t] # None
                                           THEN Cookie!Revoked(sessions[t]) ELSE None]
<1>0. /\ cookieReq \in [Requests -> Cookie!Request] /\ q \in Cookie!Request
      /\ sessions \in [SessionTokens -> Cookie!Record \cup {None}]
      /\ q.pc = "records" /\ UNCHANGED <<sessions, cookieNow, index>>
      /\ CookieRelies(q, sessions, index) /\ Cookie!Executing(r, w)
  BY DEF CookieInv, Cookie!TypeOK, Cookie!ReadRecords, Cookie!Exists
<1>1. w \in [SessionTokens -> Cookie!Record \cup {None}]
  BY <1>0, CookieRevoked
<1>2. ~q.dirty => CookieDecided([q EXCEPT !.write = w], sessions, index)
  BY <1>0 DEF CookieDecided, Cookie!Request, CookieRelies
<1> HIDE DEF w
<1> QED BY <1>0, <1>1, <1>2, CookieExecuting

-----------------------------------------------------------------------------
(***************************************************************************)
(* Cookie sessions: EXEC.                                                  *)
(***************************************************************************)

\* The table after a write.
CookieWritten(s, w) == [t \in SessionTokens |-> IF w[t] # None THEN w[t] ELSE s[t]]

\* What a clean EXEC writes is a step of the abstract store.
LEMMA CookieEffect ==
    ASSUME CookieInv, NEW r \in Requests, cookieReq[r].pc = "exec", ~cookieReq[r].dirty,
           sessions' = CookieWritten(sessions, cookieReq[r].write)
    PROVE  [Cookie!StoreNext]_sessions
<1> DEFINE q == cookieReq[r]
<1>0. /\ q \in Cookie!Request
      /\ sessions \in [SessionTokens -> Cookie!Record \cup {None}]
      /\ q.write \in [SessionTokens -> Cookie!Record \cup {None}]
      /\ CookieCarried(q, sessions) /\ CookieDecided(q, sessions, index) /\ CookieIndexed
      /\ q.at \in Cookie!Times /\ q.method \in Cookie!Methods
  BY DEF CookieInv, Cookie!TypeOK, CookieRelies, Cookie!Request
<1> HIDE DEF q
<1>1. CASE q.method = "create"
  <2>1. Cookie!StoreCreate(Cookie!NewRecord(q.token, q.subject, q.at))
    <3>1. /\ q.rec = Cookie!NewRecord(q.token, q.subject, q.at) /\ q.rec.hash = q.token
          /\ q.token \in SessionTokens /\ sessions[q.token] = None /\ q.rec # None
          /\ q.write = [Cookie!NoWrite EXCEPT ![q.token] = q.rec]
      <4>1. /\ q.rec = Cookie!NewRecord(q.token, q.subject, q.at) /\ q.subject \in Users
            /\ q.token \in SessionTokens /\ sessions[q.token] = None
            /\ q.write = [Cookie!NoWrite EXCEPT ![q.token] = q.rec]
        BY <1>0, <1>1 DEF CookieCarried, CookieDecided
      <4>2. q.rec \in Cookie!Record
        BY <1>0, <4>1, CookieNewRecord
      <4>3. q.rec.hash = q.token
        BY <4>1 DEF Cookie!NewRecord
      <4> QED BY <4>1, <4>2, <4>3, NoRowAssumption
    <3>2. sessions' = [sessions EXCEPT ![q.token] = q.rec]
      BY <1>0, <3>1 DEF CookieWritten, Cookie!NoWrite, q
    <3> QED BY <3>1, <3>2 DEF Cookie!StoreCreate, Cookie!Exists
  <2>2. q.token \in SessionTokens /\ q.subject \in Users
    BY <1>0, <1>1 DEF CookieCarried
  <2> QED BY <1>0, <2>1, <2>2 DEF Cookie!StoreNext
<1>2. CASE q.method = "extend"
  <2>1. /\ q.token \in SessionTokens /\ Extension
        /\ sessions[q.token] # None /\ Cookie!ActiveAt(sessions[q.token], q.at)
        /\ sessions[q.token].expires < q.expires
        /\ q.expires = Cookie!ExtendedExpiry(sessions[q.token], q.at)
        /\ q.write = [Cookie!NoWrite EXCEPT ![q.token] =
                         [sessions[q.token] EXCEPT !.last = q.at, !.expires = q.expires]]
    BY <1>0, <1>2 DEF CookieCarried, CookieDecided
  <2>2. q.write[q.token] # None
    <3>1. sessions[q.token] \in Cookie!Record
      BY <1>0, <2>1
    <3>2. q.at \in Nat /\ q.expires \in Nat
      BY <1>0, LifetimesAssumption DEF Cookie!Request, Cookie!Times
    <3>3. [sessions[q.token] EXCEPT !.last = q.at, !.expires = q.expires] \in Cookie!Record
      BY <3>1, <3>2 DEF Cookie!Record
    <3> QED BY <2>1, <3>3, NoRowAssumption DEF Cookie!NoWrite
  <2>3. sessions' = [sessions EXCEPT ![q.token].last = q.at, ![q.token].expires = q.expires]
    BY <1>0, <2>1, <2>2 DEF CookieWritten, Cookie!NoWrite, q
  <2>4. Cookie!StoreExtend(q.token, q.at, Cookie!ExtendedExpiry(sessions[q.token], q.at))
    BY <2>1, <2>3 DEF Cookie!StoreExtend, Cookie!Extendable, Cookie!Exists
  <2> QED BY <1>0, <2>1, <2>4 DEF Cookie!StoreNext
<1>3. CASE q.method = "rotate"
  <2>1. PICK h \in SessionTokens : q.rec = Cookie!NewRecord(h, q.subject, q.at)
    BY <1>0, <1>3 DEF CookieCarried
  <2>2. /\ q.token \in SessionTokens /\ q.subject = sessions[q.token].subject
        /\ sessions[q.token] # None /\ Cookie!ActiveAt(sessions[q.token], q.at)
        /\ q.rec.hash = h /\ sessions[h] = None
        /\ q.write = [Cookie!NoWrite EXCEPT ![q.token] = Cookie!Revoked(sessions[q.token]),
                                            ![h] = q.rec]
    BY <1>0, <1>3, <2>1 DEF CookieCarried, CookieDecided, Cookie!NewRecord
  <2>3. q.rec # None /\ Cookie!Revoked(sessions[q.token]) # None
    <3>1. q.rec \in Cookie!Record
      BY <1>0, <2>1, CookieNewRecord DEF CookieCarried
    <3> QED BY <1>0, <2>2, <3>1, CookieRevoked, NoRowAssumption
  <2>4. sessions' = [sessions EXCEPT ![q.token].revoked = TRUE, ![h] = q.rec]
    BY <1>0, <2>2, <2>3 DEF CookieWritten, Cookie!NoWrite, Cookie!Revoked, q
  <2>5. Cookie!StoreRotate(q.token, q.rec, q.at)
    BY <2>2, <2>4 DEF Cookie!StoreRotate, Cookie!Rotatable, Cookie!Exists
  <2>6. Cookie!StoreRotate(q.token, Cookie!NewRecord(h, sessions[q.token].subject, q.at), q.at)
    BY <2>1, <2>2, <2>5
  <2> QED BY <1>0, <2>2, <2>6 DEF Cookie!StoreNext
<1>4. CASE q.method = "revoke"
  <2>1. /\ q.token \in SessionTokens /\ sessions[q.token] # None
        /\ q.write = [Cookie!NoWrite EXCEPT ![q.token] = Cookie!Revoked(sessions[q.token])]
    BY <1>0, <1>4 DEF CookieCarried, CookieDecided
  <2>2. Cookie!Revoked(sessions[q.token]) # None
    BY <1>0, <2>1, CookieRevoked
  <2>3. sessions' = [sessions EXCEPT ![q.token] = Cookie!Revoked(@)]
    BY <1>0, <2>1, <2>2 DEF CookieWritten, Cookie!NoWrite, q
  <2>4. Cookie!StoreRevoke(q.token)
    BY <2>1, <2>3 DEF Cookie!StoreRevoke, Cookie!Exists
  <2> QED BY <2>1, <2>4 DEF Cookie!StoreNext
<1>5. CASE q.method = "revokeAll"
  <2>1. /\ q.subject \in Users
        /\ q.write = [t \in SessionTokens |-> IF t \in index[q.subject] /\ sessions[t] # None
                                                THEN Cookie!Revoked(sessions[t]) ELSE None]
        /\ index[q.subject] = {t \in SessionTokens : sessions[t] # None
                                                     /\ sessions[t].subject = q.subject}
    BY <1>0, <1>5 DEF CookieCarried, CookieDecided, CookieIndexed
  <2>2. ASSUME NEW t \in SessionTokens, sessions[t] # None
        PROVE  Cookie!Revoked(sessions[t]) # None
    BY <1>0, <2>2, CookieRevoked
  <2>3. Cookie!StoreRevokeAll(q.subject)
    BY <1>0, <2>1, <2>2
    DEF Cookie!StoreRevokeAll, Cookie!BelongTo, Cookie!Exists, CookieWritten, q
  <2> QED BY <2>1, <2>3 DEF Cookie!StoreNext
<1> QED BY <1>0, <1>1, <1>2, <1>3, <1>4, <1>5 DEF Cookie!Methods

\* A step of the abstract store keeps every record's subject and creation, and what a call
\* carries with them.
LEMMA CookieCarriedOn ==
    ASSUME sessions \in [SessionTokens -> Cookie!Record \cup {None}],
           [Cookie!StoreNext]_sessions, NEW q, CookieCarried(q, sessions)
    PROVE  CookieCarried(q, sessions')
<1>1. ASSUME NEW t \in SessionTokens, sessions[t] # None
      PROVE  /\ sessions'[t] # None
             /\ sessions'[t].subject = sessions[t].subject
             /\ sessions'[t].created = sessions[t].created
  <2>0. sessions[t] \in Cookie!Record
    BY <1>1
  <2>1. CASE \E u \in SessionTokens, o \in Users, at \in Cookie!Times :
                Cookie!StoreCreate(Cookie!NewRecord(u, o, at))
    BY <1>1, <2>1 DEF Cookie!StoreCreate, Cookie!NewRecord, Cookie!Exists
  <2>2. CASE \E u \in SessionTokens, at \in Cookie!Times :
                Extension /\ Cookie!StoreExtend(u, at, Cookie!ExtendedExpiry(sessions[u], at))
    <3>1. PICK u \in SessionTokens, at \in Cookie!Times :
                Cookie!StoreExtend(u, at, Cookie!ExtendedExpiry(sessions[u], at))
      BY <2>2
    <3>2. sessions[u] \in Cookie!Record
      BY <3>1 DEF Cookie!StoreExtend, Cookie!Extendable, Cookie!Exists
    <3>3. at \in Nat /\ Cookie!ExtendedExpiry(sessions[u], at) \in Nat
      BY <3>2, CookieExpiry, LifetimesAssumption DEF Cookie!Times
    <3>4. \A e \in Nat : /\ [sessions[u] EXCEPT !.last = at, !.expires = e] \in Cookie!Record
                         /\ [sessions[u] EXCEPT !.last = at, !.expires = e].subject = sessions[u].subject
                         /\ [sessions[u] EXCEPT !.last = at, !.expires = e].created = sessions[u].created
      BY <3>2, <3>3 DEF Cookie!Record
    <3>5. sessions' = [sessions EXCEPT ![u] = [sessions[u] EXCEPT !.last = at,
                           !.expires = Cookie!ExtendedExpiry(sessions[u], at)]]
      BY <3>1 DEF Cookie!StoreExtend
    <3> QED BY <1>1, <3>3, <3>4, <3>5, NoRowAssumption
  <2>3. CASE \E u, v \in SessionTokens, at, born \in Cookie!Times :
                Cookie!StoreRotate(u, Cookie!NewRecord(v, sessions[u].subject, born), at)
    <3>1. PICK u \in SessionTokens, v \in SessionTokens, at \in Cookie!Times, born \in Cookie!Times :
                Cookie!StoreRotate(u, Cookie!NewRecord(v, sessions[u].subject, born), at)
      BY <2>3
    <3> DEFINE rec == Cookie!NewRecord(v, sessions[u].subject, born)
    <3>2. /\ sessions' = [sessions EXCEPT ![u] = Cookie!Revoked(sessions[u]), ![rec.hash] = rec]
          /\ sessions[rec.hash] = None /\ sessions[u] \in Cookie!Record
      BY <3>1 DEF Cookie!StoreRotate, Cookie!Exists, Cookie!Rotatable, Cookie!Revoked
    <3>3. t # rec.hash
      BY <1>1, <3>2
    <3> QED BY <1>1, <2>0, <3>2, <3>3, CookieRevoked
  <2>4. CASE \E u \in SessionTokens : Cookie!StoreRevoke(u)
    BY <1>1, <2>0, <2>4, CookieRevoked DEF Cookie!StoreRevoke
  <2>5. CASE \E o \in Users : Cookie!StoreRevokeAll(o)
    BY <1>1, <2>0, <2>5, CookieRevoked DEF Cookie!StoreRevokeAll
  <2>6. CASE UNCHANGED sessions
    BY <1>1, <2>6
  <2> QED BY <2>1, <2>2, <2>3, <2>4, <2>5, <2>6 DEF Cookie!StoreNext
<1>2. \A t \in SessionTokens : \A at : sessions[t] # None =>
         Cookie!ExtendedExpiry(sessions'[t], at) = Cookie!ExtendedExpiry(sessions[t], at)
  BY <1>1 DEF Cookie!ExtendedExpiry
<1> QED BY <1>1, <1>2 DEF CookieCarried

\* The sets follow the table: SADD of what Create and Rotate write.
LEMMA CookieExecIndexed ==
    ASSUME CookieInv, NEW r \in Requests, cookieReq[r].pc = "exec", ~cookieReq[r].dirty,
           sessions' = CookieWritten(sessions, cookieReq[r].write), index' = Cookie!Indexed(r)
    PROVE  /\ sessions' \in [SessionTokens -> Cookie!Record \cup {None}]
           /\ index' \in [Users -> SUBSET SessionTokens]
           /\ CookieIndexed'
<1> DEFINE q == cookieReq[r]
           w == q.write
           N == {t \in SessionTokens : w[t] # None}
<1>0. /\ q \in Cookie!Request
      /\ sessions \in [SessionTokens -> Cookie!Record \cup {None}]
      /\ w \in [SessionTokens -> Cookie!Record \cup {None}]
      /\ index \in [Users -> SUBSET SessionTokens]
      /\ CookieCarried(q, sessions) /\ CookieDecided(q, sessions, index) /\ CookieIndexed
      /\ q.method \in Cookie!Methods /\ q.subject \in Users
  BY DEF CookieInv, Cookie!TypeOK, CookieRelies, Cookie!Request, CookieCarried
<1>1. sessions' \in [SessionTokens -> Cookie!Record \cup {None}]
  BY <1>0 DEF CookieWritten
<1>2. index' \in [Users -> SUBSET SessionTokens]
  BY <1>0 DEF Cookie!Indexed
<1>3. \A t \in SessionTokens : sessions'[t] = IF w[t] # None THEN w[t] ELSE sessions[t]
  BY DEF CookieWritten
<1>4. \A t \in SessionTokens : w[t] # None /\ sessions[t] # None =>
         w[t].subject = sessions[t].subject
  <2> SUFFICES ASSUME NEW t \in SessionTokens, w[t] # None, sessions[t] # None
               PROVE  w[t].subject = sessions[t].subject
    OBVIOUS
  <2>0. sessions[t] \in Cookie!Record
    BY <1>0
  <2>1. CASE q.method = "create"
    BY <1>0, <2>1 DEF CookieCarried, CookieDecided, Cookie!NoWrite
  <2>2. CASE q.method = "extend"
    <3>1. t = q.token /\ w[t] = [sessions[t] EXCEPT !.last = q.at, !.expires = q.expires]
      BY <1>0, <2>2 DEF CookieCarried, CookieDecided, Cookie!NoWrite
    <3> QED BY <2>0, <3>1 DEF Cookie!Record
  <2>3. CASE q.method = "rotate"
    <3>1. w[t] = Cookie!Revoked(sessions[t])
      BY <1>0, <2>3 DEF CookieCarried, CookieDecided, Cookie!NoWrite
    <3> QED BY <2>0, <3>1, CookieRevoked
  <2>4. CASE q.method = "revoke"
    <3>1. w[t] = Cookie!Revoked(sessions[t])
      BY <1>0, <2>4 DEF CookieCarried, CookieDecided, Cookie!NoWrite
    <3> QED BY <2>0, <3>1, CookieRevoked
  <2>5. CASE q.method = "revokeAll"
    <3>1. w[t] = Cookie!Revoked(sessions[t])
      BY <1>0, <2>5 DEF CookieCarried, CookieDecided
    <3> QED BY <2>0, <3>1, CookieRevoked
  <2> QED BY <1>0, <2>1, <2>2, <2>3, <2>4, <2>5 DEF Cookie!Methods
<1>5. CASE q.method \in {"create", "rotate"}
  <2>1. \A t \in N : w[t].subject = q.subject
    <3>1. CASE q.method = "create"
      BY <1>0, <3>1 DEF CookieCarried, CookieDecided, Cookie!NoWrite, Cookie!NewRecord
    <3>2. CASE q.method = "rotate"
      <4>1. PICK h \in SessionTokens : q.rec = Cookie!NewRecord(h, q.subject, q.at)
        BY <1>0, <3>2 DEF CookieCarried
      <4>2. q.rec.subject = q.subject
        BY <4>1 DEF Cookie!NewRecord
      <4>3. /\ sessions[q.token] \in Cookie!Record
            /\ Cookie!Revoked(sessions[q.token]).subject = q.subject
        BY <1>0, <3>2, CookieRevoked DEF CookieCarried
      <4>4. w = [Cookie!NoWrite EXCEPT ![q.token] = Cookie!Revoked(sessions[q.token]),
                                     ![q.rec.hash] = q.rec]
        BY <1>0, <3>2 DEF CookieDecided
      <4> QED BY <4>2, <4>3, <4>4 DEF Cookie!NoWrite
    <3> QED BY <1>5, <3>1, <3>2
  <2>2. index' = [index EXCEPT ![q.subject] = @ \cup N]
    BY <1>5 DEF Cookie!Indexed
  <2> HIDE DEF q, w, N
  <2>3. ASSUME NEW u \in Users
        PROVE  index'[u] = {t \in SessionTokens : sessions'[t] # None /\ sessions'[t].subject = u}
    BY <1>0, <1>3, <1>4, <2>1, <2>2 DEF CookieIndexed, N
  <2> QED BY <1>1, <1>2, <2>3 DEF CookieIndexed
<1>6. CASE q.method \notin {"create", "rotate"}
  <2>1. \A t \in SessionTokens : w[t] # None => sessions[t] # None
    BY <1>0, <1>6 DEF CookieDecided, CookieCarried, Cookie!NoWrite, Cookie!Methods
  <2>2. index' = index
    BY <1>6 DEF Cookie!Indexed
  <2> HIDE DEF q, w
  <2>3. ASSUME NEW u \in Users
        PROVE  index'[u] = {t \in SessionTokens : sessions'[t] # None /\ sessions'[t].subject = u}
    BY <1>0, <1>3, <1>4, <2>1, <2>2 DEF CookieIndexed
  <2> QED BY <1>1, <1>2, <2>3 DEF CookieIndexed
<1> QED BY <1>1, <1>2, <1>5, <1>6

\* EXEC: it fails for a marked request, and takes effect as a step of SessionStore.
LEMMA CookieExec ==
    ASSUME CookieInv, NEW r \in Requests, Cookie!Exec(r)
    PROVE  CookieInv' /\ [Cookie!StoreNext]_sessions
<1> DEFINE q == cookieReq[r]
<1>0. /\ cookieReq \in [Requests -> Cookie!Request] /\ q \in Cookie!Request
      /\ q.pc = "exec" /\ cookieNow' = cookieNow
      /\ sessions \in [SessionTokens -> Cookie!Record \cup {None}]
  BY DEF CookieInv, Cookie!TypeOK, Cookie!Exec
<1>1. CASE ~q.dirty
  <2>1. /\ sessions' = CookieWritten(sessions, q.write) /\ index' = Cookie!Indexed(r)
        /\ \E answer \in {"ok", "none"} : cookieReq' = [x \in Requests |->
              IF x = r THEN Cookie!Answered(q, answer)
              ELSE IF cookieReq[x].pc \in {"read", "records", "exec"}
                THEN [cookieReq[x] EXCEPT !.dirty = TRUE] ELSE cookieReq[x]]
    BY <1>1 DEF Cookie!Exec, Cookie!Clean, CookieWritten
  <2>2. [Cookie!StoreNext]_sessions
    BY <1>0, <1>1, <2>1, CookieEffect
  <2>3. /\ sessions' \in [SessionTokens -> Cookie!Record \cup {None}]
        /\ index' \in [Users -> SUBSET SessionTokens] /\ CookieIndexed'
    BY <1>0, <1>1, <2>1, CookieExecIndexed
  <2>4. PICK answer \in {"ok", "none"} : cookieReq' = [x \in Requests |->
              IF x = r THEN Cookie!Answered(q, answer)
              ELSE IF cookieReq[x].pc \in {"read", "records", "exec"}
                THEN [cookieReq[x] EXCEPT !.dirty = TRUE] ELSE cookieReq[x]]
    BY <2>1
  <2>5. ASSUME NEW x \in Requests
        PROVE  cookieReq'[x] \in Cookie!Request /\ CookieRelies(cookieReq'[x], sessions', index')
    <3>0. cookieReq[x] \in Cookie!Request /\ CookieRelies(cookieReq[x], sessions, index)
      BY <1>0 DEF CookieInv
    <3>1. CASE x = r
      BY <1>0, <2>4, <3>1, CookieAnswered
    <3>2. CASE x # r /\ cookieReq[x].pc \in {"read", "records", "exec"}
      <4> DEFINE p == [cookieReq[x] EXCEPT !.dirty = TRUE]
      <4>1. p \in Cookie!Request /\ p.dirty /\ p.pc = cookieReq[x].pc /\ p.method = cookieReq[x].method
        BY <3>0 DEF Cookie!Request
      <4>2. CookieCarried(cookieReq[x], sessions')
        BY <1>0, <2>2, <3>0, <3>2, CookieCarriedOn DEF CookieRelies
      <4>3. CookieCarried(p, sessions')
        BY <3>0, <4>2 DEF CookieCarried, Cookie!Request
      <4>4. cookieReq'[x] = p
        BY <2>4, <3>2
      <4> HIDE DEF p
      <4> QED BY <3>0, <3>2, <4>1, <4>3, <4>4 DEF CookieRelies
    <3>3. CASE x # r /\ cookieReq[x].pc \notin {"read", "records", "exec"}
      <4>1. cookieReq'[x] = cookieReq[x]
        BY <2>4, <3>3
      <4>2. cookieReq[x].pc # "idle" => CookieCarried(cookieReq[x], sessions')
        BY <1>0, <2>2, <3>0, CookieCarriedOn DEF CookieRelies
      <4> QED BY <3>0, <3>3, <4>1, <4>2 DEF CookieRelies
    <3> QED BY <3>1, <3>2, <3>3
  <2>6. Cookie!TypeOK'
    BY <1>0, <2>3, <2>4, <2>5 DEF CookieInv, Cookie!TypeOK
  <2> QED BY <2>2, <2>3, <2>5, <2>6 DEF CookieInv
<1>2. CASE q.dirty
  <2>1. Cookie!Retry(r) /\ UNCHANGED <<sessions, index>>
    BY <1>2 DEF Cookie!Exec, Cookie!Clean
  <2>2. CASE q.tries + 1 < WatchAttempts
    <3> DEFINE p == [q EXCEPT !.pc = "read", !.dirty = FALSE, !.tries = q.tries + 1,
                              !.fields = {}, !.write = Cookie!NoWrite]
    <3>1. cookieReq' = [cookieReq EXCEPT ![r] = p]
      BY <1>0, <2>1, <2>2 DEF Cookie!Retry
    <3>2. q.tries + 1 \in 0..(WatchAttempts - 1)
      BY <1>0, <2>2, WatchAssumption DEF Cookie!Request
    <3>3. p \in Cookie!Request
      BY <1>0, <3>2, CookieNoWrite DEF Cookie!Request
    <3>4. CookieRelies(p, sessions, index)
      BY <1>0 DEF CookieInv, CookieRelies, CookieCarried, Cookie!Request
    <3> HIDE DEF p
    <3> QED BY <1>0, <2>1, <3>1, <3>3, <3>4, CookieMoves
  <2>3. CASE ~(q.tries + 1 < WatchAttempts)
    BY <1>0, <2>1, <2>3, CookieAnswers DEF Cookie!Retry
  <2> QED BY <2>1, <2>2, <2>3
<1> QED BY <1>1, <1>2

\* Every step of the group keeps the invariant and is a step of the abstract store.
LEMMA CookieNext ==
    ASSUME CookieInv, Cookie!Next PROVE CookieInv' /\ [Cookie!StoreNext]_sessions
<1>1. CASE Cookie!Tick
  <2>1. CookieInv'
    BY <1>1, LifetimesAssumption
    DEF CookieInv, Cookie!TypeOK, Cookie!Tick, Cookie!Times, CookieIndexed
  <2> QED BY <1>1, <2>1 DEF Cookie!Tick
<1>2. ASSUME NEW r \in Requests,
             \/ \E t \in SessionTokens, u \in Users :
                   Cookie!Create(r, t, u) \/ Cookie!Revoke(r, t, u) \/ Cookie!RevokeAll(r, u)
             \/ \E t \in SessionTokens : Cookie!Extend(r, t)
             \/ \E t, v \in SessionTokens : Cookie!Rotate(r, t, v)
      PROVE  CookieInv' /\ UNCHANGED sessions
  <2>1. UNCHANGED sessions
    BY <1>2 DEF Cookie!Create, Cookie!Revoke, Cookie!RevokeAll, Cookie!Extend, Cookie!Rotate,
                Cookie!Begin
  <2> QED BY <1>2, <2>1, CookieCalls
<1>3. ASSUME NEW r \in Requests, Cookie!Watch(r) \/ Cookie!Read(r) \/ Cookie!ReadRecords(r)
      PROVE  CookieInv' /\ UNCHANGED sessions
  <2>1. UNCHANGED sessions
    BY <1>3 DEF Cookie!Watch, Cookie!Read, Cookie!ReadRecords
  <2> QED BY <1>3, <2>1, CookieWatch, CookieRead, CookieReadRecords
<1>4. ASSUME NEW r \in Requests, Cookie!Fail(r) PROVE CookieInv' /\ UNCHANGED sessions
  BY <1>4, CookieAnswers DEF Cookie!Fail
<1> QED BY <1>1, <1>2, <1>3, <1>4, CookieExec DEF Cookie!Next, Cookie!Step

\* Nothing happens.
LEMMA CookieStutter == CookieInv /\ UNCHANGED cookieVars => CookieInv'
BY DEF CookieInv, cookieVars, Cookie!TypeOK, CookieIndexed

\* The invariant holds of empty hashes.
LEMMA CookieInit == Cookie!Init => CookieInv
<1> SUFFICES ASSUME Cookie!Init PROVE CookieInv
  OBVIOUS
<1> DEFINE c == Cookie!Called("create", None, None, None, 0)
<1>0. 0 \in Cookie!Times /\ 0 \in 0..(WatchAttempts - 1) /\ 0 \in Nat /\ cookieNow = 0
  BY WatchAssumption, LifetimesAssumption DEF Cookie!Init, Cookie!Times
<1>1. c \in Cookie!Request
  BY <1>0, CookieNoWrite DEF Cookie!Called, Cookie!Request, Cookie!Methods
<1>2. /\ Cookie!Answered(c, "none") \in Cookie!Request
      /\ \A s, ix : CookieRelies(Cookie!Answered(c, "none"), s, ix)
  BY <1>1, CookieAnswered
<1>3. cookieReq = [r \in Requests |-> Cookie!Answered(c, "none")]
  BY DEF Cookie!Init
<1> HIDE DEF c
<1>4. Cookie!TypeOK
  BY <1>0, <1>2, <1>3 DEF Cookie!Init, Cookie!StoreInit, Cookie!TypeOK
<1>5. CookieIndexed
  BY DEF Cookie!Init, Cookie!StoreInit, CookieIndexed
<1> QED BY <1>2, <1>3, <1>4, <1>5 DEF CookieInv

\* A step of the adapter is a step of the group or leaves its keys alone.
LEMMA AdapterCookie ==
    [AdapterNext]_<<vars, cookieVars, bearerVars, totpVars>> =>
        Cookie!Next \/ UNCHANGED cookieVars
BY DEF AdapterNext

\* The sessions, sets and calls of every reachable state.
THEOREM CookieInvariant == AdapterSpec => []CookieInv
<1>1. AdapterInit => CookieInv
  BY CookieInit DEF AdapterInit
<1>2. CookieInv /\ [AdapterNext]_<<vars, cookieVars, bearerVars, totpVars>> => CookieInv'
  BY CookieNext, CookieStutter, AdapterCookie
<1> QED BY <1>1, <1>2, PTL DEF AdapterSpec

\* Cookie sessions in Redis are kept as the manager is promised: Cookie!StoreSpec, each
\* method in one step on the sessions it then finds.
THEOREM CookieImplementsStore == AdapterSpec => Cookie!StoreSpec
<1>1. AdapterInit => Cookie!StoreInit
  BY DEF AdapterInit, Cookie!Init
<1>2. CookieInv /\ [AdapterNext]_<<vars, cookieVars, bearerVars, totpVars>>
        => [Cookie!StoreNext]_sessions
  BY CookieNext, AdapterCookie DEF cookieVars
<1> QED BY <1>1, <1>2, CookieInvariant, PTL DEF AdapterSpec, Cookie!StoreSpec

\* A RevokeAll that answers has read an empty set or written every session of its subject.
LEMMA CookieRevokeStep ==
    ASSUME CookieInv, Cookie!Next, NEW r \in Requests,
           cookieReq[r].method = "revokeAll", ~Cookie!Free(r), cookieReq'[r].answer = "ok",
           NEW t \in SessionTokens, sessions'[t] # None,
           sessions'[t].subject = cookieReq[r].subject
    PROVE  sessions'[t].revoked
<1> DEFINE q == cookieReq[r]
<1>0. /\ cookieReq \in [Requests -> Cookie!Request] /\ q \in Cookie!Request
      /\ sessions \in [SessionTokens -> Cookie!Record \cup {None}]
      /\ q.pc # "idle" /\ q.answer = "none" /\ q.subject \in Users /\ CookieIndexed
      /\ CookieRelies(q, sessions, index)
  BY DEF CookieInv, Cookie!TypeOK, CookieRelies, CookieCarried, Cookie!Free
<1>1. ASSUME NEW c, cookieReq' = [cookieReq EXCEPT ![r] = c] PROVE c.answer = "ok"
  BY <1>0, <1>1
<1>2. ASSUME NEW answer, Cookie!Answer(r, answer) PROVE answer = "ok"
  <2>1. Cookie!Answered(q, answer).answer = "ok"
    BY <1>1, <1>2 DEF Cookie!Answer
  <2> QED BY <1>0, <2>1 DEF Cookie!Answered, Cookie!Request
<1>3. CASE Cookie!Tick
  BY <1>0, <1>3 DEF Cookie!Tick
<1>4. PICK x \in Requests :
         \/ \E u \in SessionTokens, o \in Users :
               Cookie!Create(x, u, o) \/ Cookie!Revoke(x, u, o) \/ Cookie!RevokeAll(x, o)
         \/ \E u \in SessionTokens : Cookie!Extend(x, u)
         \/ \E u, v \in SessionTokens : Cookie!Rotate(x, u, v)
         \/ Cookie!Watch(x) \/ Cookie!Read(x) \/ Cookie!ReadRecords(x) \/ Cookie!Exec(x)
         \/ Cookie!Fail(x)
  BY <1>0, <1>3 DEF Cookie!Next, Cookie!Step, Cookie!Tick
<1>5. x = r
  <2> SUFFICES ASSUME x # r PROVE cookieReq'[r].answer = "none"
    OBVIOUS
  <2>1. CASE cookieReq'[r] = q
    BY <1>0, <2>1
  <2>2. CASE cookieReq'[r] = [q EXCEPT !.dirty = TRUE]
    BY <1>0, <2>2 DEF Cookie!Request
  <2>3. CASE Cookie!Exec(x)
    BY <1>0, <2>1, <2>2, <2>3 DEF Cookie!Exec, Cookie!Retry, Cookie!Answer
  <2>4. CASE ~Cookie!Exec(x)
    BY <1>0, <1>4, <2>1, <2>4
    DEF Cookie!Create, Cookie!Revoke, Cookie!RevokeAll, Cookie!Extend, Cookie!Rotate,
        Cookie!Begin, Cookie!Watch, Cookie!Read, Cookie!ReadForCreate, Cookie!ReadForExtend,
        Cookie!ReadForRotate, Cookie!ReadForRevoke, Cookie!ReadMembers, Cookie!ReadRecords,
        Cookie!Executing, Cookie!Answer, Cookie!Fail
  <2> QED BY <2>3, <2>4
<1>6. CASE Cookie!Exec(r)
  <2>1. ~q.dirty
    <3> SUFFICES ASSUME q.dirty PROVE FALSE
      OBVIOUS
    <3>1. CASE q.tries + 1 < WatchAttempts
      <4>1. cookieReq'[r].answer = q.answer
        BY <1>0, <1>6, <3>1 DEF Cookie!Exec, Cookie!Clean, Cookie!Retry, Cookie!Request
      <4> QED BY <1>0, <4>1
    <3>2. CASE ~(q.tries + 1 < WatchAttempts)
      BY <1>2, <1>6, <3>2 DEF Cookie!Exec, Cookie!Clean, Cookie!Retry
    <3> QED BY <3>1, <3>2
  <2>2. sessions' = CookieWritten(sessions, q.write)
    BY <1>6, <2>1 DEF Cookie!Exec, Cookie!Clean, CookieWritten
  <2>3. q.write = [v \in SessionTokens |-> IF v \in index[q.subject] /\ sessions[v] # None
                                             THEN Cookie!Revoked(sessions[v]) ELSE None]
    BY <1>0, <1>6, <2>1 DEF CookieRelies, CookieDecided, Cookie!Exec
  <2>4. \A v \in SessionTokens : sessions[v] # None =>
           Cookie!Revoked(sessions[v]) # None /\ Cookie!Revoked(sessions[v]).revoked
    BY <1>0, CookieRevoked
  <2> HIDE DEF q
  <2> QED BY <1>0, <2>2, <2>3, <2>4 DEF CookieWritten, CookieIndexed, q
<1>7. CASE Cookie!Read(r)
  <2>1. Cookie!ReadMembers(r) /\ UNCHANGED sessions
    BY <1>7 DEF Cookie!Read, Cookie!ReadForCreate, Cookie!ReadForExtend, Cookie!ReadForRotate,
                Cookie!ReadForRevoke
  <2>2. index[q.subject] = {}
    <3> SUFFICES ASSUME index[q.subject] # {} PROVE FALSE
      OBVIOUS
    <3>1. cookieReq'[r].answer = q.answer
      BY <1>0, <2>1 DEF Cookie!ReadMembers, Cookie!Request
    <3> QED BY <1>0, <3>1
  <2> QED BY <1>0, <2>1, <2>2 DEF CookieIndexed
<1>8. CASE Cookie!Watch(r) \/ Cookie!ReadRecords(r)
  <2>1. cookieReq'[r].answer = q.answer
    BY <1>0, <1>8 DEF Cookie!Watch, Cookie!ReadRecords, Cookie!Executing, Cookie!Request
  <2> QED BY <1>0, <2>1
<1>9. CASE Cookie!Fail(r)
  BY <1>2, <1>9 DEF Cookie!Fail
<1>10. ~Cookie!Free(r)
  OBVIOUS
<1> QED BY <1>4, <1>5, <1>6, <1>7, <1>8, <1>9, <1>10
        DEF Cookie!Create, Cookie!Revoke, Cookie!RevokeAll, Cookie!Extend, Cookie!Rotate,
            Cookie!Begin

\* When RevokeAll answers, every cookie session of the subject is revoked, those included
\* that were created or rotated in while it collected them: Cookie!RevokeAllComplete.
THEOREM CookieRevocationsComplete == AdapterSpec => Cookie!RevokeAllComplete
<1> DEFINE A == \A r \in Requests :
                    /\ cookieReq[r].method = "revokeAll" /\ ~Cookie!Free(r)
                    /\ cookieReq'[r].answer = "ok"
                    => \A t \in SessionTokens :
                           sessions'[t] # None /\ sessions'[t].subject = cookieReq[r].subject
                           => sessions'[t].revoked
<1>1. CookieInv /\ Cookie!Next => A
  BY CookieRevokeStep
<1>2. CookieInv /\ [AdapterNext]_<<vars, cookieVars, bearerVars, totpVars>>
        => [A]_(Cookie!vars)
  BY <1>1, AdapterCookie DEF cookieVars, Cookie!vars
<1> QED BY <1>2, CookieInvariant, PTL DEF AdapterSpec, Cookie!RevokeAllComplete

-----------------------------------------------------------------------------
(***************************************************************************)
(* Bearer sessions: the inductive invariant.                               *)
(***************************************************************************)

\* Tokens have sessions and are revoked together with them.
Together(a, f) ==
    \A t \in Tokens : f[t] # None =>
        a[f[t].session] # None /\ f[t].revoked = a[f[t].session].revoked

\* The sets beside the hashes list exactly the sessions of a subject, the tokens of a
\* session.
BearerIndexed(a, f, bs, bt) ==
    /\ \A u \in Users : bs[u] = {sid \in SessionIDs : a[sid] # None /\ a[sid].subject = u}
    /\ \A sid \in SessionIDs : bt[sid] = {t \in Tokens : f[t] # None /\ f[t].session = sid}

\* A token that may not be rotated at an instant.
Inactive(f, t, at) == f[t].rotated \/ f[t].revoked \/ ~(at < f[t].expires)

\* What a call brings: the sessions it is about exist, and a token that was found spent
\* stays so over every further attempt.
BearerCarried(q, a, f) ==
    /\ q.answer = "none"
    /\ \A sid \in q.seen : a[sid] # None
    /\ q.reused => q.method = "rotate" /\ Inactive(f, q.tok, q.at)
    /\ q.method = "create" => /\ q.sid \in SessionIDs /\ q.subject \in Users
                              /\ q.tok \in Tokens /\ q.new = q.tok
    /\ q.method = "rotate" => /\ q.tok \in Tokens /\ q.new \in Tokens
                              /\ f[q.tok] # None /\ q.sid = f[q.tok].session
                              /\ q.seen = {q.sid}
    /\ q.method = "revoke" => q.sid \in SessionIDs /\ q.seen = {q.sid}
    /\ q.method = "revokeAll" => /\ q.subject \in Users
                                 /\ \A sid \in q.seen : a[sid].subject = q.subject

\* The call is to end sessions, and these.
Revoking(q) == q.method \in {"revoke", "revokeAll"} \/ q.reused

Targets(q, bs) == IF q.method = "revokeAll" THEN bs[q.subject] ELSE {q.sid}

\* The pipeline revokes the targets that are not left to do, with all their tokens.
CollectedAccess(D, a) ==
    [sid \in SessionIDs |-> IF sid \in D /\ a[sid] # None /\ ~a[sid].revoked
                              THEN [a[sid] EXCEPT !.revoked = TRUE] ELSE None]

CollectedRefresh(D, q, f) ==
    [t \in Tokens |-> IF /\ f[t] # None /\ f[t].session \in D
                         /\ q.method = "revokeAll" => ~f[t].revoked
                        THEN [f[t] EXCEPT !.revoked = TRUE] ELSE None]

Collected(q, a, f, bs) ==
    /\ q.todo \subseteq Targets(q, bs)
    /\ q.access = CollectedAccess(Targets(q, bs) \ q.todo, a)
    /\ q.refresh = CollectedRefresh(Targets(q, bs) \ q.todo, q, f)

\* The pipeline of CreateSession or of a rotation, decided from the hashes a and f.
BearerDecided(q, a, f) ==
    /\ q.method = "create" =>
          /\ a[q.sid] = None /\ f[q.tok] = None
          /\ q.access = [Bearer!NoAccess EXCEPT ![q.sid] = Bearer!NewSession(q.subject, q.at)]
          /\ q.refresh = [Bearer!NoRefresh EXCEPT ![q.tok] =
                             Bearer!NewToken(q.sid, q.at + RefreshLifetime)]
    /\ q.method = "rotate" =>
          /\ ~Inactive(f, q.tok, q.at) /\ f[q.new] = None
          /\ q.access = Bearer!NoAccess
          /\ q.refresh = [Bearer!NoRefresh EXCEPT
                             ![q.tok] = [f[q.tok] EXCEPT !.rotated = TRUE],
                             ![q.new] = Bearer!NewToken(q.sid, f[q.tok].expires)]

\* What a call that collects relies on.  That a session it passed over is revoked holds
\* even if the call is spoilt: a pipeline without commands is answered unchecked.
Collecting(q, a, f, bs) ==
    /\ q.method # "revokeAll" => q.todo \subseteq {q.sid}
    /\ \A sid \in q.seen : sid \in q.todo \/ q.access[sid] # None \/ a[sid].revoked
    /\ ~q.dirty => Collected(q, a, f, bs)

BearerRelies(q, a, f, bs, bt) ==
    /\ q.pc # "idle" => BearerCarried(q, a, f)
    /\ q.pc = "create" => q.method = "create"
    /\ q.pc = "rotate" => q.method = "rotate"
    /\ q.pc = "subject" => q.method = "revokeAll"
    /\ q.pc \in {"create", "rotate", "subject"} =>
          q.access = Bearer!NoAccess /\ q.refresh = Bearer!NoRefresh
    /\ q.pc \in {"members", "records"} => Revoking(q) /\ Collecting(q, a, f, bs)
    /\ q.pc = "records" => q.sid \in q.todo /\ (~q.dirty => q.fields = bt[q.sid])
    /\ q.pc = "exec" /\ Revoking(q) => q.todo = {} /\ Collecting(q, a, f, bs)
    /\ q.pc = "exec" /\ ~Revoking(q) /\ ~q.dirty => BearerDecided(q, a, f)

BearerInv ==
    /\ Bearer!TypeOK
    /\ Together(access, refresh)
    /\ BearerIndexed(access, refresh, bySubject, bySession)
    /\ \A r \in Requests : BearerRelies(bearerReq[r], access, refresh, bySubject, bySession)

-----------------------------------------------------------------------------
(***************************************************************************)
(* Bearer sessions: steps that write nothing.                              *)
(***************************************************************************)

\* A step of one call that leaves hashes and sets alone.
LEMMA BearerMoves ==
    ASSUME BearerInv, NEW r \in Requests, NEW q \in Bearer!Request,
           BearerRelies(q, access, refresh, bySubject, bySession),
           bearerReq' = [bearerReq EXCEPT ![r] = q],
           UNCHANGED <<access, refresh, bearerNow, bySubject, bySession>>
    PROVE  BearerInv'
<1>1. Bearer!TypeOK'
  BY DEF BearerInv, Bearer!TypeOK
<1>2. Together(access, refresh)' /\ BearerIndexed(access, refresh, bySubject, bySession)'
  BY DEF BearerInv, Together, BearerIndexed
<1>3. ASSUME NEW x \in Requests
      PROVE  BearerRelies(bearerReq[x], access, refresh, bySubject, bySession)'
  <2>1. bearerReq[x]' = IF x = r THEN q ELSE bearerReq[x]
    BY DEF BearerInv, Bearer!TypeOK
  <2> QED BY <2>1 DEF BearerInv
<1> QED BY <1>1, <1>2, <1>3 DEF BearerInv

\* An empty pipeline writes nothing, and a fresh request has its type.
LEMMA BearerNothing ==
    /\ Bearer!NoAccess \in [SessionIDs -> Bearer!AccessSession \cup {None}]
    /\ Bearer!NoRefresh \in [Tokens -> Bearer!RefreshToken \cup {None}]
    /\ 0 \in Bearer!Times /\ 0 \in 0..(WatchAttempts - 1)
BY WatchAssumption, LifetimesAssumption DEF Bearer!NoAccess, Bearer!NoRefresh, Bearer!Times

\* A call that is over relies on nothing.
LEMMA BearerAnswered ==
    ASSUME NEW q \in Bearer!Request,
           NEW answer \in {"none", "ok", "reuse", "conflict", "contention"}
    PROVE  /\ Bearer!Answered(q, answer) \in Bearer!Request
           /\ Bearer!Answered(q, answer).pc = "idle"
           /\ Bearer!Answered(q, answer).answer = answer
           /\ \A a, f, bs, bt : BearerRelies(Bearer!Answered(q, answer), a, f, bs, bt)
<1>1. /\ Bearer!Answered(q, answer).pc = "idle"
      /\ Bearer!Answered(q, answer).answer = answer
  BY DEF Bearer!Answered, Bearer!Request
<1>2. Bearer!Answered(q, answer) \in Bearer!Request
  BY ZenonT(40), BearerNothing DEF Bearer!Answered, Bearer!Request
<1> QED BY <1>1, <1>2 DEF BearerRelies

\* A method that answers without an EXEC keeps the invariant.
LEMMA BearerAnswers ==
    ASSUME BearerInv, NEW r \in Requests,
           NEW answer \in {"none", "ok", "reuse", "conflict", "contention"},
           Bearer!Answer(r, answer),
           UNCHANGED <<access, refresh, bearerNow, bySubject, bySession>>
    PROVE  BearerInv'
<1>1. bearerReq[r] \in Bearer!Request
  BY DEF BearerInv, Bearer!TypeOK
<1>2. bearerReq' = [bearerReq EXCEPT ![r] = Bearer!Answered(bearerReq[r], answer)]
  BY DEF Bearer!Answer
<1> QED BY <1>1, <1>2, BearerAnswered, BearerMoves

\* A method that begins carries what its caller passed and remembers.
LEMMA BearerBegins ==
    ASSUME BearerInv, NEW r \in Requests,
           NEW method \in {"create", "rotate", "revoke", "revokeAll"},
           NEW sid \in SessionIDs \cup {None}, NEW u \in Users \cup {None},
           NEW t \in Tokens \cup {None}, NEW v \in Tokens \cup {None},
           NEW seen \in SUBSET SessionIDs,
           Bearer!Begin(r, Bearer!Called(method, sid, u, t, v, seen)),
           BearerCarried(Bearer!Called(method, sid, u, t, v, seen), access, refresh)
    PROVE  BearerInv'
<1> DEFINE q == Bearer!Called(method, sid, u, t, v, seen)
<1>1. q \in Bearer!Request
  <2>1. bearerNow \in Bearer!Times
    BY DEF BearerInv, Bearer!TypeOK
  <2>2. (IF method \in {"revoke", "revokeAll"} THEN 0 ELSE bearerNow) \in Bearer!Times
    BY <2>1, BearerNothing
  <2> QED BY <2>2, BearerNothing DEF Bearer!Called, Bearer!Request
<1>2. BearerRelies(q, access, refresh, bySubject, bySession)
  BY DEF BearerRelies, Bearer!Called
<1>3. /\ bearerReq' = [bearerReq EXCEPT ![r] = q]
      /\ UNCHANGED <<access, refresh, bearerNow, bySubject, bySession>>
  BY DEF Bearer!Begin
<1> HIDE DEF q
<1> QED BY <1>1, <1>2, <1>3, BearerMoves

\* Every call of the managers.
LEMMA BearerCalls ==
    ASSUME BearerInv, NEW r \in Requests,
           \/ \E u \in Users, sid \in SessionIDs :
                 Bearer!Revoke(r, u, sid) \/ \E t \in Tokens : Bearer!CreateSession(r, sid, u, t)
           \/ \E u \in Users : Bearer!RevokeAll(r, u)
           \/ \E t, v \in Tokens : Bearer!Rotate(r, t, v)
    PROVE  BearerInv'
<1>1. ASSUME NEW u \in Users, NEW sid \in SessionIDs, Bearer!Revoke(r, u, sid) PROVE BearerInv'
  <2>1. access[sid] # None
    BY <1>1 DEF Bearer!Revoke, Bearer!Listed, Bearer!Resolves
  <2>2. BearerCarried(Bearer!Called("revoke", sid, None, None, None, {sid}), access, refresh)
    BY <2>1 DEF BearerCarried, Bearer!Called
  <2> QED BY <1>1, <2>2, BearerBegins DEF Bearer!Revoke
<1>2. ASSUME NEW u \in Users, NEW sid \in SessionIDs, NEW t \in Tokens,
             Bearer!CreateSession(r, sid, u, t)
      PROVE  BearerInv'
  <2>1. BearerCarried(Bearer!Called("create", sid, u, t, t, {}), access, refresh)
    BY DEF BearerCarried, Bearer!Called
  <2> QED BY <1>2, <2>1, BearerBegins DEF Bearer!CreateSession
<1>3. ASSUME NEW u \in Users, Bearer!RevokeAll(r, u) PROVE BearerInv'
  <2> DEFINE S == Bearer!SessionsOf(u)
  <2>1. S \in SUBSET SessionIDs /\ \A sid \in S : access[sid] # None /\ access[sid].subject = u
    BY DEF Bearer!SessionsOf
  <2>2. BearerCarried(Bearer!Called("revokeAll", None, u, None, None, S), access, refresh)
    BY <2>1 DEF BearerCarried, Bearer!Called
  <2>3. Bearer!Begin(r, Bearer!Called("revokeAll", None, u, None, None, S))
    BY <1>3 DEF Bearer!RevokeAll
  <2> HIDE DEF S
  <2> QED BY <2>1, <2>2, <2>3, BearerBegins
<1>4. ASSUME NEW t \in Tokens, NEW v \in Tokens, Bearer!Rotate(r, t, v) PROVE BearerInv'
  <2> DEFINE sid == refresh[t].session
  <2>1. /\ refresh[t] # None
        /\ Bearer!Begin(r, Bearer!Called("rotate", sid, None, t, v, {sid}))
    BY <1>4 DEF Bearer!Rotate
  <2>2. refresh[t] \in Bearer!RefreshToken
    BY <2>1 DEF BearerInv, Bearer!TypeOK
  <2>3. sid \in SessionIDs
    BY <2>2 DEF Bearer!RefreshToken
  <2>4. access[sid] # None
    BY <2>1 DEF BearerInv, Together
  <2>5. BearerCarried(Bearer!Called("rotate", sid, None, t, v, {sid}), access, refresh)
    BY <2>1, <2>4 DEF BearerCarried, Bearer!Called
  <2> HIDE DEF sid
  <2> QED BY SMTT(20), <2>1, <2>3, <2>5, BearerBegins
<1> QED BY <1>1, <1>2, <1>3, <1>4

-----------------------------------------------------------------------------
(***************************************************************************)
(* Bearer sessions: the transaction up to its EXEC.                        *)
(***************************************************************************)

\* Nothing has been collected yet.
LEMMA BearerStartsOver ==
    ASSUME NEW q \in Bearer!Request, NEW a, NEW f, NEW bs, NEW bt, q.pc # "idle",
           BearerCarried(q, a, f)
    PROVE  /\ Bearer!Watching(q) \in Bearer!Request
           /\ Bearer!Watching(q).pc # "idle"
           /\ Bearer!Watching(q).tries = q.tries
           /\ BearerRelies(Bearer!Watching(q), a, f, bs, bt)
<1> DEFINE p == Bearer!Watching(q)
<1>1. q.method = "revoke" => q.sid \in SessionIDs
  BY DEF BearerCarried
<1>2. p \in Bearer!Request
  <2>1. q.method \in {"create", "rotate", "revoke", "revokeAll"}
    BY DEF Bearer!Request
  <2> DEFINE pc == CASE q.method = "create" -> "create"
                     [] q.method = "rotate" -> "rotate"
                     [] q.method = "revoke" -> "members"
                     [] q.method = "revokeAll" -> "subject"
             todo == IF q.method = "revoke" THEN {q.sid} ELSE {}
  <2>2. pc \in {"create", "rotate", "members", "subject"} /\ todo \in SUBSET SessionIDs
    BY <1>1, <2>1
  <2>3. p = [q EXCEPT !.dirty = FALSE, !.access = Bearer!NoAccess, !.refresh = Bearer!NoRefresh,
                      !.pc = pc, !.todo = todo]
    BY DEF Bearer!Watching
  <2> HIDE DEF pc, todo, p
  <2> QED BY <2>2, <2>3, BearerNothing DEF Bearer!Request, Bearer!Reading
<1>3. /\ p.method = q.method /\ p.sid = q.sid /\ p.subject = q.subject /\ p.tok = q.tok
      /\ p.new = q.new /\ p.at = q.at /\ p.reused = q.reused /\ p.seen = q.seen
      /\ p.answer = q.answer /\ p.tries = q.tries
  BY DEF Bearer!Watching, Bearer!Request
<1>4. /\ p.access = Bearer!NoAccess /\ p.refresh = Bearer!NoRefresh /\ p.dirty = FALSE
      /\ p.todo = IF q.method = "revoke" THEN {q.sid} ELSE {}
  BY DEF Bearer!Watching, Bearer!Request
<1>5. /\ q.method \in {"create", "rotate", "revoke", "revokeAll"}
      /\ q.method = "create" => p.pc = "create"
      /\ q.method = "rotate" => p.pc = "rotate"
      /\ q.method = "revoke" => p.pc = "members"
      /\ q.method = "revokeAll" => p.pc = "subject"
  BY DEF Bearer!Watching, Bearer!Request
<1> HIDE DEF p
<1>6. BearerCarried(p, a, f)
  BY <1>3 DEF BearerCarried
<1>7. CASE q.method = "revoke"
  <2>1. Collected(p, a, f, bs)
    BY <1>3, <1>4, <1>7
    DEF Collected, Targets, CollectedAccess, CollectedRefresh, Bearer!NoAccess, Bearer!NoRefresh
  <2>2. Revoking(p) /\ Collecting(p, a, f, bs)
    BY <1>3, <1>4, <1>7, <2>1 DEF Revoking, Collecting, BearerCarried
  <2> QED BY <1>2, <1>3, <1>5, <1>6, <1>7, <2>2 DEF BearerRelies, p
<1>8. CASE q.method # "revoke"
  BY <1>2, <1>3, <1>4, <1>5, <1>6, <1>8 DEF BearerRelies, p
<1> QED BY <1>7, <1>8

\* WATCH: the request starts reading unmarked.
LEMMA BearerWatch ==
    ASSUME BearerInv, NEW r \in Requests, Bearer!Watch(r) PROVE BearerInv'
<1>1. /\ bearerReq[r] \in Bearer!Request
      /\ BearerCarried(bearerReq[r], access, refresh) /\ bearerReq[r].pc # "idle"
  BY DEF BearerInv, Bearer!TypeOK, Bearer!Watch, BearerRelies
<1>2. /\ bearerReq' = [bearerReq EXCEPT ![r] = Bearer!Watching(bearerReq[r])]
      /\ UNCHANGED <<access, refresh, bearerNow, bySubject, bySession>>
  BY DEF Bearer!Watch
<1> QED BY <1>1, <1>2, BearerStartsOver, BearerMoves

\* What BearerInv says of one call and of the tables, for the steps below.
LEMMA BearerOne ==
    ASSUME BearerInv, NEW r \in Requests
    PROVE  /\ bearerReq \in [Requests -> Bearer!Request] /\ bearerReq[r] \in Bearer!Request
           /\ access \in [SessionIDs -> Bearer!AccessSession \cup {None}]
           /\ refresh \in [Tokens -> Bearer!RefreshToken \cup {None}]
           /\ bySubject \in [Users -> SUBSET SessionIDs]
           /\ bySession \in [SessionIDs -> SUBSET Tokens]
           /\ BearerRelies(bearerReq[r], access, refresh, bySubject, bySession)
BY DEF BearerInv, Bearer!TypeOK

\* A new session and a new token are rows.
LEMMA BearerNew ==
    ASSUME NEW sid \in SessionIDs, NEW u \in Users, NEW at \in Nat, NEW e \in Nat
    PROVE  /\ Bearer!NewSession(u, at) \in Bearer!AccessSession
           /\ Bearer!NewToken(sid, e) \in Bearer!RefreshToken
           /\ Bearer!NewSession(u, at) # None /\ Bearer!NewToken(sid, e) # None
<1>1. /\ Bearer!NewSession(u, at) \in Bearer!AccessSession
      /\ Bearer!NewToken(sid, e) \in Bearer!RefreshToken
  BY LifetimesAssumption DEF Bearer!NewSession, Bearer!NewToken, Bearer!AccessSession,
                             Bearer!RefreshToken
<1> QED BY <1>1, NoRowAssumption

\* Create decides on the identifiers it finds free, or conflicts.
LEMMA BearerReadForCreate ==
    ASSUME BearerInv, NEW r \in Requests, Bearer!ReadForCreate(r) PROVE BearerInv'
<1> DEFINE q == bearerReq[r]
           a == [q.access EXCEPT ![q.sid] = Bearer!NewSession(q.subject, q.at)]
           f == [q.refresh EXCEPT ![q.tok] = Bearer!NewToken(q.sid, q.at + RefreshLifetime)]
           p == [q EXCEPT !.pc = "exec", !.access = a, !.refresh = f]
<1>0. /\ q \in Bearer!Request /\ q.pc = "create" /\ q.method = "create"
      /\ BearerCarried(q, access, refresh)
      /\ q.access = Bearer!NoAccess /\ q.refresh = Bearer!NoRefresh
      /\ UNCHANGED <<access, refresh, bearerNow, bySubject, bySession>>
  BY BearerOne DEF Bearer!ReadForCreate, BearerRelies
<1>1. CASE Bearer!Answer(r, "conflict")
  BY <1>0, <1>1, BearerAnswers
<1>2. CASE /\ ~(access[q.sid] # None \/ refresh[q.tok] # None)
           /\ bearerReq' = [bearerReq EXCEPT ![r].pc = "exec",
                  ![r].access[q.sid] = Bearer!NewSession(q.subject, q.at),
                  ![r].refresh[q.tok] = Bearer!NewToken(q.sid, q.at + RefreshLifetime)]
  <2>1. /\ q.sid \in SessionIDs /\ q.subject \in Users /\ q.tok \in Tokens /\ ~q.reused
        /\ q.at \in Nat /\ q.at + RefreshLifetime \in Nat
    BY <1>0, LifetimesAssumption DEF BearerCarried, Bearer!Request, Bearer!Times
  <2>2. /\ a \in [SessionIDs -> Bearer!AccessSession \cup {None}]
        /\ f \in [Tokens -> Bearer!RefreshToken \cup {None}]
    BY <1>0, <2>1, BearerNew, BearerNothing
  <2>3. bearerReq' = [bearerReq EXCEPT ![r] = p]
    BY <1>2, BearerOne
  <2> HIDE DEF a, f
  <2>4. p \in Bearer!Request
    BY <1>0, <2>2 DEF Bearer!Request, Bearer!Reading
  <2>5. /\ p.method = "create" /\ p.sid = q.sid /\ p.subject = q.subject /\ p.tok = q.tok
        /\ p.new = q.new /\ p.at = q.at /\ p.reused = q.reused /\ p.seen = q.seen
        /\ p.answer = q.answer /\ p.pc = "exec" /\ p.access = a /\ p.refresh = f
    BY <1>0 DEF Bearer!Request
  <2> HIDE DEF p
  <2>6. BearerCarried(p, access, refresh)
    BY <1>0, <2>5 DEF BearerCarried
  <2>7. BearerDecided(p, access, refresh) /\ ~Revoking(p)
    BY <1>0, <1>2, <2>1, <2>5 DEF BearerDecided, Revoking, a, f
  <2>8. BearerRelies(p, access, refresh, bySubject, bySession)
    BY <2>5, <2>6, <2>7 DEF BearerRelies
  <2> QED BY <1>0, <2>3, <2>4, <2>8, BearerMoves
<1> QED BY <1>1, <1>2 DEF Bearer!ReadForCreate

\* Rotate decides to replace the token, or turns to revoking its session.
LEMMA BearerReadForRotate ==
    ASSUME BearerInv, NEW r \in Requests, Bearer!ReadForRotate(r) PROVE BearerInv'
<1> DEFINE q == bearerReq[r]
<1>0. /\ q \in Bearer!Request /\ q.pc = "rotate" /\ q.method = "rotate"
      /\ BearerCarried(q, access, refresh)
      /\ q.access = Bearer!NoAccess /\ q.refresh = Bearer!NoRefresh
      /\ UNCHANGED <<access, refresh, bearerNow, bySubject, bySession>>
  BY BearerOne DEF Bearer!ReadForRotate, BearerRelies
<1>1. /\ q.tok \in Tokens /\ q.new \in Tokens /\ q.sid = refresh[q.tok].session
      /\ refresh[q.tok] \in Bearer!RefreshToken /\ q.seen = {q.sid}
  BY <1>0, BearerOne DEF BearerCarried
<1>2. /\ q.sid \in SessionIDs /\ refresh[q.tok].expires \in Nat
      /\ Bearer!RefreshActive(q.tok, q.at) <=> ~Inactive(refresh, q.tok, q.at)
  BY <1>0, <1>1 DEF Bearer!RefreshToken, Bearer!RefreshActive, Inactive, BearerCarried
<1>3. CASE Bearer!Answer(r, "conflict")
  BY <1>0, <1>3, BearerAnswers
<1>4. CASE /\ ~Bearer!RefreshActive(q.tok, q.at)
           /\ bearerReq' = [bearerReq EXCEPT ![r].pc = "members", ![r].reused = TRUE,
                                             ![r].todo = {q.sid}]
  <2> DEFINE p == [q EXCEPT !.pc = "members", !.reused = TRUE, !.todo = {q.sid}]
  <2>1. bearerReq' = [bearerReq EXCEPT ![r] = p]
    BY <1>4, BearerOne
  <2>2. p \in Bearer!Request
    BY <1>0, <1>2 DEF Bearer!Request, Bearer!Reading
  <2>3. /\ p.method = "rotate" /\ p.sid = q.sid /\ p.subject = q.subject /\ p.tok = q.tok
        /\ p.new = q.new /\ p.at = q.at /\ p.reused /\ p.seen = q.seen /\ p.todo = {q.sid}
        /\ p.answer = q.answer /\ p.pc = "members"
        /\ p.access = Bearer!NoAccess /\ p.refresh = Bearer!NoRefresh
    BY <1>0 DEF Bearer!Request
  <2> HIDE DEF p
  <2>4. BearerCarried(p, access, refresh)
    BY <1>0, <1>2, <1>4, <2>3 DEF BearerCarried
  <2>5. Collected(p, access, refresh, bySubject)
    BY <2>3 DEF Collected, Targets, CollectedAccess, CollectedRefresh, Bearer!NoAccess,
                Bearer!NoRefresh
  <2>6. Revoking(p) /\ Collecting(p, access, refresh, bySubject)
    BY <1>1, <2>3, <2>5 DEF Revoking, Collecting
  <2>7. BearerRelies(p, access, refresh, bySubject, bySession)
    BY <2>3, <2>4, <2>6 DEF BearerRelies
  <2> QED BY <1>0, <2>1, <2>2, <2>7, BearerMoves
<1>5. CASE /\ Bearer!RefreshActive(q.tok, q.at) /\ refresh[q.new] = None
           /\ bearerReq' = [bearerReq EXCEPT ![r].pc = "exec",
                  ![r].refresh[q.tok] = [refresh[q.tok] EXCEPT !.rotated = TRUE],
                  ![r].refresh[q.new] = Bearer!NewToken(q.sid, refresh[q.tok].expires)]
  <2> DEFINE f == [q.refresh EXCEPT ![q.tok] = [refresh[q.tok] EXCEPT !.rotated = TRUE],
                               ![q.new] = Bearer!NewToken(q.sid, refresh[q.tok].expires)]
             p == [q EXCEPT !.pc = "exec", !.refresh = f]
  <2>1. f \in [Tokens -> Bearer!RefreshToken \cup {None}]
    <3>1. Bearer!NewToken(q.sid, refresh[q.tok].expires) \in Bearer!RefreshToken
      BY <1>2 DEF Bearer!NewToken, Bearer!RefreshToken
    <3>2. [refresh[q.tok] EXCEPT !.rotated = TRUE] \in Bearer!RefreshToken
      BY <1>1 DEF Bearer!RefreshToken
    <3> QED BY <1>0, <3>1, <3>2, BearerNothing
  <2>2. bearerReq' = [bearerReq EXCEPT ![r] = p]
    <3>1. q.refresh \in [Tokens -> Bearer!RefreshToken \cup {None}]
      BY <1>0, BearerNothing
    <3>2. bearerReq' = [bearerReq EXCEPT ![r] = [q EXCEPT !.pc = "exec",
                  !.refresh[q.tok] = [refresh[q.tok] EXCEPT !.rotated = TRUE],
                  !.refresh[q.new] = Bearer!NewToken(q.sid, refresh[q.tok].expires)]]
      BY <1>5, BearerOne
    <3> QED BY <3>2
  <2> HIDE DEF f
  <2>3. p \in Bearer!Request
    BY <1>0, <2>1 DEF Bearer!Request, Bearer!Reading
  <2>4. /\ p.method = "rotate" /\ p.sid = q.sid /\ p.subject = q.subject /\ p.tok = q.tok
        /\ p.new = q.new /\ p.at = q.at /\ p.reused = q.reused /\ p.seen = q.seen
        /\ p.answer = q.answer /\ p.pc = "exec"
        /\ p.access = Bearer!NoAccess /\ p.refresh = f
    BY <1>0 DEF Bearer!Request
  <2> HIDE DEF p
  <2>5. BearerCarried(p, access, refresh)
    BY <1>0, <2>4 DEF BearerCarried
  <2>6. ~q.reused
    BY <1>0, <1>2, <1>5 DEF BearerCarried
  <2>7. BearerDecided(p, access, refresh) /\ ~Revoking(p)
    BY <1>0, <1>2, <1>5, <2>4, <2>6 DEF BearerDecided, Revoking, f
  <2>8. BearerRelies(p, access, refresh, bySubject, bySession)
    BY <2>4, <2>5, <2>7 DEF BearerRelies
  <2> QED BY <1>0, <2>2, <2>3, <2>8, BearerMoves
<1> QED BY <1>3, <1>4, <1>5 DEF Bearer!ReadForRotate

\* RevokeAll reads the subject's set.
LEMMA BearerReadSubject ==
    ASSUME BearerInv, NEW r \in Requests, Bearer!ReadSubject(r) PROVE BearerInv'
<1> DEFINE q == bearerReq[r]
           S == bySubject[q.subject]
           pc == IF S = {} THEN "exec" ELSE "members"
           p == [q EXCEPT !.todo = S, !.pc = pc]
<1>0. /\ q \in Bearer!Request /\ q.pc = "subject" /\ q.method = "revokeAll"
      /\ BearerCarried(q, access, refresh)
      /\ q.access = Bearer!NoAccess /\ q.refresh = Bearer!NoRefresh
      /\ UNCHANGED <<access, refresh, bearerNow, bySubject, bySession>>
  BY BearerOne DEF Bearer!ReadSubject, BearerRelies
<1>1. /\ q.subject \in Users /\ S \in SUBSET SessionIDs /\ q.seen \subseteq S
      /\ pc \in {"exec", "members"}
  BY <1>0, BearerOne DEF BearerCarried, BearerInv, BearerIndexed, Bearer!Request
<1>2. bearerReq' = [bearerReq EXCEPT ![r] = p]
  BY BearerOne DEF Bearer!ReadSubject
<1>3. pc = "exec" <=> S = {}
  OBVIOUS
<1> HIDE DEF S, pc
<1>4. p \in Bearer!Request
  BY <1>0, <1>1 DEF Bearer!Request, Bearer!Reading
<1>5. /\ p.method = "revokeAll" /\ p.sid = q.sid /\ p.subject = q.subject /\ p.tok = q.tok
      /\ p.new = q.new /\ p.at = q.at /\ p.reused = q.reused /\ p.seen = q.seen /\ p.todo = S
      /\ p.answer = q.answer /\ p.pc = pc /\ p.dirty = q.dirty
      /\ p.access = Bearer!NoAccess /\ p.refresh = Bearer!NoRefresh
  BY <1>0 DEF Bearer!Request
<1> HIDE DEF p
<1>6. BearerCarried(p, access, refresh)
  BY <1>0, <1>5 DEF BearerCarried
<1>7. Collected(p, access, refresh, bySubject)
  <2>1. Targets(p, bySubject) = S
    BY <1>5 DEF Targets, S
  <2> QED BY <1>5, <2>1 DEF Collected, CollectedAccess, CollectedRefresh, Bearer!NoAccess,
                            Bearer!NoRefresh
<1>8. Revoking(p) /\ Collecting(p, access, refresh, bySubject)
  BY <1>1, <1>5, <1>7 DEF Revoking, Collecting
<1>9. BearerRelies(p, access, refresh, bySubject, bySession)
  BY <1>1, <1>3, <1>5, <1>6, <1>8 DEF BearerRelies
<1> QED BY <1>0, <1>2, <1>4, <1>9, BearerMoves

\* A revocation reads the set of one session's tokens.
LEMMA BearerReadMembers ==
    ASSUME BearerInv, NEW r \in Requests, Bearer!ReadMembers(r) PROVE BearerInv'
<1> DEFINE q == bearerReq[r]
<1>0. /\ q \in Bearer!Request /\ q.pc = "members" /\ Revoking(q)
      /\ BearerCarried(q, access, refresh) /\ Collecting(q, access, refresh, bySubject)
      /\ UNCHANGED <<access, refresh, bearerNow, bySubject, bySession>>
  BY BearerOne DEF Bearer!ReadMembers, BearerRelies
<1>1. PICK sid \in q.todo :
         bearerReq' = [bearerReq EXCEPT ![r].pc = "records", ![r].sid = sid,
                                        ![r].fields = bySession[sid]]
  BY DEF Bearer!ReadMembers
<1> DEFINE F == bySession[sid]
           p == [q EXCEPT !.pc = "records", !.sid = sid, !.fields = F]
<1>2. sid \in SessionIDs /\ F \in SUBSET Tokens
  BY <1>0, BearerOne DEF Bearer!Request
<1>3. bearerReq' = [bearerReq EXCEPT ![r] = p]
  BY <1>1, BearerOne
<1>4. q.method # "revokeAll" => sid = q.sid
  BY <1>0 DEF Collecting
<1> HIDE DEF F
<1>5. p \in Bearer!Request
  BY <1>0, <1>2 DEF Bearer!Request, Bearer!Reading
<1>6. /\ p.method = q.method /\ p.sid = sid /\ p.subject = q.subject /\ p.tok = q.tok
      /\ p.new = q.new /\ p.at = q.at /\ p.reused = q.reused /\ p.seen = q.seen
      /\ p.todo = q.todo /\ p.answer = q.answer /\ p.pc = "records" /\ p.dirty = q.dirty
      /\ p.access = q.access /\ p.refresh = q.refresh /\ p.fields = F
  BY <1>0 DEF Bearer!Request
<1> HIDE DEF p
<1>7. BearerCarried(p, access, refresh)
  BY <1>0, <1>4, <1>6 DEF BearerCarried, Revoking
<1>8. Collected(q, access, refresh, bySubject) => Collected(p, access, refresh, bySubject)
  BY SMTT(20), <1>4, <1>6 DEF Collected, Targets, CollectedAccess, CollectedRefresh
<1>9. Revoking(p) /\ Collecting(p, access, refresh, bySubject)
  BY <1>0, <1>4, <1>6, <1>8 DEF Revoking, Collecting
<1>10. BearerRelies(p, access, refresh, bySubject, bySession)
  BY <1>6, <1>7, <1>9 DEF BearerRelies, F
<1> QED BY <1>0, <1>3, <1>5, <1>10, BearerMoves

\* A record that is marked revoked.
LEMMA BearerMarked ==
    /\ \A a \in Bearer!AccessSession :
          /\ [a EXCEPT !.revoked = TRUE] \in Bearer!AccessSession
          /\ [a EXCEPT !.revoked = TRUE] # None
          /\ [a EXCEPT !.revoked = TRUE].revoked
          /\ [a EXCEPT !.revoked = TRUE].subject = a.subject
          /\ a.revoked => [a EXCEPT !.revoked = TRUE] = a
    /\ \A f \in Bearer!RefreshToken :
          /\ [f EXCEPT !.revoked = TRUE] \in Bearer!RefreshToken
          /\ [f EXCEPT !.revoked = TRUE] # None
          /\ [f EXCEPT !.revoked = TRUE].revoked
          /\ [f EXCEPT !.revoked = TRUE].session = f.session
          /\ [f EXCEPT !.revoked = TRUE].expires = f.expires
          /\ [f EXCEPT !.revoked = TRUE].rotated = f.rotated
          /\ f.revoked => [f EXCEPT !.revoked = TRUE] = f
<1>1. ASSUME NEW a \in Bearer!AccessSession
      PROVE  /\ [a EXCEPT !.revoked = TRUE] \in Bearer!AccessSession
             /\ [a EXCEPT !.revoked = TRUE].revoked
             /\ [a EXCEPT !.revoked = TRUE].subject = a.subject
             /\ a.revoked => [a EXCEPT !.revoked = TRUE] = a
  BY DEF Bearer!AccessSession
<1>2. ASSUME NEW f \in Bearer!RefreshToken
      PROVE  /\ [f EXCEPT !.revoked = TRUE] \in Bearer!RefreshToken
             /\ [f EXCEPT !.revoked = TRUE].revoked
             /\ [f EXCEPT !.revoked = TRUE].session = f.session
             /\ [f EXCEPT !.revoked = TRUE].expires = f.expires
             /\ [f EXCEPT !.revoked = TRUE].rotated = f.rotated
             /\ f.revoked => [f EXCEPT !.revoked = TRUE] = f
  BY DEF Bearer!RefreshToken
<1> QED BY <1>1, <1>2, NoRowAssumption

\* A revocation decides on the rows of that session.
LEMMA BearerReadRecords ==
    ASSUME BearerInv, NEW r \in Requests, Bearer!ReadRecords(r) PROVE BearerInv'
<1> DEFINE q == bearerReq[r]
           left == q.todo \ {q.sid}
           pc == IF left = {} THEN "exec" ELSE "members"
           one == IF access[q.sid] # None /\ ~access[q.sid].revoked
                    THEN [access[q.sid] EXCEPT !.revoked = TRUE] ELSE None
           a == [q.access EXCEPT ![q.sid] = one]
           f == [t \in Tokens |-> IF t \in Bearer!ToRevoke(q)
                   THEN [refresh[t] EXCEPT !.revoked = TRUE] ELSE q.refresh[t]]
           p == [q EXCEPT !.pc = pc, !.todo = left, !.fields = {}, !.access = a, !.refresh = f]
           T == Targets(q, bySubject)
<1>0. /\ q \in Bearer!Request /\ q.pc = "records" /\ Revoking(q)
      /\ BearerCarried(q, access, refresh) /\ Collecting(q, access, refresh, bySubject)
      /\ q.sid \in q.todo /\ (~q.dirty => q.fields = bySession[q.sid])
      /\ UNCHANGED <<access, refresh, bearerNow, bySubject, bySession>>
  BY BearerOne DEF Bearer!ReadRecords, BearerRelies
<1>1. /\ q.sid \in SessionIDs /\ left \in SUBSET SessionIDs /\ pc \in {"exec", "members"}
      /\ q.access \in [SessionIDs -> Bearer!AccessSession \cup {None}]
      /\ q.refresh \in [Tokens -> Bearer!RefreshToken \cup {None}]
      /\ q.fields \in SUBSET Tokens
  BY <1>0 DEF Bearer!Request
<1>2. one \in Bearer!AccessSession \cup {None}
  BY <1>1, BearerOne, BearerMarked
<1>3. a \in [SessionIDs -> Bearer!AccessSession \cup {None}]
  BY <1>1, <1>2
<1>4. f \in [Tokens -> Bearer!RefreshToken \cup {None}]
  BY <1>1, BearerOne, BearerMarked DEF Bearer!ToRevoke
<1>5. bearerReq' = [bearerReq EXCEPT ![r] = p]
  <2>1. bearerReq' = [bearerReq EXCEPT ![r].pc = pc, ![r].todo = left, ![r].fields = {},
                         ![r].access[q.sid] = one, ![r].refresh = f]
    BY DEF Bearer!ReadRecords
  <2>2. bearerReq \in [Requests -> Bearer!Request] /\ q = bearerReq[r]
    BY BearerOne
  <2> HIDE DEF one, f, pc, left, q
  <2> QED BY ZenonT(40), <2>1, <2>2
<1>6. pc = "exec" <=> left = {}
  OBVIOUS
<1>7. ~q.dirty => /\ left \subseteq T
                  /\ a = CollectedAccess(T \ left, access)
                  /\ f = CollectedRefresh(T \ left, q, refresh)
  <2> SUFFICES ASSUME ~q.dirty
               PROVE  /\ left \subseteq T
                      /\ a = CollectedAccess(T \ left, access)
                      /\ f = CollectedRefresh(T \ left, q, refresh)
    OBVIOUS
  <2>1. /\ q.todo \subseteq T
        /\ q.access = CollectedAccess(T \ q.todo, access)
        /\ q.refresh = CollectedRefresh(T \ q.todo, q, refresh)
        /\ q.fields = {t \in Tokens : refresh[t] # None /\ refresh[t].session = q.sid}
    BY <1>0, <1>1 DEF Collecting, Collected, BearerInv, BearerIndexed
  <2>2. T \ left = (T \ q.todo) \cup {q.sid} /\ q.sid \notin T \ q.todo /\ left \subseteq T
    BY <1>0, <2>1
  <2> HIDE DEF T, left, q
  <2>3. a = CollectedAccess(T \ left, access)
    BY <1>1, <2>1, <2>2 DEF CollectedAccess
  <2>4. f = CollectedRefresh(T \ left, q, refresh)
    BY <1>1, <2>1, <2>2 DEF CollectedRefresh, Bearer!ToRevoke
  <2> QED BY <2>2, <2>3, <2>4
<1>8. \A sid \in q.seen : sid \in left \/ a[sid] # None \/ access[sid].revoked
  <2> SUFFICES ASSUME NEW sid \in q.seen PROVE sid \in left \/ a[sid] # None \/ access[sid].revoked
    OBVIOUS
  <2>1. access[sid] # None /\ sid \in SessionIDs
    BY <1>0 DEF BearerCarried, Bearer!Request
  <2>2. CASE sid = q.sid
    BY <1>1, <2>1, <2>2, BearerOne, BearerMarked
  <2>3. CASE sid # q.sid
    BY <1>0, <1>1, <2>1, <2>3 DEF Collecting
  <2> QED BY <2>2, <2>3
<1> HIDE DEF left, pc, one, a, f
<1>9. p \in Bearer!Request
  BY <1>0, <1>1, <1>3, <1>4 DEF Bearer!Request, Bearer!Reading
<1>10. /\ p.method = q.method /\ p.sid = q.sid /\ p.subject = q.subject /\ p.tok = q.tok
       /\ p.new = q.new /\ p.at = q.at /\ p.reused = q.reused /\ p.seen = q.seen
       /\ p.todo = left /\ p.answer = q.answer /\ p.pc = pc /\ p.dirty = q.dirty
       /\ p.access = a /\ p.refresh = f
  BY <1>0 DEF Bearer!Request
<1> HIDE DEF p
<1>11. BearerCarried(p, access, refresh)
  BY <1>0, <1>10 DEF BearerCarried
<1>12. ~p.dirty => Collected(p, access, refresh, bySubject)
  BY <1>7, <1>10 DEF Collected, Targets, CollectedRefresh
<1>13. Revoking(p) /\ Collecting(p, access, refresh, bySubject)
  BY <1>0, <1>8, <1>10, <1>12 DEF Revoking, Collecting, left
<1>14. BearerRelies(p, access, refresh, bySubject, bySession)
  BY <1>1, <1>6, <1>10, <1>11, <1>13 DEF BearerRelies
<1> QED BY <1>0, <1>5, <1>9, <1>14, BearerMoves

-----------------------------------------------------------------------------
(***************************************************************************)
(* Bearer sessions: the three ways the hashes change.                      *)
(***************************************************************************)

\* Records stay; what is revoked, spent or expired stays so.
Later(a, f, a2, f2) ==
    /\ \A sid \in SessionIDs : a[sid] # None =>
          /\ a2[sid] # None /\ a2[sid].subject = a[sid].subject
          /\ a[sid].revoked => a2[sid].revoked
    /\ \A t \in Tokens : f[t] # None =>
          /\ f2[t] # None /\ f2[t].session = f[t].session /\ f2[t].expires = f[t].expires
          /\ f[t].rotated => f2[t].rotated
          /\ f[t].revoked => f2[t].revoked

\* A step of the hashes that keeps their records sound.
BearerKept ==
    /\ access' \in [SessionIDs -> Bearer!AccessSession \cup {None}]
    /\ refresh' \in [Tokens -> Bearer!RefreshToken \cup {None}]
    /\ Together(access', refresh')
    /\ Later(access, refresh, access', refresh')

\* Create keeps what holds of the hashes.
LEMMA BearerCreateKeeps ==
    ASSUME BearerInv, NEW sid \in SessionIDs, NEW u \in Users, NEW t \in Tokens,
           NEW at \in Bearer!Times, Bearer!StoreCreate(sid, u, t, at)
    PROVE  BearerKept
<1> DEFINE s == Bearer!NewSession(u, at)
           k == Bearer!NewToken(sid, at + RefreshLifetime)
<1>0. /\ access \in [SessionIDs -> Bearer!AccessSession \cup {None}]
      /\ refresh \in [Tokens -> Bearer!RefreshToken \cup {None}]
      /\ Together(access, refresh)
  BY DEF BearerInv, Bearer!TypeOK
<1>1. /\ s \in Bearer!AccessSession /\ k \in Bearer!RefreshToken /\ s # None /\ k # None
      /\ ~s.revoked /\ ~k.revoked /\ k.session = sid
  <2>1. at \in Nat /\ at + RefreshLifetime \in Nat
    BY LifetimesAssumption DEF Bearer!Times
  <2>2. ~s.revoked /\ ~k.revoked /\ k.session = sid
    BY DEF Bearer!NewSession, Bearer!NewToken
  <2> QED BY <2>1, <2>2, BearerNew
<1>2. /\ access[sid] = None /\ refresh[t] = None
      /\ access' = [access EXCEPT ![sid] = s] /\ refresh' = [refresh EXCEPT ![t] = k]
  BY DEF Bearer!StoreCreate
<1> HIDE DEF s, k
<1>3. Together(access', refresh')
  <2> SUFFICES ASSUME NEW v \in Tokens, refresh'[v] # None
               PROVE  /\ access'[refresh'[v].session] # None
                      /\ refresh'[v].revoked = access'[refresh'[v].session].revoked
    BY DEF Together
  <2>1. CASE v = t
    BY <1>0, <1>1, <1>2, <2>1 DEF Bearer!AccessSession, Bearer!RefreshToken
  <2>2. CASE v # t
    <3>1. refresh'[v] = refresh[v] /\ refresh[v] \in Bearer!RefreshToken
      BY <1>0, <1>2, <2>2
    <3>2. refresh[v].session \in SessionIDs /\ access[refresh[v].session] # None
      BY <1>0, <3>1 DEF Together, Bearer!RefreshToken
    <3> QED BY <1>0, <1>2, <3>1, <3>2 DEF Together
  <2> QED BY <2>1, <2>2
<1>4. Later(access, refresh, access', refresh')
  BY <1>0, <1>1, <1>2 DEF Later
<1> QED BY <1>0, <1>1, <1>2, <1>3, <1>4 DEF BearerKept

\* Rotate keeps it: the replacement belongs to the same live session.
LEMMA BearerRotateKeeps ==
    ASSUME BearerInv, NEW t \in Tokens, NEW v \in Tokens, NEW at \in Bearer!Times,
           Bearer!StoreRotate(t, v, at)
    PROVE  BearerKept
<1> DEFINE o == [refresh[t] EXCEPT !.rotated = TRUE]
           k == Bearer!NewToken(refresh[t].session, refresh[t].expires)
<1>0. /\ access \in [SessionIDs -> Bearer!AccessSession \cup {None}]
      /\ refresh \in [Tokens -> Bearer!RefreshToken \cup {None}]
      /\ Together(access, refresh)
  BY DEF BearerInv, Bearer!TypeOK
<1>1. /\ refresh[t] # None /\ refresh[v] = None /\ t # v /\ ~refresh[t].revoked
      /\ refresh' = [refresh EXCEPT ![t] = o, ![v] = k] /\ access' = access
  BY DEF Bearer!StoreRotate, Bearer!RefreshActive
<1>2. /\ refresh[t] \in Bearer!RefreshToken /\ refresh[t].session \in SessionIDs
      /\ refresh[t].expires \in Nat
  BY <1>0, <1>1 DEF Bearer!RefreshToken
<1>3. /\ o \in Bearer!RefreshToken /\ o.session = refresh[t].session /\ o.rotated
      /\ o.expires = refresh[t].expires /\ o.revoked = refresh[t].revoked
  BY <1>2 DEF Bearer!RefreshToken
<1>4. /\ k \in Bearer!RefreshToken /\ k.session = refresh[t].session /\ k.revoked = FALSE
  BY <1>2 DEF Bearer!NewToken, Bearer!RefreshToken
<1>5. refresh[t].revoked = FALSE
  BY <1>1, <1>2 DEF Bearer!RefreshToken
<1> HIDE DEF o, k
<1>6. Together(access', refresh')
  <2> SUFFICES ASSUME NEW w \in Tokens, refresh'[w] # None
               PROVE  /\ access'[refresh'[w].session] # None
                      /\ refresh'[w].revoked = access'[refresh'[w].session].revoked
    BY DEF Together
  <2>1. access[refresh[t].session] # None /\ refresh[t].revoked = access[refresh[t].session].revoked
    BY <1>0, <1>1 DEF Together
  <2>2. CASE w = v
    BY <1>0, <1>1, <1>4, <1>5, <2>1, <2>2
  <2>3. CASE w = t
    BY <1>0, <1>1, <1>3, <2>1, <2>3
  <2>4. CASE w # t /\ w # v
    BY <1>0, <1>1, <2>4 DEF Together
  <2> QED BY <2>2, <2>3, <2>4
<1>7. Later(access, refresh, access', refresh')
  <2>1. \A w \in Tokens : refresh'[w] = IF w = v THEN k ELSE IF w = t THEN o ELSE refresh[w]
    BY <1>0, <1>1
  <2> QED BY <1>0, <1>1, <1>3, <2>1, NoRowAssumption DEF Later
<1> QED BY <1>0, <1>1, <1>3, <1>4, <1>6, <1>7 DEF BearerKept

\* Revocations keep it: a session and its tokens are revoked together.
LEMMA BearerRevokeKeeps ==
    ASSUME BearerInv, NEW S, Bearer!StoreRevoke(S)
    PROVE  /\ BearerKept
           /\ \A sid \in SessionIDs \cap S : access[sid] # None => access'[sid].revoked
           /\ \A sid \in SessionIDs : access[sid] = None => access'[sid] = None
           /\ \A t \in Tokens : refresh[t] = None => refresh'[t] = None
<1>0. /\ access \in [SessionIDs -> Bearer!AccessSession \cup {None}]
      /\ refresh \in [Tokens -> Bearer!RefreshToken \cup {None}]
      /\ Together(access, refresh)
  BY DEF BearerInv, Bearer!TypeOK
<1>1. \A sid \in SessionIDs : access'[sid] = IF access[sid] # None /\ sid \in S
                       THEN [access[sid] EXCEPT !.revoked = TRUE] ELSE access[sid]
  BY DEF Bearer!StoreRevoke
<1>2. \A t \in Tokens : refresh'[t] = IF refresh[t] # None /\ refresh[t].session \in S
                       THEN [refresh[t] EXCEPT !.revoked = TRUE] ELSE refresh[t]
  BY DEF Bearer!StoreRevoke
<1>3. access' \in [SessionIDs -> Bearer!AccessSession \cup {None}]
  BY <1>0, BearerMarked DEF Bearer!StoreRevoke
<1>4. refresh' \in [Tokens -> Bearer!RefreshToken \cup {None}]
  BY <1>0, BearerMarked DEF Bearer!StoreRevoke
<1>5. \A sid \in SessionIDs \cap S : access[sid] # None => access'[sid].revoked
  <2> SUFFICES ASSUME NEW sid \in SessionIDs \cap S, access[sid] # None
               PROVE  access'[sid].revoked
    OBVIOUS
  <2>1. access[sid] \in Bearer!AccessSession /\ access'[sid] = [access[sid] EXCEPT !.revoked = TRUE]
    BY <1>0, <1>1
  <2> QED BY <2>1 DEF Bearer!AccessSession
<1>6. /\ \A sid \in SessionIDs : access[sid] = None => access'[sid] = None
      /\ \A t \in Tokens : refresh[t] = None => refresh'[t] = None
  BY <1>1, <1>2
<1>7. Later(access, refresh, access', refresh')
  <2>1. ASSUME NEW sid \in SessionIDs, access[sid] # None
        PROVE  /\ access'[sid] # None /\ access'[sid].subject = access[sid].subject
               /\ access[sid].revoked => access'[sid].revoked
    <3>1. access[sid] \in Bearer!AccessSession
      BY <1>0, <2>1
    <3>2. CASE access'[sid] = access[sid]
      BY <2>1, <3>2
    <3>3. CASE access'[sid] = [access[sid] EXCEPT !.revoked = TRUE]
      <4>1. access'[sid] \in Bearer!AccessSession /\ access'[sid].subject = access[sid].subject
            /\ access'[sid].revoked
        BY <3>1, <3>3 DEF Bearer!AccessSession
      <4> QED BY <4>1, NoRowAssumption
    <3> QED BY <1>1, <3>2, <3>3
  <2>2. ASSUME NEW t \in Tokens, refresh[t] # None
        PROVE  /\ refresh'[t] # None /\ refresh'[t].session = refresh[t].session
               /\ refresh'[t].expires = refresh[t].expires
               /\ refresh[t].rotated => refresh'[t].rotated
               /\ refresh[t].revoked => refresh'[t].revoked
    <3>1. refresh[t] \in Bearer!RefreshToken
      BY <1>0, <2>2
    <3>2. CASE refresh'[t] = refresh[t]
      BY <2>2, <3>2
    <3>3. CASE refresh'[t] = [refresh[t] EXCEPT !.revoked = TRUE]
      <4>1. /\ refresh'[t] \in Bearer!RefreshToken /\ refresh'[t].session = refresh[t].session
            /\ refresh'[t].expires = refresh[t].expires
            /\ refresh'[t].rotated = refresh[t].rotated /\ refresh'[t].revoked
        BY <3>1, <3>3 DEF Bearer!RefreshToken
      <4> QED BY <4>1, NoRowAssumption
    <3> QED BY <1>2, <3>2, <3>3
  <2> QED BY <2>1, <2>2 DEF Later
<1>8. Together(access', refresh')
  <2> SUFFICES ASSUME NEW w \in Tokens, refresh'[w] # None
               PROVE  /\ access'[refresh'[w].session] # None
                      /\ refresh'[w].revoked = access'[refresh'[w].session].revoked
    BY DEF Together
  <2> DEFINE sid == refresh[w].session
  <2>1. refresh[w] \in Bearer!RefreshToken
    BY <1>0, <1>2
  <2>2. sid \in SessionIDs /\ access[sid] # None /\ refresh[w].revoked = access[sid].revoked
    BY <1>0, <2>1, NoRowAssumption DEF Together, Bearer!RefreshToken
  <2>3. refresh'[w].session = sid /\ access'[sid] # None
    BY <1>7, <2>1, <2>2, NoRowAssumption DEF Later
  <2>4. CASE sid \in S
    <3>1. /\ refresh'[w] = [refresh[w] EXCEPT !.revoked = TRUE]
          /\ access'[sid] = [access[sid] EXCEPT !.revoked = TRUE]
          /\ access[sid] \in Bearer!AccessSession
      BY <1>0, <1>1, <1>2, <2>1, <2>2, <2>4, NoRowAssumption
    <3>2. refresh'[w].revoked = TRUE /\ access'[sid].revoked = TRUE
      BY <2>1, <3>1 DEF Bearer!RefreshToken, Bearer!AccessSession
    <3> QED BY <2>3, <3>2
  <2>5. CASE sid \notin S
    BY <1>1, <1>2, <2>2, <2>3, <2>5
  <2> QED BY <2>4, <2>5
<1> QED BY <1>3, <1>4, <1>5, <1>6, <1>7, <1>8 DEF BearerKept

-----------------------------------------------------------------------------
(***************************************************************************)
(* Bearer sessions: EXEC.                                                  *)
(***************************************************************************)

\* What a clean pipeline leaves behind.
BearerApplied(q) ==
    /\ BearerKept
    /\ bySubject' \in [Users -> SUBSET SessionIDs]
    /\ bySession' \in [SessionIDs -> SUBSET Tokens]
    /\ BearerIndexed(access', refresh', bySubject', bySession')
    /\ [Bearer!StoreNext]_<<access, refresh>>
    /\ Revoking(q) => \A sid \in q.seen : access'[sid].revoked

\* The hashes and sets that Apply writes.
BearerWrites(r) ==
    /\ access' = [sid \in SessionIDs |-> IF bearerReq[r].access[sid] # None
                                          THEN bearerReq[r].access[sid] ELSE access[sid]]
    /\ refresh' = [t \in Tokens |-> IF bearerReq[r].refresh[t] # None
                                     THEN bearerReq[r].refresh[t] ELSE refresh[t]]
    /\ bySubject' = IF bearerReq[r].method = "create"
                      THEN [bySubject EXCEPT ![bearerReq[r].subject] = @ \cup {bearerReq[r].sid}]
                      ELSE bySubject
    /\ bySession' = Bearer!Members(r)

\* The EXEC of an unmarked Create is the abstract Create.
LEMMA BearerCreates ==
    ASSUME BearerInv, NEW r \in Requests, bearerReq[r].pc = "exec", ~bearerReq[r].dirty,
           BearerWrites(r), bearerReq[r].method = "create"
    PROVE  BearerApplied(bearerReq[r])
<1> DEFINE q == bearerReq[r]
           s == Bearer!NewSession(q.subject, q.at)
           k == Bearer!NewToken(q.sid, q.at + RefreshLifetime)
<1>0. /\ q \in Bearer!Request /\ BearerCarried(q, access, refresh)
      /\ q.at \in Bearer!Times /\ q.sid \in SessionIDs /\ q.subject \in Users /\ q.tok \in Tokens
      /\ q.new = q.tok /\ ~q.reused /\ ~Revoking(q)
      /\ BearerDecided(q, access, refresh)
  BY BearerOne DEF BearerRelies, BearerCarried, Revoking, Bearer!Request
<1>1. /\ access[q.sid] = None /\ refresh[q.tok] = None
      /\ q.access = [Bearer!NoAccess EXCEPT ![q.sid] = s]
      /\ q.refresh = [Bearer!NoRefresh EXCEPT ![q.tok] = k]
  BY <1>0 DEF BearerDecided
<1>2. s # None /\ k # None /\ s.subject = q.subject /\ k.session = q.sid
  <2>1. q.at \in Nat /\ q.at + RefreshLifetime \in Nat
    BY <1>0, LifetimesAssumption DEF Bearer!Times
  <2>2. s.subject = q.subject /\ k.session = q.sid
    BY DEF Bearer!NewSession, Bearer!NewToken
  <2> QED BY <1>0, <2>1, <2>2, BearerNew
<1>3. /\ bySubject' = [bySubject EXCEPT ![q.subject] = @ \cup {q.sid}]
      /\ bySession' = [bySession EXCEPT ![q.sid] = @ \cup {q.tok}]
  BY <1>0 DEF BearerWrites, Bearer!Members
<1>4. access' = [access EXCEPT ![q.sid] = s] /\ refresh' = [refresh EXCEPT ![q.tok] = k]
  <2> HIDE DEF s, k
  <2> QED BY <1>0, <1>1, <1>2, BearerOne DEF BearerWrites, Bearer!NoAccess, Bearer!NoRefresh
<1>5. Bearer!StoreCreate(q.sid, q.subject, q.tok, q.at)
  BY <1>1, <1>4 DEF Bearer!StoreCreate
<1>6. BearerKept
  BY <1>0, <1>5, BearerCreateKeeps
<1>7. [Bearer!StoreNext]_<<access, refresh>>
  BY <1>0, <1>5 DEF Bearer!StoreNext
<1> HIDE DEF s, k, q
<1>8. BearerIndexed(access', refresh', bySubject', bySession')
  <2>0. BearerIndexed(access, refresh, bySubject, bySession)
    BY DEF BearerInv
  <2>1. ASSUME NEW u \in Users
        PROVE  bySubject'[u] = {sid \in SessionIDs : access'[sid] # None /\ access'[sid].subject = u}
    BY <1>0, <1>1, <1>2, <1>3, <1>4, <2>0, BearerOne DEF BearerIndexed
  <2>2. ASSUME NEW sid \in SessionIDs
        PROVE  bySession'[sid] = {t \in Tokens : refresh'[t] # None /\ refresh'[t].session = sid}
    BY <1>0, <1>1, <1>2, <1>3, <1>4, <2>0, BearerOne DEF BearerIndexed
  <2> QED BY <2>1, <2>2 DEF BearerIndexed
<1>9. /\ bySubject' \in [Users -> SUBSET SessionIDs]
      /\ bySession' \in [SessionIDs -> SUBSET Tokens]
  BY <1>0, <1>3, BearerOne
<1> QED BY <1>0, <1>6, <1>7, <1>8, <1>9 DEF BearerApplied, q

\* The EXEC of an unmarked Rotate is the abstract Rotate.
LEMMA BearerRotates ==
    ASSUME BearerInv, NEW r \in Requests, bearerReq[r].pc = "exec", ~bearerReq[r].dirty,
           BearerWrites(r), bearerReq[r].method = "rotate", ~bearerReq[r].reused
    PROVE  BearerApplied(bearerReq[r])
<1> DEFINE q == bearerReq[r]
           o == [refresh[q.tok] EXCEPT !.rotated = TRUE]
           k == Bearer!NewToken(q.sid, refresh[q.tok].expires)
<1>0. /\ q \in Bearer!Request /\ BearerCarried(q, access, refresh)
      /\ q.at \in Bearer!Times /\ q.tok \in Tokens /\ q.new \in Tokens
      /\ refresh[q.tok] # None /\ q.sid = refresh[q.tok].session
      /\ ~q.reused /\ ~Revoking(q) /\ BearerDecided(q, access, refresh)
  BY BearerOne DEF BearerRelies, BearerCarried, Revoking, Bearer!Request
<1>1. /\ ~Inactive(refresh, q.tok, q.at) /\ refresh[q.new] = None
      /\ q.access = Bearer!NoAccess
      /\ q.refresh = [Bearer!NoRefresh EXCEPT ![q.tok] = o, ![q.new] = k]
  BY <1>0 DEF BearerDecided
<1>2. refresh[q.tok] \in Bearer!RefreshToken /\ q.sid \in SessionIDs
  BY <1>0, BearerOne DEF Bearer!RefreshToken
<1>3. /\ o \in Bearer!RefreshToken /\ o.session = q.sid /\ o # None
      /\ k \in Bearer!RefreshToken /\ k.session = q.sid /\ k # None
  <2>1. o \in Bearer!RefreshToken /\ o.session = q.sid
    BY <1>0, <1>2 DEF Bearer!RefreshToken
  <2>2. k \in Bearer!RefreshToken /\ k.session = q.sid
    BY <1>2 DEF Bearer!RefreshToken, Bearer!NewToken
  <2> QED BY <2>1, <2>2, NoRowAssumption
<1>4. /\ bySubject' = bySubject
      /\ bySession' = [bySession EXCEPT ![q.sid] = @ \cup {q.new}]
  BY <1>0 DEF BearerWrites, Bearer!Members
<1>5. access' = access /\ refresh' = [refresh EXCEPT ![q.tok] = o, ![q.new] = k]
  <2> HIDE DEF o, k
  <2> QED BY <1>0, <1>1, <1>3, BearerOne DEF BearerWrites, Bearer!NoAccess, Bearer!NoRefresh
<1>6. Bearer!StoreRotate(q.tok, q.new, q.at)
  BY <1>0, <1>1, <1>5 DEF Bearer!StoreRotate, Bearer!RefreshActive, Inactive
<1>7. BearerKept
  BY <1>0, <1>6, BearerRotateKeeps
<1>8. [Bearer!StoreNext]_<<access, refresh>>
  BY <1>0, <1>6 DEF Bearer!StoreNext
<1> HIDE DEF o, k, q
<1>9. BearerIndexed(access', refresh', bySubject', bySession')
  <2>0. BearerIndexed(access, refresh, bySubject, bySession)
    BY DEF BearerInv
  <2>1. ASSUME NEW sid \in SessionIDs
        PROVE  bySession'[sid] = {t \in Tokens : refresh'[t] # None /\ refresh'[t].session = sid}
    BY <1>0, <1>1, <1>2, <1>3, <1>4, <1>5, <2>0, BearerOne DEF BearerIndexed
  <2> QED BY <1>4, <1>5, <2>0, <2>1 DEF BearerIndexed
<1>10. /\ bySubject' \in [Users -> SUBSET SessionIDs]
       /\ bySession' \in [SessionIDs -> SUBSET Tokens]
  BY <1>0, <1>2, <1>4, BearerOne
<1> QED BY <1>0, <1>7, <1>8, <1>9, <1>10 DEF BearerApplied, q

\* The EXEC of an unmarked revocation is the abstract one, of all it is about.
LEMMA BearerRevokes ==
    ASSUME BearerInv, NEW r \in Requests, bearerReq[r].pc = "exec", ~bearerReq[r].dirty,
           BearerWrites(r), Revoking(bearerReq[r])
    PROVE  BearerApplied(bearerReq[r])
<1> DEFINE q == bearerReq[r]
           T == Targets(q, bySubject)
<1>0. /\ q \in Bearer!Request /\ BearerCarried(q, access, refresh) /\ q.todo = {}
      /\ Collected(q, access, refresh, bySubject) /\ q.method # "create"
      /\ BearerIndexed(access, refresh, bySubject, bySession)
      /\ q.method = "rotate" => q.reused
      /\ q.method \in {"rotate", "revoke", "revokeAll"}
  BY BearerOne DEF BearerRelies, BearerCarried, Revoking, Collecting, BearerInv, Bearer!Request
<1>1. /\ q.access = CollectedAccess(T, access)
      /\ q.refresh = CollectedRefresh(T, q, refresh)
  <2>1. T \ q.todo = T
    BY <1>0
  <2> HIDE DEF T
  <2> QED BY <1>0, <2>1 DEF Collected, T
<1>2. bySubject' = bySubject /\ bySession' = bySession
  BY <1>0 DEF BearerWrites, Bearer!Members
<1>3. /\ q.seen \subseteq T /\ q.seen \subseteq SessionIDs
      /\ \/ T = {q.sid} /\ q.sid \in SessionIDs
         \/ q.subject \in Users /\ T = Bearer!SessionsOf(q.subject)
  <2>1. CASE q.method = "revokeAll"
    <3>1. q.subject \in Users /\ T = bySubject[q.subject]
      BY <1>0, <2>1 DEF BearerCarried, Targets
    <3>2. T = Bearer!SessionsOf(q.subject)
      BY <1>0, <3>1 DEF BearerIndexed, Bearer!SessionsOf
    <3>3. q.seen \subseteq SessionIDs
      BY <1>0 DEF Bearer!Request
    <3>4. q.seen \subseteq T
      BY <1>0, <2>1, <3>2, <3>3 DEF BearerCarried, Bearer!SessionsOf
    <3> QED BY <3>1, <3>2, <3>3, <3>4
  <2>2. CASE q.method # "revokeAll"
    <3>1. T = {q.sid} /\ q.seen = {q.sid} /\ q.seen \subseteq SessionIDs
      BY <1>0, <2>2 DEF BearerCarried, Targets, Bearer!Request
    <3> QED BY <3>1
  <2> QED BY <2>1, <2>2
<1> HIDE DEF T
<1>4. Bearer!StoreRevoke(T)
  <2>0. /\ access \in [SessionIDs -> Bearer!AccessSession \cup {None}]
        /\ refresh \in [Tokens -> Bearer!RefreshToken \cup {None}]
    BY BearerOne
  <2>1. ASSUME NEW sid \in SessionIDs
        PROVE  (IF q.access[sid] # None THEN q.access[sid] ELSE access[sid])
                 = IF access[sid] # None /\ sid \in T
                     THEN [access[sid] EXCEPT !.revoked = TRUE] ELSE access[sid]
    <3>1. q.access[sid] = IF sid \in T /\ access[sid] # None /\ ~access[sid].revoked
                            THEN [access[sid] EXCEPT !.revoked = TRUE] ELSE None
      BY <1>1 DEF CollectedAccess
    <3>2. CASE access[sid] # None
      <4>1. access[sid] \in Bearer!AccessSession
        BY <2>0, <3>2
      <4>2. /\ [access[sid] EXCEPT !.revoked = TRUE] # None
            /\ access[sid].revoked => [access[sid] EXCEPT !.revoked = TRUE] = access[sid]
        BY <4>1, BearerMarked
      <4> QED BY <3>1, <3>2, <4>2
    <3> QED BY <3>1, <3>2
  <2>2. ASSUME NEW t \in Tokens
        PROVE  (IF q.refresh[t] # None THEN q.refresh[t] ELSE refresh[t])
                 = IF refresh[t] # None /\ refresh[t].session \in T
                     THEN [refresh[t] EXCEPT !.revoked = TRUE] ELSE refresh[t]
    <3>1. q.refresh[t] = IF /\ refresh[t] # None /\ refresh[t].session \in T
                            /\ q.method = "revokeAll" => ~refresh[t].revoked
                           THEN [refresh[t] EXCEPT !.revoked = TRUE] ELSE None
      BY <1>1 DEF CollectedRefresh
    <3>2. CASE refresh[t] # None
      <4>1. refresh[t] \in Bearer!RefreshToken
        BY <2>0, <3>2
      <4>2. /\ [refresh[t] EXCEPT !.revoked = TRUE] # None
            /\ refresh[t].revoked => [refresh[t] EXCEPT !.revoked = TRUE] = refresh[t]
        BY <4>1, BearerMarked
      <4> QED BY <3>1, <3>2, <4>2
    <3> QED BY <3>1, <3>2
  <2> QED BY <2>1, <2>2 DEF BearerWrites, Bearer!StoreRevoke
<1>5. /\ BearerKept
      /\ \A sid \in SessionIDs \cap T : access[sid] # None => access'[sid].revoked
      /\ \A sid \in SessionIDs : access[sid] = None => access'[sid] = None
      /\ \A t \in Tokens : refresh[t] = None => refresh'[t] = None
  BY <1>4, BearerRevokeKeeps
<1>6. \A sid \in q.seen : access'[sid].revoked
  BY <1>0, <1>3, <1>5 DEF BearerCarried
<1>7. [Bearer!StoreNext]_<<access, refresh>>
  BY <1>3, <1>4 DEF Bearer!StoreNext
<1>8. BearerIndexed(access', refresh', bySubject', bySession')
  BY <1>0, <1>2, <1>5 DEF BearerIndexed, BearerKept, Later
<1>9. /\ bySubject' \in [Users -> SUBSET SessionIDs]
      /\ bySession' \in [SessionIDs -> SUBSET Tokens]
  BY <1>2, BearerOne
<1> QED BY <1>5, <1>6, <1>7, <1>8, <1>9 DEF BearerApplied

\* Whatever a clean pipeline changes, the calls that it marks have what they still rely on.
LEMMA BearerOthers ==
    ASSUME NEW q \in Bearer!Request, NEW a, NEW f, NEW bs, NEW bt, NEW a2, NEW f2,
           NEW bs2, NEW bt2,
           BearerRelies(q, a, f, bs, bt), Later(a, f, a2, f2)
    PROVE  /\ q.pc \in Bearer!Reading =>
                 /\ [q EXCEPT !.dirty = TRUE] \in Bearer!Request
                 /\ BearerRelies([q EXCEPT !.dirty = TRUE], a2, f2, bs2, bt2)
           /\ q.pc \notin Bearer!Reading => BearerRelies(q, a2, f2, bs2, bt2)
<1> DEFINE p == [q EXCEPT !.dirty = TRUE]
<1>0. q.seen \subseteq SessionIDs
  BY DEF Bearer!Request
<1>1. q.pc # "idle" => BearerCarried(q, a2, f2)
  <2> SUFFICES ASSUME q.pc # "idle" PROVE BearerCarried(q, a2, f2)
    OBVIOUS
  <2>1. BearerCarried(q, a, f)
    BY DEF BearerRelies
  <2>2. /\ \A sid \in q.seen : a2[sid] # None /\ a2[sid].subject = a[sid].subject
        /\ q.method = "rotate" => /\ f2[q.tok] # None /\ q.sid = f2[q.tok].session
                                  /\ Inactive(f, q.tok, q.at) => Inactive(f2, q.tok, q.at)
    BY <1>0, <2>1 DEF BearerCarried, Later, Inactive
  <2> QED BY <2>1, <2>2 DEF BearerCarried
<1>2. CASE q.pc \in Bearer!Reading
  <2>1. p \in Bearer!Request
    BY DEF Bearer!Request
  <2>2. /\ p.method = q.method /\ p.sid = q.sid /\ p.subject = q.subject /\ p.tok = q.tok
        /\ p.new = q.new /\ p.at = q.at /\ p.reused = q.reused /\ p.seen = q.seen
        /\ p.todo = q.todo /\ p.answer = q.answer /\ p.pc = q.pc /\ p.dirty = TRUE
        /\ p.access = q.access /\ p.refresh = q.refresh
    BY DEF Bearer!Request
  <2> HIDE DEF p
  <2>3. q.pc # "idle" => BearerCarried(p, a2, f2)
    BY <1>1, <2>2 DEF BearerCarried
  <2>4. q.pc # "idle" /\ Revoking(q) /\ Collecting(q, a, f, bs) =>
           Revoking(p) /\ Collecting(p, a2, f2, bs2)
    BY <1>0, <2>2 DEF Revoking, Collecting, Later, BearerRelies, BearerCarried
  <2>5. Revoking(p) <=> Revoking(q)
    BY <2>2 DEF Revoking
  <2>6. BearerRelies(p, a2, f2, bs2, bt2)
    BY <2>2, <2>3, <2>4, <2>5 DEF BearerRelies
  <2> QED BY <1>2, <2>1, <2>6 DEF p
<1>3. CASE q.pc \notin Bearer!Reading
  BY <1>1, <1>3 DEF BearerRelies, Bearer!Reading
<1> QED BY <1>2, <1>3

\* EXEC: it fails for a marked request, and takes effect as a step of BearerStore.
LEMMA BearerExec ==
    ASSUME BearerInv, NEW r \in Requests, Bearer!Exec(r)
    PROVE  BearerInv' /\ [Bearer!StoreNext]_<<access, refresh>>
<1> DEFINE q == bearerReq[r]
<1>0. /\ q \in Bearer!Request /\ q.pc = "exec" /\ bearerNow' = bearerNow
      /\ BearerCarried(q, access, refresh)
      /\ Bearer!Outcome(r) \in {"reuse", "ok"}
  BY BearerOne DEF BearerRelies, Bearer!Exec, Bearer!Outcome
<1>1. CASE Bearer!Answer(r, Bearer!Outcome(r)) /\ UNCHANGED <<access, refresh, bySubject, bySession>>
  BY <1>0, <1>1, BearerAnswers
<1>2. CASE ~q.dirty /\ Bearer!Apply(r)
  <2>1. BearerWrites(r)
    BY <1>2 DEF Bearer!Apply, BearerWrites
  <2>2. BearerApplied(q)
    <3>1. q.method \in {"create", "rotate", "revoke", "revokeAll"}
      BY <1>0 DEF Bearer!Request
    <3> QED BY <1>0, <1>2, <2>1, <3>1, BearerCreates, BearerRotates, BearerRevokes DEF Revoking
  <2>3. PICK answer \in {Bearer!Outcome(r), "none"} : bearerReq' = [x \in Requests |->
           IF x = r THEN Bearer!Answered(q, answer)
           ELSE IF bearerReq[x].pc \in Bearer!Reading
             THEN [bearerReq[x] EXCEPT !.dirty = TRUE] ELSE bearerReq[x]]
    BY <1>2 DEF Bearer!Apply
  <2>4. answer \in {"none", "ok", "reuse", "conflict", "contention"}
    BY <1>0, <2>3
  <2>5. ASSUME NEW x \in Requests
        PROVE  /\ bearerReq'[x] \in Bearer!Request
               /\ BearerRelies(bearerReq'[x], access', refresh', bySubject', bySession')
    <3>1. CASE x = r
      BY <1>0, <2>3, <2>4, <3>1, BearerAnswered
    <3>2. CASE x # r
      <4>1. /\ bearerReq[x] \in Bearer!Request
            /\ BearerRelies(bearerReq[x], access, refresh, bySubject, bySession)
            /\ Later(access, refresh, access', refresh')
        BY <2>2, BearerOne DEF BearerApplied, BearerKept
      <4>2. bearerReq'[x] = IF bearerReq[x].pc \in Bearer!Reading
                              THEN [bearerReq[x] EXCEPT !.dirty = TRUE] ELSE bearerReq[x]
        BY <2>3, <3>2
      <4> QED BY <4>1, <4>2, BearerOthers
    <3> QED BY <3>1, <3>2
  <2>6. bearerReq' \in [Requests -> Bearer!Request]
    BY <2>3, <2>5
  <2>7. Bearer!TypeOK'
    BY <1>0, <2>2, <2>6 DEF BearerInv, Bearer!TypeOK, BearerApplied, BearerKept
  <2> QED BY <2>2, <2>5, <2>7 DEF BearerInv, BearerApplied, BearerKept
<1>3. CASE Bearer!Retry(r) /\ UNCHANGED <<access, refresh, bySubject, bySession>>
  <2>1. CASE q.tries + 1 < WatchAttempts
    <3> DEFINE w == Bearer!Watching(q)
               p == [w EXCEPT !.tries = q.tries + 1]
    <3>1. bearerReq' = [bearerReq EXCEPT ![r] = p]
      BY <1>3, <2>1 DEF Bearer!Retry
    <3>2. /\ w \in Bearer!Request /\ w.tries = q.tries /\ w.pc # "idle"
          /\ BearerRelies(w, access, refresh, bySubject, bySession)
      BY <1>0, BearerStartsOver
    <3>3. q.tries + 1 \in 0..(WatchAttempts - 1)
      BY <1>0, <2>1, <3>2, WatchAssumption DEF Bearer!Request
    <3> HIDE DEF w
    <3>4. p \in Bearer!Request
      BY <3>2, <3>3 DEF Bearer!Request
    <3>5. /\ p.method = w.method /\ p.sid = w.sid /\ p.subject = w.subject /\ p.tok = w.tok
          /\ p.new = w.new /\ p.at = w.at /\ p.reused = w.reused /\ p.seen = w.seen
          /\ p.todo = w.todo /\ p.answer = w.answer /\ p.pc = w.pc /\ p.dirty = w.dirty
          /\ p.access = w.access /\ p.refresh = w.refresh /\ p.fields = w.fields
      BY <3>2 DEF Bearer!Request
    <3> HIDE DEF p
    <3>6. BearerRelies(p, access, refresh, bySubject, bySession)
      <4>1. BearerCarried(w, access, refresh) => BearerCarried(p, access, refresh)
        BY <3>5 DEF BearerCarried
      <4>2. Revoking(p) <=> Revoking(w)
        BY <3>5 DEF Revoking
      <4>3. Collected(w, access, refresh, bySubject) => Collected(p, access, refresh, bySubject)
        BY <3>5 DEF Collected, Targets, CollectedRefresh
      <4>4. Collecting(w, access, refresh, bySubject) => Collecting(p, access, refresh, bySubject)
        BY <3>5, <4>3 DEF Collecting
      <4>5. BearerDecided(w, access, refresh) => BearerDecided(p, access, refresh)
        BY <3>5 DEF BearerDecided
      <4> QED BY <3>2, <3>5, <4>1, <4>2, <4>4, <4>5 DEF BearerRelies
    <3> QED BY <1>0, <1>3, <3>1, <3>4, <3>6, BearerMoves
  <2>2. CASE ~(q.tries + 1 < WatchAttempts)
    BY <1>0, <1>3, <2>2, BearerAnswers DEF Bearer!Retry
  <2> QED BY <1>3, <2>1, <2>2
<1> QED BY <1>1, <1>2, <1>3 DEF Bearer!Exec, Bearer!Clean

\* Every step of the group keeps the invariant and is a step of the abstract store.
LEMMA BearerNext ==
    ASSUME BearerInv, Bearer!Next
    PROVE  BearerInv' /\ [Bearer!StoreNext]_<<access, refresh>>
<1>1. CASE Bearer!Tick
  <2>1. BearerInv'
    BY <1>1, LifetimesAssumption DEF BearerInv, Bearer!TypeOK, Bearer!Tick, Bearer!Times
  <2> QED BY <1>1, <2>1 DEF Bearer!Tick
<1>2. ASSUME NEW r \in Requests,
             \/ \E u \in Users, sid \in SessionIDs :
                   Bearer!Revoke(r, u, sid) \/ \E t \in Tokens : Bearer!CreateSession(r, sid, u, t)
             \/ \E u \in Users : Bearer!RevokeAll(r, u)
             \/ \E t, v \in Tokens : Bearer!Rotate(r, t, v)
      PROVE  BearerInv' /\ UNCHANGED <<access, refresh>>
  <2>1. UNCHANGED <<access, refresh>>
    BY <1>2 DEF Bearer!Revoke, Bearer!CreateSession, Bearer!RevokeAll, Bearer!Rotate, Bearer!Begin
  <2> QED BY <1>2, <2>1, BearerCalls
<1>3. ASSUME NEW r \in Requests,
             \/ Bearer!Watch(r) \/ Bearer!ReadForCreate(r) \/ Bearer!ReadForRotate(r)
             \/ Bearer!ReadSubject(r) \/ Bearer!ReadMembers(r) \/ Bearer!ReadRecords(r)
      PROVE  BearerInv' /\ UNCHANGED <<access, refresh>>
  <2>1. UNCHANGED <<access, refresh>>
    BY <1>3 DEF Bearer!Watch, Bearer!ReadForCreate, Bearer!ReadForRotate, Bearer!ReadSubject,
                Bearer!ReadMembers, Bearer!ReadRecords
  <2> QED BY <1>3, <2>1, BearerWatch, BearerReadForCreate, BearerReadForRotate,
             BearerReadSubject, BearerReadMembers, BearerReadRecords
<1>4. ASSUME NEW r \in Requests, Bearer!Fail(r)
      PROVE  BearerInv' /\ UNCHANGED <<access, refresh>>
  BY <1>4, BearerAnswers DEF Bearer!Fail
<1> QED BY <1>1, <1>2, <1>3, <1>4, BearerExec DEF Bearer!Next, Bearer!Step

\* Nothing happens.
LEMMA BearerStutter == BearerInv /\ UNCHANGED bearerVars => BearerInv'
BY DEF BearerInv, bearerVars, Bearer!TypeOK

\* The invariant holds of empty hashes.
LEMMA BearerInit == Bearer!Init => BearerInv
<1> SUFFICES ASSUME Bearer!Init PROVE BearerInv
  OBVIOUS
<1> DEFINE c == Bearer!Called("create", None, None, None, None, {})
<1>1. c \in Bearer!Request
  <2>1. bearerNow = 0
    BY DEF Bearer!Init
  <2> QED BY <2>1, BearerNothing DEF Bearer!Called, Bearer!Request
<1>2. /\ Bearer!Answered(c, "none") \in Bearer!Request
      /\ \A a, f, bs, bt : BearerRelies(Bearer!Answered(c, "none"), a, f, bs, bt)
  BY <1>1, BearerAnswered
<1>3. bearerReq = [r \in Requests |-> Bearer!Answered(c, "none")]
  BY DEF Bearer!Init
<1> HIDE DEF c
<1>4. Bearer!TypeOK
  BY <1>2, <1>3, BearerNothing DEF Bearer!Init, Bearer!StoreInit, Bearer!TypeOK
<1>5. Together(access, refresh) /\ BearerIndexed(access, refresh, bySubject, bySession)
  BY DEF Bearer!Init, Bearer!StoreInit, Together, BearerIndexed
<1> QED BY <1>2, <1>3, <1>4, <1>5 DEF BearerInv

\* A step of the adapter is a step of the group or leaves its keys alone.
LEMMA AdapterBearer ==
    [AdapterNext]_<<vars, cookieVars, bearerVars, totpVars>> =>
        Bearer!Next \/ UNCHANGED bearerVars
BY DEF AdapterNext

\* The sessions, tokens, sets and calls of every reachable state.
THEOREM BearerInvariant == AdapterSpec => []BearerInv
<1>1. AdapterInit => BearerInv
  BY BearerInit DEF AdapterInit
<1>2. BearerInv /\ [AdapterNext]_<<vars, cookieVars, bearerVars, totpVars>> => BearerInv'
  BY BearerNext, BearerStutter, AdapterBearer
<1> QED BY <1>1, <1>2, PTL DEF AdapterSpec

\* Both session stores in Redis are what their managers are promised: each method takes
\* effect in one step, on the state it then finds (StoresSpec).
THEOREM ImplementsStores == AdapterSpec => StoresSpec
<1>1. AdapterInit => Bearer!StoreInit
  BY DEF AdapterInit, Bearer!Init
<1>2. BearerInv /\ [AdapterNext]_<<vars, cookieVars, bearerVars, totpVars>>
        => [Bearer!StoreNext]_<<access, refresh>>
  BY BearerNext, AdapterBearer DEF bearerVars
<1>3. AdapterSpec => Bearer!StoreSpec
  BY <1>1, <1>2, BearerInvariant, PTL DEF AdapterSpec, Bearer!StoreSpec
<1> QED BY <1>3, CookieImplementsStore, PTL DEF StoresSpec

\* A revocation that answers has found its sessions revoked or revokes them in this step.
LEMMA BearerRevokeStep ==
    ASSUME BearerInv, BearerInv', Bearer!Next, NEW r \in Requests, ~Bearer!Free(r),
           \/ bearerReq[r].method \in {"revoke", "revokeAll"} /\ bearerReq'[r].answer = "ok"
           \/ bearerReq[r].method = "rotate" /\ bearerReq'[r].answer = "reuse"
    PROVE  \A sid \in bearerReq[r].seen : access'[sid].revoked
<1> DEFINE q == bearerReq[r]
<1>0. /\ bearerReq \in [Requests -> Bearer!Request] /\ q \in Bearer!Request
      /\ q.pc # "idle" /\ q.answer = "none" /\ BearerCarried(q, access, refresh)
      /\ BearerRelies(q, access, refresh, bySubject, bySession)
      /\ q.method \in {"create", "rotate", "revoke", "revokeAll"}
  BY BearerOne DEF BearerRelies, BearerCarried, Bearer!Free, Bearer!Request
<1>1. bearerReq'[r].answer \in {"ok", "reuse"}
  OBVIOUS
<1>2. ASSUME NEW c, bearerReq' = [bearerReq EXCEPT ![r] = c] PROVE bearerReq'[r] = c
  BY <1>0, <1>2
<1>3. ASSUME NEW answer, Bearer!Answer(r, answer) PROVE bearerReq'[r].answer = answer
  <2>1. bearerReq'[r] = Bearer!Answered(q, answer)
    BY <1>2, <1>3 DEF Bearer!Answer
  <2> QED BY <1>0, <2>1 DEF Bearer!Answered, Bearer!Request
<1>4. CASE bearerReq'[r].answer = q.answer
  BY <1>0, <1>1, <1>4
<1>5. CASE Bearer!Tick
  BY <1>0, <1>1, <1>5 DEF Bearer!Tick
<1>6. PICK x \in Requests :
         \/ \E u \in Users, sid \in SessionIDs :
               Bearer!Revoke(x, u, sid) \/ \E t \in Tokens : Bearer!CreateSession(x, sid, u, t)
         \/ \E u \in Users : Bearer!RevokeAll(x, u)
         \/ \E t, v \in Tokens : Bearer!Rotate(x, t, v)
         \/ Bearer!Watch(x) \/ Bearer!ReadForCreate(x) \/ Bearer!ReadForRotate(x)
         \/ Bearer!ReadSubject(x) \/ Bearer!ReadMembers(x) \/ Bearer!ReadRecords(x)
         \/ Bearer!Exec(x) \/ Bearer!Fail(x)
  BY <1>0, <1>1, <1>5 DEF Bearer!Next, Bearer!Step, Bearer!Tick
<1>7. x = r
  <2> SUFFICES ASSUME x # r PROVE bearerReq'[r].answer = "none"
    BY <1>1
  <2>1. CASE bearerReq'[r] = q
    BY <1>0, <2>1
  <2>2. CASE bearerReq'[r] = [q EXCEPT !.dirty = TRUE]
    BY <1>0, <2>2 DEF Bearer!Request
  <2>3. CASE Bearer!Exec(x)
    BY <1>0, <2>1, <2>2, <2>3 DEF Bearer!Exec, Bearer!Retry, Bearer!Answer, Bearer!Apply
  <2>4. CASE ~Bearer!Exec(x)
    BY <1>0, <1>6, <2>1, <2>4
    DEF Bearer!Revoke, Bearer!CreateSession, Bearer!RevokeAll, Bearer!Rotate, Bearer!Begin,
        Bearer!Watch, Bearer!ReadForCreate, Bearer!ReadForRotate, Bearer!ReadSubject,
        Bearer!ReadMembers, Bearer!ReadRecords, Bearer!Answer, Bearer!Fail
  <2> QED BY <2>3, <2>4
<1>8. CASE Bearer!Exec(r)
  <2>0. q.pc = "exec"
    BY <1>8 DEF Bearer!Exec
  <2>1. CASE Bearer!Retry(r)
    <3>1. CASE q.tries + 1 < WatchAttempts
      <4> DEFINE w == Bearer!Watching(q)
      <4>1. w \in Bearer!Request /\ w.answer = q.answer
        <5>1. w \in Bearer!Request
          BY <1>0, BearerStartsOver
        <5> QED BY <1>0, <5>1 DEF Bearer!Watching, Bearer!Request
      <4>2. bearerReq'[r] = [w EXCEPT !.tries = q.tries + 1]
        BY <1>2, <2>1, <3>1 DEF Bearer!Retry
      <4>3. bearerReq'[r].answer = q.answer
        <5> HIDE DEF w
        <5> QED BY <4>1, <4>2 DEF Bearer!Request
      <4> QED BY <1>4, <4>3
    <3>2. CASE ~(q.tries + 1 < WatchAttempts)
      BY <1>1, <1>3, <2>1, <3>2 DEF Bearer!Retry
    <3> QED BY <3>1, <3>2
  <2>2. CASE /\ Bearer!Empty(r) /\ Bearer!Answer(r, Bearer!Outcome(r))
             /\ UNCHANGED <<access, refresh>>
    <3>1. Revoking(q)
      BY <1>3, <2>2 DEF Revoking, Bearer!Outcome
    <3>2. q.todo = {} /\ Collecting(q, access, refresh, bySubject)
      BY <1>0, <2>0, <3>1 DEF BearerRelies
    <3>3. \A sid \in q.seen : q.access[sid] = None
      BY <1>0, <2>2 DEF Bearer!Empty, Bearer!NoAccess, Bearer!Request
    <3> QED BY <2>2, <3>2, <3>3 DEF Collecting
  <2>3. CASE ~q.dirty /\ Bearer!Apply(r)
    <3>1. PICK answer \in {Bearer!Outcome(r), "none"} : bearerReq'[r] = Bearer!Answered(q, answer)
      BY <2>3 DEF Bearer!Apply
    <3>2. bearerReq'[r].answer = answer
      BY <1>0, <3>1 DEF Bearer!Answered, Bearer!Request
    <3>3. Revoking(q)
      BY <1>1, <3>1, <3>2 DEF Revoking, Bearer!Outcome
    <3>4. BearerWrites(r)
      BY <2>3 DEF Bearer!Apply, BearerWrites
    <3>5. BearerApplied(q)
      BY <2>0, <2>3, <3>3, <3>4, BearerRevokes
    <3> QED BY <3>3, <3>5 DEF BearerApplied
  <2> QED BY <1>8, <2>1, <2>2, <2>3 DEF Bearer!Exec, Bearer!Clean
<1>9. CASE \/ Bearer!Watch(r) \/ Bearer!ReadSubject(r) \/ Bearer!ReadMembers(r)
           \/ Bearer!ReadRecords(r)
  <2>1. CASE Bearer!Watch(r)
    <3>1. Bearer!Watching(q) \in Bearer!Request /\ bearerReq'[r] = Bearer!Watching(q)
      BY <1>0, <1>2, <2>1, BearerStartsOver DEF Bearer!Watch
    <3>2. bearerReq'[r].answer = q.answer
      BY <1>0, <3>1 DEF Bearer!Watching, Bearer!Request
    <3> QED BY <1>4, <3>2
  <2>2. CASE ~Bearer!Watch(r)
    <3>1. CASE Bearer!ReadSubject(r)
      BY <1>0, <3>1 DEF Bearer!ReadSubject, Bearer!Request
    <3>2. CASE Bearer!ReadMembers(r)
      BY <1>0, <3>2 DEF Bearer!ReadMembers, Bearer!Request
    <3>3. CASE Bearer!ReadRecords(r)
      <4> HIDE DEF q
      <4>1. PICK pc, left, one, f :
               bearerReq' = [bearerReq EXCEPT ![r].pc = pc, ![r].todo = left, ![r].fields = {},
                               ![r].access[q.sid] = one, ![r].refresh = f]
        BY <3>3 DEF Bearer!ReadRecords, q
      <4>2. bearerReq' = [bearerReq EXCEPT ![r] = [q EXCEPT !.pc = pc, !.todo = left,
                  !.fields = {}, !.access = [q.access EXCEPT ![q.sid] = one], !.refresh = f]]
        BY <1>0, <4>1 DEF q
      <4>3. bearerReq'[r].answer = q.answer
        BY <1>0, <4>2 DEF Bearer!Request
      <4> QED BY <1>4, <4>3 DEF q
    <3> QED BY <1>9, <2>2, <3>1, <3>2, <3>3
  <2> QED BY <2>1, <2>2
<1>10. CASE Bearer!ReadForCreate(r)
  BY <1>0, <1>10 DEF Bearer!ReadForCreate, BearerRelies
<1>11. CASE Bearer!ReadForRotate(r)
  <2>1. CASE Bearer!Answer(r, "conflict")
    BY <1>1, <1>3, <2>1
  <2>2. CASE ~Bearer!Answer(r, "conflict")
    <3>1. bearerReq'[r].answer = q.answer
      BY <1>0, <1>11, <2>2 DEF Bearer!ReadForRotate, Bearer!Request
    <3> QED BY <1>4, <3>1
  <2> QED BY <2>1, <2>2
<1>12. CASE Bearer!Fail(r)
  BY <1>1, <1>3, <1>12 DEF Bearer!Fail
<1>13. ~Bearer!Free(r)
  OBVIOUS
<1> QED BY <1>6, <1>7, <1>8, <1>9, <1>10, <1>11, <1>12, <1>13
        DEF Bearer!Revoke, Bearer!CreateSession, Bearer!RevokeAll, Bearer!Rotate, Bearer!Begin

\* When RevokeAll, a sign-out or the detection of a reused token answers, every session it is
\* about is revoked with all its tokens (RevokedBeforeAnswer): although a pipeline without
\* commands is answered unchecked, since it has found every session revoked, and the tokens
\* of a revoked session are.
THEOREM RevocationsComplete == AdapterSpec => RevokedBeforeAnswer
<1> DEFINE A == \A r \in Requests :
          /\ ~Bearer!Free(r)
          /\ \/ bearerReq[r].method \in {"revoke", "revokeAll"} /\ bearerReq'[r].answer = "ok"
             \/ bearerReq[r].method = "rotate" /\ bearerReq'[r].answer = "reuse"
          => /\ \A sid \in bearerReq[r].seen : access'[sid].revoked
             /\ \A t \in Tokens : refresh'[t] # None /\ refresh'[t].session \in bearerReq[r].seen
                    => refresh'[t].revoked
<1>1. BearerInv /\ BearerInv' /\ Bearer!Next => A
  <2> SUFFICES ASSUME BearerInv, BearerInv', Bearer!Next, NEW r \in Requests, ~Bearer!Free(r),
             \/ bearerReq[r].method \in {"revoke", "revokeAll"} /\ bearerReq'[r].answer = "ok"
             \/ bearerReq[r].method = "rotate" /\ bearerReq'[r].answer = "reuse"
             PROVE  /\ \A sid \in bearerReq[r].seen : access'[sid].revoked
                    /\ \A t \in Tokens : refresh'[t] # None /\ refresh'[t].session \in bearerReq[r].seen
                          => refresh'[t].revoked
    OBVIOUS
  <2>1. \A sid \in bearerReq[r].seen : access'[sid].revoked
    BY BearerRevokeStep
  <2>2. Together(access', refresh')
    BY DEF BearerInv
  <2> QED BY <2>1, <2>2 DEF Together
<1>2. BearerInv /\ BearerInv' /\ [AdapterNext]_<<vars, cookieVars, bearerVars, totpVars>>
        => [A]_(Bearer!vars)
  BY <1>1, AdapterBearer DEF bearerVars, Bearer!vars
<1>3. AdapterSpec => Bearer!RevokedBeforeAnswer
  BY <1>2, BearerInvariant, PTL DEF AdapterSpec, Bearer!RevokedBeforeAnswer
<1> QED BY <1>3, CookieRevocationsComplete, PTL DEF RevokedBeforeAnswer

\* The managers of both kinds of sessions can rely on Redis as on the abstract stores, and
\* on every revocation that has been answered: PromisesKept.
THEOREM PromisesAreKept == AdapterSpec => PromisesKept
BY ImplementsStores, RevocationsComplete, PTL DEF PromisesKept

-----------------------------------------------------------------------------
(***************************************************************************)
(* Accounts: the inductive invariant.                                      *)
(***************************************************************************)

\* What a call brings: the arguments its method takes.
AccountCarried(q) ==
    /\ q.method = "register" => q.user \in Users /\ q.email \in Emails /\ q.hash \in Hashes
    /\ q.method \in {"add", "replace"} => q.user \in Users /\ q.hash \in Hashes
    /\ q.method \in {"replace", "remove"} => q.user \in Users /\ q.current \in Hashes
    /\ q.method = "remove" => q.hash = None
    /\ q.method = "issue" => q.user \in Users /\ q.token \in MailTokens
    /\ q.method \in {"verify", "reset"} => q.kind = q.method /\ q.token \in MailTokens
    /\ q.method = "reset" => q.hash \in Hashes
    /\ q.method = "resolve" => q.identity \in Identities /\ q.email \in Emails
    /\ q.method = "unlink" => q.user \in Users
    /\ q.method \in {"enrol", "use", "delete"} =>
          q.user \in Users /\ q.credential \in Credentials

\* Plans, of the call q that request r makes or would make.
PlansOf(r, q) ==
    CASE q.method = "register" -> PlanRegister(q)
      [] q.method = "add" -> PlanAdd(q)
      [] q.method = "replace" -> PlanReplace(q)
      [] q.method = "remove" -> PlanRemove(q)
      [] q.method = "issue" -> PlanIssue(q)
      [] q.method \in {"verify", "reset"} -> PlanMailed(q)
      [] q.method = "resolve" -> PlanResolve(r, q)
      [] q.method = "unlink" -> PlanUnlink(q)
      [] q.method = "enrol" -> PlanEnrol(q)
      [] q.method = "use" -> PlanUse(q)
      [] q.method = "delete" -> PlanDelete(q)

\* A registration keeps the fresh ID it brought, and a clean EXEC holds a plan that the
\* state still allows.
AccountRelies(r, q) ==
    /\ q.pc # "idle" => AccountCarried(q)
    /\ q.pc # "idle" /\ q.method = "register" => FreshFor(r, q.user)
    /\ q.pc = "exec" /\ ~q.dirty => q.plan \in PlansOf(r, q)

\* Nothing belongs to an account that does not exist.
NoOrphans ==
    \A u \in Users : users[u] = None => passwords[u] = None /\ google[u] = {} /\ passkeys[u] = {}

TablesOK ==
    /\ users \in [Users -> User \cup {None}]
    /\ emails \in [Emails -> Users \cup {None}]
    /\ passwords \in [Users -> Hashes \cup {None}]
    /\ identities \in [Identities -> Users \cup {None}]
    /\ google \in [Users -> SUBSET Identities]
    /\ credentials \in [Credentials -> Users \cup {None}]
    /\ passkeys \in [Users -> SUBSET Credentials]
    /\ records \in [Kinds -> [Users -> MailTokens \cup {None}]]
    /\ tokens \in [Kinds -> [MailTokens -> Users \cup {None}]]

Tables == TablesOK /\ NeverLockedOut /\ OneIdentityPerUser /\ IndexesAgree /\ NoOrphans

AccountsInv ==
    /\ Tables
    /\ req \in [Requests -> Request]
    /\ \A r \in Requests : AccountRelies(r, req[r])

-----------------------------------------------------------------------------
(***************************************************************************)
(* Accounts: the calls and the steps that write nothing.                   *)
(***************************************************************************)

\* A free slot has the type of a request.
LEMMA IdleRequest == Idle \in Request
BY WatchAssumption DEF Idle, Request, Methods, Kinds

\* What a request may decide depends on its call and on what is stored.
LEMMA PlansAreOf ==
    ASSUME NEW r \in Requests
    PROVE  Plans(r) = PlansOf(r, req[r])
BY DEF Plans, PlansOf

\* A decision names an account, and what it removes.
LEMMA PlansTyped ==
    ASSUME TablesOK, NEW r \in Requests, NEW q \in Request, AccountCarried(q),
           NEW plan \in PlansOf(r, q)
    PROVE  plan \in Plan
<1>1. q.method \in Methods /\ q.user \in Users \cup {None} /\ q.kind \in Kinds
  BY DEF Request
<1>2. CASE q.method = "register"
  BY <1>2, WatchAssumption DEF PlansOf, PlanRegister, When, Applying, Plan, AccountCarried
<1>3. CASE q.method \in {"add", "replace", "remove", "enrol", "use", "delete"}
  BY <1>3, WatchAssumption DEF PlansOf, PlanAdd, PlanReplace, PlanRemove, PlanEnrol, PlanUse,
        PlanDelete, When, Applying, Plan, AccountCarried
<1>4. CASE q.method = "issue"
  <2>1. records[q.kind][q.user] \in MailTokens \cup {None}
    BY <1>1, <1>4 DEF TablesOK, AccountCarried
  <2> QED BY <1>4, <2>1 DEF PlansOf, PlanIssue, When, Applying, Plan, AccountCarried
<1>5. CASE q.method \in {"verify", "reset"}
  <2>1. plan \in PlanMailed(q)
    BY <1>5 DEF PlansOf
  <2>2. tokens[q.kind][q.token] \in Users \cup {None}
    BY <1>1, <1>5 DEF TablesOK, AccountCarried
  <2>3. tokens[q.kind][q.token] # None
    BY <2>1 DEF PlanMailed
  <2>4. records[q.kind][tokens[q.kind][q.token]] \in MailTokens \cup {None}
    BY <1>1, <2>2, <2>3 DEF TablesOK
  <2>5. plan = Applying(tokens[q.kind][q.token], records[q.kind][tokens[q.kind][q.token]])
    BY <2>1, <2>3 DEF PlanMailed, When
  <2> QED BY <2>2, <2>3, <2>4, <2>5 DEF Applying, Plan
<1>6. CASE q.method = "resolve"
  <2>1. plan \in PlanResolve(r, q)
    BY <1>6 DEF PlansOf
  <2>2. identities[q.identity] \in Users \cup {None}
    BY <1>6 DEF TablesOK, AccountCarried
  <2>3. \E d \in {"apply", "create", "link", "touch"}, u \in Users :
           plan = [do |-> d, user |-> u, old |-> None]
    BY <1>1, <2>1, <2>2 DEF PlanResolve, When
  <2> QED BY <2>3 DEF Plan
<1>7. CASE q.method = "unlink"
  <2>1. google[q.user] \subseteq Identities /\ q.user \in Users
    BY <1>7 DEF TablesOK, AccountCarried
  <2>2. \E p \in Identities : plan = Applying(q.user, p)
    BY <1>7, <2>1 DEF PlansOf, PlanUnlink
  <2> QED BY <2>1, <2>2 DEF Applying, Plan
<1> QED BY <1>1, <1>2, <1>3, <1>4, <1>5, <1>6, <1>7 DEF Methods

\* A step of request r that leaves the tables alone and brings no account that another
\* request holds for new.
LEMMA AccountsQuietStep ==
    ASSUME AccountsInv, UNCHANGED db, NEW r \in Requests, NEW q \in Request,
           req' = [req EXCEPT ![r] = q],
           AccountRelies(r, q),
           q.user \in Users =>
              q.user = req[r].user \/ users[q.user] # None \/ FreshFor(r, q.user),
           q.plan # None => \/ q.plan = req[r].plan \/ q.plan.user = q.user
                            \/ users[q.plan.user] # None \/ FreshFor(r, q.plan.user)
    PROVE  AccountsInv'
<1>1. Tables'
  BY DEF db, AccountsInv, Tables, TablesOK, NeverLockedOut, OneIdentityPerUser, IndexesAgree,
         NoOrphans
<1>2. req' \in [Requests -> Request]
  BY DEF AccountsInv
<1>3. ASSUME NEW x \in Requests, NEW u \in Users, FreshFor(x, u),
             x # r => u = req[x].user \/ (req[x].plan # None /\ u = req[x].plan.user)
      PROVE  FreshFor(x, u)'
  <2>1. users'[u] = None
    BY <1>3 DEF FreshFor, db
  <2>2. ASSUME NEW y \in Requests \ {x}, y # r
        PROVE  req'[y] = req[y]
    BY <2>2 DEF AccountsInv
  <2>3. ASSUME x # r
        PROVE  q.user # u /\ (q.plan # None => q.plan.user # u)
    <3>1. /\ users[u] = None
          /\ req[r].user # u /\ (req[r].plan # None => req[r].plan.user # u)
      BY <1>3, <2>3 DEF FreshFor
    <3>2. ~FreshFor(r, u)
      BY <1>3, <2>3 DEF FreshFor
    <3> QED BY <3>1, <3>2
  <2>4. req'[r] = q
    BY DEF AccountsInv
  <2>5. ASSUME NEW y \in Requests \ {x}
        PROVE  req'[y].user # u /\ (req'[y].plan # None => req'[y].plan.user # u)
    <3>1. CASE y = r
      BY <3>1, <2>3, <2>4, <2>5
    <3>2. CASE y # r
      BY <3>2, <2>2, <2>5, <1>3 DEF FreshFor
    <3> QED BY <3>1, <3>2
  <2> QED BY <2>1, <2>5 DEF FreshFor
<1>4. ASSUME NEW x \in Requests, NEW p \in Request, NEW plan \in PlansOf(x, p),
             p.method \in Methods,
             p.method = "resolve" /\ FreshFor(x, plan.user) => FreshFor(x, plan.user)'
      PROVE  plan \in PlansOf(x, p)'
  <2>1. CASE p.method = "resolve"
    <3>1. plan \in PlanResolve(x, p)
      BY <2>1, <1>4 DEF PlansOf
    <3>2. plan \in PlanResolve(x, p)'
      BY <3>1, <2>1, <1>4 DEF PlanResolve, When, db
    <3> QED BY <2>1, <3>2 DEF PlansOf
  <2>2. CASE p.method # "resolve"
    BY <2>2, <1>4 DEF PlansOf, db, Methods, PlanRegister, PlanAdd, PlanReplace, PlanRemove,
          PlanIssue, PlanMailed, PlanUnlink, PlanEnrol, PlanUse, PlanDelete, When, Applying
  <2> QED BY <2>1, <2>2
<1>5. ASSUME NEW x \in Requests
      PROVE  AccountRelies(x, req[x])'
  <2>1. CASE x = r
    <3>1. req'[x] = q
      BY <2>1 DEF AccountsInv
    <3>2. q.pc # "idle" /\ q.method = "register" => FreshFor(r, q.user)'
      BY <1>3 DEF AccountRelies, AccountCarried
    <3>3. ASSUME q.pc = "exec", ~q.dirty
          PROVE  q.plan \in PlansOf(r, q)'
      <4>1. q.plan \in PlansOf(r, q)
        BY <3>3 DEF AccountRelies
      <4>2. q.method = "resolve" /\ FreshFor(r, q.plan.user) => FreshFor(r, q.plan.user)'
        <5>1. q.plan \in Plan
          BY <3>3, <4>1, PlansTyped DEF AccountsInv, Tables, AccountRelies
        <5>2. q.plan.user \in Users
          BY <5>1 DEF Plan
        <5> QED BY <5>2, <1>3
      <4>3. q.method \in Methods
        BY DEF Request
      <4> QED BY <4>1, <4>2, <4>3, <1>4
    <3>4. q.pc # "idle" => AccountCarried(q)
      BY DEF AccountRelies
    <3> QED BY <2>1, <3>1, <3>2, <3>3, <3>4 DEF AccountRelies, AccountCarried
  <2>2. CASE x # r
    <3> PICK p \in Request : p = req[x]
      BY DEF AccountsInv
    <3>1. req'[x] = p /\ AccountRelies(x, p)
      BY <2>2 DEF AccountsInv
    <3>2. p.pc # "idle" /\ p.method = "register" => FreshFor(x, p.user)'
      BY <1>3, <3>1, <2>2 DEF AccountRelies, AccountCarried
    <3>3. ASSUME p.pc = "exec", ~p.dirty
          PROVE  p.plan \in PlansOf(x, p)'
      <4>1. p.plan \in PlansOf(x, p)
        BY <3>3, <3>1 DEF AccountRelies
      <4>2. p.method = "resolve" /\ FreshFor(x, p.plan.user) => FreshFor(x, p.plan.user)'
        <5>1. p.plan \in Plan
          BY <3>1, <3>3, <4>1, PlansTyped DEF AccountsInv, Tables, AccountRelies
        <5>2. p.plan.user \in Users /\ p.plan # None
          BY <5>1, NoPlanAssumption DEF Plan
        <5> QED BY <5>2, <1>3, <2>2
      <4>3. p.method \in Methods
        BY <3>1 DEF Request
      <4> QED BY <4>1, <4>2, <4>3, <1>4, <3>1
    <3>4. p.pc # "idle" => AccountCarried(p)
      BY <3>1 DEF AccountRelies
    <3> QED BY <3>1, <3>2, <3>3, <3>4 DEF AccountRelies, AccountCarried
  <2> QED BY <2>1, <2>2
<1> QED BY <1>1, <1>2, <1>5 DEF AccountsInv

\* A call that starts: it has no plan yet.
LEMMA AccountsBegin ==
    ASSUME AccountsInv, NEW r \in Requests, NEW call \in Request, Begin(r, call),
           call.plan = None, AccountCarried(call),
           call.method = "register" => FreshFor(r, call.user),
           call.user \in Users => users[call.user] # None \/ FreshFor(r, call.user)
    PROVE  AccountsInv'
<1> DEFINE pc == IF call.method \in Preread THEN "watch" ELSE "read"
           q == [call EXCEPT !.pc = pc]
<1>1. pc \in {"watch", "read"}
  OBVIOUS
<1> HIDE DEF pc
<1>2. /\ q \in Request /\ q.plan = None /\ q.pc = pc /\ q.user = call.user
      /\ q.method = call.method
  BY <1>1 DEF Request
<1>3. AccountCarried(q)
  BY <1>1 DEF Request, AccountCarried
<1>4. UNCHANGED db /\ req' = [req EXCEPT ![r] = q]
  BY DEF Begin, pc
<1> HIDE DEF q
<1>5. AccountRelies(r, q)
  BY <1>1, <1>2, <1>3 DEF AccountRelies
<1> QED BY <1>2, <1>4, <1>5, AccountsQuietStep

\* A call of the password store begins a request and writes nothing.
LEMMA AccountsPasswordCalls ==
    ASSUME AccountsInv, NEW r \in Requests, PasswordCalls(r)
    PROVE  AccountsInv'
<1> USE IdleRequest
<1>1. PICK u \in Users, h \in Hashes :
         \/ \E e \in Emails : Register(r, u, e, h)
         \/ AddPassword(r, u, h) \/ ReplacePasswordHash(r, u, h) \/ RemovePassword(r, u)
  BY DEF PasswordCalls
<1>2. /\ passwords[u] \in Hashes \cup {None}
      /\ passwords[u] # None => users[u] # None
  BY DEF AccountsInv, Tables, TablesOK, NoOrphans
<1>3. ASSUME NEW e \in Emails, Register(r, u, e, h) PROVE AccountsInv'
  <2> DEFINE call == [Idle EXCEPT !.method = "register", !.user = u, !.email = e, !.hash = h]
  <2>1. call \in Request /\ call.plan = None /\ call.method = "register" /\ call.user = u
    BY DEF Request, Methods, Idle
  <2>2. AccountCarried(call)
    BY DEF AccountCarried, Idle
  <2>3. Begin(r, call) /\ FreshFor(r, u)
    BY <1>3 DEF Register
  <2> HIDE DEF call
  <2> QED BY <2>1, <2>2, <2>3, AccountsBegin
<1>4. CASE AddPassword(r, u, h)
  <2> DEFINE call == [Idle EXCEPT !.method = "add", !.user = u, !.hash = h]
  <2>1. call \in Request /\ call.plan = None /\ call.method = "add" /\ call.user = u
    BY DEF Request, Methods, Idle
  <2>2. AccountCarried(call)
    BY DEF AccountCarried, Idle
  <2>3. Begin(r, call) /\ users[u] # None
    BY <1>4 DEF AddPassword
  <2> HIDE DEF call
  <2> QED BY <2>1, <2>2, <2>3, AccountsBegin
<1>5. CASE ReplacePasswordHash(r, u, h)
  <2> PICK w \in Hashes : w = passwords[u]
    BY <1>2, <1>5 DEF ReplacePasswordHash
  <2> DEFINE call == [Idle EXCEPT !.method = "replace", !.user = u, !.hash = h, !.current = w]
  <2>1. call \in Request /\ call.plan = None /\ call.method = "replace" /\ call.user = u
    BY DEF Request, Methods, Idle
  <2>2. AccountCarried(call)
    BY DEF AccountCarried, Idle
  <2>3. Begin(r, call) /\ users[u] # None
    BY <1>2, <1>5 DEF ReplacePasswordHash
  <2> HIDE DEF call
  <2> QED BY <2>1, <2>2, <2>3, AccountsBegin
<1>6. CASE RemovePassword(r, u)
  <2> PICK w \in Hashes : w = passwords[u]
    BY <1>2, <1>6 DEF RemovePassword
  <2> DEFINE call == [Idle EXCEPT !.method = "remove", !.user = u, !.current = w]
  <2>1. call \in Request /\ call.plan = None /\ call.method = "remove" /\ call.user = u
    BY DEF Request, Methods, Idle
  <2>2. AccountCarried(call)
    BY DEF AccountCarried, Idle
  <2>3. Begin(r, call) /\ users[u] # None
    BY <1>2, <1>6 DEF RemovePassword
  <2> HIDE DEF call
  <2> QED BY <2>1, <2>2, <2>3, AccountsBegin
<1> QED BY <1>1, <1>3, <1>4, <1>5, <1>6

\* So does one of the stores of mailed tokens ...
LEMMA AccountsMailCalls ==
    ASSUME AccountsInv, NEW r \in Requests, MailCalls(r)
    PROVE  AccountsInv'
<1> USE IdleRequest
<1>1. PICK t \in MailTokens :
         \/ \E kind \in Kinds, u \in Users : Issue(r, kind, u, t)
         \/ Verify(r, t)
         \/ \E h \in Hashes : ResetPassword(r, t, h)
  BY DEF MailCalls
<1>2. ASSUME NEW kind \in Kinds, NEW u \in Users, Issue(r, kind, u, t) PROVE AccountsInv'
  <2> DEFINE call == [Idle EXCEPT !.method = "issue", !.kind = kind, !.user = u, !.token = t]
  <2>1. call \in Request /\ call.plan = None /\ call.method = "issue" /\ call.user = u
    BY DEF Request, Methods, Idle
  <2>2. AccountCarried(call)
    BY DEF AccountCarried, Idle
  <2>3. Begin(r, call) /\ users[u] # None
    BY <1>2 DEF Issue
  <2> HIDE DEF call
  <2> QED BY <2>1, <2>2, <2>3, AccountsBegin
<1>3. CASE Verify(r, t)
  <2> DEFINE call == [Idle EXCEPT !.method = "verify", !.kind = "verify", !.token = t]
  <2>1. call \in Request /\ call.plan = None /\ call.method = "verify" /\ call.user = None
    BY DEF Request, Methods, Idle, Kinds
  <2>2. AccountCarried(call)
    BY DEF AccountCarried, Idle
  <2>3. Begin(r, call)
    BY <1>3 DEF Verify
  <2> HIDE DEF call
  <2> QED BY <2>1, <2>2, <2>3, AccountsBegin, WatchAssumption
<1>4. ASSUME NEW h \in Hashes, ResetPassword(r, t, h) PROVE AccountsInv'
  <2> DEFINE call == [Idle EXCEPT !.method = "reset", !.kind = "reset", !.token = t, !.hash = h]
  <2>1. call \in Request /\ call.plan = None /\ call.method = "reset" /\ call.user = None
    BY DEF Request, Methods, Idle, Kinds
  <2>2. AccountCarried(call)
    BY DEF AccountCarried, Idle
  <2>3. Begin(r, call)
    BY <1>4 DEF ResetPassword
  <2> HIDE DEF call
  <2> QED BY <2>1, <2>2, <2>3, AccountsBegin, WatchAssumption
<1> QED BY <1>1, <1>2, <1>3, <1>4

\* ... and of the Google store, which draws an identifier for a new account.
LEMMA AccountsIdentityCalls ==
    ASSUME AccountsInv, NEW r \in Requests, IdentityCalls(r)
    PROVE  AccountsInv'
<1> USE IdleRequest
<1>1. ASSUME NEW p \in Identities, NEW u \in Users \cup {None}, NEW e \in Emails,
             ResolveIdentity(r, p, u, e)
      PROVE  AccountsInv'
  <2> DEFINE call == [Idle EXCEPT !.method = "resolve", !.identity = p, !.user = u, !.email = e]
  <2>1. call \in Request /\ call.plan = None /\ call.method = "resolve" /\ call.user = u
    BY DEF Request, Methods, Idle
  <2>2. AccountCarried(call)
    BY DEF AccountCarried, Idle
  <2>3. Begin(r, call) /\ (u \in Users => users[u] # None)
    BY <1>1, WatchAssumption DEF ResolveIdentity
  <2> HIDE DEF call
  <2> QED BY <2>1, <2>2, <2>3, AccountsBegin
<1>2. ASSUME NEW u \in Users, UnlinkIdentity(r, u) PROVE AccountsInv'
  <2> DEFINE call == [Idle EXCEPT !.method = "unlink", !.user = u]
  <2>1. call \in Request /\ call.plan = None /\ call.method = "unlink" /\ call.user = u
    BY DEF Request, Methods, Idle
  <2>2. AccountCarried(call)
    BY DEF AccountCarried, Idle
  <2>3. Begin(r, call) /\ users[u] # None
    BY <1>2 DEF UnlinkIdentity
  <2> HIDE DEF call
  <2> QED BY <2>1, <2>2, <2>3, AccountsBegin
<1>3. ASSUME NEW u \in Users, NEW c \in Credentials, NEW method \in {"enrol", "use", "delete"},
             Begin(r, [Idle EXCEPT !.method = method, !.user = u, !.credential = c]),
             users[u] # None
      PROVE  AccountsInv'
  <2> DEFINE call == [Idle EXCEPT !.method = method, !.user = u, !.credential = c]
  <2>1. call \in Request /\ call.plan = None /\ call.method = method /\ call.user = u
    BY DEF Request, Methods, Idle
  <2>2. AccountCarried(call)
    BY DEF AccountCarried, Idle
  <2>3. Begin(r, call)
    BY <1>3
  <2> HIDE DEF call
  <2> QED BY <1>3, <2>1, <2>2, <2>3, AccountsBegin
<1>4. ASSUME NEW u \in Users, NEW c \in Credentials, credentials[c] = u
      PROVE  users[u] # None
  BY <1>4 DEF AccountsInv, Tables, NoOrphans, IndexesAgree
<1>5. ASSUME NEW u \in Users, NEW c \in Credentials,
             \/ CompleteRegistration(r, u, c) \/ CompleteAuthentication(r, u, c)
             \/ DeleteCredential(r, u, c)
      PROVE  AccountsInv'
  BY <1>3, <1>4, <1>5 DEF CompleteRegistration, CompleteAuthentication, DeleteCredential
<1> QED BY <1>1, <1>2, <1>5 DEF IdentityCalls

\* WATCH, the decision, the next attempt, and a failure.
LEMMA AccountsWatch ==
    ASSUME AccountsInv, NEW r \in Requests, Watch(r)
    PROVE  AccountsInv'
<1> PICK o \in Request : o = req[r]
  BY DEF AccountsInv
<1> DEFINE q == [o EXCEPT !.pc = "read", !.dirty = FALSE]
<1>1. q \in Request /\ q.pc = "read" /\ q.plan = o.plan /\ q.user = o.user /\ q.method = o.method
  BY ZenonT(40) DEF Request
<1>2. o.pc # "idle" /\ AccountRelies(r, o) /\ UNCHANGED db
  BY DEF Watch, AccountsInv
<1>3. AccountCarried(q)
  BY <1>2 DEF AccountRelies, AccountCarried, Request
<1>4. req' = [req EXCEPT ![r] = q]
  BY DEF Watch, AccountsInv
<1> HIDE DEF q
<1>5. AccountRelies(r, q)
  BY <1>1, <1>2, <1>3 DEF AccountRelies
<1> QED BY <1>1, <1>2, <1>4, <1>5, AccountsQuietStep

\* A request that answers relies on nothing.
LEMMA AccountsIdle ==
    ASSUME AccountsInv, NEW r \in Requests, UNCHANGED db, req' = [req EXCEPT ![r] = Idle]
    PROVE  AccountsInv'
<1>1. Idle.pc = "idle" /\ Idle.user \notin Users /\ Idle.plan = None
  BY WatchAssumption DEF Idle
<1>2. AccountRelies(r, Idle)
  BY <1>1 DEF AccountRelies
<1> QED BY <1>1, <1>2, IdleRequest, AccountsQuietStep

\* A request that starts over, or gives up, relies on nothing.
LEMMA AccountsRetry ==
    ASSUME AccountsInv, NEW r \in Requests, req[r].pc = "exec", Retry(r), UNCHANGED db
    PROVE  AccountsInv'
<1> PICK o \in Request : o = req[r]
  BY DEF AccountsInv
<1>1. CASE ~(o.tries + 1 < WatchAttempts)
  BY <1>1, AccountsIdle DEF Retry
<1>2. CASE o.tries + 1 < WatchAttempts
  <2> DEFINE q == [o EXCEPT !.pc = "read", !.dirty = FALSE, !.tries = o.tries + 1]
  <2>1. o.tries + 1 \in 0..(WatchAttempts - 1)
    BY <1>2, WatchAssumption DEF Request
  <2>2. q \in Request /\ q.pc = "read" /\ q.plan = o.plan /\ q.user = o.user /\ q.method = o.method
    BY <2>1 DEF Request
  <2>3. AccountRelies(r, o)
    BY DEF AccountsInv
  <2>4. AccountCarried(q)
    BY <2>3 DEF AccountRelies, AccountCarried, Request
  <2>5. req' = [req EXCEPT ![r] = q]
    BY <1>2 DEF Retry, AccountsInv
  <2> HIDE DEF q
  <2>6. AccountRelies(r, q)
    BY <2>2, <2>3, <2>4 DEF AccountRelies
  <2> QED BY <2>2, <2>5, <2>6, AccountsQuietStep
<1> QED BY <1>1, <1>2

\* The account a decision names is the caller's, one there is, or a fresh one.
LEMMA PlanNames ==
    ASSUME Tables, NEW r \in Requests, NEW q \in Request, AccountCarried(q),
           NEW plan \in PlansOf(r, q)
    PROVE  plan.user = q.user \/ users[plan.user] # None \/ FreshFor(r, plan.user)
<1>1. q.method \in Methods /\ q.user \in Users \cup {None} /\ q.kind \in Kinds
  BY DEF Request
<1>2. CASE q.method \in {"register", "add", "replace", "remove", "issue", "unlink", "enrol",
                         "use", "delete"}
  BY <1>2 DEF PlansOf, PlanRegister, PlanAdd, PlanReplace, PlanRemove, PlanIssue, PlanUnlink,
        PlanEnrol, PlanUse, PlanDelete, When, Applying
<1>3. CASE q.method \in {"verify", "reset"}
  BY <1>3 DEF PlansOf, PlanMailed, When, Applying
<1>4. CASE q.method = "resolve"
  <2>1. plan \in PlanResolve(r, q)
    BY <1>4 DEF PlansOf
  <2>2. identities[q.identity] # None => users[identities[q.identity]] # None
    <3>1. identities[q.identity] \in Users \cup {None} /\ q.identity \in Identities
      BY <1>4 DEF Tables, TablesOK, AccountCarried
    <3> QED BY <3>1 DEF Tables, IndexesAgree, NoOrphans
  <2> QED BY <2>1, <2>2 DEF PlanResolve, When
<1> QED BY <1>1, <1>2, <1>3, <1>4 DEF Methods

\* A request with a decision has the type of one.
LEMMA PlannedRequest ==
    ASSUME NEW o \in Request, NEW w \in Plan
    PROVE  [o EXCEPT !.pc = "exec", !.plan = w] \in Request
BY DEF Request

\* A read decides on what it finds under the keys it watches.
LEMMA AccountsRead ==
    ASSUME AccountsInv, NEW r \in Requests, Read(r)
    PROVE  AccountsInv'
<1> PICK o \in Request : o = req[r]
  BY DEF AccountsInv
<1>1. o.pc = "read" /\ UNCHANGED db /\ AccountRelies(r, o)
  BY DEF Read, AccountsInv
<1>2. CASE req' = [req EXCEPT ![r] = Idle]
  BY <1>1, <1>2, AccountsIdle
<1>3. ASSUME NEW w \in Plans(r), req' = [req EXCEPT ![r].pc = "exec", ![r].plan = w]
      PROVE  AccountsInv'
  <2>1. AccountCarried(o)
    BY <1>1 DEF AccountRelies
  <2>2. w \in PlansOf(r, o)
    BY <1>3, PlansAreOf
  <2>3. w \in Plan
    BY <2>1, <2>2, PlansTyped DEF AccountsInv, Tables
  <2>4. w.user = o.user \/ users[w.user] # None \/ FreshFor(r, w.user)
    BY <2>1, <2>2, PlanNames DEF AccountsInv
  <2> DEFINE q == [o EXCEPT !.pc = "exec", !.plan = w]
  <2>5. q \in Request
    BY <2>3, PlannedRequest
  <2>6. /\ q.pc = "exec" /\ q.plan = w /\ q.user = o.user /\ q.method = o.method
        /\ q.email = o.email /\ q.hash = o.hash /\ q.current = o.current
        /\ q.identity = o.identity /\ q.credential = o.credential /\ q.kind = o.kind
        /\ q.token = o.token
    BY DEF Request
  <2>7. req' = [req EXCEPT ![r] = q]
    BY <1>3 DEF AccountsInv
  <2> HIDE DEF q
  <2>8. AccountCarried(q)
    BY <2>1, <2>6 DEF AccountCarried
  <2>9. PlansOf(r, q) = PlansOf(r, o)
    BY <2>6 DEF PlansOf, PlanRegister, PlanAdd, PlanReplace, PlanRemove, PlanIssue, PlanMailed,
          PlanResolve, PlanUnlink, PlanEnrol, PlanUse, PlanDelete
  <2>10. AccountRelies(r, q)
    <3>1. o.method = "register" => FreshFor(r, o.user)
      BY <1>1 DEF AccountRelies
    <3> QED BY <2>2, <2>6, <2>8, <2>9, <3>1 DEF AccountRelies
  <2> QED BY <1>1, <2>4, <2>5, <2>6, <2>7, <2>10, AccountsQuietStep
<1> QED BY <1>2, <1>3 DEF Read

-----------------------------------------------------------------------------
(***************************************************************************)
(* Accounts: an EXEC.  What it does to the tables, pipeline by pipeline.   *)
(***************************************************************************)

\* Register adds an account whose identifier and address are new.
LEMMA RegisterKeepsTables ==
    ASSUME Tables, NEW r \in Requests, NEW q \in Request, AccountCarried(q),
           q.plan \in PlansOf(r, q), q.method = "register", FreshFor(r, q.user), DoRegister(q)
    PROVE  Tables'
<1> USE WatchAssumption, NoUserAssumption
<1>1. /\ q.user \in Users /\ q.email \in Emails /\ q.hash \in Hashes
      /\ q.plan.user = q.user /\ emails[q.email] = None /\ users[q.user] = None
  BY DEF AccountCarried, PlansOf, PlanRegister, When, Applying, FreshFor
<1> DEFINE new == [email |-> q.email, verified |-> FALSE]
<1>2. /\ users' = [users EXCEPT ![q.user] = new]
      /\ emails' = [emails EXCEPT ![q.email] = q.user]
      /\ passwords' = [passwords EXCEPT ![q.user] = q.hash]
      /\ UNCHANGED <<identities, google, credentials, passkeys, records, tokens>>
  BY <1>1 DEF DoRegister, NewUser
<1>3. new \in User /\ new # None /\ new.email = q.email
  <2>1. new \in User
    BY <1>1 DEF User
  <2> QED BY <2>1
<1> HIDE DEF new
<1>4. TablesOK'
  BY <1>1, <1>2, <1>3 DEF Tables, TablesOK
<1>5. NeverLockedOut'
  BY <1>1, <1>2, <1>3 DEF Tables, TablesOK, NeverLockedOut
<1>6. OneIdentityPerUser'
  BY <1>2 DEF Tables, OneIdentityPerUser
<1>7. IndexesAgree'
  <2>1. ASSUME NEW e \in Emails, NEW u \in Users
        PROVE  emails'[e] = u <=> (users'[u] # None /\ users'[u].email = e)
    <3>1. emails[e] = u <=> (users[u] # None /\ users[u].email = e)
      BY DEF Tables, IndexesAgree
    <3>2. emails'[e] = IF e = q.email THEN q.user ELSE emails[e]
      BY <1>1, <1>2 DEF Tables, TablesOK
    <3>3. users'[u] = IF u = q.user THEN new ELSE users[u]
      BY <1>1, <1>2 DEF Tables, TablesOK
    <3> QED BY <1>1, <1>3, <3>1, <3>2, <3>3
  <2> QED BY <1>2, <2>1 DEF Tables, IndexesAgree
<1>8. NoOrphans'
  BY <1>1, <1>2, <1>3 DEF Tables, TablesOK, NoOrphans
<1> QED BY <1>4, <1>5, <1>6, <1>7, <1>8 DEF Tables

\* Changes of the password keep the tables: Remove has seen another method.
LEMMA PasswordKeepsTables ==
    ASSUME Tables, NEW r \in Requests, NEW q \in Request, AccountCarried(q),
           q.plan \in PlansOf(r, q), q.method \in {"add", "replace", "remove"}, DoPassword(q)
    PROVE  Tables'
<1> USE WatchAssumption, NoUserAssumption
<1>1. /\ q.user \in Users /\ q.hash \in Hashes \cup {None}
      /\ passwords' = [passwords EXCEPT ![q.user] = q.hash]
      /\ UNCHANGED <<users, emails, identities, google, credentials, passkeys, records, tokens>>
  BY DEF AccountCarried, DoPassword
<1>2. q.hash = None => passkeys[q.user] # {} \/ google[q.user] # {}
  BY DEF AccountCarried, PlansOf, PlanRemove, When
<1>3. q.hash # None => users[q.user] # None
  <2>1. CASE q.method = "add"
    BY <2>1 DEF PlansOf, PlanAdd, When
  <2>2. CASE q.method = "replace"
    <3>1. passwords[q.user] = q.current /\ q.current \in Hashes
      BY <2>2 DEF AccountCarried, PlansOf, PlanReplace, When
    <3> QED BY <1>1, <3>1 DEF Tables, NoOrphans
  <2> QED BY <2>1, <2>2 DEF AccountCarried
<1>4. TablesOK'
  BY <1>1 DEF Tables, TablesOK
<1>5. NeverLockedOut'
  BY <1>1, <1>2 DEF Tables, TablesOK, NeverLockedOut
<1>6. OneIdentityPerUser' /\ IndexesAgree'
  BY <1>1 DEF Tables, OneIdentityPerUser, IndexesAgree
<1>7. NoOrphans'
  BY <1>1, <1>3 DEF Tables, TablesOK, NoOrphans
<1> QED BY <1>4, <1>5, <1>6, <1>7 DEF Tables

\* A mailed token replaces the one before it, in the record and in the lookup hash.
LEMMA IssueKeepsTables ==
    ASSUME Tables, NEW r \in Requests, NEW q \in Request, AccountCarried(q),
           q.plan \in PlansOf(r, q), q.method = "issue", DoIssue(q)
    PROVE  Tables'
<1> USE WatchAssumption
<1>1. /\ q.user \in Users /\ q.token \in MailTokens /\ q.kind \in Kinds
      /\ tokens[q.kind][q.token] \in {q.user, None}
      /\ q.plan.old = records[q.kind][q.user]
  BY DEF AccountCarried, PlansOf, PlanIssue, When, Applying, Request
<1>2. /\ UNCHANGED <<users, emails, passwords, identities, google, credentials, passkeys>>
      /\ records' = [records EXCEPT ![q.kind][q.user] = q.token]
  BY DEF DoIssue
<1>3. ASSUME NEW k \in Kinds
      PROVE  /\ records[k] \in [Users -> MailTokens \cup {None}]
             /\ tokens[k] \in [MailTokens -> Users \cup {None}]
  BY DEF Tables, TablesOK
<1> DEFINE kept == IF q.plan.old = None THEN tokens[q.kind]
                   ELSE [tokens[q.kind] EXCEPT ![q.plan.old] = None]
<1>4. /\ kept \in [MailTokens -> Users \cup {None}]
      /\ \A t \in MailTokens : kept[t] = IF t = q.plan.old THEN None ELSE tokens[q.kind][t]
  BY <1>1, <1>3
<1>5. tokens' = [tokens EXCEPT ![q.kind] = [kept EXCEPT ![q.token] = q.user]]
  BY DEF DoIssue
<1> HIDE DEF kept
<1>6. /\ \A k \in Kinds \ {q.kind} : tokens'[k] = tokens[k] /\ records'[k] = records[k]
      /\ tokens'[q.kind] = [kept EXCEPT ![q.token] = q.user]
      /\ records'[q.kind] = [records[q.kind] EXCEPT ![q.user] = q.token]
  BY <1>1, <1>2, <1>5 DEF Tables, TablesOK
<1>7. TablesOK'
  <2>1. /\ tokens'[q.kind] \in [MailTokens -> Users \cup {None}]
        /\ records'[q.kind] \in [Users -> MailTokens \cup {None}]
    BY <1>1, <1>3, <1>4, <1>6
  <2>2. records' \in [Kinds -> [Users -> MailTokens \cup {None}]]
    BY <1>1, <1>2, <1>3 DEF Tables, TablesOK
  <2>3. tokens' \in [Kinds -> [MailTokens -> Users \cup {None}]]
    BY <1>1, <1>5, <1>6, <2>1 DEF Tables, TablesOK
  <2> QED BY <1>2, <2>2, <2>3 DEF Tables, TablesOK
<1>8. IndexesAgree'
  <2>1. ASSUME NEW k \in Kinds, NEW t \in MailTokens, NEW u \in Users
        PROVE  tokens'[k][t] = u <=> records'[k][u] = t
    <3>1. \A v \in Users, s \in MailTokens : tokens[k][s] = v <=> records[k][v] = s
      BY DEF Tables, IndexesAgree
    <3>2. CASE k # q.kind
      BY <3>1, <3>2, <1>6
    <3>3. CASE k = q.kind
      <4>1. tokens'[k][t] = IF t = q.token THEN q.user ELSE kept[t]
        BY <3>3, <1>4, <1>6
      <4>2. records'[k][u] = IF u = q.user THEN q.token ELSE records[k][u]
        BY <3>3, <1>1, <1>3, <1>6
      <4> QED BY <3>1, <3>3, <4>1, <4>2, <1>1, <1>4
    <3> QED BY <3>2, <3>3
  <2> QED BY <1>2, <2>1 DEF Tables, IndexesAgree
<1>9. NeverLockedOut' /\ OneIdentityPerUser' /\ NoOrphans'
  BY <1>2 DEF Tables, NeverLockedOut, OneIdentityPerUser, NoOrphans
<1> QED BY <1>7, <1>8, <1>9 DEF Tables

\* A token that is spent leads nowhere, and its account has no token of that kind.
LEMMA SpendKeepsTokens ==
    ASSUME Tables, NEW r \in Requests, NEW q \in Request, AccountCarried(q),
           q.plan \in PlansOf(r, q), q.method \in {"verify", "reset"}, Spend(q)
    PROVE  /\ q.plan.user \in Users /\ users[q.plan.user] # None
           /\ records' \in [Kinds -> [Users -> MailTokens \cup {None}]]
           /\ tokens' \in [Kinds -> [MailTokens -> Users \cup {None}]]
           /\ \A k \in Kinds, t \in MailTokens, u \in Users :
                 tokens'[k][t] = u <=> records'[k][u] = t
<1> USE WatchAssumption
<1> DEFINE u == tokens[q.kind][q.token]
<1>1. q.kind \in Kinds /\ q.token \in MailTokens
  BY DEF AccountCarried, Request
<1>2. u \in Users \cup {None}
  BY <1>1 DEF Tables, TablesOK
<1>3. u # None /\ users[u] # None /\ q.plan = Applying(u, records[q.kind][u])
  BY DEF PlansOf, PlanMailed, When
<1>4. q.plan.user = u /\ q.plan.old = q.token
  BY <1>1, <1>2, <1>3 DEF Applying, Tables, IndexesAgree
<1>5. u \in Users
  BY <1>2, <1>3
<1> HIDE DEF u
<1>6. ASSUME NEW k \in Kinds
      PROVE  /\ records[k] \in [Users -> MailTokens \cup {None}]
             /\ tokens[k] \in [MailTokens -> Users \cup {None}]
             /\ \A t \in MailTokens, v \in Users : tokens[k][t] = v <=> records[k][v] = t
  BY DEF Tables, TablesOK, IndexesAgree
<1>7. /\ records' = [records EXCEPT ![q.kind][u] = None]
      /\ tokens' = [tokens EXCEPT ![q.kind][q.token] = None]
  BY <1>4 DEF Spend
<1>8. /\ records' \in [Kinds -> [Users -> MailTokens \cup {None}]]
      /\ tokens' \in [Kinds -> [MailTokens -> Users \cup {None}]]
  BY <1>1, <1>5, <1>7 DEF Tables, TablesOK
<1>9. ASSUME NEW k \in Kinds, NEW t \in MailTokens, NEW v \in Users
      PROVE  /\ tokens'[k][t] = IF k = q.kind /\ t = q.token THEN None ELSE tokens[k][t]
             /\ records'[k][v] = IF k = q.kind /\ v = u THEN None ELSE records[k][v]
  BY <1>1, <1>5, <1>7 DEF Tables, TablesOK
<1>10. tokens[q.kind][q.token] = u
  BY DEF u
<1>11. ASSUME NEW k \in Kinds, NEW t \in MailTokens, NEW v \in Users
       PROVE  tokens'[k][t] = v <=> records'[k][v] = t
  <2>1. /\ tokens[k][t] = v <=> records[k][v] = t
        /\ k = q.kind => (tokens[k][t] = u <=> records[k][u] = t)
        /\ k = q.kind => (tokens[k][q.token] = v <=> records[k][v] = q.token)
    BY <1>1, <1>5, <1>6
  <2> QED BY <1>5, <1>9, <1>10, <2>1
<1> QED BY <1>3, <1>4, <1>5, <1>8, <1>11

\* A mailed token that is used takes its lookup entry with it.
LEMMA MailedKeepsTables ==
    ASSUME Tables, NEW r \in Requests, NEW q \in Request, AccountCarried(q),
           q.plan \in PlansOf(r, q),
           \/ q.method = "verify" /\ DoVerify(q)
           \/ q.method = "reset" /\ DoReset(q)
    PROVE  Tables'
<1> USE WatchAssumption, NoUserAssumption
<1>1. Spend(q) /\ q.method \in {"verify", "reset"}
  BY DEF DoVerify, DoReset
<1>2. /\ q.plan.user \in Users /\ users[q.plan.user] # None
      /\ records' \in [Kinds -> [Users -> MailTokens \cup {None}]]
      /\ tokens' \in [Kinds -> [MailTokens -> Users \cup {None}]]
      /\ \A k \in Kinds, t \in MailTokens, u \in Users :
            tokens'[k][t] = u <=> records'[k][u] = t
  BY <1>1, SpendKeepsTokens
<1>3. UNCHANGED <<emails, identities, google, credentials, passkeys>>
  BY DEF DoVerify, DoReset
<1>4. CASE q.method = "verify"
  <2> DEFINE o == users[q.plan.user]
             n == [o EXCEPT !.verified = TRUE]
  <2>1. o \in User /\ o # None
    BY <1>2 DEF Tables, TablesOK
  <2>2. users' = [users EXCEPT ![q.plan.user] = n] /\ passwords' = passwords
    BY <1>4 DEF DoVerify
  <2>3. n \in User /\ n.email = o.email
    BY <2>1 DEF User
  <2> HIDE DEF n
  <2>4. ASSUME NEW u \in Users
        PROVE  /\ users'[u] # None <=> users[u] # None
               /\ users[u] # None => users'[u].email = users[u].email
    BY <1>2, <2>1, <2>2, <2>3 DEF Tables, TablesOK
  <2>5. users' \in [Users -> User \cup {None}]
    BY <1>2, <2>2, <2>3 DEF Tables, TablesOK
  <2>6. TablesOK'
    BY <1>2, <1>3, <2>2, <2>5 DEF Tables, TablesOK
  <2>7. NeverLockedOut' /\ OneIdentityPerUser' /\ NoOrphans'
    BY <1>3, <2>2, <2>4 DEF Tables, NeverLockedOut, OneIdentityPerUser, NoOrphans
  <2>8. IndexesAgree'
    BY <1>2, <1>3, <2>4 DEF Tables, IndexesAgree
  <2> QED BY <2>6, <2>7, <2>8 DEF Tables
<1>5. CASE q.method = "reset"
  <2>1. /\ passwords' = [passwords EXCEPT ![q.plan.user] = q.hash] /\ users' = users
        /\ q.hash \in Hashes
    BY <1>5 DEF DoReset, AccountCarried
  <2>2. TablesOK'
    BY <1>2, <1>3, <2>1 DEF Tables, TablesOK
  <2>3. ASSUME NEW u \in Users
        PROVE  passwords'[u] = IF u = q.plan.user THEN q.hash ELSE passwords[u]
    BY <1>2, <2>1 DEF Tables, TablesOK
  <2>4. NeverLockedOut' /\ OneIdentityPerUser' /\ NoOrphans'
    BY <1>2, <1>3, <2>1, <2>3 DEF Tables, NeverLockedOut, OneIdentityPerUser, NoOrphans
  <2>5. IndexesAgree'
    BY <1>2, <1>3, <2>1 DEF Tables, IndexesAgree
  <2> QED BY <2>2, <2>4, <2>5 DEF Tables
<1> QED BY <1>1, <1>4, <1>5

\* Resolve signs in, links, or adds an account with its identity.
LEMMA ResolveKeepsTables ==
    ASSUME Tables, NEW r \in Requests, NEW q \in Request, AccountCarried(q),
           q.plan \in PlansOf(r, q), q.method = "resolve", DoResolve(q)
    PROVE  Tables'
<1> USE WatchAssumption, NoUserAssumption
<1>1. q.identity \in Identities /\ q.email \in Emails /\ q.user \in Users \cup {None}
  BY DEF AccountCarried, Request
<1>2. q.plan \in PlanResolve(r, q)
  BY DEF PlansOf
<1>3. identities[q.identity] \in Users \cup {None}
  BY <1>1 DEF Tables, TablesOK
<1>4. UNCHANGED <<passwords, credentials, passkeys, records, tokens>>
  BY DEF DoResolve
<1>5. CASE identities[q.identity] # None
  <2>1. q.plan.do = "touch" /\ q.plan.user = identities[q.identity]
    BY <1>2, <1>5 DEF PlanResolve, When
  <2>2. UNCHANGED <<users, emails, google>>
    BY <2>1 DEF DoResolve
  <2>3. identities' = identities
    BY <1>1, <2>1 DEF DoResolve, Tables, TablesOK
  <2> QED BY <1>4, <2>2, <2>3 DEF Tables, TablesOK, NeverLockedOut, OneIdentityPerUser,
                                   IndexesAgree, NoOrphans
<1>6. CASE identities[q.identity] = None
  <2>1. PICK u \in Users : q.plan.user = u
    BY <1>1, <1>2, <1>6 DEF PlanResolve, When
  <2>2. /\ q.plan.do \in {"link", "create"}
        /\ q.plan.do = "link" => users[u] # None /\ google[u] = {}
        /\ q.plan.do = "create" => users[u] = None /\ emails[q.email] = None
    BY <1>2, <1>6, <2>1 DEF PlanResolve, When, FreshFor
  <2>3. google[u] = {}
    BY <2>2 DEF Tables, NoOrphans
  <2>4. /\ identities' = [identities EXCEPT ![q.identity] = u]
        /\ google' = [google EXCEPT ![u] = {q.identity}]
    BY <2>1, <2>2, <2>3 DEF DoResolve
  <2>5. ASSUME NEW v \in Users
        PROVE  google'[v] = IF v = u THEN {q.identity} ELSE google[v]
    BY <2>4 DEF Tables, TablesOK
  <2>6. ASSUME NEW p \in Identities
        PROVE  identities'[p] = IF p = q.identity THEN u ELSE identities[p]
    BY <2>4 DEF Tables, TablesOK
  <2>7. ASSUME NEW v \in Users
        PROVE  google'[v] = {p \in Identities : identities'[p] = v}
    <3>1. google[v] = {p \in Identities : identities[p] = v}
      BY DEF Tables, IndexesAgree
    <3>2. google[u] = {p \in Identities : identities[p] = u}
      BY DEF Tables, IndexesAgree
    <3> QED BY <1>1, <1>6, <2>3, <2>5, <2>6, <3>1, <3>2
  <2>8. /\ identities' \in [Identities -> Users \cup {None}]
        /\ google' \in [Users -> SUBSET Identities]
    BY <1>1, <2>4 DEF Tables, TablesOK
  <2>9. OneIdentityPerUser'
    BY <2>5 DEF Tables, OneIdentityPerUser
  <2>10. CASE q.plan.do = "link"
    <3>1. UNCHANGED <<users, emails>>
      BY <2>10 DEF DoResolve
    <3>2. TablesOK'
      BY <1>4, <2>8, <3>1 DEF Tables, TablesOK
    <3>3. NeverLockedOut'
      BY <1>4, <2>5, <3>1 DEF Tables, NeverLockedOut
    <3>4. NoOrphans'
      BY <1>4, <2>2, <2>5, <2>10, <3>1 DEF Tables, NoOrphans
    <3>5. IndexesAgree'
      BY <1>4, <2>7, <3>1 DEF Tables, IndexesAgree
    <3> QED BY <2>9, <3>2, <3>3, <3>4, <3>5 DEF Tables
  <2>11. CASE q.plan.do = "create"
    <3> DEFINE new == [email |-> q.email, verified |-> TRUE]
    <3>1. /\ users' = [users EXCEPT ![u] = new]
          /\ emails' = [emails EXCEPT ![q.email] = u]
      BY <2>1, <2>11 DEF DoResolve, NewUser
    <3>2. new \in User /\ new # None /\ new.email = q.email
      <4>1. new \in User
        BY <1>1 DEF User
      <4> QED BY <4>1
    <3> HIDE DEF new
    <3>3. TablesOK'
      BY <1>1, <1>4, <2>8, <3>1, <3>2 DEF Tables, TablesOK
    <3>4. ASSUME NEW v \in Users
          PROVE  users'[v] = IF v = u THEN new ELSE users[v]
      BY <3>1 DEF Tables, TablesOK
    <3>5. NeverLockedOut'
      BY <1>4, <2>5, <3>4 DEF Tables, NeverLockedOut
    <3>6. NoOrphans'
      BY <1>4, <2>5, <3>2, <3>4 DEF Tables, NoOrphans
    <3>7. ASSUME NEW e \in Emails, NEW v \in Users
          PROVE  emails'[e] = v <=> (users'[v] # None /\ users'[v].email = e)
      <4>1. emails[e] = v <=> (users[v] # None /\ users[v].email = e)
        BY DEF Tables, IndexesAgree
      <4>2. emails'[e] = IF e = q.email THEN u ELSE emails[e]
        BY <1>1, <3>1 DEF Tables, TablesOK
      <4> QED BY <2>2, <2>11, <3>2, <3>4, <4>1, <4>2
    <3>8. IndexesAgree'
      BY <1>4, <2>7, <3>7 DEF Tables, IndexesAgree
    <3> QED BY <2>9, <3>3, <3>5, <3>6, <3>8 DEF Tables
  <2> QED BY <2>2, <2>10, <2>11
<1> QED BY <1>5, <1>6

\* Unlink has seen another method than the identity it deletes.
LEMMA UnlinkKeepsTables ==
    ASSUME Tables, NEW r \in Requests, NEW q \in Request, AccountCarried(q),
           q.plan \in PlansOf(r, q), q.method = "unlink", DoUnlink(q)
    PROVE  Tables'
<1> USE WatchAssumption
<1>1. q.user \in Users
  BY DEF AccountCarried
<1>2. PICK p \in google[q.user] :
         /\ q.plan.old = p
         /\ users[q.user] # None /\ google[q.user] = {p} /\ identities[p] = q.user
         /\ passwords[q.user] # None \/ passkeys[q.user] # {}
  BY DEF PlansOf, PlanUnlink, Applying
<1>3. p \in Identities
  BY <1>1 DEF Tables, TablesOK
<1>4. /\ identities' = [identities EXCEPT ![p] = None]
      /\ google' = [google EXCEPT ![q.user] = {}]
      /\ UNCHANGED <<users, emails, passwords, credentials, passkeys, records, tokens>>
  BY <1>2 DEF DoUnlink
<1>5. TablesOK'
  BY <1>3, <1>4 DEF Tables, TablesOK
<1>6. ASSUME NEW v \in Users
      PROVE  google'[v] = IF v = q.user THEN {} ELSE google[v]
  BY <1>4 DEF Tables, TablesOK
<1>7. ASSUME NEW x \in Identities
      PROVE  identities'[x] = IF x = p THEN None ELSE identities[x]
  BY <1>4 DEF Tables, TablesOK
<1>8. ASSUME NEW v \in Users
      PROVE  google'[v] = {x \in Identities : identities'[x] = v}
  <2>1. google[v] = {x \in Identities : identities[x] = v}
    BY DEF Tables, IndexesAgree
  <2> QED BY <1>2, <1>3, <1>6, <1>7, <2>1
<1>9. IndexesAgree'
  BY <1>4, <1>8 DEF Tables, IndexesAgree
<1>10. NeverLockedOut' /\ OneIdentityPerUser' /\ NoOrphans'
  BY <1>2, <1>4, <1>6 DEF Tables, NeverLockedOut, OneIdentityPerUser, NoOrphans
<1> QED BY <1>5, <1>9, <1>10 DEF Tables

\* A passkey is added for, or used by, the account it belongs to.
LEMMA CredentialKeepsTables ==
    ASSUME Tables, NEW r \in Requests, NEW q \in Request, AccountCarried(q),
           q.plan \in PlansOf(r, q), q.method \in {"enrol", "use"}, DoCredential(q)
    PROVE  Tables'
<1> USE WatchAssumption
<1> DEFINE c == q.credential
<1>1. q.user \in Users /\ c \in Credentials
  BY DEF AccountCarried
<1>2. /\ credentials' = [credentials EXCEPT ![c] = q.user]
      /\ UNCHANGED <<users, emails, passwords, identities, google, records, tokens>>
  BY DEF DoCredential
<1>3. CASE q.method = "use"
  <2>1. credentials[c] = q.user
    BY <1>3 DEF PlansOf, PlanUse, When
  <2>2. credentials' = credentials /\ passkeys' = passkeys
    BY <1>2, <1>3, <2>1 DEF DoCredential, Tables, TablesOK
  <2>3. UNCHANGED db
    BY <1>2, <2>2 DEF db
  <2> QED BY <2>3 DEF db, Tables, TablesOK, NeverLockedOut, OneIdentityPerUser, IndexesAgree,
                      NoOrphans
<1>4. CASE q.method = "enrol"
  <2>1. /\ users[q.user] # None /\ credentials[c] = None
        /\ passkeys' = [passkeys EXCEPT ![q.user] = @ \cup {c}]
    BY <1>4 DEF PlansOf, PlanEnrol, When, DoCredential
  <2> HIDE DEF c
  <2>2. TablesOK'
    BY <1>1, <1>2, <2>1 DEF Tables, TablesOK
  <2>3. ASSUME NEW v \in Users
        PROVE  passkeys'[v] = IF v = q.user THEN passkeys[v] \cup {c} ELSE passkeys[v]
    BY <2>1 DEF Tables, TablesOK
  <2>4. ASSUME NEW x \in Credentials
        PROVE  credentials'[x] = IF x = c THEN q.user ELSE credentials[x]
    BY <1>2 DEF Tables, TablesOK
  <2>5. ASSUME NEW v \in Users
        PROVE  passkeys'[v] = {x \in Credentials : credentials'[x] = v}
    <3>1. passkeys[v] = {x \in Credentials : credentials[x] = v}
      BY DEF Tables, IndexesAgree
    <3>2. CASE v = q.user
      BY <1>1, <2>1, <2>3, <2>4, <3>1, <3>2
    <3>3. CASE v # q.user
      BY <1>1, <2>1, <2>3, <2>4, <3>1, <3>3
    <3> QED BY <3>2, <3>3
  <2>6. IndexesAgree'
    BY <1>2, <2>5 DEF Tables, IndexesAgree
  <2>7. NeverLockedOut' /\ OneIdentityPerUser' /\ NoOrphans'
    BY <1>2, <2>1, <2>3 DEF Tables, NeverLockedOut, OneIdentityPerUser, NoOrphans
  <2> QED BY <2>2, <2>6, <2>7 DEF Tables
<1> QED BY <1>3, <1>4

\* Delete has seen another method than the passkey it deletes.
LEMMA DeleteKeepsTables ==
    ASSUME Tables, NEW r \in Requests, NEW q \in Request, AccountCarried(q),
           q.plan \in PlansOf(r, q), q.method = "delete", DoDelete(q)
    PROVE  Tables'
<1> USE WatchAssumption
<1> DEFINE c == q.credential
<1>1. q.user \in Users /\ c \in Credentials
  BY DEF AccountCarried
<1>2. /\ credentials' = [credentials EXCEPT ![c] = None]
      /\ passkeys' = [passkeys EXCEPT ![q.user] = @ \ {c}]
      /\ UNCHANGED <<users, emails, passwords, identities, google, records, tokens>>
  BY DEF DoDelete
<1>3. /\ credentials[c] = q.user
      /\ passkeys[q.user] # {c} \/ passwords[q.user] # None \/ google[q.user] # {}
  BY DEF PlansOf, PlanDelete, When
<1> HIDE DEF c
<1>4. TablesOK'
  BY <1>1, <1>2 DEF Tables, TablesOK
<1>5. ASSUME NEW v \in Users
      PROVE  passkeys'[v] = IF v = q.user THEN passkeys[v] \ {c} ELSE passkeys[v]
  BY <1>2 DEF Tables, TablesOK
<1>6. ASSUME NEW x \in Credentials
      PROVE  credentials'[x] = IF x = c THEN None ELSE credentials[x]
  BY <1>2 DEF Tables, TablesOK
<1>7. ASSUME NEW v \in Users
      PROVE  passkeys'[v] = {x \in Credentials : credentials'[x] = v}
  <2>1. passkeys[v] = {x \in Credentials : credentials[x] = v}
    BY DEF Tables, IndexesAgree
  <2>2. CASE v = q.user
    <3>1. passkeys'[v] = passkeys[v] \ {c}
      BY <1>5, <2>2
    <3>2. ASSUME NEW x \in Credentials
          PROVE  credentials'[x] = v <=> credentials[x] = v /\ x # c
      BY <1>6, <2>2
    <3> QED BY <2>1, <3>1, <3>2
  <2>3. CASE v # q.user
    <3>1. passkeys'[v] = passkeys[v]
      BY <1>5, <2>3
    <3>2. ASSUME NEW x \in Credentials
          PROVE  credentials'[x] = v <=> credentials[x] = v
      BY <1>3, <1>6, <2>3
    <3> QED BY <2>1, <3>1, <3>2
  <2> QED BY <2>2, <2>3
<1>8. IndexesAgree'
  BY <1>2, <1>7 DEF Tables, IndexesAgree
<1>9. c \in passkeys[q.user]
  BY <1>1, <1>3 DEF Tables, IndexesAgree
<1>10. NeverLockedOut' /\ OneIdentityPerUser' /\ NoOrphans'
  BY <1>1, <1>2, <1>3, <1>5, <1>9 DEF Tables, NeverLockedOut, OneIdentityPerUser, NoOrphans
<1> QED BY <1>4, <1>8, <1>10 DEF Tables

\* So does every pipeline.
LEMMA PipelineKeepsTables ==
    ASSUME Tables, NEW r \in Requests, NEW q \in Request, AccountCarried(q),
           q.plan \in PlansOf(r, q), q.method = "register" => FreshFor(r, q.user), Pipeline(q)
    PROVE  Tables'
BY RegisterKeepsTables, PasswordKeepsTables, IssueKeepsTables, MailedKeepsTables,
   ResolveKeepsTables, UnlinkKeepsTables, CredentialKeepsTables, DeleteKeepsTables
   DEF Pipeline

-----------------------------------------------------------------------------
(***************************************************************************)
(* Accounts: an EXEC.  The transactions it does not mark are not affected. *)
(***************************************************************************)

\* A key that an EXEC does not write keeps its content.
Untouched(W) ==
    /\ Hash("users") \notin W => users' = users
    /\ Hash("emails") \notin W => emails' = emails
    /\ Hash("passwords") \notin W => passwords' = passwords
    /\ Hash("identities") \notin W => identities' = identities
    /\ Hash("credentials") \notin W => credentials' = credentials
    /\ \A k \in Kinds : Hash(k) \notin W => records'[k] = records[k] /\ tokens'[k] = tokens[k]
    /\ \A u \in Users : Google(u) \notin W => google'[u] = google[u]
    /\ \A u \in Users : Passkeys(u) \notin W => passkeys'[u] = passkeys[u]

\* A pipeline changes no key but those it lists.
LEMMA PipelineWrites ==
    ASSUME Tables, NEW q \in Request, Pipeline(q)
    PROVE  Untouched(Writes(q))
<1> USE DEF Writes, Untouched, Hash, Google, Passkeys, UsersKeys
<1>1. CASE q.method = "register" /\ DoRegister(q)
  BY <1>1 DEF DoRegister, NewUser
<1>2. CASE q.method \in {"add", "replace", "remove"} /\ DoPassword(q)
  BY <1>2 DEF DoPassword
<1>3. CASE q.method = "issue" /\ DoIssue(q)
  <2>1. \A k \in Kinds \ {q.kind} : records'[k] = records[k] /\ tokens'[k] = tokens[k]
    BY <1>3 DEF DoIssue, Tables, TablesOK
  <2>2. UNCHANGED <<users, emails, passwords, identities, google, credentials, passkeys>>
    BY <1>3 DEF DoIssue
  <2> QED BY <1>3, <2>1, <2>2
<1>4. CASE q.method = "verify" /\ DoVerify(q)
  <2>1. \A k \in Kinds \ {q.kind} : records'[k] = records[k] /\ tokens'[k] = tokens[k]
    BY <1>4 DEF DoVerify, Spend, Tables, TablesOK
  <2>2. UNCHANGED <<emails, passwords, identities, google, credentials, passkeys>>
    BY <1>4 DEF DoVerify
  <2> QED BY <1>4, <2>1, <2>2
<1>5. CASE q.method = "reset" /\ DoReset(q)
  <2>1. \A k \in Kinds \ {q.kind} : records'[k] = records[k] /\ tokens'[k] = tokens[k]
    BY <1>5 DEF DoReset, Spend, Tables, TablesOK
  <2>2. UNCHANGED <<users, emails, identities, google, credentials, passkeys>>
    BY <1>5 DEF DoReset
  <2> QED BY <1>5, <2>1, <2>2
<1>6. CASE q.method = "resolve" /\ DoResolve(q)
  <2>1. UNCHANGED <<passwords, credentials, passkeys, records, tokens>>
    BY <1>6 DEF DoResolve
  <2>2. q.plan.do # "create" => UNCHANGED <<users, emails>>
    BY <1>6 DEF DoResolve
  <2>3. \A u \in Users : q.plan.do = "touch" \/ u # q.plan.user => google'[u] = google[u]
    BY <1>6 DEF DoResolve, Tables, TablesOK
  <2> QED BY <1>6, <2>1, <2>2, <2>3
<1>7. CASE q.method = "unlink" /\ DoUnlink(q)
  <2>1. UNCHANGED <<users, emails, passwords, credentials, passkeys, records, tokens>>
    BY <1>7 DEF DoUnlink
  <2>2. \A u \in Users \ {q.user} : google'[u] = google[u]
    BY <1>7 DEF DoUnlink, Tables, TablesOK
  <2> QED BY <1>7, <2>1, <2>2
<1>8. CASE q.method \in {"enrol", "use"} /\ DoCredential(q)
  <2>1. UNCHANGED <<users, emails, passwords, identities, google, records, tokens>>
    BY <1>8 DEF DoCredential
  <2>2. \A u \in Users : q.method = "use" \/ u # q.user => passkeys'[u] = passkeys[u]
    BY <1>8 DEF DoCredential, Tables, TablesOK
  <2> QED BY <1>8, <2>1, <2>2
<1>9. CASE q.method = "delete" /\ DoDelete(q)
  <2>1. UNCHANGED <<users, emails, passwords, identities, google, records, tokens>>
    BY <1>9 DEF DoDelete
  <2>2. \A u \in Users \ {q.user} : passkeys'[u] = passkeys[u]
    BY <1>9 DEF DoDelete, Tables, TablesOK
  <2> QED BY <1>9, <2>1, <2>2
<1> QED BY <1>1, <1>2, <1>3, <1>4, <1>5, <1>6, <1>7, <1>8, <1>9 DEF Pipeline

\* The keys that a method watches hold everything its decision rests on.
LEMMA WatchedSuffices ==
    ASSUME Tables, NEW x \in Requests, NEW p \in Request, AccountCarried(p),
           NEW W, Untouched(W), Watches(p) \cap W = {},
           p.plan \in PlansOf(x, p),
           p.method = "resolve" /\ FreshFor(x, p.plan.user) => FreshFor(x, p.plan.user)'
    PROVE  p.plan \in PlansOf(x, p)'
<1> USE DEF Watches, WatchesOf, Untouched, UsersKeys, When, Applying
<1>1. p.method \in Methods /\ p.user \in Users \cup {None} /\ p.kind \in Kinds
  BY DEF Request
<1>2. CASE p.method = "register"
  BY <1>2 DEF PlansOf, PlanRegister
<1>3. CASE p.method = "add"
  BY <1>3 DEF PlansOf, PlanAdd
<1>4. CASE p.method = "replace"
  BY <1>4 DEF PlansOf, PlanReplace
<1>5. CASE p.method = "remove"
  BY <1>5 DEF PlansOf, PlanRemove, AccountCarried
<1>6. CASE p.method = "issue"
  BY <1>1, <1>6 DEF PlansOf, PlanIssue
<1>7. CASE p.method \in {"verify", "reset"}
  BY <1>1, <1>7 DEF PlansOf, PlanMailed
<1>8. CASE p.method = "resolve"
  <2>1. UNCHANGED <<users, emails, identities>> /\ (p.user # None => google'[p.user] = google[p.user])
    BY <1>1, <1>8
  <2>2. p.plan \in PlanResolve(x, p)
    BY <1>8 DEF PlansOf
  <2>3. p.plan \in PlanResolve(x, p)'
    BY <1>8, <2>1, <2>2 DEF PlanResolve
  <2> QED BY <1>8, <2>3 DEF PlansOf
<1>9. CASE p.method = "unlink"
  BY <1>9 DEF PlansOf, PlanUnlink, AccountCarried
<1>10. CASE p.method = "enrol"
  BY <1>10 DEF PlansOf, PlanEnrol
<1>11. CASE p.method = "use"
  BY <1>11 DEF PlansOf, PlanUse
<1>12. CASE p.method = "delete"
  BY <1>12 DEF PlansOf, PlanDelete, AccountCarried
<1> QED BY <1>1, <1>2, <1>3, <1>4, <1>5, <1>6, <1>7, <1>8, <1>9, <1>10, <1>11, <1>12 DEF Methods

\* No EXEC creates an account that another registration or sign-in holds for new.
LEMMA FreshKept ==
    ASSUME AccountsInv, NEW r \in Requests, NEW q \in Request, q = req[r], Pipeline(q),
           AccountCarried(q), q.plan \in PlansOf(r, q),
           NEW x \in Requests, x # r, NEW u \in Users, FreshFor(x, u)
    PROVE  users'[u] = None
<1>1. q.user # u /\ users[u] = None /\ (q.plan # None => q.plan.user # u)
  BY DEF FreshFor
<1>2. q.plan \in Plan
  BY PlansTyped DEF AccountsInv, Tables
<1>3. q.plan.user # u /\ q.plan.user \in Users
  BY <1>1, <1>2, NoPlanAssumption DEF Plan
<1>4. CASE users' = users
  BY <1>1, <1>4
<1>5. ASSUME NEW row, users' = [users EXCEPT ![q.plan.user] = row]
      PROVE  users'[u] = None
  BY <1>1, <1>3, <1>5 DEF AccountsInv, Tables, TablesOK
<1> QED BY <1>4, <1>5 DEF Pipeline, DoRegister, NewUser, DoPassword, DoIssue, DoVerify, DoReset,
            DoResolve, DoUnlink, DoCredential, DoDelete

\* EXEC of an unmarked request: its decision is right for the hashes as they are.
LEMMA AccountsCommit ==
    ASSUME AccountsInv, NEW r \in Requests, req[r].pc = "exec", ~req[r].dirty, Exec(r)
    PROVE  AccountsInv'
<1> PICK q \in Request : q = req[r]
  BY DEF AccountsInv
<1>1. /\ Pipeline(q)
      /\ req' = [x \in Requests |->
                    IF x = r THEN Idle
                    ELSE IF /\ req[x].pc \in {"read", "exec"}
                            /\ Watches(req[x]) \cap Writes(q) # {}
                      THEN [req[x] EXCEPT !.dirty = TRUE, !.plan = None] ELSE req[x]]
  BY DEF Exec
<1>2. AccountRelies(r, q)
  BY DEF AccountsInv
<1>3. AccountCarried(q) /\ q.plan \in PlansOf(r, q) /\ (q.method = "register" => FreshFor(r, q.user))
  BY <1>2 DEF AccountRelies
<1>4. Tables'
  BY <1>1, <1>3, PipelineKeepsTables DEF AccountsInv
<1>5. Untouched(Writes(q))
  BY <1>1, PipelineWrites DEF AccountsInv
<1>6. req'[r] = Idle
  BY <1>1
<1>7. ASSUME NEW x \in Requests, x # r, NEW p \in Request, p = req[x]
      PROVE  \/ /\ req'[x] = p
                /\ p.pc \in {"read", "exec"} => Watches(p) \cap Writes(q) = {}
             \/ req'[x] = [p EXCEPT !.dirty = TRUE, !.plan = None]
  BY <1>1, <1>7
<1>8. ASSUME NEW p \in Request
      PROVE  LET d == [p EXCEPT !.dirty = TRUE, !.plan = None] IN
             /\ d \in Request /\ d.dirty /\ d.plan = None /\ d.pc = p.pc /\ d.method = p.method
             /\ d.user = p.user
             /\ AccountCarried(p) => AccountCarried(d)
  BY ZenonT(40) DEF Request, AccountCarried
<1>9. ASSUME NEW x \in Requests
      PROVE  /\ req'[x] \in Request
             /\ req'[x].user \in {None, req[x].user}
             /\ req'[x].plan \in {None, req[x].plan}
  <2>1. CASE x = r
    BY <1>6, <2>1, IdleRequest DEF Idle
  <2>2. CASE x # r
    <3> PICK p \in Request : p = req[x]
      BY DEF AccountsInv
    <3> QED BY <1>7, <1>8, <2>2
  <2> QED BY <2>1, <2>2
<1>10. req' \in [Requests -> Request]
  BY <1>1, <1>9
<1>11. ASSUME NEW x \in Requests, x # r, NEW u \in Users, FreshFor(x, u)
       PROVE  FreshFor(x, u)'
  <2>1. users'[u] = None
    BY <1>1, <1>3, <1>11, FreshKept
  <2>2. ASSUME NEW y \in Requests \ {x}
        PROVE  req'[y].user # u /\ (req'[y].plan # None => req'[y].plan.user # u)
    BY <1>9, <1>11, <2>2, WatchAssumption DEF FreshFor
  <2> QED BY <2>1, <2>2 DEF FreshFor
<1>12. ASSUME NEW x \in Requests
       PROVE  AccountRelies(x, req[x])'
  <2>1. CASE x = r
    BY <1>6, <2>1 DEF AccountRelies, Idle
  <2>2. CASE x # r
    <3> PICK p \in Request : p = req[x]
      BY DEF AccountsInv
    <3>1. AccountRelies(x, p)
      BY DEF AccountsInv
    <3>2. p.pc # "idle" /\ p.method = "register" => FreshFor(x, p.user)'
      BY <1>11, <2>2, <3>1 DEF AccountRelies, AccountCarried
    <3>3. CASE req'[x] = [p EXCEPT !.dirty = TRUE, !.plan = None]
      <4> DEFINE d == [p EXCEPT !.dirty = TRUE, !.plan = None]
      <4>1. /\ d.dirty /\ d.pc = p.pc /\ d.method = p.method /\ d.user = p.user
            /\ AccountCarried(p) => AccountCarried(d)
        BY <1>8
      <4>2. req'[x] = d
        BY <3>3
      <4> HIDE DEF d
      <4>3. AccountRelies(x, d)'
        BY <3>1, <3>2, <4>1 DEF AccountRelies, AccountCarried
      <4> QED BY <4>2, <4>3
    <3>4. CASE /\ req'[x] = p
               /\ p.pc \in {"read", "exec"} => Watches(p) \cap Writes(q) = {}
      <4>1. ASSUME p.pc = "exec", ~p.dirty
            PROVE  p.plan \in PlansOf(x, p)'
        <5>1. AccountCarried(p) /\ p.plan \in PlansOf(x, p)
          BY <3>1, <4>1 DEF AccountRelies
        <5>2. p.plan \in Plan
          BY <5>1, PlansTyped DEF AccountsInv, Tables
        <5>3. p.plan.user \in Users
          BY <5>2 DEF Plan
        <5>4. FreshFor(x, p.plan.user) => FreshFor(x, p.plan.user)'
          BY <1>11, <2>2, <5>3
        <5> DEFINE W == Writes(q)
        <5>5. Untouched(W) /\ Watches(p) \cap W = {}
          BY <1>5, <3>4, <4>1
        <5> HIDE DEF W
        <5> QED BY <5>1, <5>4, <5>5, WatchedSuffices DEF AccountsInv
      <4>2. AccountRelies(x, p)'
        BY <3>1, <3>2, <4>1 DEF AccountRelies, AccountCarried
      <4> QED BY <3>4, <4>2
    <3> QED BY <1>7, <2>2, <3>3, <3>4
  <2> QED BY <2>1, <2>2
<1> QED BY <1>4, <1>10, <1>12 DEF AccountsInv

\* The invariant holds of empty hashes.
LEMMA AccountsStart == Init => AccountsInv
<1> SUFFICES ASSUME Init PROVE AccountsInv
  OBVIOUS
<1> USE WatchAssumption DEF Init
<1>1. TablesOK
  BY DEF TablesOK, Kinds
<1>2. NeverLockedOut /\ OneIdentityPerUser /\ NoOrphans
  BY DEF NeverLockedOut, OneIdentityPerUser, NoOrphans
<1>3. IndexesAgree
  BY DEF IndexesAgree
<1>4. \A r \in Requests : req[r] = Idle /\ Idle.pc = "idle"
  BY DEF Idle
<1>5. req \in [Requests -> Request]
  BY IdleRequest
<1> QED BY <1>1, <1>2, <1>3, <1>4, <1>5 DEF AccountsInv, Tables, AccountRelies

\* Every step keeps it.
LEMMA AccountsNext ==
    ASSUME AccountsInv, Next
    PROVE  AccountsInv'
<1> PICK r \in Requests :
        \/ PasswordCalls(r) \/ MailCalls(r) \/ IdentityCalls(r)
        \/ Watch(r) \/ Read(r) \/ Exec(r) \/ Fail(r)
  BY DEF Next
<1>1. CASE Exec(r)
  <2>1. CASE req[r].dirty
    BY <1>1, <2>1, AccountsRetry DEF Exec
  <2>2. CASE ~req[r].dirty
    BY <1>1, <2>2, AccountsCommit DEF Exec
  <2> QED BY <2>1, <2>2
<1>2. CASE Fail(r)
  BY <1>2, AccountsIdle DEF Fail
<1> QED BY <1>1, <1>2, AccountsPasswordCalls, AccountsMailCalls, AccountsIdentityCalls,
           AccountsWatch, AccountsRead

\* Nothing happens.
LEMMA AccountsStutter ==
    ASSUME AccountsInv, UNCHANGED vars
    PROVE  AccountsInv'
<1>1. Tables' /\ req' \in [Requests -> Request]
  BY DEF vars, AccountsInv, Tables, TablesOK, NeverLockedOut, OneIdentityPerUser, IndexesAgree,
         NoOrphans
<1>2. ASSUME NEW r \in Requests PROVE AccountRelies(r, req[r])'
  <2> PICK q \in Request : q = req[r]
    BY DEF AccountsInv
  <2>1. req'[r] = q /\ AccountRelies(r, q)
    BY DEF vars, AccountsInv
  <2>2. PlansOf(r, q)' = PlansOf(r, q) /\ FreshFor(r, q.user)' = FreshFor(r, q.user)
    BY DEF vars, FreshFor, PlansOf, PlanRegister, PlanAdd, PlanReplace, PlanRemove, PlanIssue,
         PlanMailed, PlanResolve, PlanUnlink, PlanEnrol, PlanUse, PlanDelete
  <2> QED BY <2>1, <2>2 DEF AccountRelies, AccountCarried
<1> QED BY <1>1, <1>2 DEF AccountsInv

\* The account stores keep their invariant, whatever calls race.
THEOREM AccountsInvariant == AdapterSpec => []AccountsInv
<1>1. AdapterInit => AccountsInv
  BY AccountsStart DEF AdapterInit
<1>2. AccountsInv /\ [AdapterNext]_<<vars, cookieVars, bearerVars, totpVars>> => AccountsInv'
  BY AccountsNext, AccountsStutter DEF AdapterNext
<1> QED BY <1>1, <1>2, PTL DEF AdapterSpec

\* RedisAccounts: what an EXEC writes is what the method would decide from the state it
\* writes to.
THEOREM AccountDecisionsHold == AdapterSpec => DecisionsStillHold
<1> DEFINE Holds == \A r \in Requests :
               req[r].pc = "exec" /\ db' # db /\ req'[r] = Idle => req[r].plan \in Plans(r)
<1>1. ASSUME AccountsInv, Next PROVE Holds
  <2> SUFFICES ASSUME NEW r \in Requests, req[r].pc = "exec", db' # db, req'[r] = Idle
               PROVE  req[r].plan \in Plans(r)
    OBVIOUS
  <2>1. PICK x \in Requests : Exec(x) /\ ~req[x].dirty
    <3> PICK x \in Requests :
           \/ PasswordCalls(x) \/ MailCalls(x) \/ IdentityCalls(x)
           \/ Watch(x) \/ Read(x) \/ Exec(x) \/ Fail(x)
      BY <1>1 DEF Next
    <3>1. PasswordCalls(x) => UNCHANGED db
      BY DEF PasswordCalls, Register, AddPassword, ReplacePasswordHash, RemovePassword, Begin
    <3>2. MailCalls(x) => UNCHANGED db
      BY DEF MailCalls, Issue, Verify, ResetPassword, Begin
    <3>3. IdentityCalls(x) => UNCHANGED db
      BY DEF IdentityCalls, ResolveIdentity, UnlinkIdentity, CompleteRegistration,
             CompleteAuthentication, DeleteCredential, Begin
    <3>4. Watch(x) \/ Read(x) \/ Fail(x) => UNCHANGED db
      BY DEF Watch, Read, Fail
    <3>5. Exec(x) /\ req[x].dirty => UNCHANGED db
      BY DEF Exec
    <3> QED BY <3>1, <3>2, <3>3, <3>4, <3>5
  <2>2. CASE x # r
    <3> PICK p \in Request : p = req[r]
      BY <1>1 DEF AccountsInv
    <3>1. req'[r] \in {p, [p EXCEPT !.dirty = TRUE, !.plan = None]}
      BY <2>1, <2>2 DEF Exec
    <3>2. p.pc = "exec" /\ [p EXCEPT !.dirty = TRUE, !.plan = None].pc = "exec"
      BY DEF Request
    <3>3. Idle.pc = "idle"
      BY DEF Idle
    <3> QED BY <3>1, <3>2, <3>3
  <2>3. CASE x = r
    BY <1>1, <2>1, <2>3, PlansAreOf DEF AccountsInv, AccountRelies
  <2> QED BY <2>2, <2>3
<1>2. ASSUME UNCHANGED vars PROVE Holds
  BY <1>2 DEF vars, db
<1>3. AccountsInv /\ [AdapterNext]_<<vars, cookieVars, bearerVars, totpVars>> => [Holds]_vars
  BY <1>1, <1>2 DEF AdapterNext
<1> QED BY <1>3, AccountsInvariant, PTL DEF AdapterSpec, DecisionsStillHold

-----------------------------------------------------------------------------
(***************************************************************************)
(* Second factors and redirect states: the inductive invariant.            *)
(***************************************************************************)

\* What a call of totp.Manager or of a federated sign-in brings.
TotpCarried(c) ==
    /\ c.method \in {"beginEnrollment", "enable", "disable", "createChallenge", "completeCode",
                     "completeRecovery", "createFlow", "consumeFlow"}
    /\ c.method \in {"beginEnrollment", "enable", "disable", "createChallenge"} =>
          c.user \in Users
    /\ c.method = "beginEnrollment" => c.secret \in Secrets
    /\ c.method \in {"enable", "completeCode"} => c.counter \in Nat
    /\ c.method \in {"enable", "completeRecovery"} => c.code \in RecoveryCodes
    /\ c.method \notin {"disable", "consumeFlow"} => c.at \in Nat
    /\ c.method \in {"createFlow", "consumeFlow"} => c.hash \in Totp!FlowHashes

\* A transaction that is clean when it gets to EXEC would decide the same again.
TotpRelies(q) ==
    /\ q = [pc |-> q.pc, call |-> q.call, out |-> q.out, dirty |-> q.dirty, tries |-> q.tries]
    /\ q.pc \in {"idle", "send", "watch", "read", "exec"} /\ q.dirty \in BOOLEAN
    /\ q.tries \in 0..(WatchAttempts - 1)
    /\ q.pc # "idle" =>
          TotpCarried(q.call) /\ (q.call.method \in Totp!Commands <=> q.pc = "send")
    /\ q.pc = "exec" /\ ~q.dirty =>
          q.out = Totp!Decision(q.call) /\ q.out.answer = "ok"

TotpInv ==
    /\ \A f \in DOMAIN fields : fields[f] \in Totp!Values(f[1])
    /\ totpNow \in 0..MaxTime
    /\ Totp!RecoverySound
    /\ totpReq = [r \in Requests |-> totpReq[r]]
    /\ \A r \in Requests : TotpRelies(totpReq[r])

-----------------------------------------------------------------------------
(***************************************************************************)
(* Second factors: fields, keys and values.                                *)
(***************************************************************************)

\* Fields of different kinds are different.
LEMMA FieldsApart ==
    ASSUME NEW u, NEW v, NEW k, NEW j, NEW h
    PROVE  /\ Totp!Totp(u) # Totp!Recovery(v, k) /\ Totp!Totp(u) # Totp!RecoverySet(v)
           /\ Totp!Totp(u) # Totp!Enrollment(v) /\ Totp!Totp(u) # Totp!Challenge(h)
           /\ Totp!Recovery(u, k) # Totp!RecoverySet(v)
           /\ Totp!Recovery(u, k) # Totp!Enrollment(v)
           /\ Totp!Recovery(u, k) # Totp!Challenge(h)
           /\ Totp!RecoverySet(u) # Totp!Enrollment(v)
           /\ Totp!RecoverySet(u) # Totp!Challenge(h)
           /\ Totp!Totp(u) = Totp!Totp(v) <=> u = v
           /\ Totp!RecoverySet(u) = Totp!RecoverySet(v) <=> u = v
           /\ Totp!Recovery(u, k) = Totp!Recovery(v, j) <=> u = v /\ k = j
BY DEF Totp!Totp, Totp!Recovery, Totp!RecoverySet, Totp!Enrollment, Totp!Challenge

\* The fields of redirect flows are none of a second factor's.
LEMMA FlowsApart ==
    ASSUME NEW hash \in Totp!FlowHashes, NEW h, NEW u, NEW k
    PROVE  /\ Totp!Flow(hash, h) # Totp!Totp(u) /\ Totp!Flow(hash, h) # Totp!RecoverySet(u)
           /\ Totp!Flow(hash, h) # Totp!Recovery(u, k)
BY DEF Totp!Totp, Totp!Recovery, Totp!RecoverySet, Totp!Flow, Totp!FlowHashes

\* The key that WATCH names for each field.
LEMMA FieldKeys ==
    ASSUME NEW u, NEW k, NEW h
    PROVE  /\ Totp!KeyOf(Totp!Totp(u)) = Totp!Hash("totp-credentials")
           /\ Totp!KeyOf(Totp!Recovery(u, k)) = Totp!Hash("totp-recovery-codes")
           /\ Totp!KeyOf(Totp!RecoverySet(u)) = Totp!RecoverySet(u)
           /\ Totp!KeyOf(Totp!Enrollment(u)) = Totp!Hash("totp-enrollments")
           /\ Totp!KeyOf(Totp!Challenge(h)) = Totp!Hash("totp-challenges")
           /\ \A hash \in Totp!FlowHashes : Totp!KeyOf(Totp!Flow(hash, h)) = Totp!Hash(hash)
BY DEF Totp!Totp, Totp!Recovery, Totp!RecoverySet, Totp!Enrollment, Totp!Challenge, Totp!Flow,
       Totp!FlowHashes, Totp!KeyOf, Totp!Hash

\* What each field holds.
LEMMA FieldValues ==
    ASSUME NEW u, NEW k, NEW h
    PROVE  /\ Totp!Values(Totp!Totp(u)[1]) = [secret: Secrets, last: Nat, disabled: BOOLEAN]
           /\ Totp!Values(Totp!Recovery(u, k)[1]) = {"unused", "used"}
           /\ Totp!Values(Totp!RecoverySet(u)[1]) = (SUBSET RecoveryCodes) \ {{}}
           /\ Totp!Values(Totp!Enrollment(u)[1]) = [secret: Secrets, expires: Nat]
           /\ Totp!Values(Totp!Challenge(h)[1]) = [user: Users, expires: Nat]
           /\ \A hash \in Totp!FlowHashes : Totp!Values(Totp!Flow(hash, h)[1]) = Nat
<1>1. /\ Totp!Totp(u)[1] = "totp-credentials" /\ Totp!Recovery(u, k)[1] = "totp-recovery-codes"
      /\ Totp!RecoverySet(u)[1] = "totp:recovery" /\ Totp!Enrollment(u)[1] = "totp-enrollments"
      /\ Totp!Challenge(h)[1] = "totp-challenges"
      /\ \A hash \in Totp!FlowHashes : Totp!Flow(hash, h)[1] = hash
  BY DEF Totp!Totp, Totp!Recovery, Totp!RecoverySet, Totp!Enrollment, Totp!Challenge, Totp!Flow
<1>2. /\ Totp!Values("totp-credentials") = [secret: Secrets, last: Nat, disabled: BOOLEAN]
      /\ Totp!Values("totp-recovery-codes") = {"unused", "used"}
      /\ Totp!Values("totp:recovery") = (SUBSET RecoveryCodes) \ {{}}
      /\ Totp!Values("totp-enrollments") = [secret: Secrets, expires: Nat]
      /\ Totp!Values("totp-challenges") = [user: Users, expires: Nat]
  BY DEF Totp!Values, Totp!FlowHashes
<1>3. \A hash \in Totp!FlowHashes : Totp!Values(hash) = Nat
  BY DEF Totp!Values, Totp!FlowHashes
<1> QED BY <1>1, <1>2, <1>3

\* A value that is written is none that stands for a deletion.
LEMMA ValuesAreSome ==
    /\ None \notin [secret: Secrets, last: Nat, disabled: BOOLEAN]
    /\ None # "unused" /\ None # "used"
    /\ None \notin [secret: Secrets, expires: Nat]
    /\ None \notin [user: Users, expires: Nat]
    /\ None \notin Nat
    /\ \A k \in RecoveryCodes : None # {k}
<1>1. /\ Totp!Values("totp-credentials") = [secret: Secrets, last: Nat, disabled: BOOLEAN]
      /\ Totp!Values("totp-recovery-codes") = {"unused", "used"}
      /\ Totp!Values("totp-enrollments") = [secret: Secrets, expires: Nat]
      /\ Totp!Values("totp-challenges") = [user: Users, expires: Nat]
      /\ Totp!Values("oidc-challenges") = Nat
  BY DEF Totp!Values, Totp!FlowHashes
<1>2. "oidc-challenges" \in Totp!FlowHashes
  BY DEF Totp!FlowHashes
<1> QED BY <1>1, <1>2, NoFieldAssumption

-----------------------------------------------------------------------------
(***************************************************************************)
(* Second factors: the steps that write nothing.                           *)
(***************************************************************************)

\* A free slot relies on nothing.
LEMMA TotpIdle == TotpRelies(Totp!Idle) /\ Totp!Idle.pc = "idle"
BY WatchAssumption DEF TotpRelies, Totp!Idle

\* A decision depends on the fields alone.
LEMMA DecisionKept ==
    ASSUME NEW c, UNCHANGED fields
    PROVE  Totp!Decision(c)' = Totp!Decision(c)
BY DEF Totp!Decision, Totp!BeginEnrollment, Totp!Enable, Totp!Disable, Totp!CreateChallenge,
       Totp!CompleteCode, Totp!CompleteRecovery, Totp!CreateFlow, Totp!ConsumeFlow, Totp!Usable,
       Totp!IsEnabled, Totp!Exists, Totp!RecoveryOf, Totp!Listed

\* What a request relies on is about the fields.
LEMMA ReliesKept ==
    ASSUME NEW q, TotpRelies(q), UNCHANGED fields
    PROVE  TotpRelies(q)'
<1>1. Totp!Decision(q.call)' = Totp!Decision(q.call)
  BY DecisionKept
<1> QED BY <1>1 DEF TotpRelies, TotpCarried

\* So is the soundness of the sets of recovery codes.
LEMMA RecoveryKept ==
    ASSUME Totp!RecoverySound, UNCHANGED fields
    PROVE  Totp!RecoverySound'
BY DEF Totp!RecoverySound, Totp!Exists, Totp!Listed, Totp!IsEnabled

\* Changing one request keeps the invariant if the new one relies on what holds.
LEMMA TotpQuietStep ==
    ASSUME TotpInv, UNCHANGED fields, totpNow' \in 0..MaxTime, NEW r \in Requests, NEW q,
           totpReq' = [totpReq EXCEPT ![r] = q], TotpRelies(q)
    PROVE  TotpInv'
<1>1. /\ totpReq' = [x \in Requests |-> totpReq'[x]] /\ totpReq'[r] = q
      /\ \A x \in Requests \ {r} : totpReq'[x] = totpReq[x]
  BY DEF TotpInv
<1>2. ASSUME NEW x \in Requests PROVE TotpRelies(totpReq[x])'
  <2> PICK p : p = totpReq'[x]
    OBVIOUS
  <2>1. TotpRelies(p)
    BY <1>1 DEF TotpInv
  <2>2. TotpRelies(p)'
    BY <2>1, ReliesKept
  <2> QED BY <2>2
<1>3. Totp!RecoverySound'
  BY RecoveryKept DEF TotpInv
<1> QED BY <1>1, <1>2, <1>3 DEF TotpInv

\* A call begins a request and writes nothing.
LEMMA TotpCall ==
    ASSUME TotpInv, NEW r \in Requests, NEW call, Totp!Call(r, call), TotpCarried(call)
    PROVE  TotpInv'
<1> PICK pc : pc = IF call.method \in Totp!Commands THEN "send" ELSE "watch"
  OBVIOUS
<1> PICK q : q = [Totp!Idle EXCEPT !.pc = pc, !.call = call]
  OBVIOUS
<1>1. /\ q = [pc |-> q.pc, call |-> q.call, out |-> q.out, dirty |-> q.dirty, tries |-> q.tries]
      /\ q.pc = pc /\ q.call = call /\ q.dirty = FALSE /\ q.tries = 0
  BY DEF Totp!Idle
<1>2. TotpRelies(q)
  <2>1. pc \in {"send", "watch"} /\ (call.method \in Totp!Commands <=> pc = "send")
    OBVIOUS
  <2>2. q.tries \in 0..(WatchAttempts - 1)
    BY <1>1, WatchAssumption
  <2>3. q.pc \in {"idle", "send", "watch", "read", "exec"} /\ q.pc # "exec"
    BY <1>1, <2>1
  <2>4. TotpCarried(q.call) /\ (q.call.method \in Totp!Commands <=> q.pc = "send")
    BY <1>1, <2>1
  <2> QED BY <1>1, <2>2, <2>3, <2>4 DEF TotpRelies
<1>3. UNCHANGED <<fields, totpNow>> /\ totpReq' = [totpReq EXCEPT ![r] = q]
  BY DEF Totp!Call
<1> QED BY <1>2, <1>3, TotpQuietStep DEF TotpInv

\* So does every call there is.
LEMMA TotpCalls ==
    ASSUME TotpInv, NEW r \in Requests, Totp!TotpCalls(r) \/ Totp!FlowCalls(r)
    PROVE  TotpInv'
<1>1. totpNow \in Nat /\ \A n \in Totp!Counters : n \in Nat
  BY LifetimesAssumption DEF TotpInv, Totp!Counters
<1>2. ASSUME NEW call, Totp!Call(r, call), TotpCarried(call) PROVE TotpInv'
  BY <1>2, TotpCall
<1> HIDE DEF TotpInv
<1>3. ASSUME NEW u \in Users, NEW k \in Secrets,
             Totp!Call(r, [method |-> "beginEnrollment", user |-> u, secret |-> k, at |-> totpNow])
      PROVE  TotpInv'
  BY <1>1, <1>2, <1>3 DEF TotpCarried
<1>4. ASSUME NEW u \in Users, NEW n \in Totp!Counters, NEW k \in RecoveryCodes,
             Totp!Call(r, [method |-> "enable", user |-> u, counter |-> n, code |-> k,
                           at |-> totpNow])
      PROVE  TotpInv'
  BY <1>1, <1>2, <1>4 DEF TotpCarried
<1>5. ASSUME NEW u \in Users, Totp!Call(r, [method |-> "disable", user |-> u])
      PROVE  TotpInv'
  BY <1>1, <1>2, <1>5 DEF TotpCarried
<1>6. ASSUME NEW u \in Users, NEW h \in Challenges,
             Totp!Call(r, [method |-> "createChallenge", token |-> h, user |-> u, at |-> totpNow])
      PROVE  TotpInv'
  BY <1>1, <1>2, <1>6 DEF TotpCarried
<1>7. ASSUME NEW h \in Challenges, NEW n \in Totp!Counters,
             Totp!Call(r, [method |-> "completeCode", token |-> h, counter |-> n, at |-> totpNow])
      PROVE  TotpInv'
  BY <1>1, <1>2, <1>7 DEF TotpCarried
<1>8. ASSUME NEW h \in Challenges, NEW k \in RecoveryCodes,
             Totp!Call(r, [method |-> "completeRecovery", token |-> h, code |-> k,
                           at |-> totpNow])
      PROVE  TotpInv'
  BY <1>1, <1>2, <1>8 DEF TotpCarried
<1>9. ASSUME NEW hash \in Totp!FlowHashes, NEW h \in States,
             \/ Totp!Call(r, [method |-> "createFlow", hash |-> hash, token |-> h, at |-> totpNow])
             \/ Totp!Call(r, [method |-> "consumeFlow", hash |-> hash, token |-> h])
      PROVE  TotpInv'
  BY <1>1, <1>2, <1>9 DEF TotpCarried
<1>10. CASE Totp!TotpCalls(r)
  BY <1>10, <1>3, <1>4, <1>5, <1>6, <1>7, <1>8 DEF Totp!TotpCalls
<1>11. CASE Totp!FlowCalls(r)
  BY <1>11, <1>9 DEF Totp!FlowCalls
<1> QED BY <1>10, <1>11

\* The fields of a request after WATCH, after a decision, for another attempt, and marked.
LEMMA ReadFields ==
    ASSUME NEW o, NEW q, q = [o EXCEPT !.pc = "read", !.dirty = FALSE],
           o = [pc |-> o.pc, call |-> o.call, out |-> o.out, dirty |-> o.dirty, tries |-> o.tries]
    PROVE  /\ q = [pc |-> q.pc, call |-> q.call, out |-> q.out, dirty |-> q.dirty,
                   tries |-> q.tries]
           /\ q.pc = "read" /\ q.call = o.call /\ q.dirty = FALSE /\ q.tries = o.tries
OBVIOUS

\* A request that decides keeps its call and its mark.
LEMMA DecidedFields ==
    ASSUME NEW o, NEW out, NEW q, q = [o EXCEPT !.pc = "exec", !.out = out],
           o = [pc |-> o.pc, call |-> o.call, out |-> o.out, dirty |-> o.dirty, tries |-> o.tries]
    PROVE  /\ q = [pc |-> q.pc, call |-> q.call, out |-> q.out, dirty |-> q.dirty,
                   tries |-> q.tries]
           /\ q.pc = "exec" /\ q.call = o.call /\ q.out = out /\ q.dirty = o.dirty
           /\ q.tries = o.tries
OBVIOUS

\* A request that starts over keeps its call and loses its mark and its decision.
LEMMA RetriedFields ==
    ASSUME NEW o, NEW n, NEW q,
           q = [o EXCEPT !.pc = "read", !.dirty = FALSE, !.out = None, !.tries = n],
           o = [pc |-> o.pc, call |-> o.call, out |-> o.out, dirty |-> o.dirty, tries |-> o.tries]
    PROVE  /\ q = [pc |-> q.pc, call |-> q.call, out |-> q.out, dirty |-> q.dirty,
                   tries |-> q.tries]
           /\ q.pc = "read" /\ q.call = o.call /\ q.dirty = FALSE /\ q.tries = n
OBVIOUS

\* A request that is marked keeps everything else.
LEMMA MarkedFields ==
    ASSUME NEW o, NEW q, q = [o EXCEPT !.dirty = TRUE],
           o = [pc |-> o.pc, call |-> o.call, out |-> o.out, dirty |-> o.dirty, tries |-> o.tries]
    PROVE  /\ q = [pc |-> q.pc, call |-> q.call, out |-> q.out, dirty |-> q.dirty,
                   tries |-> q.tries]
           /\ q.pc = o.pc /\ q.call = o.call /\ q.dirty = TRUE /\ q.tries = o.tries
OBVIOUS

\* Steps that write nothing keep the invariant.
LEMMA TotpQuiet ==
    ASSUME TotpInv, NEW r \in Requests,
           \/ Totp!Watch(r) \/ Totp!Read(r) \/ Totp!Fail(r)
           \/ totpReq[r].pc = "exec" /\ Totp!Retry(r)
    PROVE  TotpInv'
<1> PICK o : o = totpReq[r]
  OBVIOUS
<1>1. UNCHANGED <<fields, totpNow>>
  BY DEF Totp!Watch, Totp!Read, Totp!Fail, Totp!Retry
<1>2. TotpRelies(o)
  BY DEF TotpInv
<1>3. CASE totpReq' = [totpReq EXCEPT ![r] = Totp!Idle]
  BY <1>1, <1>3, TotpIdle, TotpQuietStep DEF TotpInv
<1>4. CASE Totp!Watch(r)
  <2> PICK q : q = [o EXCEPT !.pc = "read", !.dirty = FALSE]
    OBVIOUS
  <2>1. o.pc = "watch" /\ totpReq' = [totpReq EXCEPT ![r].pc = "read", ![r].dirty = FALSE]
    BY <1>4 DEF Totp!Watch
  <2>2. /\ q = [pc |-> q.pc, call |-> q.call, out |-> q.out, dirty |-> q.dirty, tries |-> q.tries]
        /\ q.pc = "read" /\ q.call = o.call /\ q.dirty = FALSE /\ q.tries = o.tries
    BY <1>2, ReadFields DEF TotpRelies
  <2>3. totpReq' = [totpReq EXCEPT ![r] = q]
    BY <2>1 DEF TotpInv
  <2>4. TotpRelies(q)
    BY <1>2, <2>1, <2>2 DEF TotpRelies
  <2> QED BY <1>1, <2>3, <2>4, TotpQuietStep DEF TotpInv
<1>5. CASE Totp!Read(r)
  <2> PICK out : out = Totp!Decision(o.call)
    OBVIOUS
  <2>1. /\ o.pc = "read"
        /\ totpReq' = [totpReq EXCEPT ![r] = IF out.answer = "ok"
                          THEN [o EXCEPT !.pc = "exec", !.out = out] ELSE Totp!Idle]
    BY <1>5 DEF Totp!Read
  <2>2. CASE out.answer = "ok"
    <3> PICK q : q = [o EXCEPT !.pc = "exec", !.out = out]
      OBVIOUS
    <3>1. /\ q = [pc |-> q.pc, call |-> q.call, out |-> q.out, dirty |-> q.dirty,
                  tries |-> q.tries]
          /\ q.pc = "exec" /\ q.call = o.call /\ q.out = out /\ q.dirty = o.dirty
          /\ q.tries = o.tries
      BY <1>2, DecidedFields DEF TotpRelies
    <3>2. totpReq' = [totpReq EXCEPT ![r] = q]
      BY <2>1, <2>2
    <3>3. TotpRelies(q)
      BY <1>2, <2>1, <2>2, <3>1 DEF TotpRelies
    <3> QED BY <1>1, <3>2, <3>3, TotpQuietStep DEF TotpInv
  <2>3. CASE out.answer # "ok"
    BY <1>3, <2>1, <2>3
  <2> QED BY <2>2, <2>3
<1>6. CASE o.pc = "exec" /\ Totp!Retry(r)
  <2>1. CASE o.tries + 1 < WatchAttempts
    <3> PICK n : n = o.tries + 1
      OBVIOUS
    <3> PICK q : q = [o EXCEPT !.pc = "read", !.dirty = FALSE, !.out = None, !.tries = n]
      OBVIOUS
    <3>1. /\ q = [pc |-> q.pc, call |-> q.call, out |-> q.out, dirty |-> q.dirty,
                  tries |-> q.tries]
          /\ q.pc = "read" /\ q.call = o.call /\ q.dirty = FALSE /\ q.tries = n
      BY <1>2, RetriedFields DEF TotpRelies
    <3>2. totpReq' = [totpReq EXCEPT ![r] = q]
      BY <1>6, <2>1 DEF Totp!Retry
    <3>3. n \in 0..(WatchAttempts - 1)
      BY <1>2, <2>1, WatchAssumption DEF TotpRelies
    <3>4. TotpRelies(q)
      BY <1>2, <1>6, <3>1, <3>3 DEF TotpRelies
    <3> QED BY <1>1, <3>2, <3>4, TotpQuietStep DEF TotpInv
  <2>2. CASE ~(o.tries + 1 < WatchAttempts)
    BY <1>3, <1>6, <2>2 DEF Totp!Retry
  <2> QED BY <2>1, <2>2
<1>7. CASE Totp!Fail(r)
  BY <1>3, <1>7 DEF Totp!Fail
<1> QED BY <1>4, <1>5, <1>6, <1>7

-----------------------------------------------------------------------------
(***************************************************************************)
(* Second factors: a command or an EXEC that takes effect.                 *)
(***************************************************************************)

\* The fields after the write w, one by one.
Written(w) ==
    \A f : /\ f \in DOMAIN fields' <=>
                 IF f \in DOMAIN w THEN w[f] # None ELSE f \in DOMAIN fields
           /\ f \in DOMAIN fields' =>
                 fields'[f] = IF f \in DOMAIN w THEN w[f] ELSE fields[f]

\* An effect writes the fields it lists and no other.
LEMMA EffectWrites ==
    ASSUME NEW r, NEW w, Totp!Effect(r, w)
    PROVE  Written(w)
BY DEF Totp!Effect, Written

FieldsTyped == \A f \in DOMAIN fields : fields[f] \in Totp!Values(f[1])

\* A write of typed fields keeps the fields typed.
LEMMA WriteTyped ==
    ASSUME FieldsTyped, NEW w, Written(w),
           \A g \in DOMAIN w : w[g] # None => w[g] \in Totp!Values(g[1])
    PROVE  FieldsTyped'
BY DEF FieldsTyped, Written

\* RecoverySound, of one subject.
SoundFor(u) ==
    /\ {k \in RecoveryCodes : Totp!Exists(Totp!Recovery(u, k))} = Totp!Listed(u)
    /\ Totp!Listed(u) # {} => Totp!IsEnabled(u)

\* A write that adds and removes no recovery code, and leaves the second factor enabled.
LEMMA SoundKept ==
    ASSUME NEW u, SoundFor(u), NEW w, Written(w), Totp!RecoverySet(u) \notin DOMAIN w,
           \A k \in RecoveryCodes : Totp!Recovery(u, k) \in DOMAIN w =>
              w[Totp!Recovery(u, k)] # None /\ Totp!Recovery(u, k) \in DOMAIN fields,
           Totp!Totp(u) \in DOMAIN w => w[Totp!Totp(u)] # None /\ ~w[Totp!Totp(u)].disabled
    PROVE  SoundFor(u)'
<1>1. \A k \in RecoveryCodes :
         Totp!Recovery(u, k) \in DOMAIN fields' <=> Totp!Recovery(u, k) \in DOMAIN fields
  BY DEF Written
<1>2. /\ Totp!RecoverySet(u) \in DOMAIN fields' <=> Totp!RecoverySet(u) \in DOMAIN fields
      /\ Totp!RecoverySet(u) \in DOMAIN fields =>
            fields'[Totp!RecoverySet(u)] = fields[Totp!RecoverySet(u)]
  BY DEF Written
<1>3. Totp!Totp(u) \in DOMAIN fields /\ ~fields[Totp!Totp(u)].disabled =>
         Totp!Totp(u) \in DOMAIN fields' /\ ~fields'[Totp!Totp(u)].disabled
  BY DEF Written
<1>4. Totp!Listed(u)' = Totp!Listed(u)
  BY <1>2 DEF Totp!Listed, Totp!Exists
<1> QED BY <1>1, <1>3, <1>4 DEF SoundFor, Totp!Exists, Totp!IsEnabled

\* Enable writes the credential, the codes and their set together.
LEMMA EnableSound ==
    ASSUME FieldsTyped, NEW c, TotpCarried(c), c.method = "enable", NEW w,
           Totp!Decision(c).answer = "ok", w = Totp!Decision(c).write, Written(w),
           \A u \in Users : SoundFor(u)
    PROVE  FieldsTyped' /\ \A u \in Users : SoundFor(u)'
<1> DEFINE e == Totp!Enrollment(c.user)
           t == Totp!Totp(c.user)
           k == Totp!Recovery(c.user, c.code)
           s == Totp!RecoverySet(c.user)
           new == [secret |-> fields[e].secret, last |-> c.counter, disabled |-> FALSE]
<1>1. Totp!Decision(c) = Totp!Enable(c)
  BY DEF Totp!Decision
<1>2. /\ e \in DOMAIN fields
      /\ w = [f \in {t, k, s} \cup Totp!RecoveryOf(c.user) \cup {e} |->
                CASE f = t -> new [] f = k -> "unused" [] f = s -> {c.code} [] OTHER -> None]
  BY <1>1 DEF Totp!Enable, Totp!Ok, Totp!Refuse, Totp!Exists
<1>3. c.user \in Users /\ c.counter \in Nat /\ c.code \in RecoveryCodes
  BY DEF TotpCarried
<1>4. new \in [secret: Secrets, last: Nat, disabled: BOOLEAN] /\ ~new.disabled
  <2>1. fields[e] \in [secret: Secrets, expires: Nat]
    BY <1>2, FieldValues DEF FieldsTyped
  <2>2. fields[e].secret \in Secrets
    BY <2>1
  <2> QED BY <1>3, <2>2
<1>5. t # k /\ t # s /\ k # s /\ e # t /\ e # k /\ e # s
  BY FieldsApart
<1> HIDE DEF new
<1>6. /\ DOMAIN w = {t, k, s} \cup Totp!RecoveryOf(c.user) \cup {e}
      /\ w[t] = new /\ w[k] = "unused" /\ w[s] = {c.code}
      /\ \A f \in DOMAIN w \ {t, k, s} : w[f] = None
  <2> HIDE DEF e, t, k, s
  <2> QED BY <1>2, <1>5
<1>7. new # None /\ {c.code} # None /\ "unused" # None
  BY <1>3, <1>4, ValuesAreSome
<1>8. FieldsTyped'
  <2>1. /\ new \in Totp!Values(t[1]) /\ "unused" \in Totp!Values(k[1])
        /\ {c.code} \in Totp!Values(s[1])
    <3>1. /\ Totp!Values(t[1]) = [secret: Secrets, last: Nat, disabled: BOOLEAN]
          /\ Totp!Values(k[1]) = {"unused", "used"}
          /\ Totp!Values(s[1]) = (SUBSET RecoveryCodes) \ {{}}
      BY FieldValues
    <3>2. {c.code} \in (SUBSET RecoveryCodes) \ {{}}
      <4>1. c.code \in {c.code} /\ {c.code} \subseteq RecoveryCodes
        BY <1>3
      <4>2. {c.code} # {}
        BY <4>1
      <4> QED BY <4>1, <4>2
    <3> HIDE DEF t, k, s
    <3> QED BY <1>4, <3>1, <3>2
  <2> HIDE DEF e, t, k, s
  <2>2. \A g \in DOMAIN w : w[g] # None => w[g] \in Totp!Values(g[1])
    BY <1>6, <2>1
  <2> QED BY <2>2, WriteTyped
<1>9. ASSUME NEW u \in Users, u # c.user PROVE SoundFor(u)'
  <2>1. /\ Totp!RecoverySet(u) \notin DOMAIN w /\ Totp!Totp(u) \notin DOMAIN w
        /\ \A j \in RecoveryCodes : Totp!Recovery(u, j) \notin DOMAIN w
    <3>1. \A g \in DOMAIN w : g \in {t, s, e} \/ \E j : g = Totp!Recovery(c.user, j)
      BY <1>6 DEF Totp!RecoveryOf
    <3>2. Totp!RecoverySet(u) \notin {t, s, e} /\ Totp!Totp(u) \notin {t, s, e}
      BY <1>9, FieldsApart
    <3>3. \A i : Totp!Recovery(u, i) \notin {t, s, e}
      BY FieldsApart
    <3>4. \A i, j : /\ Totp!Recovery(u, i) # Totp!Recovery(c.user, j)
                    /\ Totp!RecoverySet(u) # Totp!Recovery(c.user, j)
                    /\ Totp!Totp(u) # Totp!Recovery(c.user, j)
      BY <1>9, FieldsApart
    <3> HIDE DEF e, t, k, s
    <3> QED BY <3>1, <3>2, <3>3, <3>4
  <2> HIDE DEF e, t, k, s
  <2> QED BY <2>1, SoundKept
<1>10. SoundFor(c.user)'
  <2>1. Totp!Listed(c.user)' = {c.code} /\ Totp!IsEnabled(c.user)'
    <3>1. s \in DOMAIN fields' /\ fields'[s] = {c.code} /\ t \in DOMAIN fields' /\ fields'[t] = new
      BY <1>6, <1>7 DEF Written
    <3> QED BY <1>4, <3>1 DEF Totp!Listed, Totp!IsEnabled, Totp!Exists
  <2>2. ASSUME NEW j \in RecoveryCodes
        PROVE  Totp!Recovery(c.user, j) \in DOMAIN fields' <=> j = c.code
    <3>1. CASE j = c.code
      <4>1. k \in DOMAIN fields'
        BY <1>6, <1>7 DEF Written
      <4> QED BY <3>1, <4>1
    <3>2. CASE j # c.code
      <4>1. /\ Totp!Recovery(c.user, j) # k /\ Totp!Recovery(c.user, j) # t
            /\ Totp!Recovery(c.user, j) # s
        BY <3>2, FieldsApart
      <4>2. Totp!Recovery(c.user, j) \in DOMAIN fields => j \in Totp!Listed(c.user)
        BY <1>3 DEF SoundFor, Totp!Exists
      <4>3. Totp!Recovery(c.user, j) \in DOMAIN fields => Totp!Recovery(c.user, j) \in DOMAIN w
        BY <1>6, <4>2 DEF Totp!RecoveryOf
      <4> HIDE DEF t, k, s, e
      <4> QED BY <1>6, <3>2, <4>1, <4>3 DEF Written
    <3> QED BY <3>1, <3>2
  <2>3. {j \in RecoveryCodes : Totp!Exists(Totp!Recovery(c.user, j))'} = {c.code}
    BY <1>3, <2>2 DEF Totp!Exists
  <2> QED BY <2>1, <2>3 DEF SoundFor
<1> QED BY <1>8, <1>9, <1>10

\* Disable deletes the set and the fields of the codes it lists.
LEMMA DisableSound ==
    ASSUME FieldsTyped, NEW c, TotpCarried(c), c.method = "disable", NEW w,
           Totp!Decision(c).answer = "ok", w = Totp!Decision(c).write, Written(w),
           \A u \in Users : SoundFor(u)
    PROVE  FieldsTyped' /\ \A u \in Users : SoundFor(u)'
<1> DEFINE t == Totp!Totp(c.user)
           s == Totp!RecoverySet(c.user)
           old == fields[t]
           new == [old EXCEPT !.disabled = TRUE]
<1>1. Totp!Decision(c) = Totp!Disable(c)
  BY DEF Totp!Decision
<1>2. /\ t \in DOMAIN fields
      /\ w = [f \in {t} \cup Totp!RecoveryOf(c.user) \cup ({s} \cap DOMAIN fields) |->
                IF f = t THEN [fields[f] EXCEPT !.disabled = TRUE] ELSE None]
  BY <1>1 DEF Totp!Disable, Totp!Ok, Totp!Refuse, Totp!Exists
<1>3. c.user \in Users
  BY DEF TotpCarried
<1>4. new \in [secret: Secrets, last: Nat, disabled: BOOLEAN]
  <2>1. old \in [secret: Secrets, last: Nat, disabled: BOOLEAN]
    BY <1>2, FieldValues DEF FieldsTyped
  <2> HIDE DEF old
  <2> QED BY <2>1
<1>5. /\ DOMAIN w = {t} \cup Totp!RecoveryOf(c.user) \cup ({s} \cap DOMAIN fields)
      /\ w[t] = new
      /\ \A f \in DOMAIN w \ {t} : w[f] = None
  BY <1>2
<1> HIDE DEF old, new
<1>6. t # s /\ \A j : Totp!Recovery(c.user, j) # t
  BY FieldsApart
<1>7. FieldsTyped'
  <2>1. new \in Totp!Values(t[1])
    BY <1>4, FieldValues
  <2> HIDE DEF t, s
  <2>2. \A g \in DOMAIN w : w[g] # None => w[g] \in Totp!Values(g[1])
    BY <1>5, <2>1
  <2> QED BY <2>2, WriteTyped
<1>8. ASSUME NEW u \in Users, u # c.user PROVE SoundFor(u)'
  <2>1. /\ Totp!RecoverySet(u) \notin DOMAIN w /\ Totp!Totp(u) \notin DOMAIN w
        /\ \A j \in RecoveryCodes : Totp!Recovery(u, j) \notin DOMAIN w
    <3>1. \A g \in DOMAIN w : g \in {t, s} \/ \E j : g = Totp!Recovery(c.user, j)
      BY <1>5 DEF Totp!RecoveryOf
    <3>2. Totp!RecoverySet(u) \notin {t, s} /\ Totp!Totp(u) \notin {t, s}
      BY <1>8, FieldsApart
    <3>3. \A i : Totp!Recovery(u, i) \notin {t, s}
      BY FieldsApart
    <3>4. \A i, j : /\ Totp!Recovery(u, i) # Totp!Recovery(c.user, j)
                    /\ Totp!RecoverySet(u) # Totp!Recovery(c.user, j)
                    /\ Totp!Totp(u) # Totp!Recovery(c.user, j)
      BY <1>8, FieldsApart
    <3> HIDE DEF t, s
    <3> QED BY <3>1, <3>2, <3>3, <3>4
  <2> HIDE DEF t, s
  <2> QED BY <2>1, SoundKept
<1>9. SoundFor(c.user)'
  <2>1. s \notin DOMAIN fields'
    BY <1>5, <1>6 DEF Written
  <2>2. Totp!Listed(c.user)' = {}
    BY <2>1 DEF Totp!Listed, Totp!Exists
  <2>3. ASSUME NEW j \in RecoveryCodes
        PROVE  Totp!Recovery(c.user, j) \notin DOMAIN fields'
    <3>1. Totp!Recovery(c.user, j) \in DOMAIN fields => j \in Totp!Listed(c.user)
      BY <1>3 DEF SoundFor, Totp!Exists
    <3>2. Totp!Recovery(c.user, j) \in DOMAIN fields => Totp!Recovery(c.user, j) \in DOMAIN w
      BY <1>5, <3>1 DEF Totp!RecoveryOf
    <3>3. Totp!Recovery(c.user, j) # t
      BY <1>6
    <3> HIDE DEF t, s
    <3> QED BY <1>5, <3>2, <3>3 DEF Written
  <2> QED BY <2>2, <2>3 DEF SoundFor, Totp!Exists
<1> QED BY <1>7, <1>8, <1>9

\* A completion changes a credential that is enabled and takes a code from its set.
LEMMA CompleteSound ==
    ASSUME FieldsTyped, NEW c, TotpCarried(c), c.method \in {"completeCode", "completeRecovery"},
           NEW w, Totp!Decision(c).answer = "ok", w = Totp!Decision(c).write, Written(w),
           \A u \in Users : SoundFor(u)
    PROVE  FieldsTyped' /\ \A u \in Users : SoundFor(u)'
<1> DEFINE h == Totp!Challenge(c.token)
           u == fields[h].user
<1>1. CASE c.method = "completeCode"
  <2> DEFINE t == Totp!Totp(u)
             old == fields[t]
             new == [old EXCEPT !.last = c.counter]
  <2>1. Totp!Decision(c) = Totp!CompleteCode(c)
    BY <1>1 DEF Totp!Decision
  <2>2. /\ h \in DOMAIN fields /\ t \in DOMAIN fields /\ ~old.disabled
        /\ w = [f \in {t, h} |-> IF f = t THEN [fields[f] EXCEPT !.last = c.counter] ELSE None]
    BY SMTT(20), <2>1 DEF Totp!CompleteCode, Totp!Ok, Totp!Refuse, Totp!Exists, Totp!Usable,
                Totp!IsEnabled
  <2>3. /\ new \in [secret: Secrets, last: Nat, disabled: BOOLEAN]
        /\ new.disabled = old.disabled
    <3>1. old \in [secret: Secrets, last: Nat, disabled: BOOLEAN]
      BY <2>2, FieldValues DEF FieldsTyped
    <3>2. c.counter \in Nat
      BY <1>1 DEF TotpCarried
    <3> HIDE DEF old
    <3> QED BY <3>1, <3>2
  <2>4. t # h
    BY FieldsApart
  <2>5. DOMAIN w = {t, h} /\ w[t] = new /\ w[h] = None
    BY <2>2, <2>4
  <2> HIDE DEF old, new
  <2>6. new # None /\ new \in Totp!Values(t[1])
    BY <2>3, FieldValues, ValuesAreSome
  <2>7. FieldsTyped'
    <3> HIDE DEF t, h
    <3>1. \A g \in DOMAIN w : w[g] # None => w[g] \in Totp!Values(g[1])
      BY <2>5, <2>6
    <3> QED BY <3>1, WriteTyped
  <2>8. ASSUME NEW v \in Users PROVE SoundFor(v)'
    <3>1. /\ Totp!RecoverySet(v) \notin DOMAIN w
          /\ \A j \in RecoveryCodes : Totp!Recovery(v, j) \notin DOMAIN w
          /\ Totp!Totp(v) # h
      BY <2>5, FieldsApart
    <3>2. Totp!Totp(v) \in DOMAIN w => w[Totp!Totp(v)] # None /\ ~w[Totp!Totp(v)].disabled
      <4> HIDE DEF t, h
      <4> QED BY <2>2, <2>3, <2>5, <2>6, <3>1
    <3> HIDE DEF t, h
    <3> QED BY <3>1, <3>2, SoundKept
  <2> QED BY <2>7, <2>8
<1>2. CASE c.method = "completeRecovery"
  <2> DEFINE k == Totp!Recovery(u, c.code)
  <2>1. Totp!Decision(c) = Totp!CompleteRecovery(c)
    BY <1>2 DEF Totp!Decision
  <2>2. /\ k \in DOMAIN fields
        /\ w = [f \in {k, h} |-> IF f = k THEN "used" ELSE None]
    BY <2>1 DEF Totp!CompleteRecovery, Totp!Ok, Totp!Refuse, Totp!Exists, Totp!Usable
  <2>3. k # h
    BY FieldsApart
  <2>4. DOMAIN w = {k, h} /\ w[k] = "used" /\ w[h] = None
    BY <2>2, <2>3
  <2>5. "used" # None /\ "used" \in Totp!Values(k[1])
    BY FieldValues, ValuesAreSome
  <2>6. FieldsTyped'
    <3> HIDE DEF k, h
    <3>1. \A g \in DOMAIN w : w[g] # None => w[g] \in Totp!Values(g[1])
      BY <2>4, <2>5
    <3> QED BY <3>1, WriteTyped
  <2>7. ASSUME NEW v \in Users PROVE SoundFor(v)'
    <3>1. Totp!RecoverySet(v) \notin DOMAIN w /\ Totp!Totp(v) \notin DOMAIN w
      BY <2>4, FieldsApart
    <3>2. \A j \in RecoveryCodes : Totp!Recovery(v, j) # h
      BY FieldsApart
    <3> HIDE DEF k, h
    <3>3. \A j \in RecoveryCodes : Totp!Recovery(v, j) \in DOMAIN w =>
             w[Totp!Recovery(v, j)] # None /\ Totp!Recovery(v, j) \in DOMAIN fields
      BY <2>2, <2>4, <2>5, <3>2
    <3> QED BY <3>1, <3>3, SoundKept
  <2> QED BY <2>6, <2>7
<1> QED BY <1>1, <1>2

\* Writing nothing keeps all sound.
LEMMA NothingSound ==
    ASSUME FieldsTyped, NEW w, w = <<>>, Written(w), \A u \in Users : SoundFor(u)
    PROVE  FieldsTyped' /\ \A u \in Users : SoundFor(u)'
<1>1. DOMAIN w = {}
  OBVIOUS
<1>2. FieldsTyped'
  BY <1>1, WriteTyped
<1>3. ASSUME NEW u \in Users PROVE SoundFor(u)'
  BY <1>1, <1>3, SoundKept
<1> QED BY <1>2, <1>3

\* Enrollments, challenges and redirect states are no part of a second factor that is enabled.
LEMMA OthersSound ==
    ASSUME FieldsTyped, NEW c, TotpCarried(c),
           c.method \in {"beginEnrollment", "createChallenge", "createFlow", "consumeFlow"}, NEW w,
           w = Totp!Decision(c).write, Written(w), \A u \in Users : SoundFor(u)
    PROVE  FieldsTyped' /\ \A u \in Users : SoundFor(u)'
<1>1. ASSUME NEW f, DOMAIN w \subseteq {f}, w[f] # None => w[f] \in Totp!Values(f[1]),
             \A u, k : /\ f # Totp!Totp(u) /\ f # Totp!RecoverySet(u)
                       /\ f # Totp!Recovery(u, k)
      PROVE  FieldsTyped' /\ \A u \in Users : SoundFor(u)'
  <2>1. FieldsTyped'
    BY <1>1, WriteTyped
  <2>2. ASSUME NEW u \in Users PROVE SoundFor(u)'
    BY <1>1, <2>2, SoundKept
  <2> QED BY <2>1, <2>2
<1>2. CASE c.method = "beginEnrollment"
  <2> DEFINE f == Totp!Enrollment(c.user)
             v == [secret |-> c.secret, expires |-> c.at + EnrollmentLifetime]
  <2>1. Totp!Decision(c) = Totp!BeginEnrollment(c)
    BY <1>2 DEF Totp!Decision
  <2>2. w = [g \in {f} |-> v]
    BY <2>1 DEF Totp!BeginEnrollment, Totp!Ok
  <2>3. v \in Totp!Values(f[1])
    <3>1. v \in [secret: Secrets, expires: Nat]
      BY <1>2, LifetimesAssumption DEF TotpCarried
    <3>2. Totp!Values(f[1]) = [secret: Secrets, expires: Nat]
      BY FieldValues
    <3> HIDE DEF f, v
    <3> QED BY <3>1, <3>2
  <2>4. \A u, k : f # Totp!Totp(u) /\ f # Totp!RecoverySet(u) /\ f # Totp!Recovery(u, k)
    BY FieldsApart
  <2> HIDE DEF f, v
  <2> QED BY <1>1, <2>2, <2>3, <2>4
<1>3. CASE c.method = "createChallenge"
  <2> DEFINE f == Totp!Challenge(c.token)
             v == [user |-> c.user, expires |-> c.at + ChallengeLifetime]
  <2>1. Totp!Decision(c) = Totp!CreateChallenge(c)
    BY <1>3 DEF Totp!Decision
  <2>2. w = [g \in {f} |-> v] \/ w = <<>>
    BY <2>1 DEF Totp!CreateChallenge, Totp!Ok, Totp!Refuse
  <2>3. v \in Totp!Values(f[1])
    <3>1. v \in [user: Users, expires: Nat]
      BY <1>3, LifetimesAssumption DEF TotpCarried
    <3>2. Totp!Values(f[1]) = [user: Users, expires: Nat]
      BY FieldValues
    <3> HIDE DEF f, v
    <3> QED BY <3>1, <3>2
  <2>4. \A u, k : f # Totp!Totp(u) /\ f # Totp!RecoverySet(u) /\ f # Totp!Recovery(u, k)
    BY FieldsApart
  <2> HIDE DEF f, v
  <2>5. CASE w = [g \in {f} |-> v]
    BY <1>1, <2>3, <2>4, <2>5
  <2>6. CASE w = <<>>
    BY <2>6, NothingSound
  <2> QED BY <2>2, <2>5, <2>6
<1>4. CASE c.method = "createFlow"
  <2> DEFINE f == Totp!Flow(c.hash, c.token)
  <2>1. Totp!Decision(c) = Totp!CreateFlow(c)
    BY <1>4 DEF Totp!Decision
  <2>2. w = [g \in {f} |-> c.at] \/ w = <<>>
    BY <2>1 DEF Totp!CreateFlow, Totp!Ok, Totp!Refuse
  <2>3. c.at \in Totp!Values(f[1])
    BY <1>4, FieldValues DEF TotpCarried
  <2>4. \A u, k : f # Totp!Totp(u) /\ f # Totp!RecoverySet(u) /\ f # Totp!Recovery(u, k)
    BY <1>4, FlowsApart DEF TotpCarried
  <2> HIDE DEF f
  <2>5. CASE w = [g \in {f} |-> c.at]
    BY <1>1, <2>3, <2>4, <2>5
  <2>6. CASE w = <<>>
    BY <2>6, NothingSound
  <2> QED BY <2>2, <2>5, <2>6
<1>5. CASE c.method = "consumeFlow"
  <2> DEFINE f == Totp!Flow(c.hash, c.token)
  <2>1. Totp!Decision(c) = Totp!ConsumeFlow(c)
    BY <1>5 DEF Totp!Decision
  <2>2. w = [g \in {f} |-> None] \/ w = <<>>
    BY <2>1 DEF Totp!ConsumeFlow, Totp!Ok, Totp!Refuse
  <2>3. \A u, k : f # Totp!Totp(u) /\ f # Totp!RecoverySet(u) /\ f # Totp!Recovery(u, k)
    BY <1>5, FlowsApart DEF TotpCarried
  <2> HIDE DEF f
  <2>4. CASE w = [g \in {f} |-> None]
    BY <1>1, <2>3, <2>4
  <2>5. CASE w = <<>>
    BY <2>5, NothingSound
  <2> QED BY <2>2, <2>4, <2>5
<1> QED BY <1>2, <1>3, <1>4, <1>5

\* The keys that a transaction watches hold everything its decision rests on.
LEMMA DecisionUntouched ==
    ASSUME NEW c, TotpCarried(c), c.method \notin Totp!Commands,
           Totp!Decision(c).answer = "ok", NEW w, Written(w),
           Totp!Watches(c) \cap {Totp!KeyOf(f) : f \in DOMAIN w} = {}
    PROVE  Totp!Decision(c)' = Totp!Decision(c)
<1>1. ASSUME NEW f, Totp!KeyOf(f) \in Totp!Watches(c)
      PROVE  /\ f \in DOMAIN fields' <=> f \in DOMAIN fields
             /\ f \in DOMAIN fields => fields'[f] = fields[f]
  <2>1. f \notin DOMAIN w
    BY <1>1
  <2> QED BY <2>1 DEF Written
<1>2. CASE c.method = "enable"
  <2> DEFINE e == Totp!Enrollment(c.user)
             s == Totp!RecoverySet(c.user)
  <2>1. Totp!KeyOf(e) \in Totp!Watches(c) /\ Totp!KeyOf(s) \in Totp!Watches(c)
    BY <1>2, FieldKeys DEF Totp!Watches
  <2>2. /\ e \in DOMAIN fields' <=> e \in DOMAIN fields
        /\ e \in DOMAIN fields => fields'[e] = fields[e]
        /\ s \in DOMAIN fields' <=> s \in DOMAIN fields
        /\ s \in DOMAIN fields => fields'[s] = fields[s]
    BY <1>1, <2>1
  <2>3. Totp!RecoveryOf(c.user)' = Totp!RecoveryOf(c.user)
    BY <2>2 DEF Totp!RecoveryOf, Totp!Listed, Totp!Exists
  <2>4. e \in DOMAIN fields
    BY <1>2 DEF Totp!Decision, Totp!Enable, Totp!Refuse, Totp!Exists
  <2>5. e \in DOMAIN fields' /\ fields'[e] = fields[e]
    BY <2>2, <2>4
  <2>6. Totp!Enable(c)' = Totp!Enable(c)
    BY <2>3, <2>4, <2>5 DEF Totp!Enable, Totp!Exists
  <2> QED BY <1>2, <2>6 DEF Totp!Decision
<1>3. CASE c.method = "disable"
  <2> DEFINE t == Totp!Totp(c.user)
             s == Totp!RecoverySet(c.user)
  <2>1. Totp!KeyOf(t) \in Totp!Watches(c) /\ Totp!KeyOf(s) \in Totp!Watches(c)
    BY <1>3, FieldKeys DEF Totp!Watches
  <2>2. /\ t \in DOMAIN fields' <=> t \in DOMAIN fields
        /\ t \in DOMAIN fields => fields'[t] = fields[t]
        /\ s \in DOMAIN fields' <=> s \in DOMAIN fields
        /\ s \in DOMAIN fields => fields'[s] = fields[s]
    BY <1>1, <2>1
  <2>3. /\ Totp!RecoveryOf(c.user)' = Totp!RecoveryOf(c.user)
        /\ {s} \cap DOMAIN fields' = {s} \cap DOMAIN fields
    BY <2>2 DEF Totp!RecoveryOf, Totp!Listed, Totp!Exists
  <2>4. Totp!Disable(c)' = Totp!Disable(c)
    <3>1. CASE t \notin DOMAIN fields
      BY <2>2, <3>1 DEF Totp!Disable, Totp!Exists
    <3>2. CASE t \in DOMAIN fields
      <4>1. fields'[t] = fields[t] /\ t \in DOMAIN fields'
        BY <2>2, <3>2
      <4> QED BY <2>3, <3>2, <4>1 DEF Totp!Disable, Totp!Exists
    <3> QED BY <3>1, <3>2
  <2> QED BY <1>3, <2>4 DEF Totp!Decision
<1>4. CASE c.method = "completeCode"
  <2> DEFINE h == Totp!Challenge(c.token)
             t == Totp!Totp(fields[h].user)
  <2>1. Totp!KeyOf(h) \in Totp!Watches(c) /\ Totp!KeyOf(t) \in Totp!Watches(c)
    BY <1>4, FieldKeys DEF Totp!Watches
  <2>2. Totp!Decision(c) = Totp!CompleteCode(c) /\ Totp!Decision(c)' = Totp!CompleteCode(c)'
    BY <1>4 DEF Totp!Decision
  <2>3. h \in DOMAIN fields /\ t \in DOMAIN fields
    BY <2>2 DEF Totp!CompleteCode, Totp!Refuse, Totp!Usable, Totp!IsEnabled, Totp!Exists
  <2>4. /\ h \in DOMAIN fields' /\ fields'[h] = fields[h]
        /\ t \in DOMAIN fields' /\ fields'[t] = fields[t]
    BY <1>1, <2>1, <2>3
  <2>5. Totp!CompleteCode(c)' = Totp!CompleteCode(c)
    BY <2>3, <2>4 DEF Totp!CompleteCode, Totp!Usable, Totp!IsEnabled, Totp!Exists
  <2> QED BY <2>2, <2>5
<1>5. CASE c.method = "completeRecovery"
  <2> DEFINE h == Totp!Challenge(c.token)
             k == Totp!Recovery(fields[h].user, c.code)
  <2>1. Totp!KeyOf(h) \in Totp!Watches(c) /\ Totp!KeyOf(k) \in Totp!Watches(c)
    BY <1>5, FieldKeys DEF Totp!Watches
  <2>2. /\ Totp!Decision(c) = Totp!CompleteRecovery(c)
        /\ Totp!Decision(c)' = Totp!CompleteRecovery(c)'
    BY <1>5 DEF Totp!Decision
  <2>3. h \in DOMAIN fields /\ k \in DOMAIN fields
    BY <2>2 DEF Totp!CompleteRecovery, Totp!Refuse, Totp!Usable, Totp!Exists
  <2>4. /\ h \in DOMAIN fields' /\ fields'[h] = fields[h]
        /\ k \in DOMAIN fields' /\ fields'[k] = fields[k]
    BY <1>1, <2>1, <2>3
  <2>5. Totp!CompleteRecovery(c)' = Totp!CompleteRecovery(c)
    BY <2>3, <2>4 DEF Totp!CompleteRecovery, Totp!Usable, Totp!Exists
  <2> QED BY <2>2, <2>5
<1>6. CASE c.method = "consumeFlow"
  <2> DEFINE f == Totp!Flow(c.hash, c.token)
  <2>1. Totp!KeyOf(f) \in Totp!Watches(c)
    BY <1>6, FieldKeys DEF Totp!Watches, TotpCarried
  <2>2. f \in DOMAIN fields' <=> f \in DOMAIN fields
    BY <1>1, <2>1
  <2>3. Totp!ConsumeFlow(c)' = Totp!ConsumeFlow(c)
    BY <2>2 DEF Totp!ConsumeFlow, Totp!Exists
  <2> QED BY <1>6, <2>3 DEF Totp!Decision
<1> QED BY <1>2, <1>3, <1>4, <1>5, <1>6 DEF TotpCarried, Totp!Commands

\* An effect keeps the invariant and marks whoever watches what it writes.
LEMMA TotpEffect ==
    ASSUME TotpInv, NEW r \in Requests, NEW c, c = totpReq[r].call, TotpCarried(c), NEW w,
           w = Totp!Decision(c).write,
           c.method \in Totp!Commands \/ Totp!Decision(c).answer = "ok", Totp!Effect(r, w)
    PROVE  TotpInv'
<1>1. Written(w)
  BY EffectWrites
<1>2. FieldsTyped /\ \A u \in Users : SoundFor(u)
  BY DEF TotpInv, FieldsTyped, SoundFor, Totp!RecoverySound
<1>3. FieldsTyped' /\ \A u \in Users : SoundFor(u)'
  <2>1. CASE c.method \in {"beginEnrollment", "createChallenge", "createFlow", "consumeFlow"}
    BY <1>1, <1>2, <2>1, OthersSound
  <2>2. CASE c.method \in {"enable", "disable", "completeCode", "completeRecovery"}
    <3>1. Totp!Decision(c).answer = "ok"
      BY <2>2 DEF Totp!Commands
    <3> QED BY <1>1, <1>2, <2>2, <3>1, EnableSound, DisableSound, CompleteSound
  <2> QED BY <2>1, <2>2 DEF TotpCarried
<1>4. Totp!RecoverySound' /\ (\A f \in DOMAIN fields : fields[f] \in Totp!Values(f[1]))'
  BY <1>3 DEF FieldsTyped, SoundFor, Totp!RecoverySound
<1>5. /\ totpReq' = [x \in Requests |-> totpReq'[x]] /\ totpReq'[r] = Totp!Idle
      /\ totpNow' = totpNow
  BY DEF Totp!Effect
<1>6. ASSUME NEW x \in Requests, x # r, NEW p, p = totpReq[x]
      PROVE  \/ /\ totpReq'[x] = p
                /\ p.pc \in {"read", "exec"} =>
                      Totp!Watches(p.call) \cap {Totp!KeyOf(f) : f \in DOMAIN w} = {}
             \/ totpReq'[x] = [p EXCEPT !.dirty = TRUE]
  BY <1>6 DEF Totp!Effect
<1>7. ASSUME NEW x \in Requests
      PROVE  TotpRelies(totpReq[x])'
  <2>1. CASE x = r
    <3>1. TotpRelies(Totp!Idle)'
      BY WatchAssumption DEF TotpRelies, Totp!Idle
    <3> QED BY <1>5, <2>1, <3>1
  <2>2. CASE x # r
    <3> PICK p : p = totpReq[x]
      OBVIOUS
    <3>1. TotpRelies(p)
      BY DEF TotpInv
    <3>2. CASE totpReq'[x] = [p EXCEPT !.dirty = TRUE]
      <4> PICK d : d = [p EXCEPT !.dirty = TRUE]
        OBVIOUS
      <4>1. /\ d = [pc |-> d.pc, call |-> d.call, out |-> d.out, dirty |-> d.dirty,
                    tries |-> d.tries]
            /\ d.pc = p.pc /\ d.call = p.call /\ d.dirty = TRUE /\ d.tries = p.tries
        BY <3>1, MarkedFields DEF TotpRelies
      <4>2. TotpRelies(d)'
        BY <3>1, <4>1 DEF TotpRelies, TotpCarried
      <4> QED BY <3>2, <4>2
    <3>3. CASE /\ totpReq'[x] = p
               /\ p.pc \in {"read", "exec"} =>
                     Totp!Watches(p.call) \cap {Totp!KeyOf(f) : f \in DOMAIN w} = {}
      <4>1. ASSUME p.pc = "exec", ~p.dirty
            PROVE  Totp!Decision(p.call)' = Totp!Decision(p.call)
        <5> PICK b : b = p.call
          OBVIOUS
        <5>1. /\ TotpCarried(b) /\ b.method \notin Totp!Commands
              /\ Totp!Decision(b).answer = "ok"
          BY <3>1, <4>1 DEF TotpRelies
        <5>2. Totp!Watches(b) \cap {Totp!KeyOf(f) : f \in DOMAIN w} = {}
          BY <3>3, <4>1
        <5>3. Totp!Decision(b)' = Totp!Decision(b)
          BY <1>1, <5>1, <5>2, DecisionUntouched
        <5> QED BY <5>3
      <4>2. TotpRelies(p)'
        BY <3>1, <4>1 DEF TotpRelies, TotpCarried
      <4> QED BY <3>3, <4>2
    <3> QED BY <1>6, <2>2, <3>2, <3>3
  <2> QED BY <2>1, <2>2
<1> QED BY <1>4, <1>5, <1>7 DEF TotpInv

\* Every step keeps it.
LEMMA TotpNext ==
    ASSUME TotpInv, Totp!Next
    PROVE  TotpInv'
<1>1. CASE Totp!Tick
  <2>1. UNCHANGED <<fields, totpReq>> /\ totpNow' \in 0..MaxTime
    BY <1>1, LifetimesAssumption DEF Totp!Tick, TotpInv
  <2>2. Totp!RecoverySound'
    BY <2>1, RecoveryKept DEF TotpInv
  <2>3. ASSUME NEW x \in Requests PROVE TotpRelies(totpReq[x])'
    <3> PICK p : p = totpReq[x]
      OBVIOUS
    <3>1. totpReq'[x] = p
      BY <2>1
    <3>2. TotpRelies(p)'
      BY <2>1, ReliesKept DEF TotpInv
    <3> QED BY <3>1, <3>2
  <2>4. totpReq' = [x \in Requests |-> totpReq'[x]]
    BY <2>1 DEF TotpInv
  <2>5. (\A f \in DOMAIN fields : fields[f] \in Totp!Values(f[1]))'
    BY <2>1 DEF TotpInv
  <2> QED BY <2>1, <2>2, <2>3, <2>4, <2>5 DEF TotpInv
<1>2. ASSUME NEW r \in Requests, Totp!Send(r) PROVE TotpInv'
  <2> PICK c : c = totpReq[r].call
    OBVIOUS
  <2> PICK w : w = Totp!Decision(c).write
    OBVIOUS
  <2>1. TotpRelies(totpReq[r]) /\ totpReq[r].pc = "send"
    BY <1>2 DEF TotpInv, Totp!Send
  <2>2. TotpCarried(c) /\ c.method \in Totp!Commands
    BY <2>1 DEF TotpRelies
  <2>3. Totp!Effect(r, w)
    BY <1>2 DEF Totp!Send
  <2> QED BY <2>2, <2>3, TotpEffect
<1>3. ASSUME NEW r \in Requests, Totp!Exec(r) PROVE TotpInv'
  <2>1. CASE totpReq[r].dirty
    BY <1>3, <2>1, TotpQuiet DEF Totp!Exec
  <2>2. CASE ~totpReq[r].dirty
    <3> PICK c : c = totpReq[r].call
      OBVIOUS
    <3> PICK w : w = Totp!Decision(c).write
      OBVIOUS
    <3>1. TotpRelies(totpReq[r]) /\ totpReq[r].pc = "exec"
      BY <1>3 DEF TotpInv, Totp!Exec
    <3>2. /\ TotpCarried(c) /\ totpReq[r].out = Totp!Decision(c)
          /\ Totp!Decision(c).answer = "ok"
      BY <2>2, <3>1 DEF TotpRelies
    <3>3. Totp!Effect(r, w)
      BY <1>3, <2>2, <3>2 DEF Totp!Exec
    <3> QED BY <3>2, <3>3, TotpEffect
  <2> QED BY <2>1, <2>2
<1> QED BY <1>1, <1>2, <1>3, TotpCalls, TotpQuiet DEF Totp!Next

\* The invariant holds of empty hashes.
LEMMA TotpStart == Totp!Init => TotpInv
<1> SUFFICES ASSUME Totp!Init PROVE TotpInv
  OBVIOUS
<1>1. fields = <<>> /\ totpReq = [r \in Requests |-> Totp!Idle] /\ totpNow = 0
  BY DEF Totp!Init
<1>2. DOMAIN fields = {}
  BY <1>1
<1>3. Totp!RecoverySound
  BY <1>2 DEF Totp!RecoverySound, Totp!Exists, Totp!Listed
<1>4. \A r \in Requests : TotpRelies(totpReq[r])
  BY <1>1, TotpIdle
<1>5. totpReq = [r \in Requests |-> totpReq[r]] /\ totpNow \in 0..MaxTime
  BY <1>1, LifetimesAssumption
<1> QED BY <1>2, <1>3, <1>4, <1>5 DEF TotpInv

\* Nothing happens.
LEMMA TotpStutter ==
    ASSUME TotpInv, UNCHANGED totpVars
    PROVE  TotpInv'
<1>1. UNCHANGED <<fields, totpNow, totpReq>>
  BY DEF totpVars
<1>2. Totp!RecoverySound'
  BY <1>1, RecoveryKept DEF TotpInv
<1>3. ASSUME NEW x \in Requests PROVE TotpRelies(totpReq[x])'
  <2> PICK p : p = totpReq[x]
    OBVIOUS
  <2>1. totpReq'[x] = p
    BY <1>1
  <2>2. TotpRelies(p)'
    BY <1>1, ReliesKept DEF TotpInv
  <2> QED BY <2>1, <2>2
<1> QED BY <1>1, <1>2, <1>3 DEF TotpInv

\* The stores of second factors and redirect states keep their invariant, whatever calls race.
THEOREM TotpInvariant == AdapterSpec => []TotpInv
<1>1. AdapterInit => TotpInv
  BY TotpStart DEF AdapterInit
<1>2. TotpInv /\ [AdapterNext]_<<vars, cookieVars, bearerVars, totpVars>> => TotpInv'
  BY TotpNext, TotpStutter DEF AdapterNext
<1> QED BY <1>1, <1>2, PTL DEF AdapterSpec

\* RedisTotp: what an EXEC writes is what the method would decide from the state it writes to.
THEOREM TotpDecisionsHold == AdapterSpec => Totp!DecisionsStillHold
<1> DEFINE Holds == \A r \in Requests :
               totpReq[r].pc = "exec" /\ fields' # fields /\ totpReq'[r] = Totp!Idle
               => totpReq[r].out = Totp!Decision(totpReq[r].call)
<1>1. ASSUME TotpInv, Totp!Next PROVE Holds
  <2> SUFFICES ASSUME NEW r \in Requests, totpReq[r].pc = "exec", fields' # fields,
                      totpReq'[r] = Totp!Idle
               PROVE  totpReq[r].out = Totp!Decision(totpReq[r].call)
    OBVIOUS
  <2>1. ASSUME NEW x \in Requests, Totp!TotpCalls(x) \/ Totp!FlowCalls(x)
        PROVE  UNCHANGED fields
    BY <2>1 DEF Totp!TotpCalls, Totp!FlowCalls, Totp!Call
  <2>2. PICK x \in Requests :
           Totp!Send(x) \/ (Totp!Exec(x) /\ ~totpReq[x].dirty)
    BY <1>1, <2>1 DEF Totp!Next, Totp!Tick, Totp!Watch, Totp!Read, Totp!Exec, Totp!Retry, Totp!Fail
  <2>3. CASE x # r
    <3> PICK p : p = totpReq[r]
      OBVIOUS
    <3> PICK d : d = [p EXCEPT !.dirty = TRUE]
      OBVIOUS
    <3>1. totpReq'[r] = p \/ totpReq'[r] = d
      BY <2>2, <2>3 DEF Totp!Send, Totp!Exec, Totp!Effect
    <3>2. p.pc = "exec" /\ d.pc = "exec"
      BY <1>1, MarkedFields DEF TotpInv, TotpRelies
    <3>3. Totp!Idle.pc = "idle"
      BY DEF Totp!Idle
    <3> QED BY <3>1, <3>2, <3>3
  <2>4. CASE x = r
    <3>1. ~totpReq[r].dirty
      BY <2>2, <2>4 DEF Totp!Send
    <3>2. TotpRelies(totpReq[r])
      BY <1>1 DEF TotpInv
    <3> QED BY <3>1, <3>2 DEF TotpRelies
  <2> QED BY <2>3, <2>4
<1>2. ASSUME UNCHANGED totpVars PROVE Holds
  BY <1>2 DEF totpVars
<1>3. UNCHANGED Totp!vars => UNCHANGED totpVars
  BY DEF Totp!vars, totpVars
<1>4. TotpInv /\ [AdapterNext]_<<vars, cookieVars, bearerVars, totpVars>> => [Holds]_(Totp!vars)
  BY <1>1, <1>2 DEF AdapterNext
<1> QED BY <1>4, TotpInvariant, PTL DEF AdapterSpec, Totp!DecisionsStillHold

-----------------------------------------------------------------------------
(***************************************************************************)
(* The adapter.                                                            *)
(***************************************************************************)

\* RedisAdapter: whichever calls race, an account keeps a way in and one Google identity, the
\* sets and lookup hashes agree with the records, and a second factor that is disabled has no
\* recovery codes.
THEOREM AlwaysConsistent == AdapterSpec => []AdapterConsistent
<1>1. CookieInv => Cookie!TypeOK
  BY DEF CookieInv
<1>2. BearerInv => Bearer!TypeOK
  BY DEF BearerInv
<1>3. AccountsInv => TypeOK /\ NeverLockedOut /\ OneIdentityPerUser /\ IndexesAgree
  BY DEF AccountsInv, Tables, TablesOK, TypeOK
<1>4. TotpInv => Totp!TypeOK /\ Totp!RecoverySound
  BY DEF TotpInv, TotpRelies, Totp!TypeOK
<1>5. CookieInv /\ BearerInv /\ AccountsInv /\ TotpInv => AdapterConsistent
  BY <1>1, <1>2, <1>3, <1>4 DEF AdapterConsistent, AdapterTypeOK
<1> QED BY <1>5, CookieInvariant, BearerInvariant, AccountsInvariant, TotpInvariant, PTL

\* RedisAdapter: the keys each method watches cover the keys it reads.
THEOREM DecisionsHold == AdapterSpec => AdapterDecisionsStillHold
BY AccountDecisionsHold, TotpDecisionsHold DEF AdapterDecisionsStillHold

=============================================================================
