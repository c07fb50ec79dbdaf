------------------------ MODULE BearerSessionsProofs ------------------------
(***************************************************************************)
(* Proofs about BearerSessions, for any number of requests, sessions,      *)
(* refresh tokens and subjects and for any lifetimes: types and the token  *)
(* chain first, then what requests answer, and that the manager implements *)
(* BearerStore.                                                            *)
(***************************************************************************)
EXTENDS BearerSessions, TLAPS

-----------------------------------------------------------------------------
(***************************************************************************)
(* Type correctness.  What a request carries to its next store call is     *)
(* part of it.                                                             *)
(***************************************************************************)

\* What a request carries to the store call it is about to make.
CarriedBy(x) ==
    /\ x.pc = "create" => /\ x.sid \in SessionIDs /\ x.new \in Tokens
                          /\ x.subject \in Subjects /\ x.jwt \in AccessToken
    /\ x.pc \in {"find", "session", "rotatefind", "rotate", "signoutfind"} =>
          x.tok \in Tokens
    /\ x.pc = "rotate" => x.new \in Tokens
    /\ x.pc \in {"session", "signout", "revoke"} => x.sid \in SessionIDs
    /\ x.pc = "verify" => x.jwt \in AccessToken

Carried == \A r \in Requests : CarriedBy(req[r])

ReqOK == req \in [Requests -> Request] /\ Carried

\* The request of a free slot has the type of one.
LEMMA IdleType == Idle \in Request
  BY DEF Idle, Request, CreationAttempts

\* Changing one request keeps the types of all.
LEMMA UpdateType ==
  ASSUME NEW r \in Requests, NEW x \in Request, CarriedBy(x), ReqOK,
         req' = [req EXCEPT ![r] = x]
  PROVE  ReqOK'
  BY DEF ReqOK, Carried

\* So does returning.
LEMMA ReturnType ==
  ASSUME NEW r \in Requests, NEW result \in Results, ReqOK, Return(r, result)
  PROVE  ReqOK'
<1> DEFINE x == [Idle EXCEPT !.pc = result, !.op = req[r].op,
                             !.tok = IF result = "reuse" THEN req[r].tok ELSE None,
                             !.live = req[r].live]
<1>1. req \in [Requests -> Request]
  BY DEF ReqOK
<1>2. x \in Request
  <2>1. req[r] \in Request
    BY <1>1
  <2>2. /\ result \in {"idle"} \cup Running \cup Results
        /\ req[r].op \in {"none", "create", "refresh", "resolve", "signout", "revoke",
                          "revokeall"}
        /\ (IF result = "reuse" THEN req[r].tok ELSE None) \in Tokens \cup {None}
        /\ req[r].live \in BOOLEAN
    BY <2>1 DEF Request
  <2> QED BY ZenonT(40), <2>2, IdleType DEF Request
<1>3. x.pc = result
  BY DEF Idle
<1>4. req' = [req EXCEPT ![r] = x]
  BY DEF Return
<1>5. CarriedBy(x)
  BY <1>3 DEF CarriedBy, Results
<1> HIDE DEF x
<1> QED BY <1>1, <1>2, <1>4, <1>5, UpdateType

\* An issued access token has the type of one.
LEMMA IssueUntilType ==
  ASSUME BearerAssumption, now \in Times, NEW sid \in SessionIDs, NEW s \in Subjects,
         NEW until \in Nat
  PROVE  IssueUntil(sid, s, until) \in AccessToken
  BY DEF BearerAssumption, IssueUntil, AccessToken, Times

\* The store's writes keep its tables well formed.
LEMMA StoreTypes ==
  ASSUME TypeOK, BearerAssumption
  PROVE  /\ \A S : RevokeSessions(S) =>
                /\ access' \in [SessionIDs -> AccessSession \cup {None}]
                /\ refresh' \in [Tokens -> RefreshToken \cup {None}]
         /\ \A sid \in SessionIDs, s \in Subjects, t \in Tokens, at \in Nat :
                CreateSession(sid, s, t, at) =>
                /\ access' \in [SessionIDs -> AccessSession \cup {None}]
                /\ refresh' \in [Tokens -> RefreshToken \cup {None}]
         /\ \A t, u \in Tokens : Consume(t, u) =>
                /\ refresh' \in [Tokens -> RefreshToken \cup {None}]
                /\ parent' \in [Tokens -> Tokens \cup {None}]
<1> USE BearerAssumption DEF TypeOK
<1>1. ASSUME NEW S, RevokeSessions(S)
      PROVE  /\ access' \in [SessionIDs -> AccessSession \cup {None}]
             /\ refresh' \in [Tokens -> RefreshToken \cup {None}]
  BY <1>1 DEF RevokeSessions, RevokedTokens, AccessSession, RefreshToken
<1>2. ASSUME NEW sid \in SessionIDs, NEW s \in Subjects, NEW t \in Tokens, NEW at \in Nat,
             CreateSession(sid, s, t, at)
      PROVE  /\ access' \in [SessionIDs -> AccessSession \cup {None}]
             /\ refresh' \in [Tokens -> RefreshToken \cup {None}]
  BY <1>2 DEF CreateSession, AccessSession, RefreshToken
<1>3. ASSUME NEW t \in Tokens, NEW u \in Tokens, Consume(t, u)
      PROVE  /\ refresh' \in [Tokens -> RefreshToken \cup {None}]
             /\ parent' \in [Tokens -> Tokens \cup {None}]
  <2>1. refresh[t] \in RefreshToken /\ refresh[u] = None /\ t # u
    BY <1>3 DEF Consume, RefreshActive
  <2>2. [refresh[t] EXCEPT !.rotated = TRUE] \in RefreshToken /\ Replacement(t) \in RefreshToken
    BY <2>1 DEF RefreshToken, Replacement
  <2> QED BY <1>3, <2>1, <2>2 DEF Consume
<1> QED BY <1>1, <1>2, <1>3

\* The requests stay well formed.
LEMMA RequestTypes == TypeOK /\ Carried /\ [Next]_vars => ReqOK'
<1> SUFFICES ASSUME TypeOK, Carried, [Next]_vars PROVE ReqOK'
  OBVIOUS
<1> USE BearerAssumption
<1>0. /\ ReqOK /\ now \in Nat /\ now \in Times
      /\ access \in [SessionIDs -> AccessSession \cup {None}]
      /\ refresh \in [Tokens -> RefreshToken \cup {None}]
      /\ jwts \subseteq AccessToken
  BY DEF ReqOK, TypeOK, Times
<1>1. ASSUME NEW r \in Requests, NEW s \in Subjects, NEW sid \in SessionIDs, NEW t \in Tokens,
             BeginCreate(r, s, sid, t)
      PROVE ReqOK'
  <2> DEFINE jwt == IssueUntil(sid, s, now + RefreshLifetime)
             x == [Idle EXCEPT !.pc = "create", !.op = "create", !.subject = s, !.sid = sid,
                               !.new = t, !.at = now, !.jwt = jwt]
  <2>1. jwt \in AccessToken
    BY <1>0, IssueUntilType
  <2> HIDE DEF jwt
  <2>2. x \in Request /\ CarriedBy(x)
    BY ZenonT(40), <1>0, <2>1, IdleType DEF Request, Running, CarriedBy
  <2>3. req' = [req EXCEPT ![r] = x]
    BY <1>1 DEF BeginCreate, jwt
  <2> QED BY <1>0, <2>2, <2>3, UpdateType
<1>2. ASSUME NEW r \in Requests, NEW t \in Tokens, BeginRefresh(r, t) PROVE ReqOK'
  <2> DEFINE x == [Idle EXCEPT !.pc = "find", !.op = "refresh", !.tok = t, !.live = TokenLive(t)]
  <2>1. TokenLive(t) \in BOOLEAN
    BY DEF TokenLive
  <2>2. x \in Request /\ CarriedBy(x)
    BY ZenonT(40), <2>1, IdleType DEF Request, Running, CarriedBy
  <2> QED BY <1>0, <1>2, <2>2, UpdateType DEF BeginRefresh
<1>3. ASSUME NEW r \in Requests, NEW t \in Tokens, BeginSignOutRefresh(r, t) PROVE ReqOK'
  <2> DEFINE x == [Idle EXCEPT !.pc = "signoutfind", !.op = "signout", !.tok = t,
                               !.live = RefreshActive(t, now)]
  <2>1. RefreshActive(t, now) \in BOOLEAN
    BY DEF RefreshActive
  <2>2. x \in Request /\ CarriedBy(x)
    BY ZenonT(40), <2>1, IdleType DEF Request, Running, CarriedBy
  <2> QED BY <1>0, <1>3, <2>2, UpdateType DEF BeginSignOutRefresh
<1>4. ASSUME NEW r \in Requests, NEW jwt \in jwts, BeginResolve(r, jwt) PROVE ReqOK'
  <2> DEFINE pc == IF Unexpired(jwt) THEN "verify" ELSE "inactive"
             live == ~access[jwt.sid].revoked
             x == [Idle EXCEPT !.pc = pc, !.op = "resolve", !.sid = jwt.sid, !.jwt = jwt,
                               !.live = live]
  <2>1. /\ live \in BOOLEAN /\ pc \in Running \cup Results /\ pc \in {"verify", "inactive"}
        /\ jwt \in AccessToken /\ jwt.sid \in SessionIDs
    BY <1>0 DEF Running, Results, AccessToken
  <2> HIDE DEF pc, live
  <2>2. x \in Request /\ CarriedBy(x)
    BY ZenonT(40), <2>1, IdleType DEF Request, CarriedBy
  <2>3. req' = [req EXCEPT ![r] = x]
    BY <1>4 DEF BeginResolve, pc, live
  <2> QED BY <1>0, <2>2, <2>3, UpdateType
<1>5. ASSUME NEW r \in Requests, NEW jwt \in jwts, BeginSignOut(r, jwt) PROVE ReqOK'
  <2> DEFINE x == [Idle EXCEPT !.pc = "signout", !.op = "signout", !.sid = jwt.sid]
             y == [Idle EXCEPT !.pc = "ok", !.op = "signout"]
  <2>0. jwt.sid \in SessionIDs
    BY <1>0 DEF AccessToken
  <2>1a. x \in Request /\ CarriedBy(x)
    BY ZenonT(40), <2>0, IdleType DEF Request, Running, CarriedBy
  <2>1b. y \in Request
    BY IdleType DEF Request, Results
  <2>1c. CarriedBy(y)
    BY IdleType DEF Request, CarriedBy
  <2>1. x \in Request /\ CarriedBy(x) /\ y \in Request /\ CarriedBy(y)
    BY <2>1a, <2>1b, <2>1c
  <2> HIDE DEF x, y
  <2>2. req' = [req EXCEPT ![r] = x] \/ req' = [req EXCEPT ![r] = y]
    BY <1>5 DEF BeginSignOut, x, y
  <2> QED BY <1>0, <2>1, <2>2, UpdateType
<1>6. ASSUME NEW r \in Requests, NEW s \in Subjects, NEW sid \in SessionIDs,
             BeginRevokeByID(r, s, sid)
      PROVE ReqOK'
  <2> DEFINE pc == IF sid \in SessionsOf(s) THEN "revoke" ELSE "notfound"
             x == [Idle EXCEPT !.pc = pc, !.op = "revoke", !.sid = sid]
  <2>1. pc \in Running \cup Results /\ pc \in {"revoke", "notfound"}
    BY DEF Running, Results
  <2> HIDE DEF pc
  <2>2. x \in Request /\ CarriedBy(x)
    BY <2>1, IdleType DEF Request, CarriedBy
  <2>3. req' = [req EXCEPT ![r] = x]
    BY <1>6 DEF BeginRevokeByID, pc
  <2> QED BY <1>0, <2>2, <2>3, UpdateType
<1>7. ASSUME NEW r \in Requests, NEW s \in Subjects, RevokeAll(r, s) PROVE ReqOK'
  <2> DEFINE x == [Idle EXCEPT !.pc = "ok", !.op = "revokeall"]
             y == [Idle EXCEPT !.pc = "failed", !.op = "revokeall"]
  <2>1a. x \in Request
    BY IdleType DEF Request, Results
  <2>1b. y \in Request
    BY IdleType DEF Request, Results
  <2>1c. CarriedBy(x) /\ CarriedBy(y)
    BY IdleType DEF Request, CarriedBy
  <2>1. x \in Request /\ CarriedBy(x) /\ y \in Request /\ CarriedBy(y)
    BY <2>1a, <2>1b, <2>1c
  <2> HIDE DEF x, y
  <2>2. req' = [req EXCEPT ![r] = x] \/ req' = [req EXCEPT ![r] = y]
    BY <1>7 DEF RevokeAll, x, y
  <2> QED BY <1>0, <2>1, <2>2, UpdateType
<1>8. ASSUME NEW r \in Requests, NEW result \in Results, Return(r, result) PROVE ReqOK'
  BY <1>0, <1>8, ReturnType
<1>9. ASSUME NEW r \in Requests, CreateInStore(r) \/ VerifySession(r) \/ RevokeInStore(r)
                                  \/ Abandon(r)
      PROVE ReqOK'
  BY <1>8, <1>9 DEF CreateInStore, VerifySession, RevokeInStore, Abandon, Results
<1>10. ASSUME NEW r \in Requests, NEW x \in Request, CarriedBy(x),
              req' = [req EXCEPT ![r] = x]
       PROVE ReqOK'
  BY <1>0, <1>10, UpdateType
<1>11. ASSUME NEW r \in Requests PROVE req[r] \in Request /\ CarriedBy(req[r])
  BY <1>0 DEF ReqOK, Carried
<1>12. ASSUME NEW r \in Requests, RefreshFind(r) PROVE ReqOK'
  <2> DEFINE x == [req[r] EXCEPT !.pc = "session", !.sid = refresh[req[r].tok].session]
             y == [req[r] EXCEPT !.pc = "rotatefind"]
  <2>1. req[r].tok \in Tokens
    BY <1>11, <1>12 DEF RefreshFind, CarriedBy
  <2>2. CASE refresh[req[r].tok] # None
    <3>1. x \in Request /\ CarriedBy(x) /\ y \in Request /\ CarriedBy(y)
      BY ZenonT(40), <1>0, <1>11, <2>1, <2>2 DEF Request, Running, CarriedBy, RefreshToken
    <3>2. \/ req' = [req EXCEPT ![r] = x] \/ req' = [req EXCEPT ![r] = y]
          \/ Return(r, "failed") \/ Return(r, "notfound")
      BY <1>12 DEF RefreshFind, Goto
    <3> QED BY <1>8, <1>10, <3>1, <3>2 DEF Results
  <2>3. CASE refresh[req[r].tok] = None
    BY <1>8, <1>12, <2>3 DEF RefreshFind, RefreshActive, Results
  <2> QED BY <2>2, <2>3
<1>13. ASSUME NEW r \in Requests, RefreshSession(r) PROVE ReqOK'
  <2> DEFINE sid == req[r].sid
             jwt == IssueUntil(sid, access[sid].subject, access[sid].expires)
             x == [req[r] EXCEPT !.pc = "rotatefind", !.jwt = jwt]
  <2>1. sid \in SessionIDs
    BY <1>11, <1>13 DEF RefreshSession, CarriedBy
  <2>2. CASE SessionActive(sid) /\ req' = [req EXCEPT ![r] = x]
    <3>1. jwt \in AccessToken
      BY <1>0, <2>1, <2>2, IssueUntilType DEF SessionActive, AccessSession
    <3> HIDE DEF jwt
    <3>2. x \in Request /\ CarriedBy(x)
      BY ZenonT(40), <1>11, <1>13, <3>1 DEF RefreshSession, Request, Running, CarriedBy
    <3> QED BY <1>10, <2>2, <3>2
  <2>3. CASE Return(r, "inactive")
    BY <1>8, <2>3 DEF Results
  <2> QED BY <1>13, <2>2, <2>3 DEF RefreshSession
<1>14. ASSUME NEW r \in Requests, RotateFind(r) PROVE ReqOK'
  <2>1. CASE Return(r, "failed")
    BY <1>8, <2>1 DEF Results
  <2>2. ASSUME NEW u \in Tokens, req' = [req EXCEPT ![r].pc = "rotate", ![r].new = u]
        PROVE ReqOK'
    <3> DEFINE x == [req[r] EXCEPT !.pc = "rotate", !.new = u]
    <3>1. x \in Request /\ CarriedBy(x)
      BY ZenonT(40), <1>11, <1>14 DEF RotateFind, Request, Running, CarriedBy
    <3>2. req' = [req EXCEPT ![r] = x]
      BY <2>2
    <3> QED BY <1>10, <3>1, <3>2
  <2> QED BY <1>14, <2>1, <2>2 DEF RotateFind
<1>15. ASSUME NEW r \in Requests, RotateInStore(r) PROVE ReqOK'
  <2>1. ASSUME NEW u \in Tokens, req[r].tries + 1 # CreationAttempts,
               req' = [req EXCEPT ![r].tries = @ + 1, ![r].new = u]
        PROVE ReqOK'
    <3> DEFINE x == [req[r] EXCEPT !.tries = @ + 1, !.new = u]
    <3>0. req[r].tries + 1 \in 0..(CreationAttempts - 1)
      BY <1>11, <2>1 DEF Request, CreationAttempts
    <3>1a. x \in Request
      BY <1>11, <3>0 DEF Request
    <3>1b. CarriedBy(x)
      BY <1>11, <1>15 DEF RotateInStore, Request, CarriedBy
    <3>1. x \in Request /\ CarriedBy(x)
      BY <3>1a, <3>1b
    <3>2. req' = [req EXCEPT ![r] = x]
      BY <2>1
    <3> QED BY <1>10, <3>1, <3>2
  <2>2. CASE \E result \in Results : Return(r, result)
    BY <1>8, <2>2
  <2> QED BY <1>15, <2>1, <2>2 DEF RotateInStore, Redraw, Results
<1>16. ASSUME NEW r \in Requests, SignOutFind(r) PROVE ReqOK'
  <2> DEFINE x == [req[r] EXCEPT !.pc = "signout", !.sid = refresh[req[r].tok].session]
  <2>1. CASE RefreshActive(req[r].tok, now) /\ req' = [req EXCEPT ![r] = x]
    <3>1. x \in Request /\ CarriedBy(x)
      BY ZenonT(40), <1>0, <1>11, <1>16, <2>1
      DEF SignOutFind, RefreshActive, RefreshToken, Request, Running, CarriedBy
    <3> QED BY <1>10, <2>1, <3>1
  <2>2. CASE Return(r, "ok") \/ Return(r, "failed")
    BY <1>8, <2>2 DEF Results
  <2> QED BY <1>16, <2>1, <2>2 DEF SignOutFind
<1>17. CASE Tick \/ UNCHANGED vars
  BY <1>0, <1>17 DEF Tick, vars, ReqOK, Carried
<1> QED
  BY <1>1, <1>2, <1>3, <1>4, <1>5, <1>6, <1>7, <1>9, <1>12, <1>13, <1>14, <1>15, <1>16, <1>17
  DEF Next, Begin, Step

-----------------------------------------------------------------------------
(***************************************************************************)
(* What a step of the program does to the store.                           *)
(***************************************************************************)

CreateStep ==
    \E sid \in SessionIDs, s \in Subjects, t \in Tokens, at \in Nat :
        CreateSession(sid, s, t, at) /\ UNCHANGED parent

RevokeStep == \E S \in SUBSET SessionIDs : RevokeSessions(S) /\ UNCHANGED parent

ConsumeStep == \E t, u \in Tokens : Consume(t, u)

StoreStep ==
    CreateStep \/ RevokeStep \/ ConsumeStep \/ UNCHANGED <<access, refresh, parent>>

\* Whatever the routes and the managers do, the tables change by one of the
\* store's own methods, called with arguments of the right kind.
LEMMA StoreEffect == TypeOK /\ Carried /\ [Next]_vars => StoreStep
<1> SUFFICES ASSUME TypeOK, Carried, [Next]_vars PROVE StoreStep
  OBVIOUS
<1>1. ASSUME NEW r \in Requests
      PROVE  req[r] \in Request /\ CarriedBy(req[r])
  BY DEF TypeOK, Carried
<1>2. ASSUME NEW r \in Requests, CreateInStore(r) PROVE StoreStep
  <2>1. /\ req[r].sid \in SessionIDs /\ req[r].subject \in Subjects
        /\ req[r].new \in Tokens /\ req[r].at \in Nat
    BY <1>1, <1>2 DEF CreateInStore, CarriedBy, Request
  <2>2. \/ CreateSession(req[r].sid, req[r].subject, req[r].new, req[r].at) /\ UNCHANGED parent
        \/ UNCHANGED <<access, refresh, parent>>
    BY <1>2 DEF CreateInStore
  <2> QED BY <2>1, <2>2 DEF StoreStep, CreateStep
<1>3. ASSUME NEW r \in Requests, RotateInStore(r) PROVE StoreStep
  <2>1. req[r].tok \in Tokens /\ req[r].new \in Tokens
    BY <1>1, <1>3 DEF RotateInStore, CarriedBy
  <2>2. CASE Consume(req[r].tok, req[r].new)
    BY <2>1, <2>2 DEF StoreStep, ConsumeStep
  <2>3. CASE DetectReuse(req[r].tok)
    <3>1. {refresh[req[r].tok].session} \in SUBSET SessionIDs
      BY <2>1, <2>3, NoneAssumption DEF DetectReuse, TypeOK, RefreshToken
    <3> QED BY <2>3, <3>1 DEF DetectReuse, StoreStep, RevokeStep
  <2>4. CASE UNCHANGED <<access, refresh, parent>>
    BY <2>4 DEF StoreStep
  <2> QED BY <1>3, <2>2, <2>3, <2>4 DEF RotateInStore
<1>4. ASSUME NEW r \in Requests, RevokeInStore(r) PROVE StoreStep
  <2>1. {req[r].sid} \in SUBSET SessionIDs
    BY <1>1, <1>4 DEF RevokeInStore, CarriedBy
  <2>2. \/ RevokeSessions({req[r].sid}) /\ UNCHANGED parent
        \/ UNCHANGED <<access, refresh, parent>>
    BY <1>4 DEF RevokeInStore
  <2> QED BY <2>1, <2>2 DEF StoreStep, RevokeStep
<1>5. ASSUME NEW r \in Requests, NEW s \in Subjects, RevokeAll(r, s) PROVE StoreStep
  <2>1. SessionsOf(s) \in SUBSET SessionIDs
    BY DEF SessionsOf
  <2>2. \/ RevokeSessions(SessionsOf(s)) /\ UNCHANGED parent
        \/ UNCHANGED <<access, refresh, parent>>
    BY <1>5 DEF RevokeAll
  <2> QED BY <2>1, <2>2 DEF StoreStep, RevokeStep
<1>6. ASSUME NEW r \in Requests, Begin(r) PROVE StoreStep
  BY <1>5, <1>6 DEF Begin, BeginCreate, BeginRefresh, BeginSignOutRefresh, BeginResolve,
                    BeginSignOut, BeginRevokeByID, StoreStep
<1>7. ASSUME NEW r \in Requests, Step(r) PROVE StoreStep
  BY <1>2, <1>3, <1>4, <1>7 DEF Step, RefreshFind, RefreshSession, RotateFind, VerifySession,
                                SignOutFind, StoreStep
<1>8. ASSUME NEW r \in Requests, Abandon(r) PROVE StoreStep
  BY <1>8 DEF Abandon, StoreStep
<1>9. CASE Tick \/ UNCHANGED vars
  BY <1>9 DEF Tick, vars, StoreStep
<1> QED BY <1>6, <1>7, <1>8, <1>9 DEF Next

\* The methods of the store keep the types of the two tables.
LEMMA StoreStepTypes ==
  ASSUME TypeOK, StoreStep
  PROVE  /\ access' \in [SessionIDs -> AccessSession \cup {None}]
         /\ refresh' \in [Tokens -> RefreshToken \cup {None}]
         /\ parent' \in [Tokens -> Tokens \cup {None}]
<1> USE BearerAssumption
<1>1. CASE CreateStep
  BY <1>1, StoreTypes DEF CreateStep, TypeOK
<1>2. CASE RevokeStep
  BY <1>2, StoreTypes DEF RevokeStep, TypeOK
<1>3. CASE ConsumeStep
  <2>1. PICK t \in Tokens, u \in Tokens : Consume(t, u)
    BY <1>3 DEF ConsumeStep
  <2>2. access' = access
    BY <2>1 DEF Consume
  <2> QED BY <2>1, <2>2, StoreTypes DEF TypeOK
<1>4. CASE UNCHANGED <<access, refresh, parent>>
  BY <1>4 DEF TypeOK
<1> QED BY <1>1, <1>2, <1>3, <1>4 DEF StoreStep

\* The clock and the access tokens handed out.
LEMMA ClockTypes ==
  TypeOK /\ Carried /\ [Next]_vars => now' \in Times /\ jwts' \subseteq AccessToken
<1> SUFFICES ASSUME TypeOK, Carried, [Next]_vars
             PROVE  now' \in Times /\ jwts' \subseteq AccessToken
  OBVIOUS
<1>1. ASSUME NEW r \in Requests
      PROVE  req[r] \in Request /\ CarriedBy(req[r])
  BY DEF TypeOK, Carried
<1>2. ASSUME NEW r \in Requests, CreateInStore(r)
      PROVE  now' = now /\ jwts' \subseteq AccessToken
  BY <1>1, <1>2 DEF CreateInStore, CarriedBy, TypeOK
<1>3. ASSUME NEW r \in Requests, RotateInStore(r)
      PROVE  now' = now /\ jwts' \subseteq AccessToken
  <2>1. req[r].jwt \in AccessToken \cup {None}
    BY <1>1 DEF Request
  <2>2. now' = now /\ jwts' \in {jwts, jwts \cup ({req[r].jwt} \ {None})}
    BY <1>3 DEF RotateInStore
  <2> QED BY <2>1, <2>2 DEF TypeOK
<1>4. ASSUME NEW r \in Requests, Begin(r) \/ Abandon(r)
      PROVE  UNCHANGED <<now, jwts>>
  BY <1>4 DEF Begin, BeginCreate, BeginRefresh, BeginSignOutRefresh, BeginResolve,
              BeginSignOut, BeginRevokeByID, RevokeAll, Abandon
<1>5. ASSUME NEW r \in Requests, Step(r)
      PROVE  now' = now /\ jwts' \subseteq AccessToken
  <2>1. CASE RefreshFind(r) \/ RefreshSession(r) \/ RotateFind(r) \/ VerifySession(r)
             \/ SignOutFind(r) \/ RevokeInStore(r)
    BY <2>1 DEF RefreshFind, RefreshSession, RotateFind, VerifySession, SignOutFind,
                RevokeInStore, TypeOK
  <2> QED BY <1>2, <1>3, <1>5, <2>1 DEF Step
<1>6. CASE Tick
  BY <1>6, BearerAssumption DEF Tick, TypeOK, Times
<1>7. CASE UNCHANGED vars
  BY <1>7 DEF vars, TypeOK
<1> QED BY <1>4, <1>5, <1>6, <1>7 DEF Next, TypeOK

\* Every request stays within the protocol and every table within its columns,
\* for every interleaving, collision, failed store call and abandoned request.
THEOREM TypeCorrect == Spec => [](TypeOK /\ Carried)
<1>1. Init => TypeOK /\ Carried
  <2> SUFFICES ASSUME Init PROVE TypeOK /\ Carried
    OBVIOUS
  <2>1. req \in [Requests -> Request]
    BY IdleType DEF Init
  <2>2. Carried
    BY DEF Init, Carried, CarriedBy, Idle
  <2> QED BY <2>1, <2>2, BearerAssumption DEF Init, TypeOK, Times
<1>2. TypeOK /\ Carried /\ [Next]_vars => (TypeOK /\ Carried)'
  BY RequestTypes, StoreEffect, StoreStepTypes, ClockTypes DEF TypeOK, ReqOK
<1> QED BY <1>1, <1>2, PTL DEF Spec

-----------------------------------------------------------------------------
(***************************************************************************)
(* The token chain.  RevokedTogether, OneUnspentToken and                  *)
(* ChainWithinSession are inductive only together, and with Rooted: a      *)
(* rotation needs to know that its token has not been replaced before      *)
(* (ChainWithinSession), that no other token of the session is unspent     *)
(* (OneUnspentToken) and that the session is alive (RevokedTogether).      *)
(***************************************************************************)

\* A token that was never inserted replaced nothing.
Rooted == \A t \in Tokens : refresh[t] = None => parent[t] = None

ParentKnown == \A t \in Tokens : parent[t] # None => refresh[parent[t]] # None

Chain == RevokedTogether /\ OneUnspentToken /\ ChainWithinSession /\ Rooted /\ ParentKnown

\* Creating a session starts a chain of its own.
LEMMA ChainCreate == TypeOK /\ Chain /\ CreateStep => Chain'
<1> SUFFICES ASSUME TypeOK, Chain, CreateStep PROVE Chain'
  OBVIOUS
<1> USE NoneAssumption, BearerAssumption
<1>1. PICK sid \in SessionIDs, s \in Subjects, t \in Tokens, at \in Nat :
         CreateSession(sid, s, t, at) /\ UNCHANGED parent
  BY DEF CreateStep
<1> DEFINE row == [session |-> sid, expires |-> at + RefreshLifetime,
                   rotated |-> FALSE, revoked |-> FALSE]
           session == [subject |-> s, expires |-> at + RefreshLifetime, revoked |-> FALSE]
<1>2. /\ access[sid] = None /\ refresh[t] = None /\ parent' = parent
      /\ access' = [access EXCEPT ![sid] = session]
      /\ refresh' = [refresh EXCEPT ![t] = row]
  BY <1>1 DEF CreateSession
<1>3. row \in RefreshToken /\ session \in AccessSession
  BY DEF RefreshToken, AccessSession
<1>4. /\ row.session = sid /\ row.expires = session.expires
      /\ ~row.revoked /\ ~row.rotated /\ ~session.revoked
  OBVIOUS
<1> HIDE DEF row, session
<1>5. \A u \in Tokens : u # t => refresh'[u] = refresh[u]
  BY <1>2 DEF TypeOK
<1>6. \A o \in SessionIDs : o # sid => access'[o] = access[o]
  BY <1>2 DEF TypeOK
<1>7. refresh'[t] = row /\ access'[sid] = session /\ row # None /\ session # None
  BY <1>2, <1>3 DEF TypeOK
<1>8. \A u \in Tokens : refresh[u] # None =>
         refresh[u].session \in SessionIDs /\ refresh[u].session # sid
  BY <1>2 DEF TypeOK, RefreshToken, Chain, ChainWithinSession
<1>9. \A u \in Tokens : parent[u] # t
  BY <1>2 DEF Chain, ParentKnown, TypeOK
<1>10. RevokedTogether'
  BY <1>4, <1>5, <1>6, <1>7, <1>8 DEF Chain, RevokedTogether
<1>11. OneUnspentToken'
  BY <1>4, <1>5, <1>7, <1>8 DEF Chain, OneUnspentToken
<1>12. ChainWithinSession'
  <2>1. \A u \in Tokens : parent[u] # None => parent[u] \in Tokens /\ parent[u] # t
    BY <1>9 DEF TypeOK
  <2>2. \A u, v \in Tokens : parent'[u] # None /\ parent'[u] = parent'[v] => u = v
    BY <1>2 DEF Chain, ChainWithinSession
  <2>3. ASSUME NEW u \in Tokens, refresh'[u] # None
        PROVE  /\ access'[refresh'[u].session] # None
               /\ refresh'[u].expires = access'[refresh'[u].session].expires
               /\ parent'[u] # None => /\ refresh'[parent'[u]].rotated
                                       /\ refresh'[parent'[u]].session = refresh'[u].session
    <3>1. CASE u = t
      BY <1>2, <1>4, <1>7, <3>1 DEF Chain, Rooted
    <3>2. CASE u # t
      BY <1>2, <1>5, <1>6, <1>8, <2>1, <2>3, <3>2 DEF Chain, ChainWithinSession
    <3> QED BY <3>1, <3>2
  <2> QED BY <2>2, <2>3 DEF ChainWithinSession
<1>13. Rooted' /\ ParentKnown'
  BY <1>2, <1>5, <1>7, <1>9 DEF Chain, Rooted, ParentKnown, TypeOK
<1> QED BY <1>10, <1>11, <1>12, <1>13 DEF Chain

\* What revoking the sessions S does to one row.
TokenRevoked(t, S) ==
    /\ (refresh'[t] = None) <=> (refresh[t] = None)
    /\ refresh[t] # None =>
          /\ refresh[t].session \in SessionIDs
          /\ refresh'[t].session = refresh[t].session
          /\ refresh'[t].expires = refresh[t].expires
          /\ refresh'[t].rotated = refresh[t].rotated
          /\ refresh'[t].revoked <=> (refresh[t].revoked \/ refresh[t].session \in S)

SessionRevoked(o, S) ==
    /\ (access'[o] = None) <=> (access[o] = None)
    /\ access[o] # None =>
          /\ access'[o].expires = access[o].expires
          /\ access'[o].revoked <=> (access[o].revoked \/ o \in S)

\* Revoking sessions marks their rows and their tokens, and no others.
LEMMA RevokeRows ==
  ASSUME TypeOK, NEW S \in SUBSET SessionIDs, RevokeSessions(S)
  PROVE  /\ \A t \in Tokens : TokenRevoked(t, S)
         /\ \A o \in SessionIDs : SessionRevoked(o, S)
<1> USE NoneAssumption
<1>1. ASSUME NEW t \in Tokens
      PROVE  TokenRevoked(t, S)
  <2>1. refresh'[t] = IF refresh[t] # None /\ refresh[t].session \in S
                      THEN [refresh[t] EXCEPT !.revoked = TRUE] ELSE refresh[t]
    BY DEF RevokeSessions, RevokedTokens
  <2>2. CASE refresh[t] = None
    BY <2>1, <2>2 DEF TokenRevoked
  <2>3. CASE refresh[t] # None
    <3>1. refresh[t] \in RefreshToken
      BY <2>3 DEF TypeOK
    <3>2. [refresh[t] EXCEPT !.revoked = TRUE] \in RefreshToken
      BY <3>1 DEF RefreshToken
    <3>3. refresh'[t] # None
      BY <2>1, <2>3, <3>2
    <3> QED BY <2>1, <2>3, <3>1, <3>3 DEF RefreshToken, TokenRevoked
  <2> QED BY <2>2, <2>3
<1>2. ASSUME NEW o \in SessionIDs
      PROVE  SessionRevoked(o, S)
  <2>1. access'[o] = IF access[o] # None /\ o \in S
                     THEN [access[o] EXCEPT !.revoked = TRUE] ELSE access[o]
    BY DEF RevokeSessions
  <2>2. CASE access[o] = None
    BY <2>1, <2>2 DEF SessionRevoked
  <2>3. CASE access[o] # None
    <3>1. access[o] \in AccessSession
      BY <2>3 DEF TypeOK
    <3>2. [access[o] EXCEPT !.revoked = TRUE] \in AccessSession
      BY <3>1 DEF AccessSession
    <3>3. access'[o] # None
      BY <2>1, <2>3, <3>2
    <3> QED BY <2>1, <2>3, <3>1, <3>3 DEF AccessSession, SessionRevoked
  <2> QED BY <2>2, <2>3
<1> QED BY <1>1, <1>2

\* Revocation marks a session together with its whole chain.
LEMMA ChainRevoke == TypeOK /\ Chain /\ RevokeStep => Chain'
<1> SUFFICES ASSUME TypeOK, Chain, RevokeStep PROVE Chain'
  OBVIOUS
<1> USE NoneAssumption, BearerAssumption
<1>1. PICK S \in SUBSET SessionIDs : RevokeSessions(S) /\ UNCHANGED parent
  BY DEF RevokeStep
<1>2. parent' = parent
  BY <1>1
<1>3. \A t \in Tokens : TokenRevoked(t, S)
  BY <1>1, RevokeRows
<1>4. \A o \in SessionIDs : SessionRevoked(o, S)
  BY <1>1, RevokeRows
<1>5. \A t \in Tokens : refresh[t] # None => access[refresh[t].session] # None
  BY DEF Chain, ChainWithinSession
<1>6. RevokedTogether'
  BY <1>3, <1>4, <1>5 DEF Chain, RevokedTogether, TokenRevoked, SessionRevoked
<1>7. OneUnspentToken'
  BY <1>3 DEF Chain, OneUnspentToken, TokenRevoked
<1>8. ChainWithinSession'
  <2>1. \A u \in Tokens : parent[u] # None => parent[u] \in Tokens /\ refresh[parent[u]] # None
    BY DEF TypeOK, Chain, ParentKnown
  <2>2. \A u, v \in Tokens : parent'[u] # None /\ parent'[u] = parent'[v] => u = v
    BY <1>2 DEF Chain, ChainWithinSession
  <2>3. ASSUME NEW u \in Tokens, refresh'[u] # None
        PROVE  /\ access'[refresh'[u].session] # None
               /\ refresh'[u].expires = access'[refresh'[u].session].expires
               /\ parent'[u] # None => /\ refresh'[parent'[u]].rotated
                                       /\ refresh'[parent'[u]].session = refresh'[u].session
    BY <1>2, <1>3, <1>4, <2>1, <2>3
    DEF Chain, ChainWithinSession, TokenRevoked, SessionRevoked
  <2> QED BY <2>2, <2>3 DEF ChainWithinSession
<1>9. Rooted' /\ ParentKnown'
  BY <1>2, <1>3 DEF Chain, Rooted, ParentKnown, TypeOK, TokenRevoked
<1> QED BY <1>6, <1>7, <1>8, <1>9 DEF Chain

\* A refresh extends the chain at its one unspent token, a replay revokes it.
LEMMA ChainConsume == TypeOK /\ Chain /\ ConsumeStep => Chain'
<1> SUFFICES ASSUME TypeOK, Chain, ConsumeStep PROVE Chain'
  OBVIOUS
<1> USE NoneAssumption, BearerAssumption
<1>1. PICK t \in Tokens, u \in Tokens : Consume(t, u)
  BY DEF ConsumeStep
<1> DEFINE spent == [refresh[t] EXCEPT !.rotated = TRUE]
           row == Replacement(t)
<1>2. /\ refresh[t] # None /\ ~refresh[t].rotated /\ ~refresh[t].revoked
      /\ refresh[u] = None /\ t # u
      /\ refresh' = [refresh EXCEPT ![t] = spent, ![u] = row]
      /\ parent' = [parent EXCEPT ![u] = t]
      /\ access' = access
  BY <1>1 DEF Consume, RefreshActive
<1>3. refresh[t] \in RefreshToken
  BY <1>2 DEF TypeOK
<1>4. /\ spent \in RefreshToken /\ spent.session = refresh[t].session
      /\ spent.expires = refresh[t].expires /\ spent.rotated /\ ~spent.revoked
  BY <1>2, <1>3 DEF RefreshToken
<1>5. /\ row \in RefreshToken /\ row.session = refresh[t].session
      /\ row.expires = refresh[t].expires /\ ~row.rotated /\ ~row.revoked
  BY <1>3 DEF RefreshToken, Replacement
<1> HIDE DEF spent, row
<1>6. /\ refresh'[t] = spent /\ refresh'[u] = row /\ spent # None /\ row # None
      /\ \A v \in Tokens : v # t /\ v # u => refresh'[v] = refresh[v]
  BY <1>2, <1>4, <1>5 DEF TypeOK
<1>7. parent'[u] = t /\ \A v \in Tokens : v # u => parent'[v] = parent[v]
  BY <1>2 DEF TypeOK
<1>8. \A v \in Tokens : parent[v] # t
  BY <1>2 DEF Chain, ChainWithinSession, Rooted
<1>9. \A v \in Tokens : parent[v] # None =>
         parent[v] \in Tokens /\ parent[v] # t /\ parent[v] # u /\ refresh[v] # None
  BY <1>2, <1>8 DEF TypeOK, Chain, ParentKnown, Rooted
<1>10. RevokedTogether'
  BY ZenonT(40), <1>2, <1>4, <1>5, <1>6 DEF Chain, RevokedTogether
<1>11. OneUnspentToken'
  BY <1>2, <1>4, <1>5, <1>6 DEF Chain, OneUnspentToken
<1>12. ChainWithinSession'
  <2>1. ASSUME NEW v \in Tokens, NEW w \in Tokens,
               parent'[v] # None, parent'[v] = parent'[w]
        PROVE  v = w
    BY <1>7, <1>8, <2>1 DEF Chain, ChainWithinSession
  <2>2. ASSUME NEW v \in Tokens, refresh'[v] # None
        PROVE  /\ access'[refresh'[v].session] # None
               /\ refresh'[v].expires = access'[refresh'[v].session].expires
               /\ parent'[v] # None => /\ refresh'[parent'[v]].rotated
                                       /\ refresh'[parent'[v]].session = refresh'[v].session
    <3>0. /\ access[refresh[t].session] # None
          /\ refresh[t].expires = access[refresh[t].session].expires
          /\ parent[t] # None => /\ refresh[parent[t]].rotated
                                 /\ refresh[parent[t]].session = refresh[t].session
      BY <1>2 DEF Chain, ChainWithinSession
    <3>1. CASE v = u
      <4>1. refresh'[v] = row /\ parent'[v] = t
        BY <1>6, <1>7, <3>1
      <4>2. refresh'[t].rotated /\ refresh'[t].session = row.session
        BY <1>4, <1>5, <1>6
      <4>3. access'[row.session] # None /\ row.expires = access'[row.session].expires
        BY <1>2, <1>5, <3>0
      <4> QED BY <4>1, <4>2, <4>3
    <3>2. CASE v = t
      <4>1. refresh'[v] = spent /\ parent'[v] = parent[t]
        BY <1>2, <1>6, <1>7, <3>2
      <4>2. access'[spent.session] # None /\ spent.expires = access'[spent.session].expires
        BY <1>2, <1>4, <3>0
      <4>3. ASSUME parent[t] # None
            PROVE  refresh'[parent[t]].rotated /\ refresh'[parent[t]].session = spent.session
        BY <1>4, <1>6, <1>9, <3>0, <4>3
      <4> QED BY <4>1, <4>2, <4>3
    <3>3. CASE v # u /\ v # t
      <4>1. refresh'[v] = refresh[v] /\ parent'[v] = parent[v]
        BY <1>6, <1>7, <3>3
      <4>2. /\ access[refresh[v].session] # None
            /\ refresh[v].expires = access[refresh[v].session].expires
            /\ parent[v] # None => /\ refresh[parent[v]].rotated
                                   /\ refresh[parent[v]].session = refresh[v].session
        BY <2>2, <4>1 DEF Chain, ChainWithinSession
      <4>3. parent[v] # None => refresh'[parent[v]] = refresh[parent[v]]
        BY <1>6, <1>9
      <4> QED BY <1>2, <4>1, <4>2, <4>3
    <3> QED BY <3>1, <3>2, <3>3
  <2> QED BY <2>1, <2>2 DEF ChainWithinSession
<1>13. Rooted' /\ ParentKnown'
  BY <1>6, <1>7, <1>9 DEF Chain, Rooted, ParentKnown
<1> QED BY <1>10, <1>11, <1>12, <1>13 DEF Chain

\* Every step keeps the chains.
LEMMA ChainStep == TypeOK /\ Carried /\ Chain /\ [Next]_vars => Chain'
<1> SUFFICES ASSUME TypeOK, Carried, Chain, [Next]_vars PROVE Chain'
  OBVIOUS
<1>1. CASE UNCHANGED <<access, refresh, parent>>
  BY <1>1 DEF Chain, RevokedTogether, OneUnspentToken, ChainWithinSession, Rooted, ParentKnown
<1> QED BY <1>1, StoreEffect, ChainCreate, ChainRevoke, ChainConsume DEF StoreStep

\* There is no chain at the start.
LEMMA ChainInit == Init => Chain
  BY DEF Init, Chain, RevokedTogether, OneUnspentToken, ChainWithinSession, Rooted, ParentKnown

\* The chain of refresh tokens is sound however refreshes, retries, revocations
\* and failures interleave: one unspent token per session, no branching, no
\* outliving the session, and session and tokens revoked together.
THEOREM ChainSound == Spec => []TokenChain
<1>1. TypeOK /\ Carried /\ Chain /\ [Next]_vars => Chain'
  BY ChainStep
<1>2. Chain => TokenChain
  BY DEF Chain, TokenChain
<1> QED BY <1>1, <1>2, ChainInit, TypeCorrect, PTL DEF Spec

\* Tables, tokens and requests are consistent in every state: types and chain together.
THEOREM AlwaysConsistent == Spec => []Consistent
BY TypeCorrect, ChainSound, PTL DEF Consistent

\* No step, failed or retried or raced, brings a revoked session, a revoked token
\* or a spent token back, or moves a session's expiry.
THEOREM Final == Spec => NothingRevives
<1> DEFINE Kept == /\ \A sid \in SessionIDs : access[sid] # None =>
                         /\ access'[sid] # None
                         /\ access'[sid].expires = access[sid].expires
                         /\ access[sid].revoked => access'[sid].revoked
                   /\ \A t \in Tokens : refresh[t] # None =>
                         /\ refresh'[t] # None
                         /\ refresh[t].rotated => refresh'[t].rotated
                         /\ refresh[t].revoked => refresh'[t].revoked
<1>1. TypeOK /\ Carried /\ [Next]_vars => [Kept]_vars
  <2> SUFFICES ASSUME TypeOK, Carried, [Next]_vars PROVE Kept
    OBVIOUS
  <2> USE NoneAssumption
  <2>1. CASE CreateStep
    BY <2>1 DEF CreateStep, CreateSession, TypeOK
  <2>2. CASE RevokeStep
    <3>1. PICK S \in SUBSET SessionIDs : RevokeSessions(S)
      BY <2>2 DEF RevokeStep
    <3> QED BY <3>1, RevokeRows DEF TokenRevoked, SessionRevoked
  <2>3. CASE ConsumeStep
    <3>1. PICK t \in Tokens, u \in Tokens : Consume(t, u)
      BY <2>3 DEF ConsumeStep
    <3>2. refresh[t] \in RefreshToken /\ refresh[u] = None /\ t # u /\ access' = access
      BY <3>1 DEF Consume, RefreshActive, TypeOK
    <3>3. \A v \in Tokens : v # u /\ v # t => refresh'[v] = refresh[v]
      BY <3>1 DEF Consume, TypeOK
    <3>4. refresh'[t] = [refresh[t] EXCEPT !.rotated = TRUE]
      BY <3>1, <3>2 DEF Consume, TypeOK
    <3>5. [refresh[t] EXCEPT !.rotated = TRUE] \in RefreshToken
      BY <3>2 DEF RefreshToken
    <3>6. /\ refresh'[t] # None /\ refresh'[t].rotated
          /\ refresh[t].revoked => refresh'[t].revoked
      BY <3>2, <3>4, <3>5 DEF RefreshToken
    <3> QED BY <3>2, <3>3, <3>6
  <2>4. CASE UNCHANGED <<access, refresh, parent>>
    BY <2>4
  <2> QED BY <2>1, <2>2, <2>3, <2>4, StoreEffect DEF StoreStep
<1> QED BY <1>1, TypeCorrect, PTL DEF Spec, NothingRevives

\* A refresh token is spent only while its session is neither revoked nor expired,
\* although the lookup that allowed it may be long past.
THEOREM SpentInLiveSession == Spec => RotatesOnlyLiveSession
<1> DEFINE Live == \A t \in Tokens :
                      /\ refresh[t] # None /\ ~refresh[t].rotated
                      /\ refresh'[t].rotated
                      => /\ ~access[refresh[t].session].revoked
                         /\ now < access[refresh[t].session].expires
<1>1. TypeOK /\ Carried /\ Chain /\ [Next]_vars => [Live]_vars
  <2> SUFFICES ASSUME TypeOK, Carried, Chain, [Next]_vars,
                      NEW v \in Tokens, refresh[v] # None, ~refresh[v].rotated,
                      refresh'[v].rotated
               PROVE  /\ ~access[refresh[v].session].revoked
                      /\ now < access[refresh[v].session].expires
    OBVIOUS
  <2> USE NoneAssumption
  <2>1. CASE CreateStep
    <3>1. refresh'[v] = refresh[v]
      BY <2>1 DEF CreateStep, CreateSession, TypeOK
    <3> QED BY <3>1
  <2>2. CASE RevokeStep
    <3>1. PICK S \in SUBSET SessionIDs : RevokeSessions(S)
      BY <2>2 DEF RevokeStep
    <3>2. refresh'[v].rotated = refresh[v].rotated
      BY <3>1, RevokeRows DEF TokenRevoked
    <3> QED BY <3>2
  <2>3. CASE ConsumeStep
    <3>1. PICK t \in Tokens, u \in Tokens : Consume(t, u)
      BY <2>3 DEF ConsumeStep
    <3>2. CASE v # t
      <4>1. v # u /\ refresh'[v] = refresh[v]
        BY <3>1, <3>2 DEF Consume, TypeOK
      <4> QED BY <4>1
    <3>3. CASE v = t
      <4>1. ~refresh[v].revoked /\ now < refresh[v].expires
        BY <3>1, <3>3 DEF Consume, RefreshActive
      <4> QED BY <4>1 DEF Chain, RevokedTogether, ChainWithinSession
    <3> QED BY <3>2, <3>3
  <2>4. CASE UNCHANGED <<access, refresh, parent>>
    BY <2>4
  <2> QED BY <2>1, <2>2, <2>3, <2>4, StoreEffect DEF StoreStep
<1>2. TypeOK /\ Carried /\ Chain /\ [Next]_vars => Chain'
  BY ChainStep
<1> QED BY <1>1, <1>2, ChainInit, TypeCorrect, PTL DEF Spec, RotatesOnlyLiveSession

-----------------------------------------------------------------------------
(***************************************************************************)
(* The inductive invariant: what a request read from the tables a and f    *)
(* and still relies on.  It only relies on what no later step of another   *)
(* request can undo.                                                       *)
(***************************************************************************)

\* The session of a refresh token is revoked.
Ended(t, a, f) == f[t] # None /\ a[f[t].session].revoked

Within(jwt, a) ==
    /\ a[jwt.sid] # None
    /\ jwt.subject = a[jwt.sid].subject
    /\ jwt.expires <= a[jwt.sid].expires

SoundBy(x, a, f) ==
    /\ x.pc = "create" =>
         /\ x.op = "create" /\ x.at \in Times
         /\ x.jwt.sid = x.sid /\ x.jwt.subject = x.subject
         /\ x.jwt.expires <= x.at + RefreshLifetime
    /\ x.pc \in {"find", "session", "rotatefind", "rotate"} =>
         x.op = "refresh" /\ (~x.live => Ended(x.tok, a, f))
    /\ x.pc \in {"find", "session"} => x.jwt = None
    /\ x.pc \in {"rotatefind", "rotate"} /\ x.jwt # None => Within(x.jwt, a)
    /\ x.pc = "verify" =>
         x.op = "resolve" /\ Within(x.jwt, a) /\ (~x.live => a[x.jwt.sid].revoked)
    /\ x.pc = "signoutfind" => x.op = "signout" /\ (x.live => f[x.tok] # None)
    /\ x.pc = "signout" =>
         x.op = "signout" /\ (x.tok # None => f[x.tok] # None /\ x.sid = f[x.tok].session)
    /\ x.pc = "revoke" => x.op = "revoke"
    /\ x.pc = "reuse" => x.tok \in Tokens /\ Ended(x.tok, a, f)
    /\ x.pc = "ok" /\ x.op \in {"resolve", "refresh"} => x.live

Sound == \A r \in Requests : SoundBy(req[r], access, refresh)

Issued == \A jwt \in jwts : Within(jwt, access)

Base == TypeOK /\ Carried /\ Chain

Inv == Base /\ Sound /\ Issued

-----------------------------------------------------------------------------
(***************************************************************************)
(* What no step undoes.                                                    *)
(***************************************************************************)

Persistent ==
    /\ \A sid \in SessionIDs : access[sid] # None =>
          /\ access'[sid] # None
          /\ access'[sid].subject = access[sid].subject
          /\ access'[sid].expires = access[sid].expires
          /\ access[sid].revoked => access'[sid].revoked
    /\ \A t \in Tokens : refresh[t] # None =>
          refresh'[t] # None /\ refresh'[t].session = refresh[t].session

\* No step of the manager removes a row, reopens one or moves its expiry.
LEMMA RowsPersist == TypeOK /\ Carried /\ [Next]_vars => Persistent
<1> SUFFICES ASSUME TypeOK, Carried, [Next]_vars PROVE Persistent
  OBVIOUS
<1> USE NoneAssumption
<1>1. CASE CreateStep
  BY <1>1 DEF CreateStep, CreateSession, TypeOK, Persistent
<1>2. CASE RevokeStep
  <2>1. PICK S \in SUBSET SessionIDs : RevokeSessions(S)
    BY <1>2 DEF RevokeStep
  <2>2. ASSUME NEW sid \in SessionIDs, access[sid] # None
        PROVE  access'[sid].subject = access[sid].subject
    BY <2>1, <2>2 DEF RevokeSessions, TypeOK, AccessSession
  <2> QED BY <2>1, <2>2, RevokeRows DEF TokenRevoked, SessionRevoked, Persistent
<1>3. CASE ConsumeStep
  <2>1. PICK t \in Tokens, u \in Tokens : Consume(t, u)
    BY <1>3 DEF ConsumeStep
  <2>2. refresh[t] \in RefreshToken /\ refresh[u] = None /\ t # u /\ access' = access
    BY <2>1 DEF Consume, RefreshActive, TypeOK
  <2>3. \A v \in Tokens : v # u /\ v # t => refresh'[v] = refresh[v]
    BY <2>1 DEF Consume, TypeOK
  <2>4. refresh'[t] = [refresh[t] EXCEPT !.rotated = TRUE]
    BY <2>1, <2>2 DEF Consume, TypeOK
  <2>5. [refresh[t] EXCEPT !.rotated = TRUE] \in RefreshToken
    BY <2>2 DEF RefreshToken
  <2>6. refresh'[t] # None /\ refresh'[t].session = refresh[t].session
    BY <2>2, <2>4, <2>5 DEF RefreshToken
  <2> QED BY <2>2, <2>3, <2>6 DEF Persistent
<1>4. CASE UNCHANGED <<access, refresh, parent>>
  BY <1>4 DEF Persistent
<1> QED BY <1>1, <1>2, <1>3, <1>4, StoreEffect DEF StoreStep

\* So what a waiting request relies on, it can rely on until it is served.
LEMMA ReliedOn ==
  ASSUME TypeOK, Persistent
  PROVE  /\ \A jwt \in AccessToken : Within(jwt, access) =>
               /\ Within(jwt, access')
               /\ access[jwt.sid].revoked => access'[jwt.sid].revoked
         /\ \A t \in Tokens : Chain /\ Ended(t, access, refresh) => Ended(t, access', refresh')
<1>1. ASSUME NEW jwt \in AccessToken, Within(jwt, access)
      PROVE  /\ Within(jwt, access')
             /\ access[jwt.sid].revoked => access'[jwt.sid].revoked
  BY <1>1 DEF Persistent, Within, AccessToken
<1>2. ASSUME NEW t \in Tokens, Chain, Ended(t, access, refresh)
      PROVE  Ended(t, access', refresh')
  <2>1. refresh[t] # None /\ refresh[t].session \in SessionIDs
        /\ access[refresh[t].session] # None
    BY <1>2 DEF Ended, TypeOK, RefreshToken, Chain, ChainWithinSession
  <2> QED BY <1>2, <2>1 DEF Persistent, Ended
<1> QED BY <1>1, <1>2

\* What a waiting request relies on, it can rely on until it is served.
LEMMA SoundKept ==
  ASSUME Base, Persistent, NEW r \in Requests, SoundBy(req[r], access, refresh)
  PROVE  SoundBy(req[r], access', refresh')
<1> DEFINE x == req[r]
<1>1. x \in Request /\ CarriedBy(x)
  BY DEF Base, TypeOK, Carried
<1>2. x.jwt \in AccessToken \cup {None} /\ x.tok \in Tokens \cup {None}
  BY <1>1 DEF Request
<1>3. x.pc = "verify" \/ x.jwt # None => x.jwt \in AccessToken
  BY <1>1, <1>2 DEF CarriedBy
<1>4. x.pc \in {"find", "session", "rotatefind", "rotate", "signoutfind"} => x.tok \in Tokens
  BY <1>1 DEF CarriedBy
<1> HIDE DEF x
<1>5. SoundBy(x, access, refresh)
  BY DEF x
<1>6. x.jwt \in AccessToken /\ Within(x.jwt, access) =>
        Within(x.jwt, access') /\ (access[x.jwt.sid].revoked => access'[x.jwt.sid].revoked)
  BY ReliedOn DEF Base
<1>7. x.tok \in Tokens /\ Ended(x.tok, access, refresh) => Ended(x.tok, access', refresh')
  BY ReliedOn DEF Base
<1>8. x.tok \in Tokens /\ refresh[x.tok] # None =>
         refresh'[x.tok] # None /\ refresh'[x.tok].session = refresh[x.tok].session
  BY DEF Persistent
<1>9. SoundBy(x, access', refresh')
  BY <1>2, <1>3, <1>4, <1>5, <1>6, <1>7, <1>8 DEF SoundBy
<1> QED BY <1>9 DEF x

\* Changing one request leaves what the others rely on.
LEMMA UpdateSound ==
  ASSUME Base, Sound, Persistent, NEW r \in Requests, NEW x,
         req' = [req EXCEPT ![r] = x], SoundBy(x, access', refresh')
  PROVE  Sound'
<1>1. \A q \in Requests : q # r => req'[q] = req[q]
  BY DEF Base, TypeOK
<1>2. req'[r] = x
  BY DEF Base, TypeOK
<1> QED BY <1>1, <1>2, SoundKept DEF Sound

\* A request that returns with an answer it may give.
LEMMA ReturnSound ==
  ASSUME Base, Sound, Persistent, NEW r \in Requests, NEW result \in Results, Return(r, result),
         result = "ok" => (req[r].op \in {"resolve", "refresh"} => req[r].live),
         result = "reuse" => req[r].tok \in Tokens /\ Ended(req[r].tok, access', refresh')
  PROVE  Sound'
<1> DEFINE x == [Idle EXCEPT !.pc = result, !.op = req[r].op,
                             !.tok = IF result = "reuse" THEN req[r].tok ELSE None,
                             !.live = req[r].live]
<1>1. req' = [req EXCEPT ![r] = x]
  BY DEF Return
<1>2. /\ x.pc = result /\ x.op = req[r].op /\ x.live = req[r].live
      /\ result = "reuse" => x.tok = req[r].tok
  BY DEF Idle
<1> HIDE DEF x
<1>3. SoundBy(x, access', refresh')
  BY <1>2 DEF SoundBy, Results
<1> QED BY <1>1, <1>3, UpdateSound

-----------------------------------------------------------------------------
(***************************************************************************)
(* Every action keeps the requests sound.                                  *)
(***************************************************************************)

\* A request starts with what it relies on.
LEMMA BeginSound ==
  ASSUME Inv, Persistent, NEW r \in Requests, Begin(r)
  PROVE  Sound'
<1> USE BearerAssumption, NoneAssumption
<1>0. Base /\ Sound /\ now \in Times /\ now \in Nat
  BY DEF Inv, Base, TypeOK, Times
<1>1. ASSUME NEW s \in Subjects, NEW sid \in SessionIDs, NEW t \in Tokens,
             BeginCreate(r, s, sid, t)
      PROVE  Sound'
  <2> DEFINE jwt == IssueUntil(sid, s, now + RefreshLifetime)
             x == [Idle EXCEPT !.pc = "create", !.op = "create", !.subject = s, !.sid = sid,
                               !.new = t, !.at = now, !.jwt = jwt]
  <2>1. jwt.sid = sid /\ jwt.subject = s /\ jwt.expires <= now + RefreshLifetime
    BY <1>0 DEF IssueUntil
  <2>2. req' = [req EXCEPT ![r] = x]
    BY <1>1 DEF BeginCreate
  <2> HIDE DEF jwt
  <2>3. /\ x.pc = "create" /\ x.op = "create" /\ x.at = now /\ x.jwt = jwt /\ x.sid = sid
        /\ x.subject = s
    BY DEF Idle
  <2> HIDE DEF x
  <2>4. SoundBy(x, access', refresh')
    BY <1>0, <2>1, <2>3 DEF SoundBy
  <2> QED BY <1>0, <2>2, <2>4, UpdateSound
<1>2. ASSUME NEW t \in Tokens, BeginRefresh(r, t) PROVE Sound'
  <2> DEFINE x == [Idle EXCEPT !.pc = "find", !.op = "refresh", !.tok = t, !.live = TokenLive(t)]
  <2>1. /\ x.pc = "find" /\ x.op = "refresh" /\ x.tok = t /\ x.jwt = None
        /\ x.live = TokenLive(t)
    BY DEF Idle
  <2>2. req' = [req EXCEPT ![r] = x] /\ UNCHANGED <<access, refresh>>
    BY <1>2 DEF BeginRefresh
  <2> HIDE DEF x
  <2>3. SoundBy(x, access', refresh')
    BY <2>1, <2>2 DEF SoundBy, TokenLive, Ended
  <2> QED BY <1>0, <2>2, <2>3, UpdateSound
<1>3. ASSUME NEW t \in Tokens, BeginSignOutRefresh(r, t) PROVE Sound'
  <2> DEFINE x == [Idle EXCEPT !.pc = "signoutfind", !.op = "signout", !.tok = t,
                               !.live = RefreshActive(t, now)]
  <2>1. x.pc = "signoutfind" /\ x.op = "signout" /\ x.tok = t /\ x.live = RefreshActive(t, now)
    BY DEF Idle
  <2>2. req' = [req EXCEPT ![r] = x] /\ UNCHANGED <<access, refresh>>
    BY <1>3 DEF BeginSignOutRefresh
  <2> HIDE DEF x
  <2>3. SoundBy(x, access', refresh')
    BY <2>1, <2>2 DEF SoundBy, RefreshActive
  <2> QED BY <1>0, <2>2, <2>3, UpdateSound
<1>4. ASSUME NEW jwt \in jwts, BeginResolve(r, jwt) PROVE Sound'
  <2> DEFINE pc == IF Unexpired(jwt) THEN "verify" ELSE "inactive"
             x == [Idle EXCEPT !.pc = pc, !.op = "resolve", !.sid = jwt.sid, !.jwt = jwt,
                               !.live = ~access[jwt.sid].revoked]
  <2>1. /\ x.pc \in {"verify", "inactive"} /\ x.op = "resolve" /\ x.jwt = jwt
        /\ x.live = ~access[jwt.sid].revoked
    BY DEF Idle
  <2>2. req' = [req EXCEPT ![r] = x] /\ UNCHANGED <<access, refresh>>
    BY <1>4 DEF BeginResolve
  <2> HIDE DEF x
  <2>3. SoundBy(x, access', refresh')
    BY <1>4, <2>1, <2>2 DEF SoundBy, Inv, Issued
  <2> QED BY <1>0, <2>2, <2>3, UpdateSound
<1>5. ASSUME NEW x, x.tok = None, x.pc \in {"signout", "ok", "failed", "revoke", "notfound"},
             x.pc = "signout" => x.op = "signout", x.pc = "revoke" => x.op = "revoke",
             x.op \in {"signout", "revoke", "revokeall"},
             req' = [req EXCEPT ![r] = x]
      PROVE  Sound'
  <2>1. SoundBy(x, access', refresh')
    BY <1>5 DEF SoundBy
  <2> QED BY <1>0, <1>5, <2>1, UpdateSound
<1>6. ASSUME NEW jwt \in jwts, BeginSignOut(r, jwt) PROVE Sound'
  <2> DEFINE x == [Idle EXCEPT !.pc = "signout", !.op = "signout", !.sid = jwt.sid]
             y == [Idle EXCEPT !.pc = "ok", !.op = "signout"]
  <2>1. /\ x.tok = None /\ x.pc = "signout" /\ x.op = "signout"
        /\ y.tok = None /\ y.pc = "ok" /\ y.op = "signout"
    BY DEF Idle
  <2>2. req' = [req EXCEPT ![r] = x] \/ req' = [req EXCEPT ![r] = y]
    BY <1>6 DEF BeginSignOut
  <2> HIDE DEF x, y
  <2> QED BY <1>5, <2>1, <2>2
<1>7. ASSUME NEW s \in Subjects, NEW sid \in SessionIDs, BeginRevokeByID(r, s, sid)
      PROVE  Sound'
  <2> DEFINE pc == IF sid \in SessionsOf(s) THEN "revoke" ELSE "notfound"
             x == [Idle EXCEPT !.pc = pc, !.op = "revoke", !.sid = sid]
  <2>1. x.tok = None /\ x.pc \in {"revoke", "notfound"} /\ x.op = "revoke"
    BY DEF Idle
  <2>2. req' = [req EXCEPT ![r] = x]
    BY <1>7 DEF BeginRevokeByID
  <2> HIDE DEF x
  <2> QED BY <1>5, <2>1, <2>2
<1>8. ASSUME NEW s \in Subjects, RevokeAll(r, s) PROVE Sound'
  <2> DEFINE x == [Idle EXCEPT !.pc = "ok", !.op = "revokeall"]
             y == [Idle EXCEPT !.pc = "failed", !.op = "revokeall"]
  <2>1. /\ x.tok = None /\ x.pc = "ok" /\ x.op = "revokeall"
        /\ y.tok = None /\ y.pc = "failed" /\ y.op = "revokeall"
    BY DEF Idle
  <2>2. req' = [req EXCEPT ![r] = x] \/ req' = [req EXCEPT ![r] = y]
    BY <1>8 DEF RevokeAll
  <2> HIDE DEF x, y
  <2> QED BY <1>5, <2>1, <2>2
<1> QED BY <1>1, <1>2, <1>3, <1>4, <1>6, <1>7, <1>8 DEF Begin

\* A token that rotation accepts belongs to a session that is not revoked.
LEMMA ActiveNotEnded ==
  ASSUME Chain, NEW t \in Tokens, NEW at, RefreshActive(t, at)
  PROVE  ~Ended(t, access, refresh)
  BY DEF Chain, RevokedTogether, RefreshActive, Ended

\* Reuse is answered once the session is revoked.
LEMMA ReuseEnds ==
  ASSUME Base, NEW t \in Tokens, DetectReuse(t)
  PROVE  Ended(t, access', refresh')
<1> DEFINE sid == refresh[t].session
<1>1. refresh[t] # None /\ sid \in SessionIDs /\ RevokeSessions({sid}) /\ access[sid] # None
  BY NoneAssumption DEF DetectReuse, Base, TypeOK, RefreshToken, Chain, ChainWithinSession
<1>2. TokenRevoked(t, {sid}) /\ SessionRevoked(sid, {sid})
  BY <1>1, RevokeRows DEF Base
<1> QED BY <1>1, <1>2 DEF TokenRevoked, SessionRevoked, Ended

\* Each call hands the next one what it relies on.
LEMMA StepSound ==
  ASSUME Inv, Persistent, NEW r \in Requests, Step(r) \/ Abandon(r)
  PROVE  Sound'
<1> USE BearerAssumption, NoneAssumption
<1> DEFINE x == req[r]
<1>0. /\ Base /\ Sound /\ now \in Nat /\ x \in Request /\ CarriedBy(x)
      /\ SoundBy(x, access, refresh)
  BY DEF Inv, Base, TypeOK, Times, Carried, Sound
<1>1. ASSUME NEW result \in {"inactive", "notfound", "failed"}, Return(r, result) PROVE Sound'
  BY <1>0, <1>1, ReturnSound DEF Results
<1>2. ASSUME Return(r, "ok"), x.op \in {"create", "signout", "revoke"} PROVE Sound'
  BY <1>0, <1>2, ReturnSound DEF Results
<1>3. ASSUME CreateInStore(r) \/ RevokeInStore(r) PROVE Sound'
  <2>1. x.op \in {"create", "signout", "revoke"} /\ (Return(r, "ok") \/ Return(r, "failed"))
    BY <1>0, <1>3 DEF CreateInStore, RevokeInStore, SoundBy
  <2> QED BY <1>1, <1>2, <2>1
<1>4. ASSUME Abandon(r) PROVE Sound'
  BY <1>1, <1>4 DEF Abandon
<1>5. ASSUME RefreshFind(r) PROVE Sound'
  <2> DEFINE y == [x EXCEPT !.pc = "session", !.sid = refresh[x.tok].session]
             z == [x EXCEPT !.pc = "rotatefind"]
  <2>1. /\ x.pc = "find" /\ x.op = "refresh" /\ x.jwt = None
        /\ ~x.live => Ended(x.tok, access, refresh)
    BY <1>0, <1>5 DEF RefreshFind, SoundBy
  <2>2. /\ y.pc = "session" /\ y.op = x.op /\ y.jwt = x.jwt /\ y.live = x.live /\ y.tok = x.tok
        /\ z.pc = "rotatefind" /\ z.op = x.op /\ z.jwt = x.jwt /\ z.live = x.live
        /\ z.tok = x.tok
    BY <1>0 DEF Request
  <2>3. /\ UNCHANGED <<access, refresh>>
        /\ \/ req' = [req EXCEPT ![r] = y] \/ req' = [req EXCEPT ![r] = z]
           \/ Return(r, "notfound") \/ Return(r, "failed")
    BY <1>5 DEF RefreshFind, Goto
  <2> HIDE DEF y, z
  <2>4. SoundBy(y, access', refresh') /\ SoundBy(z, access', refresh')
    BY <2>1, <2>2, <2>3 DEF SoundBy
  <2> QED BY <1>0, <1>1, <2>3, <2>4, UpdateSound
<1>6. ASSUME RefreshSession(r) PROVE Sound'
  <2> DEFINE sid == x.sid
             jwt == IssueUntil(sid, access[sid].subject, access[sid].expires)
             y == [x EXCEPT !.pc = "rotatefind", !.jwt = jwt]
  <2>0. UNCHANGED <<access, refresh>>
    BY <1>6 DEF RefreshSession
  <2>1. CASE SessionActive(sid) /\ req' = [req EXCEPT ![r] = y]
    <3>1. sid \in SessionIDs /\ access[sid] \in AccessSession
      BY <1>0, <1>6, <2>1 DEF RefreshSession, CarriedBy, SessionActive, Base, TypeOK
    <3>2. Within(jwt, access)
      BY <1>0, <2>1, <3>1 DEF IssueUntil, Within, SessionActive, AccessSession
    <3> HIDE DEF jwt
    <3>3. y.pc = "rotatefind" /\ y.op = x.op /\ y.jwt = jwt /\ y.live = x.live /\ y.tok = x.tok
      BY <1>0 DEF Request
    <3>4. x.op = "refresh" /\ (~x.live => Ended(x.tok, access, refresh))
      BY <1>0, <1>6 DEF RefreshSession, SoundBy
    <3> HIDE DEF y
    <3>5. SoundBy(y, access', refresh')
      BY <2>0, <3>2, <3>3, <3>4 DEF SoundBy
    <3> QED BY <1>0, <2>1, <3>5, UpdateSound
  <2>2. CASE Return(r, "inactive")
    BY <1>1, <2>2
  <2> QED BY <1>6, <2>1, <2>2 DEF RefreshSession
<1>7. ASSUME NEW u \in Tokens, NEW y, UNCHANGED <<access, refresh>>,
             x.pc \in {"rotatefind", "rotate"}, y.pc = "rotate", y.op = x.op, y.jwt = x.jwt,
             y.live = x.live, y.tok = x.tok, req' = [req EXCEPT ![r] = y]
      PROVE  Sound'
  <2>1. SoundBy(y, access', refresh')
    BY <1>0, <1>7 DEF SoundBy
  <2> QED BY <1>0, <1>7, <2>1, UpdateSound
<1>8. ASSUME RotateFind(r) PROVE Sound'
  <2>1. ASSUME NEW u \in Tokens, req' = [req EXCEPT ![r].pc = "rotate", ![r].new = u]
        PROVE  Sound'
    <3> DEFINE y == [x EXCEPT !.pc = "rotate", !.new = u]
    <3>1. y.pc = "rotate" /\ y.op = x.op /\ y.jwt = x.jwt /\ y.live = x.live /\ y.tok = x.tok
      BY <1>0 DEF Request
    <3>2. req' = [req EXCEPT ![r] = y]
      BY <2>1
    <3>3. UNCHANGED <<access, refresh>> /\ x.pc = "rotatefind"
      BY <1>8 DEF RotateFind
    <3> HIDE DEF x, y
    <3> QED BY <1>7, <3>1, <3>2, <3>3
  <2> QED BY <1>1, <1>8, <2>1 DEF RotateFind
<1>9. ASSUME RotateInStore(r) PROVE Sound'
  <2>0. x.tok \in Tokens /\ x.new \in Tokens /\ x.pc = "rotate"
    BY <1>0, <1>9 DEF RotateInStore, CarriedBy
  <2>1. CASE Consume(x.tok, x.new) /\ Return(r, "ok")
    <3>1. ~Ended(x.tok, access, refresh)
      BY <1>0, <2>0, <2>1, ActiveNotEnded DEF Consume, Base
    <3>2. x.live
      BY <1>0, <2>0, <3>1 DEF SoundBy, Request
    <3> QED BY <1>0, <2>1, <3>2, ReturnSound DEF Results
  <2>2. CASE DetectReuse(x.tok) /\ Return(r, "reuse")
    BY <1>0, <2>0, <2>2, ReuseEnds, ReturnSound DEF Results
  <2>3. CASE Redraw(r) /\ UNCHANGED <<access, refresh>>
    <3>1. ASSUME NEW u \in Tokens, req' = [req EXCEPT ![r].tries = @ + 1, ![r].new = u]
          PROVE  Sound'
      <4> DEFINE y == [x EXCEPT !.tries = @ + 1, !.new = u]
      <4>1. y.pc = "rotate" /\ y.op = x.op /\ y.jwt = x.jwt /\ y.live = x.live /\ y.tok = x.tok
        BY <1>0, <2>0 DEF Request
      <4>2. req' = [req EXCEPT ![r] = y]
        BY <3>1
      <4> HIDE DEF x, y
      <4> QED BY <1>7, <2>0, <2>3, <4>1, <4>2
    <3> QED BY <1>1, <2>3, <3>1 DEF Redraw
  <2>4. CASE Return(r, "inactive") \/ Return(r, "failed")
    BY <1>1, <2>4
  <2> QED BY <1>9, <2>1, <2>2, <2>3, <2>4 DEF RotateInStore
<1>10. ASSUME VerifySession(r) PROVE Sound'
  <2>1. CASE Verified(x.jwt) /\ Return(r, "ok")
    <3>1. x.live
      BY <1>0, <1>10, <2>1 DEF VerifySession, Verified, SessionActive, SoundBy, Request
    <3> QED BY <1>0, <2>1, <3>1, ReturnSound DEF Results
  <2> QED BY <1>1, <1>10, <2>1 DEF VerifySession
<1>11. ASSUME SignOutFind(r) PROVE Sound'
  <2> DEFINE y == [x EXCEPT !.pc = "signout", !.sid = refresh[x.tok].session]
  <2>0. x.op = "signout" /\ UNCHANGED <<access, refresh>>
    BY <1>0, <1>11 DEF SignOutFind, SoundBy
  <2>1. CASE RefreshActive(x.tok, now) /\ req' = [req EXCEPT ![r] = y]
    <3>1. /\ y.pc = "signout" /\ y.op = x.op /\ y.tok = x.tok
          /\ y.sid = refresh[x.tok].session
      BY <1>0 DEF Request
    <3>2. refresh[x.tok] # None
      BY <2>1 DEF RefreshActive
    <3> HIDE DEF y
    <3>3. SoundBy(y, access', refresh')
      BY <2>0, <3>1, <3>2 DEF SoundBy
    <3> QED BY <1>0, <2>1, <3>3, UpdateSound
  <2> QED BY <1>1, <1>2, <1>11, <2>0, <2>1 DEF SignOutFind
<1> QED BY <1>3, <1>4, <1>5, <1>6, <1>8, <1>9, <1>10, <1>11 DEF Step

\* An access token leaves the server only for the session it names.
LEMMA IssuedStep ==
  ASSUME Inv, Persistent, [Next]_vars
  PROVE  Issued'
<1> USE BearerAssumption, NoneAssumption
<1>0. ASSUME NEW r \in Requests
      PROVE  req[r] \in Request /\ CarriedBy(req[r]) /\ SoundBy(req[r], access, refresh)
  BY DEF Inv, Base, TypeOK, Carried, Sound
<1>1. \A jwt \in jwts : Within(jwt, access')
  BY ReliedOn DEF Inv, Base, TypeOK, Issued
<1>2. CASE jwts' = jwts
  BY <1>1, <1>2 DEF Issued
<1>3. ASSUME NEW r \in Requests, CreateInStore(r), jwts' # jwts PROVE Issued'
  <2> DEFINE x == req[r]
  <2>1. /\ x.sid \in SessionIDs /\ x.at \in Nat /\ jwts' = jwts \cup {x.jwt}
        /\ x.jwt.sid = x.sid /\ x.jwt.subject = x.subject
        /\ x.jwt.expires <= x.at + RefreshLifetime
        /\ CreateSession(x.sid, x.subject, x.new, x.at)
    BY <1>0, <1>3 DEF CreateInStore, SoundBy, CarriedBy, Request
  <2>2. /\ access'[x.sid].subject = x.subject /\ access'[x.sid].expires = x.at + RefreshLifetime
    BY <2>1 DEF CreateSession, Inv, Base, TypeOK
  <2>3. access'[x.sid] # None
    <3> DEFINE row == [subject |-> x.subject, expires |-> x.at + RefreshLifetime,
                       revoked |-> FALSE]
    <3>1. row \in AccessSession
      BY <1>0, <1>3, <2>1 DEF CreateInStore, CarriedBy, AccessSession
    <3>2. access'[x.sid] = row
      BY <2>1 DEF CreateSession, Inv, Base, TypeOK
    <3> HIDE DEF row
    <3> QED BY <3>1, <3>2
  <2>4. Within(x.jwt, access')
    BY <2>1, <2>2, <2>3 DEF Within
  <2> HIDE DEF x
  <2> QED BY <1>1, <2>1, <2>4 DEF Issued
<1>4. ASSUME NEW r \in Requests, RotateInStore(r), jwts' # jwts PROVE Issued'
  <2>1. /\ req[r].pc = "rotate" /\ jwts' = jwts \cup ({req[r].jwt} \ {None})
        /\ access' = access
    BY <1>4 DEF RotateInStore, Consume
  <2>2. req[r].jwt # None => Within(req[r].jwt, access')
    BY <1>0, <2>1 DEF SoundBy
  <2> QED BY <1>1, <2>1, <2>2 DEF Issued
<1>5. \/ jwts' = jwts
      \/ \E r \in Requests : CreateInStore(r) \/ RotateInStore(r)
  BY DEF Next, vars, Tick, Begin, Step, Abandon, BeginCreate, BeginRefresh, BeginSignOutRefresh,
         BeginResolve, BeginSignOut, BeginRevokeByID, RevokeAll, RefreshFind, RefreshSession,
         RotateFind, VerifySession, SignOutFind, RevokeInStore
<1> QED BY <1>2, <1>3, <1>4, <1>5

\* Every step keeps the part of the invariant about requests and issued tokens.
LEMMA Inductive == Inv /\ [Next]_vars => Sound' /\ Issued'
<1> SUFFICES ASSUME Inv, [Next]_vars PROVE Sound' /\ Issued'
  OBVIOUS
<1>1. Persistent
  BY RowsPersist DEF Inv, Base
<1>2. CASE Tick \/ UNCHANGED vars
  BY <1>2 DEF Tick, vars, Inv, Sound, Issued
<1> QED BY <1>1, <1>2, BeginSound, StepSound, IssuedStep DEF Next

\* The whole invariant holds throughout.
LEMMA Invariant == Spec => []Inv
<1>1. Init => Sound /\ Issued
  BY DEF Init, Sound, SoundBy, Issued, Idle
<1>2. TypeOK /\ Carried /\ Chain /\ [Next]_vars => Chain'
  BY ChainStep
<1>3. Inv <=> TypeOK /\ Carried /\ Chain /\ Sound /\ Issued
  BY DEF Inv, Base
<1>4. Inv /\ [Next]_vars => Sound' /\ Issued'
  BY Inductive
<1> QED BY <1>1, <1>2, <1>3, <1>4, ChainInit, TypeCorrect, PTL DEF Spec

-----------------------------------------------------------------------------
(***************************************************************************)
(* The theorems.                                                           *)
(***************************************************************************)

\* AccessTokenWithinSession is an invariant: every signed access token names the subject
\* of a durable session and ends no later than it, whether it was signed by Create before
\* the session was inserted or by a refresh long before the rotation answered.
THEOREM TokensWithinSessions == Spec => []AccessTokenWithinSession
<1>1. Inv => AccessTokenWithinSession
  BY DEF Inv, Issued, Within, AccessTokenWithinSession
<1> QED BY <1>1, Invariant, PTL

\* ReuseEndsSession is an invariant: a refresh that answers ErrReuseDetected leaves its
\* session revoked, for good.
THEOREM ReuseAlwaysEnds == Spec => []ReuseEndsSession
<1>1. Inv => ReuseEndsSession
  BY DEF Inv, Sound, SoundBy, Ended, ReuseEndsSession
<1> QED BY <1>1, Invariant, PTL

\* RevokedNeverServed is an invariant: no request that arrives after its session was
\* revoked is authenticated by its access token or given new tokens.
THEOREM RevokedIsRefused == Spec => []RevokedNeverServed
<1>1. Inv => RevokedNeverServed
  BY DEF Inv, Sound, SoundBy, RevokedNeverServed
<1> QED BY <1>1, Invariant, PTL

\* A request that returns shows its result.
LEMMA Returned ==
  ASSUME TypeOK, NEW r \in Requests, NEW result, Return(r, result)
  PROVE  req'[r].pc = result
<1> DEFINE x == [Idle EXCEPT !.pc = result, !.op = req[r].op,
                             !.tok = IF result = "reuse" THEN req[r].tok ELSE None,
                             !.live = req[r].live]
<1>1. x.pc = result
  BY DEF Idle
<1>2. req'[r] = x
  BY DEF Return, TypeOK
<1> HIDE DEF x
<1> QED BY <1>1, <1>2

\* A step of one request leaves the others as they are.
LEMMA OthersKept ==
  ASSUME TypeOK, NEW q \in Requests, Begin(q) \/ Step(q) \/ Abandon(q)
  PROVE  \A r \in Requests : r # q => req'[r] = req[r]
<1> SUFFICES \E x : req' = [req EXCEPT ![q] = x]
  BY DEF TypeOK
<1>1. ASSUME NEW result, Return(q, result) PROVE \E x : req' = [req EXCEPT ![q] = x]
  BY <1>1 DEF Return
<1>2. CASE Begin(q)
  BY <1>2 DEF Begin, BeginCreate, BeginRefresh, BeginSignOutRefresh, BeginResolve,
              BeginSignOut, BeginRevokeByID, RevokeAll
<1>3. CASE CreateInStore(q) \/ VerifySession(q) \/ RevokeInStore(q) \/ Abandon(q)
  BY <1>1, <1>3 DEF CreateInStore, VerifySession, RevokeInStore, Abandon
<1>4. CASE RefreshFind(q) \/ RefreshSession(q) \/ SignOutFind(q)
  BY <1>1, <1>4 DEF RefreshFind, RefreshSession, SignOutFind, Goto
<1>5. CASE RotateFind(q) \/ RotateInStore(q)
  BY <1>1, <1>5 DEF RotateFind, RotateInStore, Redraw
<1> QED BY <1>2, <1>3, <1>4, <1>5 DEF Step

\* SignOutEndsSession holds of every step: a sign-out with a refresh token that was active
\* on arrival answers success only once the session is over, unless the token was rotated
\* between its arrival and its lookup.
THEOREM SignOutEnds == Spec => SignOutEndsSession
<1> DEFINE Ends == \A r \in Requests, sid \in SessionIDs :
                      /\ req[r].op = "signout" /\ req[r].pc \in Running
                      /\ req[r].tok # None /\ req[r].live
                      /\ refresh[req[r].tok].session = sid
                      /\ req'[r].pc = "ok"
                      => \/ ~SessionActive(sid)'
                         \/ req[r].pc = "signoutfind" /\ refresh[req[r].tok].rotated
<1>1. ASSUME Inv, [Next]_vars PROVE [Ends]_vars
  <2> SUFFICES ASSUME NEW r \in Requests, NEW sid \in SessionIDs,
                      req[r].op = "signout", req[r].pc \in Running,
                      req[r].tok # None, req[r].live,
                      refresh[req[r].tok].session = sid,
                      req'[r].pc = "ok"
               PROVE  \/ ~SessionActive(sid)'
                      \/ req[r].pc = "signoutfind" /\ refresh[req[r].tok].rotated
    BY DEF Ends
  <2> USE NoneAssumption
  <2> DEFINE x == req[r]
  <2>0. /\ TypeOK /\ Chain /\ x \in Request /\ CarriedBy(x) /\ SoundBy(x, access, refresh)
        /\ x.tok \in Tokens /\ req \in [Requests -> Request]
    BY <1>1 DEF Inv, Base, Carried, TypeOK, Sound, Request
  <2>1. \A q \in Requests : Begin(q) => q # r
    BY DEF Begin, BeginCreate, BeginRefresh, BeginSignOutRefresh, BeginResolve,
           BeginSignOut, BeginRevokeByID, RevokeAll, Free
  <2>2. \A q \in Requests : q # r /\ (Begin(q) \/ Step(q) \/ Abandon(q)) => req'[r] = req[r]
    BY <2>0, OthersKept
  <2>3. x.pc # "ok"
    BY DEF Running
  <2>4. Step(r)
    <3>1. Step(r) \/ Abandon(r)
      BY <1>1, <2>1, <2>2, <2>3 DEF Next, Tick, vars
    <3>2. ~Abandon(r)
      BY <2>0, Returned DEF Abandon
    <3> QED BY <3>1, <3>2
  <2>5. x.pc \in {"signout", "signoutfind"}
    BY <2>0, <2>4 DEF SoundBy, Step, CreateInStore, RefreshFind, RefreshSession, RotateFind,
                      RotateInStore, VerifySession, SignOutFind, RevokeInStore
  <2>6. CASE x.pc = "signoutfind"
    <3>1. SignOutFind(r)
      BY <2>4, <2>6 DEF Step, CreateInStore, RefreshFind, RefreshSession, RotateFind,
                        RotateInStore, VerifySession, RevokeInStore
    <3>2. ~RefreshActive(x.tok, now) /\ UNCHANGED <<now, access>>
      <4>1. CASE ~RefreshActive(x.tok, now)
        BY <3>1, <4>1 DEF SignOutFind
      <4>2. CASE Return(r, "failed")
        BY <2>0, <4>2, Returned
      <4>3. CASE req' = [req EXCEPT ![r].pc = "signout", ![r].sid = refresh[x.tok].session]
        <5>1. req'[r].pc = "signout"
          BY <2>0, <4>3 DEF Request
        <5> QED BY <5>1
      <4> QED BY <3>1, <4>1, <4>2, <4>3 DEF SignOutFind
    <3>3. refresh[x.tok] # None
      BY <2>0, <2>6 DEF SoundBy
    <3>4. /\ refresh[x.tok].revoked => access[sid].revoked
          /\ refresh[x.tok].expires = access[sid].expires
      BY <2>0, <3>3 DEF Chain, RevokedTogether, ChainWithinSession
    <3> QED BY <2>6, <3>2, <3>3, <3>4 DEF RefreshActive, SessionActive
  <2>7. CASE x.pc = "signout"
    <3>1. RevokeInStore(r)
      BY <2>4, <2>7 DEF Step, CreateInStore, RefreshFind, RefreshSession, RotateFind,
                        RotateInStore, VerifySession, SignOutFind
    <3>2. RevokeSessions({x.sid})
      BY <2>0, <3>1, Returned DEF RevokeInStore
    <3>3. x.sid = sid
      BY <2>0, <2>7 DEF SoundBy
    <3>4. SessionRevoked(sid, {sid})
      BY <2>0, <3>2, <3>3, RevokeRows
    <3> QED BY <3>4 DEF SessionRevoked, SessionActive
  <2> QED BY <2>5, <2>6, <2>7
<1> QED BY <1>1, Invariant, PTL DEF Spec, SignOutEndsSession

-----------------------------------------------------------------------------
(***************************************************************************)
(* BearerSessions implements BearerStore: the initial tables are the       *)
(* store's, and every step is a call the store provides for or leaves the  *)
(* tables as they are.                                                     *)
(***************************************************************************)

\* A step that changes the two tables is one whole method of the bearer stores.
LEMMA StoreCalls ==
  ASSUME Inv, [Next]_vars, <<access, refresh>>' # <<access, refresh>>
  PROVE  Store!StoreNext
<1> USE BearerAssumption, NoneAssumption
<1>0. ASSUME NEW r \in Requests
      PROVE  req[r] \in Request /\ CarriedBy(req[r]) /\ SoundBy(req[r], access, refresh)
  BY DEF Inv, Base, TypeOK, Carried, Sound
<1>1. ASSUME NEW S, RevokeSessions(S) PROVE Store!StoreRevoke(S)
  BY <1>1 DEF RevokeSessions, RevokedTokens, Store!StoreRevoke
<1>2. ASSUME NEW r \in Requests, CreateInStore(r) PROVE Store!StoreNext
  <2>1. /\ req[r].sid \in SessionIDs /\ req[r].subject \in Subjects
        /\ req[r].new \in Tokens /\ req[r].at \in Store!Times
    BY <1>0, <1>2 DEF CreateInStore, CarriedBy, SoundBy, Times, Store!Times
  <2>2. CreateSession(req[r].sid, req[r].subject, req[r].new, req[r].at)
    BY <1>2 DEF CreateInStore
  <2>3. Store!StoreCreate(req[r].sid, req[r].subject, req[r].new, req[r].at)
    BY <2>2 DEF CreateSession, Store!StoreCreate, Store!NewSession, Store!NewToken
  <2> QED BY <2>1, <2>3 DEF Store!StoreNext
<1>3. ASSUME NEW r \in Requests, RotateInStore(r) PROVE Store!StoreNext
  <2>0. req[r].tok \in Tokens /\ req[r].new \in Tokens /\ now \in Store!Times
    BY <1>0, <1>3 DEF RotateInStore, CarriedBy, Inv, Base, TypeOK, Times, Store!Times
  <2>1. CASE Consume(req[r].tok, req[r].new)
    <3>1. Store!StoreRotate(req[r].tok, req[r].new, now)
      BY <2>1 DEF Consume, RefreshActive, Replacement, Store!StoreRotate, Store!RefreshActive,
                  Store!NewToken
    <3> QED BY <2>0, <3>1 DEF Store!StoreNext
  <2>2. CASE DetectReuse(req[r].tok)
    <3>1. Store!StoreReuse(req[r].tok, now)
      BY <1>1, <2>2 DEF DetectReuse, RefreshActive, Store!StoreReuse, Store!RefreshActive
    <3> QED BY <2>0, <3>1 DEF Store!StoreNext
  <2> QED BY <1>3, <2>1, <2>2 DEF RotateInStore
<1>4. ASSUME NEW r \in Requests, RevokeInStore(r) PROVE Store!StoreNext
  <2>1. req[r].sid \in SessionIDs /\ RevokeSessions({req[r].sid})
    BY <1>0, <1>4 DEF RevokeInStore, CarriedBy
  <2> QED BY <1>1, <2>1 DEF Store!StoreNext
<1>5. ASSUME NEW r \in Requests, NEW s \in Subjects, RevokeAll(r, s) PROVE Store!StoreNext
  <2>1. RevokeSessions(SessionsOf(s)) /\ SessionsOf(s) = Store!SessionsOf(s)
    BY <1>5 DEF RevokeAll, SessionsOf, Store!SessionsOf
  <2> QED BY <1>1, <2>1 DEF Store!StoreNext
<1> QED BY <1>2, <1>3, <1>4, <1>5
  DEF Next, vars, Tick, Begin, Step, Abandon, BeginCreate, BeginRefresh, BeginSignOutRefresh,
      BeginResolve, BeginSignOut, BeginRevokeByID, RefreshFind, RefreshSession,
      RotateFind, VerifySession, SignOutFind

\* The manager implements the store it is written against: with racing, failed, retried
\* and abandoned requests, each change of the two tables is one whole method of
\* refreshtoken.Store or AccessSessionStore.
THEOREM ImplementsStore == Spec => StoreSpec
<1>1. Init => Store!StoreInit
  BY DEF Init, Store!StoreInit
<1>2. Inv /\ [Next]_vars => [Store!StoreNext]_<<access, refresh>>
  BY StoreCalls
<1> QED BY <1>1, <1>2, Invariant, PTL DEF Spec, StoreSpec, Store!StoreSpec

=============================================================================
