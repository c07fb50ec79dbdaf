----------------------------- MODULE BearerStore -----------------------------
(***************************************************************************)
(* What refreshtoken.Store and AccessSessionStore promise together: the    *)
(* two tables behind bearer sessions, each method one atomic step.  Times  *)
(* are free, since the caller's clock reading may be old when its write    *)
(* arrives.  BearerSessions and RedisBearer implement this specification.  *)
(***************************************************************************)
EXTENDS Integers

CONSTANTS
    SessionIDs,
    Tokens,           \* refresh token hashes
    Subjects,
    RefreshLifetime,
    MaxTime,
    None

VARIABLES access, refresh

Times == 0..MaxTime

AccessSession == [subject: Subjects, expires: Nat, revoked: BOOLEAN]

RefreshToken == [session: SessionIDs, expires: Nat, rotated: BOOLEAN, revoked: BOOLEAN]

NewSession(s, at) == [subject |-> s, expires |-> at + RefreshLifetime, revoked |-> FALSE]

NewToken(sid, expires) ==
    [session |-> sid, expires |-> expires, rotated |-> FALSE, revoked |-> FALSE]

SessionsOf(s) == {sid \in SessionIDs : access[sid] # None /\ access[sid].subject = s}

RefreshActive(t, at) ==
    /\ refresh[t] # None
    /\ ~refresh[t].rotated /\ ~refresh[t].revoked
    /\ at < refresh[t].expires

StoreInit ==
    /\ access = [sid \in SessionIDs |-> None]
    /\ refresh = [t \in Tokens |-> None]

StoreCreate(sid, s, t, at) ==
    /\ access[sid] = None /\ refresh[t] = None
    /\ access' = [access EXCEPT ![sid] = NewSession(s, at)]
    /\ refresh' = [refresh EXCEPT ![t] = NewToken(sid, at + RefreshLifetime)]

StoreRevoke(sids) ==
    /\ access' = [sid \in SessionIDs |->
                     IF access[sid] # None /\ sid \in sids
                       THEN [access[sid] EXCEPT !.revoked = TRUE] ELSE access[sid]]
    /\ refresh' = [t \in Tokens |->
                     IF refresh[t] # None /\ refresh[t].session \in sids
                       THEN [refresh[t] EXCEPT !.revoked = TRUE] ELSE refresh[t]]

\* A live token is spent together with the insertion of its replacement ...
StoreRotate(t, u, at) ==
    /\ RefreshActive(t, at)
    /\ refresh[u] = None
    /\ refresh' = [refresh EXCEPT ![t].rotated = TRUE,
                                  ![u] = NewToken(refresh[t].session, refresh[t].expires)]
    /\ UNCHANGED access

\* ... and any other token that comes back takes its whole session down.
StoreReuse(t, at) ==
    /\ refresh[t] # None /\ ~RefreshActive(t, at)
    /\ StoreRevoke({refresh[t].session})

\* A step of the tables; a call that leaves them as they are is a stutter.
StoreNext ==
    /\ <<access, refresh>>' # <<access, refresh>>
    /\ \/ \E s \in Subjects, sid \in SessionIDs, t \in Tokens, at \in Times :
             StoreCreate(sid, s, t, at)
       \/ \E sid \in SessionIDs : StoreRevoke({sid})
       \/ \E s \in Subjects : StoreRevoke(SessionsOf(s))
       \/ \E t, u \in Tokens, at \in Times : StoreRotate(t, u, at)
       \/ \E t \in Tokens, at \in Times : StoreReuse(t, at)

StoreSpec == StoreInit /\ [][StoreNext]_<<access, refresh>>

\* A store whose RevokeAll reads the sessions first may miss one created meanwhile.
StoreRevokeSome ==
    /\ <<access, refresh>>' # <<access, refresh>>
    /\ \E s \in Subjects : \E sids \in SUBSET SessionsOf(s) : StoreRevoke(sids)

WeakStoreSpec == StoreInit /\ [][StoreNext \/ StoreRevokeSome]_<<access, refresh>>

=============================================================================
