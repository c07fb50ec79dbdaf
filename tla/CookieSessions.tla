--------------------------- MODULE CookieSessions ---------------------------
(***************************************************************************)
(* sessiontoken.Manager: cookie sessions kept in a durable store, with an  *)
(* optional bounded-TTL cache in front of it.                              *)
(*                                                                         *)
(* Every manager method is a sequence of calls to the store and the cache. *)
(* Each call is one step of the request that runs it, so the calls of      *)
(* requests on any number of servers interleave in every order.  A store   *)
(* or cache call may fail, with or without having taken effect, and a      *)
(* request may be abandoned between any two calls.                         *)
(***************************************************************************)
EXTENDS SessionStore

CONSTANTS
    Requests,            \* request slots served concurrently
    CacheTTL,            \* Config.CacheTTL
    ExtendAfter,         \* ExtensionConfig.ExtendAfter
    CachedTokens,        \* bound: the token hashes drawn when there is a cache
    UncachedTime,        \* bound: the last instant of a run without one
    NoToken

ASSUME ManagerAssumption ==
    /\ CacheTTL \in Nat \ {0}
    /\ ExtendAfter \in Nat \ {0}
    /\ ExtendAfter < Lifetime
    /\ NoToken \notin Tokens
    /\ CachedTokens \subseteq Tokens /\ UncachedTime \in Times

VARIABLES
    hasCache, \* whether the manager was given a Cache
    now,      \* the clock every server reads
    cache,    \* token hash -> cached record and the instant its TTL ends
    req,      \* the request in each slot
    parent    \* history: the credential each rotated-in credential replaced

vars == <<hasCache, now, sessions, cache, req, parent>>

CreationAttempts == 3

Drawable == IF hasCache THEN CachedTokens ELSE Tokens \ CachedTokens

LastInstant == IF hasCache THEN MaxTime ELSE UncachedTime

NoEntry == [rec |-> NoRecord, until |-> 0]

Entry == [rec: Record, until: Nat] \cup {NoEntry}

Results == {"ok", "refused", "failed", "cachesync"}

Running == {"create", "get", "evict", "find", "drop", "extend", "purge", "fill", "set",
            "rotatefind", "rotate", "revoke", "delete", "deleteall"}

Ops == {"none", "create", "resolve", "rotate", "revoke", "revokeall"}

Request == [pc: {"idle"} \cup Results \cup Running, op: Ops,
            tok: Tokens \cup {NoToken}, at: Nat, rec: Record \cup {NoRecord},
            ttl: Nat, fills: 0..2, tries: 0..(CreationAttempts - 1),
            live: BOOLEAN,   \* history: not revoked when a Resolve began
            todo: SUBSET Tokens, unsynced: BOOLEAN]

Idle == [pc |-> "idle", op |-> "none", tok |-> NoToken, at |-> 0, rec |-> NoRecord,
         ttl |-> 0, fills |-> 0, tries |-> 0, live |-> TRUE, todo |-> {},
         unsynced |-> FALSE]

Free(r) == req[r].pc \notin Running

\* The request goes on at another call.
Goto(r, pc) == req' = [req EXCEPT ![r].pc = pc]

\* The method returns.  What a Resolve was asked and answered stays visible until
\* the slot serves another request.
ReturnWith(r, result, rec) ==
    req' = [req EXCEPT ![r] =
                IF req[r].op = "resolve"
                THEN [Idle EXCEPT !.pc = result, !.op = "resolve", !.tok = req[r].tok,
                                  !.at = req[r].at, !.live = req[r].live,
                                  !.rec = IF result = "ok" THEN rec ELSE NoRecord]
                ELSE [Idle EXCEPT !.pc = result, !.op = req[r].op]]

Return(r, result) == ReturnWith(r, result, req[r].rec)

-----------------------------------------------------------------------------
(***************************************************************************)
(* populateCache and deleteCached.                                         *)
(***************************************************************************)

\* Where a request goes once its remaining cache writes are done.
AfterFills(r) ==
    IF req[r].op = "rotate" THEN Goto(r, "delete") ELSE Return(r, "ok")

\* One call of populateCache ends.
FillDone(r) ==
    IF req[r].fills > 1
    THEN req' = [req EXCEPT ![r].pc = "fill", ![r].fills = @ - 1, ![r].ttl = 0]
    ELSE AfterFills(r)

\* Enter populateCache `n` times over the record in hand.
Fill(r, rec, n) ==
    IF hasCache
    THEN req' = [req EXCEPT ![r].pc = "fill", ![r].rec = rec, ![r].fills = n,
                            ![r].tries = 0]
    ELSE ReturnWith(r, "ok", rec)

\* remaining := record.ExpiresAt.Sub(now); nothing is cached past expiry.
ComputeTTL(r) ==
    LET remaining == req[r].rec.expires - now IN
    /\ req[r].pc = "fill"
    /\ IF remaining <= 0
       THEN FillDone(r)
       ELSE req' = [req EXCEPT ![r].pc = "set", ![r].ttl = Earlier(CacheTTL, remaining)]
    /\ UNCHANGED <<now, sessions, cache, parent>>

\* The TTL starts to run when the cache receives the entry.
CacheSet(r) ==
    /\ req[r].pc = "set"
    /\ \/ cache' = [cache EXCEPT ![req[r].rec.hash] =
                        [rec |-> req[r].rec, until |-> now + req[r].ttl]]
       \/ cache' = cache                                  \* failure is ignored
    /\ FillDone(r)
    /\ UNCHANGED <<now, sessions, parent>>

Deleted(t) == [cache EXCEPT ![t] = NoEntry]

\* deleteCached at the end of Revoke, RevokeByID and Rotate.
DeleteCached(r) ==
    /\ req[r].pc = "delete"
    /\ \/ cache' = Deleted(req[r].tok) /\ Return(r, "ok")
       \/ cache' \in {cache, Deleted(req[r].tok)} /\ Return(r, "cachesync")
    /\ UNCHANGED <<now, sessions, parent>>

\* The deletions of Resolve, whose errors are ignored: an inactive cached
\* record ("evict"), an inactive durable one ("drop"), a failed extension ("purge").
DeleteQuietly(r) ==
    /\ req[r].pc \in {"evict", "drop", "purge"}
    /\ cache' \in {cache, Deleted(req[r].tok)}
    /\ IF req[r].pc = "evict" THEN Goto(r, "find") ELSE Return(r, "refused")
    /\ UNCHANGED <<now, sessions, parent>>

\* RevokeAll's loop: a failed deletion is remembered and the loop goes on.
DeleteAllCached(r) ==
    /\ req[r].pc = "deleteall"
    /\ IF req[r].todo = {}
       THEN /\ Return(r, IF req[r].unsynced THEN "cachesync" ELSE "ok")
            /\ cache' = cache
       ELSE \E t \in req[r].todo :
               \/ /\ cache' = Deleted(t)
                  /\ req' = [req EXCEPT ![r].todo = @ \ {t}]
               \/ /\ cache' \in {cache, Deleted(t)}
                  /\ req' = [req EXCEPT ![r].todo = @ \ {t}, ![r].unsynced = TRUE]
    /\ UNCHANGED <<now, sessions, parent>>

-----------------------------------------------------------------------------
(***************************************************************************)
(* Create.                                                                 *)
(***************************************************************************)

\* newIssued draws any token hash; a taken one is a conflict at the store.
BeginCreate(r, s, t) ==
    /\ Free(r)
    /\ req' = [req EXCEPT ![r] = [Idle EXCEPT !.pc = "create", !.op = "create",
                                              !.rec = NewRecord(t, s, now)]]
    /\ UNCHANGED <<now, sessions, cache, parent>>

\* ErrConflict: another attempt with a new credential, at most CreationAttempts.
Redraw(r) ==
    IF req[r].tries + 1 = CreationAttempts
    THEN Return(r, "failed")
    ELSE \E t \in Drawable :
            req' = [req EXCEPT ![r].tries = @ + 1,
                               ![r].rec = NewRecord(t, req[r].rec.subject, now)]

CreateInStore(r) ==
    /\ req[r].pc = "create"
    /\ \/ StoreCreate(req[r].rec) /\ Fill(r, req[r].rec, 1)
       \/ /\ Exists(req[r].rec.hash)
          /\ Redraw(r)
          /\ UNCHANGED sessions
       \/ /\ StoreCreate(req[r].rec) \/ UNCHANGED sessions
          /\ Return(r, "failed")
    /\ UNCHANGED <<now, cache, parent>>

-----------------------------------------------------------------------------
(***************************************************************************)
(* Resolve, with extendIfDue inlined.                                      *)
(***************************************************************************)

BeginResolve(r, t) ==
    /\ Free(r)
    /\ req' = [req EXCEPT ![r] = [Idle EXCEPT
                  !.pc = IF hasCache THEN "get" ELSE "find", !.op = "resolve",
                  !.tok = t, !.at = now,
                  !.live = ~(Exists(t) /\ sessions[t].revoked)]]
    /\ UNCHANGED <<now, sessions, cache, parent>>

\* Slip: a lifetime is added to the old expiry, not to the time of use.
DueExpiryFromOld(rec, at) == Earlier(rec.expires + Lifetime, rec.created + AbsoluteLifetime)

\* The expiry extendIfDue asks for, computed from the record in hand.
DueExpiry(rec, at) == Earlier(at + Lifetime, rec.created + AbsoluteLifetime)

\* Slip: an expiry that is at its cap already is extended once more.
ExtensionDueAtCap(rec, at) == Extension /\ at >= rec.last + ExtendAfter

\* extendIfDue reaches store.Extend.
ExtensionDue(rec, at) ==
    /\ Extension
    /\ at >= rec.last + ExtendAfter
    /\ DueExpiry(rec, at) > rec.expires

\* A record is in hand; `n` cache fills follow when no extension is due.
Extending(r, rec, n) ==
    IF ExtensionDue(rec, req[r].at)
    THEN req' = [req EXCEPT ![r].pc = "extend", ![r].rec = rec, ![r].fills = n]
    ELSE IF n = 0
    THEN ReturnWith(r, "ok", rec)
    ELSE Fill(r, rec, n)

CacheGet(r) ==
    LET t == req[r].tok IN
    /\ req[r].pc = "get"
    /\ \/ /\ cache[t] # NoEntry
          /\ IF ActiveAt(cache[t].rec, req[r].at)
             THEN Extending(r, cache[t].rec, 0)
             ELSE Goto(r, "evict")
       \/ Goto(r, "find")                    \* a miss, or the cache is unreachable
    /\ UNCHANGED <<now, sessions, cache, parent>>

FindByTokenHash(r) ==
    LET t == req[r].tok IN
    /\ req[r].pc = "find"
    /\ \/ ~Exists(t) /\ Return(r, "refused")
       \/ /\ Exists(t)
          /\ IF ActiveAt(sessions[t], req[r].at)
             THEN Extending(r, sessions[t], 1)
             ELSE IF hasCache THEN Goto(r, "drop") ELSE Return(r, "refused")
       \/ Return(r, "failed")
    /\ UNCHANGED <<now, sessions, cache, parent>>

\* store.Extend.  A refusal purges the cache entry and fails the request; any
\* other error keeps the record in hand; success fills the cache once here and,
\* when the record came from the store, once more in Resolve.
ExtendInStore(r) ==
    LET t == req[r].tok
        at == req[r].at
        expires == DueExpiry(req[r].rec, at)
        extended == [sessions[t] EXCEPT !.last = at, !.expires = expires]
    IN
    /\ req[r].pc = "extend"
    /\ \/ StoreExtend(t, at, expires) /\ Fill(r, extended, req[r].fills + 1)
       \/ /\ ~Extendable(t, at, expires)
          /\ IF hasCache THEN Goto(r, "purge") ELSE Return(r, "refused")
          /\ UNCHANGED sessions
       \/ /\ StoreExtend(t, at, expires) \/ UNCHANGED sessions
          /\ IF req[r].fills = 0 THEN Return(r, "ok")
                                 ELSE Fill(r, req[r].rec, req[r].fills)
    /\ UNCHANGED <<now, cache, parent>>

-----------------------------------------------------------------------------
(***************************************************************************)
(* Rotate.                                                                 *)
(***************************************************************************)

BeginRotate(r, t) ==
    /\ Free(r)
    /\ req' = [req EXCEPT ![r] = [Idle EXCEPT !.pc = "rotatefind", !.op = "rotate",
                                              !.tok = t]]
    /\ UNCHANGED <<now, sessions, cache, parent>>

RotateFind(r) ==
    LET t == req[r].tok IN
    /\ req[r].pc = "rotatefind"
    /\ \/ ~(Exists(t) /\ ActiveAt(sessions[t], now)) /\ Return(r, "refused")
       \/ /\ Exists(t)
          /\ ActiveAt(sessions[t], now)
          /\ \E u \in Drawable :
                req' = [req EXCEPT ![r].pc = "rotate", ![r].at = now,
                                   ![r].rec = NewRecord(u, sessions[t].subject, now)]
       \/ Return(r, "failed")
    /\ UNCHANGED <<now, sessions, cache, parent>>

RotateInStore(r) ==
    LET t == req[r].tok
        new == req[r].rec
        at == req[r].at
        Applied == /\ StoreRotate(t, new, at)
                   /\ parent' = [parent EXCEPT ![new.hash] = t]
    IN
    /\ req[r].pc = "rotate"
    /\ \/ Applied /\ Fill(r, new, 1)
       \/ /\ ~Rotatable(t, at)
          /\ Return(r, "refused")
          /\ UNCHANGED <<sessions, parent>>
       \/ /\ Rotatable(t, at) /\ Exists(new.hash)
          /\ Redraw(r)
          /\ UNCHANGED <<sessions, parent>>
       \/ /\ Applied \/ UNCHANGED <<sessions, parent>>
          /\ Return(r, "failed")
    /\ UNCHANGED <<now, cache>>

-----------------------------------------------------------------------------
(***************************************************************************)
(* Revoke, RevokeByID and RevokeAll.                                       *)
(***************************************************************************)

BeginRevoke(r, t) ==
    /\ Free(r)
    /\ req' = [req EXCEPT ![r] = [Idle EXCEPT !.pc = "revoke", !.op = "revoke",
                                              !.tok = t]]
    /\ UNCHANGED <<now, sessions, cache, parent>>

\* RevokeByID: List the subject's sessions; only one of them may be revoked.
BeginRevokeByID(r, s, t) ==
    /\ Free(r)
    /\ req' = [req EXCEPT ![r] = [Idle EXCEPT
                  !.pc = IF t \in BelongTo(s) THEN "revoke" ELSE "refused",
                  !.op = "revoke", !.tok = t]]
    /\ UNCHANGED <<now, sessions, cache, parent>>

\* Whether the UPDATE of Revoke reports a row it affected.
RevokeReported(t) == Exists(t)

RevokeInStore(r) ==
    LET t == req[r].tok IN
    /\ req[r].pc = "revoke"
    /\ \/ /\ RevokeReported(t)
          /\ StoreRevoke(t)
          /\ IF hasCache THEN Goto(r, "delete") ELSE Return(r, "ok")
       \/ /\ ~RevokeReported(t)
          /\ Return(r, "refused")
          /\ UNCHANGED sessions
       \/ /\ StoreRevoke(t) \/ UNCHANGED sessions
          /\ Return(r, "failed")
    /\ UNCHANGED <<now, cache, parent>>

BeginRevokeAll(r, s) ==
    /\ Free(r)
    /\ \/ /\ StoreRevokeAll(s)
          /\ req' = [req EXCEPT ![r] = [Idle EXCEPT
                        !.pc = IF hasCache THEN "deleteall" ELSE "ok",
                        !.op = "revokeall",
                        !.todo = IF hasCache THEN BelongTo(s) ELSE {}]]
       \/ /\ StoreRevokeAll(s) \/ UNCHANGED sessions
          /\ req' = [req EXCEPT ![r] = [Idle EXCEPT !.pc = "failed", !.op = "revokeall"]]
    /\ UNCHANGED <<now, cache, parent>>

-----------------------------------------------------------------------------

\* The server stops, or the client disconnects and the context is cancelled.
Abandon(r) ==
    /\ ~Free(r)
    /\ Return(r, "failed")
    /\ UNCHANGED <<now, sessions, cache, parent>>

\* Time passes; the cache drops the entries whose TTL has run out.
Tick ==
    /\ now < LastInstant
    /\ now' = now + 1
    /\ cache' = [t \in Tokens |-> IF cache[t].until <= now' THEN NoEntry ELSE cache[t]]
    /\ UNCHANGED <<sessions, req, parent>>

Init ==
    /\ hasCache \in BOOLEAN
    /\ now = 0
    /\ StoreInit
    /\ cache = [t \in Tokens |-> NoEntry]
    /\ req = [r \in Requests |-> Idle]
    /\ parent = [t \in Tokens |-> NoToken]

Begin(r) ==
    \/ \E s \in Subjects, t \in Drawable : BeginCreate(r, s, t)
    \/ \E t \in Drawable : BeginResolve(r, t)
    \/ \E t \in Drawable : BeginRotate(r, t)
    \/ \E t \in Drawable : BeginRevoke(r, t)
    \/ \E s \in Subjects, t \in Drawable : BeginRevokeByID(r, s, t)
    \/ \E s \in Subjects : BeginRevokeAll(r, s)

Step(r) ==
    \/ ComputeTTL(r) \/ CacheSet(r) \/ DeleteCached(r) \/ DeleteQuietly(r)
    \/ DeleteAllCached(r)
    \/ CreateInStore(r)
    \/ CacheGet(r) \/ FindByTokenHash(r) \/ ExtendInStore(r)
    \/ RotateFind(r) \/ RotateInStore(r)
    \/ RevokeInStore(r)

Next ==
    /\ Tick \/ \E r \in Requests : Begin(r) \/ Step(r) \/ Abandon(r)
    /\ UNCHANGED hasCache

Spec == Init /\ [][Next]_vars

-----------------------------------------------------------------------------
(***************************************************************************)
(* Properties.                                                             *)
(***************************************************************************)

TypeOK ==
    /\ hasCache \in BOOLEAN
    /\ now \in Times
    /\ sessions \in [Tokens -> Record \cup {NoRecord}]
    /\ cache \in [Tokens -> Entry]
    /\ req \in [Requests -> Request]
    /\ parent \in [Tokens -> Tokens \cup {NoToken}]

\* A session lives one Lifetime from its creation or its last extension and never
\* past the absolute lifetime, whichever requests extend it concurrently and
\* however old the records are that they extend from (extendIfDue computes the
\* new expiry from a record that may come from a stale cache entry).
IdleWindow ==
    \A t \in Tokens : Exists(t) =>
        sessions[t].expires =
            IF Extension THEN ExtendedExpiry(sessions[t], sessions[t].last)
                         ELSE sessions[t].created + Lifetime

\* A copy of a record, in the cache or in a request's hands, is never ahead of
\* the durable one.
Behind(rec) ==
    /\ Exists(rec.hash)
    /\ rec.subject = sessions[rec.hash].subject
    /\ rec.created = sessions[rec.hash].created
    /\ rec.expires <= sessions[rec.hash].expires
    /\ rec.last <= sessions[rec.hash].last
    /\ ~rec.revoked

\* The cache never grants more than the store: an entry under a token hash is a
\* past state of that very session, with its owner and no later expiry.
CacheBehindStore ==
    \A t \in Tokens : cache[t] # NoEntry => cache[t].rec.hash = t /\ Behind(cache[t].rec)

\* A rotation has one successor: of the concurrent rotations of one credential
\* at most one is applied, and the credential it replaced is revoked.
RotationUnique ==
    /\ \A t, u \in Tokens : parent[t] # NoToken /\ parent[t] = parent[u] => t = u
    /\ \A t \in Tokens : parent[t] # NoToken =>
          /\ Exists(t) /\ Exists(parent[t])
          /\ sessions[t].subject = sessions[parent[t]].subject
          /\ sessions[parent[t]].revoked

\* What holds of records, copies and requests together: their types, the window each
\* session lives in, the copies that lag behind, and the rotations.
Consistent == TypeOK /\ IdleWindow /\ CacheBehindStore /\ RotationUnique

Accepted(r) == req[r].op = "resolve" /\ req[r].pc = "ok"

\* A request is only ever authenticated before the durable expiry, as the owner
\* the durable record names, even when the answer came from the cache.
AcceptedBeforeExpiry ==
    \A r \in Requests : Accepted(r) =>
        /\ Exists(req[r].tok)
        /\ req[r].at < sessions[req[r].tok].expires
        /\ req[r].rec.subject = sessions[req[r].tok].subject

\* A credential revoked before the request arrived does not authenticate it.
\* Without a cache Resolve always consults the durable authority.
RevokedNeverAccepted ==
    ~hasCache => \A r \in Requests : Accepted(r) => req[r].live

\* The store's answer makes Resolve refuse a session only if it is revoked or expired
\* by then, or if a concurrent request has extended it beyond the record this one
\* decided by (the conditional UPDATE of the later extension matches no row).
RefusedOnlyIfInactive ==
    [][\A r \in Requests :
          /\ req[r].op = "resolve" /\ req[r].pc \in {"find", "extend"}
          /\ req'[r].pc \in {"drop", "purge", "refused"} /\ Exists(req[r].tok)
          => \/ ~ActiveAt(sessions[req[r].tok], req[r].at)
             \/ req[r].rec # NoRecord /\ req[r].rec.expires < sessions[req[r].tok].expires]_vars

=============================================================================
