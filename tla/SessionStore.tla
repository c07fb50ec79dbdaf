---------------------------- MODULE SessionStore ----------------------------
(***************************************************************************)
(* The durable authority for cookie sessions: the table behind the         *)
(* sessiontoken.Store interface, one action per method that writes it.     *)
(* Each method is one atomic step here; the adapters promise that much to  *)
(* the manager, and the adapter modules examine how they keep it.          *)
(*                                                                         *)
(* A record keeps ExtendedAt and CreatedAt folded into `last`, the later   *)
(* of the two, because the code only ever reads the pair in that form, and *)
(* of RevokedAt only whether it is set.                                    *)
(***************************************************************************)
EXTENDS Integers

CONSTANTS
    Tokens,            \* token hashes; the session ID is drawn together with it
    Subjects,          \* owners of sessions
    Lifetime,          \* Config.Lifetime
    Extension,         \* whether Config.Extension is set
    AbsoluteLifetime,  \* ExtensionConfig.AbsoluteLifetime
    MaxTime,           \* bound: the last instant of a modelled run
    NoRecord           \* no row with this token hash

ASSUME LifetimeAssumption ==
    /\ Lifetime \in Nat \ {0}
    /\ Extension \in BOOLEAN
    /\ AbsoluteLifetime \in Nat
    /\ AbsoluteLifetime > Lifetime
    /\ MaxTime \in Nat

VARIABLE sessions

Times == 0..MaxTime

Record == [hash: Tokens, subject: Subjects, created: Nat, expires: Nat,
           last: Nat, revoked: BOOLEAN]

ASSUME NoRecordAssumption == NoRecord \notin Record

Exists(t) == sessions[t] # NoRecord

\* Slip: a record is still active at its expiry.
ActiveAtInclusive(rec, at) == ~rec.revoked /\ at <= rec.expires

\* Slip: revocation is not looked at.
ActiveAtUnexpired(rec, at) == at < rec.expires

\* Expiry is exclusive.
ActiveAt(rec, at) == ~rec.revoked /\ at < rec.expires

\* The record newIssued draws: it starts with one Lifetime of validity.
NewRecord(t, s, at) ==
    [hash |-> t, subject |-> s, created |-> at, expires |-> at + Lifetime,
     last |-> at, revoked |-> FALSE]

Revoked(rec) == [rec EXCEPT !.revoked = TRUE]

Earlier(a, b) == IF a < b THEN a ELSE b

-----------------------------------------------------------------------------

StoreInit == sessions = [t \in Tokens |-> NoRecord]

StoreCreate(rec) ==
    /\ ~Exists(rec.hash)
    /\ sessions' = [sessions EXCEPT ![rec.hash] = rec]

\* UPDATE ... WHERE revoked_at IS NULL AND expires_at > at AND expires_at < expires
Extendable(t, at, expires) ==
    /\ Exists(t)
    /\ ActiveAt(sessions[t], at)
    /\ sessions[t].expires < expires

\* Slip: extended_at is not written.
StoreExtendSilently(t, at, expires) ==
    /\ Extendable(t, at, expires)
    /\ sessions' = [sessions EXCEPT ![t].expires = expires]

StoreExtend(t, at, expires) ==
    /\ Extendable(t, at, expires)
    /\ sessions' = [sessions EXCEPT ![t].last = at, ![t].expires = expires]

Rotatable(t, at) == Exists(t) /\ ActiveAt(sessions[t], at)

StoreRotate(t, rec, at) ==
    /\ Rotatable(t, at)
    /\ ~Exists(rec.hash)
    /\ sessions' = [sessions EXCEPT ![t].revoked = TRUE, ![rec.hash] = rec]

StoreRevoke(t) ==
    /\ Exists(t)
    /\ sessions' = [sessions EXCEPT ![t] = Revoked(@)]

BelongTo(s) == {t \in Tokens : Exists(t) /\ sessions[t].subject = s}

StoreRevokeAll(s) ==
    sessions' = [t \in Tokens |->
                    IF t \in BelongTo(s) THEN Revoked(sessions[t])
                                         ELSE sessions[t]]

-----------------------------------------------------------------------------
(***************************************************************************)
(* What the durable table may do whatever the manager, its cache and its   *)
(* concurrent requests are up to.  Times are free: a caller's clock        *)
(* reading may be old when its write arrives.                              *)
(***************************************************************************)

\* The expiry an extension at time `at` may set: one Lifetime from there,
\* capped by the absolute lifetime.
ExtendedExpiry(rec, at) ==
    Earlier(at + Lifetime, rec.created + AbsoluteLifetime)

\* A step of the table; a call that leaves it as it is is a stutter.
StoreNext ==
    /\ sessions' # sessions
    /\ \/ \E t \in Tokens, s \in Subjects, at \in Times : StoreCreate(NewRecord(t, s, at))
       \/ \E t \in Tokens, at \in Times :
             Extension /\ StoreExtend(t, at, ExtendedExpiry(sessions[t], at))
       \/ \E t, u \in Tokens, at, born \in Times :
             StoreRotate(t, NewRecord(u, sessions[t].subject, born), at)
       \/ \E t \in Tokens : StoreRevoke(t)
       \/ \E s \in Subjects : StoreRevokeAll(s)

StoreSpec == StoreInit /\ [][StoreNext]_sessions

\* A store whose RevokeAll reads the sessions first may miss one created meanwhile.
StoreRevokeSome ==
    /\ sessions' # sessions
    /\ \E s \in Subjects : \E S \in SUBSET BelongTo(s) :
          sessions' = [t \in Tokens |-> IF t \in S THEN Revoked(sessions[t]) ELSE sessions[t]]

WeakStoreSpec == StoreInit /\ [][StoreNext \/ StoreRevokeSome]_sessions

=============================================================================
