-------------------------- MODULE PostgresSessions --------------------------
(***************************************************************************)
(* The PostgreSQL adapter's SessionStore, statement by statement at READ   *)
(* COMMITTED: a statement sees the rows committed when it starts, waits    *)
(* for the row locks of other transactions, and then works on the version  *)
(* it waited for.  A row that is inserted while RevokeAll's UPDATE waits   *)
(* is not part of it.                                                      *)
(*                                                                         *)
(* Create, Extend and Revoke are one statement on one row: they take       *)
(* effect at once when nobody holds the row.                               *)
(***************************************************************************)
EXTENDS SessionStore

CONSTANTS Txs   \* database connections with a Rotate or a RevokeAll

VARIABLES
    now,
    holder,   \* the transaction that has locked or inserted a row
    tx,       \* the transaction on each connection
    parent    \* history: the session each rotated-in session replaced

vars == <<sessions, now, holder, tx, parent>>

Transaction ==
    [pc: {"idle", "lock", "insert", "commit", "update"},
     tok: Tokens \cup {NoRecord}, rec: Record \cup {NoRecord}, at: Times,
     subject: Subjects \cup {NoRecord}, todo: SUBSET Tokens, wrote: SUBSET Tokens]

Idle == [pc |-> "idle", tok |-> NoRecord, rec |-> NoRecord, at |-> 0, subject |-> NoRecord,
         todo |-> {}, wrote |-> {}]

Free(x) == tx[x].pc = "idle"

Available(x, t) == holder[t] \in {NoRecord, x}

Held(x, t) == holder' = [holder EXCEPT ![t] = x]

\* Commit or Rollback.
End(x) ==
    /\ tx' = [tx EXCEPT ![x] = Idle]
    /\ holder' = [t \in Tokens |-> IF holder[t] = x THEN NoRecord ELSE holder[t]]

RolledBack(x) == End(x) /\ UNCHANGED <<sessions, now, parent>>

-----------------------------------------------------------------------------
(***************************************************************************)
(* Create, Extend and Revoke.  The caller's clock reading may be old.      *)
(***************************************************************************)

Create(t, s) ==
    /\ holder[t] = NoRecord
    /\ StoreCreate(NewRecord(t, s, now))
    /\ UNCHANGED <<now, holder, tx, parent>>

Extend(t, at) ==
    /\ Extension /\ at <= now
    /\ holder[t] = NoRecord
    /\ StoreExtend(t, at, ExtendedExpiry(sessions[t], at))
    /\ UNCHANGED <<now, holder, tx, parent>>

Revoke(t) ==
    /\ holder[t] = NoRecord
    /\ StoreRevoke(t)
    /\ UNCHANGED <<now, holder, tx, parent>>

-----------------------------------------------------------------------------
(***************************************************************************)
(* Rotate.                                                                 *)
(***************************************************************************)

\* The manager has found the session active.
BeginRotate(x, t, u) ==
    /\ Free(x)
    /\ Rotatable(t, now) /\ t # u
    /\ tx' = [tx EXCEPT ![x] = [Idle EXCEPT !.pc = "lock", !.tok = t, !.at = now,
                                            !.rec = NewRecord(u, sessions[t].subject, now)]]
    /\ UNCHANGED <<sessions, now, holder, parent>>

\* SELECT ... FOR UPDATE waits for the row and reads its latest version.
LockCurrent(x) ==
    LET t == tx[x].tok IN
    /\ tx[x].pc = "lock" /\ Available(x, t)
    /\ \/ ~Rotatable(t, tx[x].at) /\ RolledBack(x)
       \/ /\ Rotatable(t, tx[x].at)
          /\ Held(x, t)
          /\ tx' = [tx EXCEPT ![x].pc = "insert"]
          /\ UNCHANGED <<sessions, now, parent>>

\* INSERT waits for an uncommitted row with the same key.
InsertReplacement(x) ==
    LET u == tx[x].rec.hash IN
    /\ tx[x].pc = "insert" /\ Available(x, u)
    /\ \/ Exists(u) /\ RolledBack(x)
       \/ /\ ~Exists(u)
          /\ Held(x, u)
          /\ tx' = [tx EXCEPT ![x].pc = "commit"]
          /\ UNCHANGED <<sessions, now, parent>>

\* The UPDATE of the current row, which the transaction holds, and the commit.
CommitRotation(x) ==
    LET t == tx[x].tok
        rec == tx[x].rec IN
    /\ tx[x].pc = "commit" /\ Available(x, t)
    /\ sessions' = [sessions EXCEPT ![t].revoked = TRUE, ![rec.hash] = rec]
    /\ parent' = [parent EXCEPT ![rec.hash] = t]
    /\ End(x)
    /\ UNCHANGED now

-----------------------------------------------------------------------------
(***************************************************************************)
(* RevokeAll: one UPDATE ... RETURNING.                                    *)
(***************************************************************************)

\* The statement starts: its rows are those committed by now.
BeginRevokeAll(x, s) ==
    /\ Free(x)
    /\ tx' = [tx EXCEPT ![x] = [Idle EXCEPT !.pc = "update", !.subject = s, !.todo = BelongTo(s)]]
    /\ UNCHANGED <<sessions, now, holder, parent>>

UpdateRow(x) ==
    /\ tx[x].pc = "update"
    /\ \E t \in tx[x].todo :
          /\ Available(x, t)
          /\ Held(x, t)
          /\ tx' = [tx EXCEPT ![x].todo = @ \ {t}, ![x].wrote = @ \cup {t}]
    /\ UNCHANGED <<sessions, now, parent>>

CommitRevokeAll(x) ==
    /\ tx[x].pc = "update" /\ tx[x].todo = {}
    /\ sessions' = [t \in Tokens |->
                      IF t \in tx[x].wrote THEN Revoked(sessions[t]) ELSE sessions[t]]
    /\ End(x)
    /\ UNCHANGED <<now, parent>>

-----------------------------------------------------------------------------

\* A statement fails, the context is cancelled or the server stops.
Fail(x) == ~Free(x) /\ RolledBack(x)

\* The rows a transaction cannot go on without.
Wanted(x) ==
    CASE tx[x].pc = "lock"   -> {tx[x].tok}
      [] tx[x].pc = "insert" -> {tx[x].rec.hash}
      [] tx[x].pc = "commit" -> {tx[x].tok}
      [] tx[x].pc = "update" -> tx[x].todo
      [] OTHER               -> {}

Blocked(x) == Wanted(x) # {} /\ \A t \in Wanted(x) : ~Available(x, t)

\* The transactions that wait for one another: the server aborts one of them.
Deadlocked ==
    UNION {D \in SUBSET Txs :
              \A x \in D : Blocked(x) /\ \A t \in Wanted(x) : holder[t] \in D}

DeadlockAbort(x) == x \in Deadlocked /\ RolledBack(x)

Tick == now < MaxTime /\ now' = now + 1 /\ UNCHANGED <<sessions, holder, tx, parent>>

Init ==
    /\ StoreInit
    /\ now = 0
    /\ holder = [t \in Tokens |-> NoRecord]
    /\ tx = [x \in Txs |-> Idle]
    /\ parent = [t \in Tokens |-> NoRecord]

Step(x) ==
    \/ LockCurrent(x) \/ InsertReplacement(x) \/ CommitRotation(x)
    \/ UpdateRow(x) \/ CommitRevokeAll(x) \/ DeadlockAbort(x)

Next ==
    \/ Tick
    \/ \E t \in Tokens :
          \/ \E s \in Subjects : Create(t, s)
          \/ \E at \in Times : Extend(t, at)
          \/ Revoke(t)
    \/ \E x \in Txs :
          \/ \E t, u \in Tokens : BeginRotate(x, t, u)
          \/ \E s \in Subjects : BeginRevokeAll(x, s)
          \/ Step(x) \/ Fail(x)

Spec == Init /\ [][Next]_vars

-----------------------------------------------------------------------------
(***************************************************************************)
(* Properties.                                                             *)
(***************************************************************************)

TypeOK ==
    /\ sessions \in [Tokens -> Record \cup {NoRecord}]
    /\ now \in Times
    /\ holder \in [Tokens -> Txs \cup {NoRecord}]
    /\ tx \in [Txs -> Transaction]
    /\ parent \in [Tokens -> Tokens \cup {NoRecord}]

\* Only a running transaction holds rows, whichever return its method takes.
LocksReleased == \A t \in Tokens : holder[t] # NoRecord => ~Free(holder[t])

\* However many rotations of one session overlap, it gets one replacement, of its own
\* subject, and is revoked with it.
OneReplacement ==
    \A t, u \in Tokens : parent[u] = t =>
        /\ Exists(t) /\ Exists(u)
        /\ sessions[t].revoked /\ sessions[t].subject = sessions[u].subject
        /\ \A v \in Tokens : parent[v] = t => v = u

\* RevokeAll "durably invalidates every session for a subject" (sessiontoken.go): those
\* that there were, and the one that replaced such a session meanwhile.
RevokeAllComplete ==
    [][\A x \in Txs : CommitRevokeAll(x) =>
          \A t \in BelongTo(tx[x].subject) :
              t \in tx[x].wrote \/ parent[t] \in tx[x].wrote => sessions'[t].revoked]_vars

\* While transactions run, one of them can go on: a cycle of waiting ones is broken by the
\* server, and no lock is left behind by a transaction that is over.
SomeoneProceeds == (\E x \in Txs : ~Free(x)) => \E x \in Txs : ENABLED Step(x)

\* What holds of rows, locks and transactions together, between any two statements.
Consistent == TypeOK /\ LocksReleased /\ OneReplacement

=============================================================================
