--------------------------- MODULE PostgresBearer ---------------------------
(***************************************************************************)
(* The PostgreSQL transactions behind bearer sessions, statement by        *)
(* statement: RefreshTokenStore.Rotate and RevokeSession and               *)
(* AccessSessionStore.CreateSession, Revoke and RevokeAll.                 *)
(*                                                                         *)
(* BearerSessions takes these methods for atomic steps.  They run at READ  *)
(* COMMITTED: a statement sees the rows committed when it starts, waits    *)
(* for the row locks of other transactions, and then updates the version   *)
(* it waited for; a row inserted meanwhile is not part of the statement.   *)
(* The server breaks a cycle of waiting transactions by aborting one.      *)
(*                                                                         *)
(* All sessions belong to one subject, whom RevokeAll is about.  Session   *)
(* IDs and token hashes are different values, so that both name rows.      *)
(***************************************************************************)
EXTENDS Integers, Sequences

CONSTANTS
    Txs,          \* database connections
    SessionIDs,   \* keys of authlier_access_sessions
    Tokens,       \* keys of authlier_refresh_tokens
    None

VARIABLES
    access,   \* committed rows of authlier_access_sessions
    refresh,  \* committed rows of authlier_refresh_tokens
    expired,  \* sessions past their expiry; their refresh tokens expire with them
    holder,   \* the transaction that has locked or inserted a row
    tx,       \* the transaction on each connection
    parent    \* history: the token each rotated-in refresh token replaced

vars == <<access, refresh, expired, holder, tx, parent>>

Rows == SessionIDs \cup Tokens

RefreshToken == [session: SessionIDs, rotated: BOOLEAN, revoked: BOOLEAN]

Running == {"lock", "insert", "mark", "statement", "update", "commit"}

Statements == {"access", "refresh"}

Transaction == [pc: {"idle"} \cup Running,
                tok: Tokens \cup {None}, new: Tokens \cup {None},
                sids: SUBSET SessionIDs, plan: Seq(Statements),
                todo: SUBSET Rows, wrote: SUBSET Rows,
                due: SUBSET SessionIDs]   \* history: the sessions it sets out to revoke or,
                                          \* once it has answered so, has revoked

Idle == [pc |-> "idle", tok |-> None, new |-> None, sids |-> {}, plan |-> << >>,
         todo |-> {}, wrote |-> {}, due |-> {}]

Free(x) == tx[x].pc = "idle"

Available(x, row) == holder[row] \in {None, x}

Goto(x, pc) == tx' = [tx EXCEPT ![x].pc = pc]

\* The transaction is over, committed or rolled back by the deferred Rollback, and the
\* method answers that the sessions in `revoked` are.
End(x, revoked) ==
    /\ tx' = [tx EXCEPT ![x] = [Idle EXCEPT !.due = revoked]]
    /\ holder' = [row \in Rows |-> IF holder[row] = x THEN None ELSE holder[row]]

RolledBack(x) == End(x, {}) /\ UNCHANGED <<access, refresh, expired, parent>>

-----------------------------------------------------------------------------
(***************************************************************************)
(* Rotate.                                                                 *)
(***************************************************************************)

Begin(x, with) ==
    /\ Free(x)
    /\ tx' = [tx EXCEPT ![x] = with]
    /\ UNCHANGED <<access, refresh, expired, holder, parent>>

BeginRotate(x, t, u) == Begin(x, [Idle EXCEPT !.pc = "lock", !.tok = t, !.new = u])

Inactive(t) == refresh[t].rotated \/ refresh[t].revoked \/ refresh[t].session \in expired

\* Where Rotate goes once it has read the current row.
Judge(x) ==
    LET t == tx[x].tok IN
    tx' = [tx EXCEPT ![x].pc = IF Inactive(t) THEN "statement" ELSE "insert",
                     ![x].sids = {refresh[t].session},
                     ![x].due = IF Inactive(t) THEN {refresh[t].session} ELSE {},
                     ![x].plan = IF Inactive(t) THEN <<"access", "refresh">> ELSE << >>]

\* Slip: the row is read without FOR UPDATE.
SelectCurrent(x) ==
    /\ tx[x].pc = "lock" /\ refresh[tx[x].tok] # None
    /\ Judge(x)
    /\ UNCHANGED <<access, refresh, expired, holder, parent>>

\* SELECT ... FOR UPDATE waits for the row and reads its latest version.
LockCurrent(x) ==
    LET t == tx[x].tok IN
    /\ tx[x].pc = "lock"
    /\ \/ refresh[t] = None /\ RolledBack(x)
       \/ /\ refresh[t] # None
          /\ Available(x, t)
          /\ holder' = [holder EXCEPT ![t] = x]
          /\ Judge(x)
          /\ UNCHANGED <<access, refresh, expired, parent>>

\* INSERT waits for an uncommitted row with the same key.
InsertReplacement(x) ==
    LET u == tx[x].new IN
    /\ tx[x].pc = "insert"
    /\ Available(x, u)
    /\ \/ refresh[u] # None /\ RolledBack(x)
       \/ /\ refresh[u] = None
          /\ holder' = [holder EXCEPT ![u] = x]
          /\ Goto(x, "mark")
          /\ UNCHANGED <<access, refresh, expired, parent>>

\* UPDATE ... SET rotated_at, on the row the transaction holds.
MarkRotated(x) ==
    /\ tx[x].pc = "mark"
    /\ Available(x, tx[x].tok)
    /\ tx' = [tx EXCEPT ![x].pc = "commit", ![x].wrote = {tx[x].tok}]
    /\ UNCHANGED <<access, refresh, expired, holder, parent>>

-----------------------------------------------------------------------------
(***************************************************************************)
(* revokeAccessSession and RevokeAll, which update the two tables in       *)
(* opposite order.                                                         *)
(***************************************************************************)

Existing == {sid \in SessionIDs : access[sid] # "absent"}

\* The callers have the ID from a row.
BeginRevoke(x, sid) ==
    /\ sid \in Existing
    /\ Begin(x, [Idle EXCEPT !.pc = "statement", !.sids = {sid}, !.due = {sid},
                             !.plan = <<"access", "refresh">>])

BeginRevokeAll(x) ==
    Begin(x, [Idle EXCEPT !.pc = "statement", !.sids = SessionIDs, !.due = Existing,
                          !.plan = <<"refresh", "access">>])

Matching(x) ==
    IF Head(tx[x].plan) = "access"
    THEN Existing \cap tx[x].sids
    ELSE {t \in Tokens : refresh[t] # None /\ refresh[t].session \in tx[x].sids}

\* A statement starts: the rows it is about are those committed by now.
StartUpdate(x) ==
    /\ tx[x].pc = "statement"
    /\ tx' = [tx EXCEPT ![x].pc = "update", ![x].todo = Matching(x), ![x].plan = Tail(@)]
    /\ UNCHANGED <<access, refresh, expired, holder, parent>>

UpdateRow(x) ==
    /\ tx[x].pc = "update"
    /\ \E row \in tx[x].todo :
          /\ Available(x, row)
          /\ holder' = [holder EXCEPT ![row] = x]
          /\ tx' = [tx EXCEPT ![x].todo = @ \ {row}, ![x].wrote = @ \cup {row}]
    /\ UNCHANGED <<access, refresh, expired, parent>>

FinishUpdate(x) ==
    /\ tx[x].pc = "update" /\ tx[x].todo = {}
    /\ Goto(x, IF tx[x].plan = << >> THEN "commit" ELSE "statement")
    /\ UNCHANGED <<access, refresh, expired, holder, parent>>

-----------------------------------------------------------------------------

\* What a commit makes visible: the consumed token and its replacement ...
CommitRotation(x) ==
    /\ refresh' = [refresh EXCEPT
                      ![tx[x].tok].rotated = TRUE,
                      ![tx[x].new] = [session |-> refresh[tx[x].tok].session,
                                      rotated |-> FALSE, revoked |-> FALSE]]
    /\ parent' = [parent EXCEPT ![tx[x].new] = tx[x].tok]
    /\ UNCHANGED access

\* ... or the revocation of every row written.
CommitRevocation(x) ==
    /\ access' = [sid \in SessionIDs |-> IF sid \in tx[x].wrote THEN "revoked" ELSE access[sid]]
    /\ refresh' = [t \in Tokens |-> IF t \in tx[x].wrote
                                    THEN [refresh[t] EXCEPT !.revoked = TRUE]
                                    ELSE refresh[t]]
    /\ UNCHANGED parent

\* Slip: the reuse branch returns without a commit.
CommitUnlessReuse(x) ==
    LET rotates == tx[x].new # None /\ tx[x].wrote \cap SessionIDs = {}
        reuse == tx[x].new # None /\ ~rotates
    IN
    /\ tx[x].pc = "commit"
    /\ IF reuse THEN UNCHANGED <<access, refresh, parent>>
       ELSE IF rotates THEN CommitRotation(x) ELSE CommitRevocation(x)
    /\ End(x, tx[x].due)
    /\ UNCHANGED expired

\* The commit takes effect; its answer may be lost.
Commit(x) ==
    LET rotates == tx[x].new # None /\ tx[x].wrote \cap SessionIDs = {} IN
    /\ tx[x].pc = "commit"
    /\ IF rotates THEN CommitRotation(x) ELSE CommitRevocation(x)
    /\ End(x, tx[x].due) \/ End(x, {})
    /\ UNCHANGED expired

\* A statement fails, the context is cancelled or the server stops.
Fail(x) == ~Free(x) /\ RolledBack(x)

\* The rows a transaction cannot go on without.
Wanted(x) ==
    CASE tx[x].pc = "lock"   -> {tx[x].tok}
      [] tx[x].pc = "insert" -> {tx[x].new}
      [] tx[x].pc = "mark"   -> {tx[x].tok}
      [] tx[x].pc = "update" -> tx[x].todo
      [] OTHER               -> {}

Blocked(x) == Wanted(x) # {} /\ \A row \in Wanted(x) : ~Available(x, row)

\* The transactions that wait for one another.
Deadlocked ==
    UNION {D \in SUBSET Txs :
              \A x \in D : Blocked(x) /\ \A row \in Wanted(x) : holder[row] \in D}

DeadlockAbort(x) == x \in Deadlocked /\ RolledBack(x)

\* CreateSession: both rows are new and nobody else has their keys, so that only
\* its commit matters.
CreateSession(sid, t) ==
    /\ access[sid] = "absent" /\ refresh[t] = None
    /\ holder[t] = None
    /\ access' = [access EXCEPT ![sid] = "live"]
    /\ refresh' = [refresh EXCEPT ![t] = [session |-> sid, rotated |-> FALSE, revoked |-> FALSE]]
    /\ UNCHANGED <<expired, holder, tx, parent>>

Expire(sid) ==
    /\ access[sid] # "absent" /\ sid \notin expired
    /\ expired' = expired \cup {sid}
    /\ UNCHANGED <<access, refresh, holder, tx, parent>>

Init ==
    /\ access = [sid \in SessionIDs |-> "absent"]
    /\ refresh = [t \in Tokens |-> None]
    /\ expired = {}
    /\ holder = [row \in Rows |-> None]
    /\ tx = [x \in Txs |-> Idle]
    /\ parent = [t \in Tokens |-> None]

Start(x) ==
    \/ \E t, u \in Tokens : t # u /\ BeginRotate(x, t, u)
    \/ \E sid \in SessionIDs : BeginRevoke(x, sid)
    \/ BeginRevokeAll(x)

Step(x) ==
    \/ LockCurrent(x) \/ InsertReplacement(x) \/ MarkRotated(x)
    \/ StartUpdate(x) \/ UpdateRow(x) \/ FinishUpdate(x)
    \/ Commit(x) \/ DeadlockAbort(x)

Next ==
    \/ \E x \in Txs : Start(x) \/ Step(x) \/ Fail(x)
    \/ \E sid \in SessionIDs, t \in Tokens : CreateSession(sid, t)
    \/ \E sid \in SessionIDs : Expire(sid)

Spec == Init /\ [][Next]_vars

-----------------------------------------------------------------------------
(***************************************************************************)
(* Properties.                                                             *)
(***************************************************************************)

TypeOK ==
    /\ access \in [SessionIDs -> {"absent", "live", "revoked"}]
    /\ refresh \in [Tokens -> RefreshToken \cup {None}]
    /\ expired \subseteq SessionIDs
    /\ holder \in [Rows -> Txs \cup {None}]
    /\ tx \in [Txs -> Transaction]
    /\ parent \in [Tokens -> Tokens \cup {None}]

\* Only a running transaction holds rows: every return of every method, the
\* error returns included, goes through Commit or the deferred Rollback.
LocksReleased ==
    \A row \in Rows : holder[row] # None => ~Free(holder[row])

\* FOR UPDATE serialises rotations: whatever transactions overlap, a session has
\* at most one token that has not been spent.
OneUnspentToken ==
    \A t, u \in Tokens :
        /\ refresh[t] # None /\ ~refresh[t].rotated
        /\ refresh[u] # None /\ ~refresh[u].rotated
        /\ refresh[t].session = refresh[u].session
        => t = u

\* A rotation is all or nothing: a token is spent exactly when it has one
\* committed replacement, in its own session.
RotationAtomic ==
    \A t \in Tokens : refresh[t] # None =>
        LET successors == {u \in Tokens : parent[u] = t} IN
        /\ refresh[t].rotated <=> successors # {}
        /\ \A u, v \in successors : u = v /\ refresh[u].session = refresh[t].session

\* Reuse ends the durable session before ErrReuseDetected is returned, and so do
\* RevokeSession, Revoke and RevokeAll before they answer success.
RevokedBeforeAnswer ==
    \A x \in Txs : Free(x) =>
        \A sid \in tx[x].due : access[sid] = "revoked"

\* While transactions run, one of them can go on: a cycle of waiting ones is broken by the
\* server, and no lock is left behind by a transaction that is over.
SomeoneProceeds == (\E x \in Txs : ~Free(x)) => \E x \in Txs : ENABLED Step(x)

\* What holds of rows, locks and transactions together, between any two statements.
Consistent == TypeOK /\ LocksReleased /\ OneUnspentToken

=============================================================================
