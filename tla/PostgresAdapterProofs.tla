------------------------ MODULE PostgresAdapterProofs ------------------------
(***************************************************************************)
(* Proofs about PostgresAdapter, for any number of connections, requests,  *)
(* sessions, tokens, accounts and Google subjects: what the transactions   *)
(* of its three groups of tables rely on between two statements, and what  *)
(* they leave behind.                                                      *)
(***************************************************************************)
EXTENDS PostgresAdapter, Sequences, TLAPS

-----------------------------------------------------------------------------
(***************************************************************************)
(* Bearer sessions: the inductive invariant.                               *)
(***************************************************************************)

BothPlans == {<<"access", "refresh">>, <<"refresh", "access">>}

\* At its commit, a transaction that was to rotate and has written no session rotates.
Rotates(q) == q.new # None /\ q.wrote \cap SessionIDs = {}

\* From the lock to the commit of a rotation, its token is there, unspent and held by x.
Rotating(x, q, f, h) ==
    /\ q.tok \in Tokens /\ q.new \in Tokens /\ q.tok # q.new
    /\ h[q.tok] = x /\ f[q.tok] # None /\ ~f[q.tok].rotated
    /\ q.wrote \subseteq Tokens /\ q.due = {}

\* Its replacement is a row of its own that nobody else can insert.
Inserted(x, q, f, h) == h[q.new] = x /\ f[q.new] = None

\* What is due to be revoked are sessions that exist, and a statement on
\* authlier_access_sessions is still to come or has them among its rows.
Revoking(q, a, f) ==
    /\ \A sid \in q.due : a[sid] # "absent"
    /\ q.due \subseteq q.sids
    /\ q.new # None => q.due # {}
    /\ \A t \in (q.todo \cup q.wrote) \cap Tokens : f[t] # None
    /\ q.pc = "statement" =>
          \/ q.plan \in BothPlans \cup {<<"access">>}
          \/ q.plan = <<"refresh">> /\ q.due \subseteq q.wrote
    /\ q.pc = "update" =>
          \/ q.plan = <<"access">>
          \/ q.plan \in {<<"refresh">>, << >>} /\ q.due \subseteq q.todo \cup q.wrote
    /\ q.pc = "commit" => q.due \subseteq q.wrote

\* What transaction x relies on, in the rows a and f and the locks h.
Relies(x, q, a, f, h) ==
    /\ q.pc = "idle" => \A sid \in q.due : a[sid] = "revoked"
    /\ q.pc = "lock" => /\ q.tok \in Tokens /\ q.new \in Tokens /\ q.tok # q.new
                        /\ q.todo = {} /\ q.wrote = {} /\ q.due = {}
    /\ q.pc \in {"insert", "mark"} => Rotating(x, q, f, h)
    /\ q.pc = "mark" => Inserted(x, q, f, h)
    /\ q.pc \in {"statement", "update"} => Revoking(q, a, f)
    /\ q.pc = "commit" =>
          IF Rotates(q) THEN Rotating(x, q, f, h) /\ Inserted(x, q, f, h)
                        ELSE Revoking(q, a, f)

BearerReliance == \A x \in Txs : Relies(x, tx[x], access, refresh, holder)

\* Tokens have sessions, and links of the chain join committed tokens.
Referential ==
    /\ \A t \in Tokens : refresh[t] # None => access[refresh[t].session] # "absent"
    /\ \A t \in Tokens : parent[t] # None => refresh[t] # None /\ refresh[parent[t]] # None

BearerInv ==
    /\ Bearer!TypeOK /\ Bearer!LocksReleased
    /\ Referential /\ Bearer!OneUnspentToken /\ Bearer!RotationAtomic
    /\ BearerReliance

-----------------------------------------------------------------------------
(***************************************************************************)
(* Bearer sessions: what a step of one transaction leaves to the others.   *)
(***************************************************************************)

\* Rows are never deleted and never return from "revoked", and nobody but x spends or
\* inserts a token that x holds.
Spares(x, a, f, h, a2, f2, h2) ==
    /\ \A sid \in SessionIDs : /\ a[sid] # "absent" => a2[sid] # "absent"
                               /\ a[sid] = "revoked" => a2[sid] = "revoked"
    /\ \A t \in Tokens : f[t] # None => f2[t] # None
    /\ \A t \in Tokens : h[t] = x =>
          /\ h2[t] = x
          /\ f[t] = None => f2[t] = None
          /\ f[t] # None /\ ~f[t].rotated => ~f2[t].rotated

\* What a transaction relies on survives whatever spares it.
LEMMA RelianceKept ==
    ASSUME NEW x, NEW q \in Bearer!Transaction, NEW a, NEW f, NEW h, NEW a2, NEW f2, NEW h2,
           Relies(x, q, a, f, h), Spares(x, a, f, h, a2, f2, h2)
    PROVE  Relies(x, q, a2, f2, h2)
<1>1. q.due \subseteq SessionIDs
  BY DEF Bearer!Transaction
<1>2. Rotating(x, q, f, h) => Rotating(x, q, f2, h2)
  BY DEF Rotating, Spares
<1>3. q.new \in Tokens /\ Inserted(x, q, f, h) => Inserted(x, q, f2, h2)
  BY DEF Inserted, Spares
<1>4. Revoking(q, a, f) => Revoking(q, a2, f2)
  BY <1>1 DEF Revoking, Spares
<1>5. q.pc = "idle" => \A sid \in q.due : a2[sid] = "revoked"
  BY <1>1 DEF Relies, Spares
<1>6. Rotating(x, q, f, h) => q.new \in Tokens
  BY DEF Rotating
<1> QED BY <1>2, <1>3, <1>4, <1>5, <1>6 DEF Relies

\* The transaction on a free connection has the type of one.
LEMMA BearerIdle ==
    /\ Bearer!Idle \in Bearer!Transaction
    /\ \A D \in SUBSET SessionIDs : [Bearer!Idle EXCEPT !.due = D] \in Bearer!Transaction
<1>1. << >> \in Seq(Bearer!Statements)
  OBVIOUS
<1> QED BY <1>1 DEF Bearer!Idle, Bearer!Transaction

\* The rows that both session tables hold between two statements.
BearerTables ==
    /\ access \in [SessionIDs -> {"absent", "live", "revoked"}]
    /\ refresh \in [Tokens -> Bearer!RefreshToken \cup {None}]
    /\ expired \subseteq SessionIDs
    /\ parent \in [Tokens -> Tokens \cup {None}]
    /\ Referential /\ Bearer!OneUnspentToken /\ Bearer!RotationAtomic

\* The invariant, split into what is in the tables, who holds rows and what each
\* transaction relies on.
LEMMA BearerParts ==
    BearerInv <=> /\ BearerTables
                  /\ holder \in [Bearer!Rows -> Txs \cup {None}] /\ Bearer!LocksReleased
                  /\ tx \in [Txs -> Bearer!Transaction] /\ BearerReliance
BY DEF BearerInv, BearerTables, Bearer!TypeOK

\* A step of transaction x keeps the invariant when it keeps the tables, spares the other
\* transactions, takes rows only for x, and leaves x in a state with what it relies on.
LEMMA BearerStep ==
    ASSUME NEW x \in Txs, BearerInv, BearerTables',
           NEW q \in Bearer!Transaction, tx' = [tx EXCEPT ![x] = q],
           holder' \in [Bearer!Rows -> Txs \cup {None}],
           \A row \in Bearer!Rows :
               holder'[row] = None \/ holder'[row] = holder[row] \/ holder'[row] = x,
           \A row \in Bearer!Rows : holder'[row] = x => q.pc # "idle",
           Relies(x, q, access', refresh', holder'),
           \A y \in Txs \ {x} : Spares(y, access, refresh, holder, access', refresh', holder')
    PROVE  BearerInv'
<1>1. tx' \in [Txs -> Bearer!Transaction]
  BY BearerParts
<1>2. \A y \in Txs : tx'[y] = IF y = x THEN q ELSE tx[y]
  BY BearerParts
<1>3. BearerReliance'
  <2> SUFFICES ASSUME NEW y \in Txs PROVE Relies(y, tx'[y], access', refresh', holder')
    BY DEF BearerReliance
  <2>1. CASE y = x
    BY <1>2, <2>1
  <2>2. CASE y # x
    <3>1. Relies(y, tx[y], access, refresh, holder) /\ tx[y] \in Bearer!Transaction
      BY BearerParts DEF BearerReliance
    <3>2. Spares(y, access, refresh, holder, access', refresh', holder')
      BY <2>2
    <3> QED BY <1>2, <2>2, <3>1, <3>2, RelianceKept
  <2> QED BY <2>1, <2>2
<1>4. Bearer!LocksReleased'
  <2> SUFFICES ASSUME NEW row \in Bearer!Rows, holder'[row] # None
               PROVE  tx'[holder'[row]].pc # "idle"
    BY DEF Bearer!LocksReleased, Bearer!Free
  <2>1. CASE holder'[row] = x
    BY <1>2, <2>1
  <2>2. CASE holder'[row] # x
    <3>1. holder'[row] = holder[row] /\ holder[row] \in Txs
      BY <2>2, BearerParts
    <3> QED BY <1>2, <2>2, <3>1, BearerParts DEF Bearer!LocksReleased, Bearer!Free
  <2> QED BY <2>1, <2>2
<1> QED BY <1>1, <1>3, <1>4 DEF BearerInv, BearerTables, Bearer!TypeOK

-----------------------------------------------------------------------------
(***************************************************************************)
(* Bearer sessions: every step keeps the invariant.                        *)
(***************************************************************************)

\* Steps that leave both tables alone keep what is in them.
LEMMA BearerTablesKept ==
    BearerTables /\ UNCHANGED <<access, refresh, expired, parent>> => BearerTables'
BY DEF BearerTables, Referential, Bearer!OneUnspentToken, Bearer!RotationAtomic

\* Such a step spares every transaction whose rows stay its own.
LEMMA SparedByLocks ==
    ASSUME NEW y, UNCHANGED <<access, refresh>>,
           \A row \in Tokens : holder[row] = y => holder'[row] = y
    PROVE  Spares(y, access, refresh, holder, access', refresh', holder')
BY DEF Spares

\* A transaction ends, with the tables as its commit or rollback leaves them.
LEMMA BearerEnds ==
    ASSUME NEW x \in Txs, BearerInv, BearerTables',
           NEW D \in SUBSET SessionIDs, Bearer!End(x, D),
           \A sid \in D : access'[sid] = "revoked",
           \A y \in Txs \ {x} : Spares(y, access, refresh, holder, access', refresh', holder)
    PROVE  BearerInv'
<1> DEFINE q == [Bearer!Idle EXCEPT !.due = D]
<1>1. /\ q \in Bearer!Transaction /\ tx' = [tx EXCEPT ![x] = q]
      /\ q.pc = "idle" /\ q.due = D
  BY BearerIdle DEF Bearer!End, Bearer!Idle
<1>2. \A row \in Bearer!Rows : holder'[row] = IF holder[row] = x THEN None ELSE holder[row]
  BY DEF Bearer!End
<1>3. holder' \in [Bearer!Rows -> Txs \cup {None}]
  BY BearerParts DEF Bearer!End
<1>4. \A y \in Txs \ {x} : Spares(y, access, refresh, holder, access', refresh', holder')
  BY <1>2 DEF Spares, Bearer!Rows
<1>5. Relies(x, q, access', refresh', holder')
  BY <1>1 DEF Relies
<1>6. \A row \in Bearer!Rows : holder'[row] # x
  BY <1>2, PostgresAssumption
<1> HIDE DEF q
<1> QED BY <1>1, <1>2, <1>3, <1>4, <1>5, <1>6, BearerStep

\* A transaction that ends without effect, by an early return, a failure or a deadlock.
LEMMA BearerRolledBack ==
    ASSUME NEW x \in Txs, BearerInv, Bearer!RolledBack(x)
    PROVE  BearerInv'
<1>1. UNCHANGED <<access, refresh, expired, parent>> /\ BearerTables' /\ Bearer!End(x, {})
  BY BearerParts, BearerTablesKept DEF Bearer!RolledBack
<1>2. \A y \in Txs : Spares(y, access, refresh, holder, access', refresh', holder)
  BY <1>1 DEF Spares
<1> QED BY <1>1, <1>2, BearerEnds

\* A transaction that begins: nothing is held yet, and what is due exists.
LEMMA BearerStart ==
    ASSUME NEW x \in Txs, BearerInv, Bearer!Start(x)
    PROVE  BearerInv'
<1>1. PICK q : /\ q \in Bearer!Transaction /\ q.pc # "idle"
               /\ Bearer!Begin(x, q)
               /\ Relies(x, q, access, refresh, holder)
  <2>1. CASE \E t, u \in Tokens : t # u /\ Bearer!BeginRotate(x, t, u)
    <3>1. PICK t \in Tokens, u \in Tokens : t # u /\ Bearer!BeginRotate(x, t, u)
      BY <2>1
    <3> DEFINE q == [Bearer!Idle EXCEPT !.pc = "lock", !.tok = t, !.new = u]
    <3>2. q \in Bearer!Transaction /\ q.pc = "lock"
      BY BearerIdle DEF Bearer!Transaction, Bearer!Idle, Bearer!Running
    <3>3. Relies(x, q, access, refresh, holder)
      BY <3>1 DEF Relies, Bearer!Idle
    <3>4. Bearer!Begin(x, q)
      BY <3>1 DEF Bearer!BeginRotate
    <3> QED BY <3>2, <3>3, <3>4
  <2>2. CASE \E sid \in SessionIDs : Bearer!BeginRevoke(x, sid)
    <3>1. PICK sid \in SessionIDs : Bearer!BeginRevoke(x, sid)
      BY <2>2
    <3> DEFINE q == [Bearer!Idle EXCEPT !.pc = "statement", !.sids = {sid}, !.due = {sid},
                                        !.plan = <<"access", "refresh">>]
    <3>2. <<"access", "refresh">> \in Seq(Bearer!Statements)
      BY DEF Bearer!Statements
    <3>3. q \in Bearer!Transaction /\ q.pc = "statement"
      BY <3>2, BearerIdle DEF Bearer!Transaction, Bearer!Idle, Bearer!Running
    <3>4. access[sid] # "absent"
      BY <3>1 DEF Bearer!BeginRevoke, Bearer!Existing
    <3>5. Revoking(q, access, refresh)
      BY <3>4 DEF Revoking, Bearer!Idle, BothPlans
    <3>6. Relies(x, q, access, refresh, holder)
      BY <3>3, <3>5 DEF Relies
    <3>7. Bearer!Begin(x, q)
      BY <3>1 DEF Bearer!BeginRevoke
    <3> HIDE DEF q
    <3> QED BY <3>3, <3>6, <3>7
  <2>3. CASE Bearer!BeginRevokeAll(x)
    <3> DEFINE q == [Bearer!Idle EXCEPT !.pc = "statement", !.sids = SessionIDs,
                                        !.due = Bearer!Existing,
                                        !.plan = <<"refresh", "access">>]
    <3>2. <<"refresh", "access">> \in Seq(Bearer!Statements)
      BY DEF Bearer!Statements
    <3>3. q \in Bearer!Transaction /\ q.pc = "statement"
      BY <3>2, BearerIdle DEF Bearer!Transaction, Bearer!Idle, Bearer!Running, Bearer!Existing
    <3>5. Revoking(q, access, refresh)
      BY DEF Revoking, Bearer!Idle, BothPlans, Bearer!Existing
    <3>6. Relies(x, q, access, refresh, holder)
      BY <3>3, <3>5 DEF Relies
    <3>7. Bearer!Begin(x, q)
      BY <2>3 DEF Bearer!BeginRevokeAll
    <3> HIDE DEF q
    <3> QED BY <3>3, <3>6, <3>7
  <2> QED BY <2>1, <2>2, <2>3 DEF Bearer!Start
<1>2. tx' = [tx EXCEPT ![x] = q] /\ UNCHANGED <<access, refresh, expired, holder, parent>>
  BY <1>1 DEF Bearer!Begin
<1>3. BearerTables' /\ holder' \in [Bearer!Rows -> Txs \cup {None}]
  BY <1>2, BearerParts, BearerTablesKept
<1>4. \A y \in Txs : Spares(y, access, refresh, holder, access', refresh', holder')
  BY <1>2, SparedByLocks
<1> QED BY <1>1, <1>2, <1>3, <1>4, BearerStep

\* A statement that only takes rows for its transaction and moves it on.
LEMMA BearerMoves ==
    ASSUME NEW x \in Txs, BearerInv, UNCHANGED <<access, refresh, expired, parent>>,
           NEW q \in Bearer!Transaction, q.pc # "idle", tx' = [tx EXCEPT ![x] = q],
           \/ UNCHANGED holder
           \/ \E row \in Bearer!Rows : /\ holder[row] \in {None, x}
                                       /\ holder' = [holder EXCEPT ![row] = x],
           Relies(x, q, access, refresh, holder')
    PROVE  BearerInv'
<1>1. holder \in [Bearer!Rows -> Txs \cup {None}] /\ BearerTables'
  BY BearerParts, BearerTablesKept
<1>2. holder' \in [Bearer!Rows -> Txs \cup {None}]
  BY <1>1
<1>3. \A row \in Bearer!Rows : holder'[row] = holder[row] \/ holder'[row] = x
  BY <1>1
<1>4. \A row \in Bearer!Rows, y \in Txs \ {x} : holder[row] = y => holder'[row] = y
  BY <1>1, PostgresAssumption
<1>5. \A y \in Txs \ {x} : Spares(y, access, refresh, holder, access', refresh', holder')
  BY <1>4, SparedByLocks DEF Bearer!Rows
<1>6. Relies(x, q, access', refresh', holder')
  OBVIOUS
<1> QED BY <1>1, <1>2, <1>3, <1>5, <1>6, BearerStep

\* Rotate's SELECT ... FOR UPDATE.
LEMMA BearerLockCurrent ==
    ASSUME NEW x \in Txs, BearerInv, Bearer!LockCurrent(x)
    PROVE  BearerInv'
<1> DEFINE t == tx[x].tok
<1> USE DEF Bearer!RefreshToken
<1>1. CASE Bearer!RolledBack(x)
  BY <1>1, BearerRolledBack
<1>2. CASE /\ refresh[t] # None /\ Bearer!Available(x, t)
           /\ holder' = [holder EXCEPT ![t] = x]
           /\ Bearer!Judge(x)
           /\ UNCHANGED <<access, refresh, expired, parent>>
  <2>1. /\ tx[x] \in Bearer!Transaction /\ tx[x].pc = "lock"
        /\ tx \in [Txs -> Bearer!Transaction]
        /\ Relies(x, tx[x], access, refresh, holder)
    BY BearerParts DEF BearerReliance, Bearer!LockCurrent
  <2>2. /\ t \in Tokens /\ tx[x].new \in Tokens /\ t # tx[x].new
        /\ tx[x].todo = {} /\ tx[x].wrote = {} /\ tx[x].due = {}
    BY <2>1 DEF Relies
  <2>3. /\ refresh[t] \in Bearer!RefreshToken /\ access[refresh[t].session] # "absent"
        /\ t \in Bearer!Rows
    BY <1>2, <2>2, BearerParts DEF BearerTables, Referential, Bearer!Rows
  <2>4. holder[t] \in {None, x} /\ holder'[t] = x
    BY <1>2, <2>3, BearerParts DEF Bearer!Available
  <2> DEFINE s == refresh[t].session
             q == [tx[x] EXCEPT !.pc = IF Bearer!Inactive(t) THEN "statement" ELSE "insert",
                                !.sids = {s},
                                !.due = IF Bearer!Inactive(t) THEN {s} ELSE {},
                                !.plan = IF Bearer!Inactive(t) THEN <<"access", "refresh">>
                                         ELSE << >>]
  <2>5. tx' = [tx EXCEPT ![x] = q]
    BY <1>2, <2>1 DEF Bearer!Judge
  <2>6. <<"access", "refresh">> \in Seq(Bearer!Statements) /\ << >> \in Seq(Bearer!Statements)
    BY DEF Bearer!Statements
  <2>7. CASE Bearer!Inactive(t)
    <3>1. q = [tx[x] EXCEPT !.pc = "statement", !.sids = {s}, !.due = {s},
                            !.plan = <<"access", "refresh">>]
      BY <2>7
    <3>2. q \in Bearer!Transaction /\ q.pc = "statement"
      BY <2>1, <2>3, <2>6, <3>1 DEF Bearer!Transaction, Bearer!Running
    <3>3. Revoking(q, access, refresh)
      BY <2>1, <2>2, <2>3, <3>1 DEF Revoking, BothPlans, Bearer!Transaction
    <3>4. Relies(x, q, access, refresh, holder')
      BY <3>2, <3>3 DEF Relies
    <3> HIDE DEF q, s
    <3> QED BY <1>2, <2>3, <2>4, <2>5, <3>2, <3>4, BearerMoves
  <2>8. CASE ~Bearer!Inactive(t)
    <3>1. q = [tx[x] EXCEPT !.pc = "insert", !.sids = {s}, !.due = {}, !.plan = << >>]
      BY <2>8
    <3>2. q \in Bearer!Transaction /\ q.pc = "insert"
      BY <2>1, <2>3, <2>6, <3>1 DEF Bearer!Transaction, Bearer!Running
    <3>3. q.tok = t /\ q.new = tx[x].new /\ q.wrote = {} /\ q.due = {}
      BY <2>1, <2>2, <3>1 DEF Bearer!Transaction
    <3>4. ~refresh[t].rotated
      BY <2>8 DEF Bearer!Inactive
    <3>5. Rotating(x, q, refresh, holder')
      BY <1>2, <2>2, <2>4, <3>3, <3>4 DEF Rotating
    <3>6. Relies(x, q, access, refresh, holder')
      BY <3>2, <3>5 DEF Relies
    <3> HIDE DEF q, s
    <3> QED BY <1>2, <2>3, <2>4, <2>5, <3>2, <3>6, BearerMoves
  <2> QED BY <2>7, <2>8
<1> QED BY <1>1, <1>2 DEF Bearer!LockCurrent

\* Rotate's INSERT.
LEMMA BearerInsert ==
    ASSUME NEW x \in Txs, BearerInv, Bearer!InsertReplacement(x)
    PROVE  BearerInv'
<1> DEFINE u == tx[x].new
<1>1. CASE Bearer!RolledBack(x)
  BY <1>1, BearerRolledBack
<1>2. CASE /\ refresh[u] = None
           /\ holder' = [holder EXCEPT ![u] = x]
           /\ Bearer!Goto(x, "mark")
           /\ UNCHANGED <<access, refresh, expired, parent>>
  <2>1. /\ tx[x] \in Bearer!Transaction /\ tx[x].pc = "insert"
        /\ tx \in [Txs -> Bearer!Transaction]
        /\ Relies(x, tx[x], access, refresh, holder)
    BY BearerParts DEF BearerReliance, Bearer!InsertReplacement
  <2>2. Rotating(x, tx[x], refresh, holder)
    BY <2>1 DEF Relies
  <2> DEFINE q == [tx[x] EXCEPT !.pc = "mark"]
  <2>3. tx' = [tx EXCEPT ![x] = q]
    BY <1>2, <2>1 DEF Bearer!Goto
  <2>4. q \in Bearer!Transaction /\ q.pc = "mark"
    BY <2>1 DEF Bearer!Transaction, Bearer!Running
  <2>5. u \in Bearer!Rows /\ tx[x].tok \in Bearer!Rows /\ holder[u] \in {None, x}
    BY <2>2 DEF Rotating, Bearer!Rows, Bearer!InsertReplacement, Bearer!Available
  <2>6. holder'[u] = x /\ holder'[tx[x].tok] = x
    BY <1>2, <2>2, <2>5, BearerParts DEF Rotating
  <2>7. q.tok = tx[x].tok /\ q.new = u /\ q.wrote = tx[x].wrote /\ q.due = tx[x].due
    BY <2>1 DEF Bearer!Transaction
  <2>8. Rotating(x, q, refresh, holder') /\ Inserted(x, q, refresh, holder')
    BY <1>2, <2>2, <2>6, <2>7 DEF Rotating, Inserted
  <2>9. Relies(x, q, access, refresh, holder')
    BY <2>4, <2>8 DEF Relies
  <2> HIDE DEF q
  <2> QED BY <1>2, <2>3, <2>4, <2>5, <2>9, BearerMoves
<1> QED BY <1>1, <1>2 DEF Bearer!InsertReplacement

\* Rotate's UPDATE of the token it holds.
LEMMA BearerMark ==
    ASSUME NEW x \in Txs, BearerInv, Bearer!MarkRotated(x)
    PROVE  BearerInv'
<1>1. /\ tx[x] \in Bearer!Transaction /\ tx[x].pc = "mark"
      /\ tx \in [Txs -> Bearer!Transaction]
      /\ Relies(x, tx[x], access, refresh, holder)
  BY BearerParts DEF BearerReliance, Bearer!MarkRotated
<1>2. Rotating(x, tx[x], refresh, holder) /\ Inserted(x, tx[x], refresh, holder)
  BY <1>1 DEF Relies
<1> DEFINE q == [tx[x] EXCEPT !.pc = "commit", !.wrote = {tx[x].tok}]
<1>3. tx' = [tx EXCEPT ![x] = q] /\ UNCHANGED <<access, refresh, expired, holder, parent>>
  BY <1>1 DEF Bearer!MarkRotated
<1>4. q \in Bearer!Transaction /\ q.pc = "commit"
  BY <1>1, <1>2 DEF Bearer!Transaction, Bearer!Running, Bearer!Rows, Rotating
<1>5. q.tok = tx[x].tok /\ q.new = tx[x].new /\ q.wrote = {tx[x].tok} /\ q.due = tx[x].due
  BY <1>1 DEF Bearer!Transaction
<1>6. Rotating(x, q, refresh, holder) /\ Inserted(x, q, refresh, holder)
  BY <1>2, <1>5 DEF Rotating, Inserted
<1>7. Rotates(q)
  BY <1>2, <1>5, PostgresAssumption DEF Rotates, Rotating
<1>8. Relies(x, q, access, refresh, holder')
  BY <1>3, <1>4, <1>6, <1>7 DEF Relies
<1> HIDE DEF q
<1> QED BY <1>3, <1>4, <1>8, BearerMoves

\* The statements of a plan, in their order.
LEMMA PlanOrder ==
    /\ Head(<<"access", "refresh">>) = "access" /\ Tail(<<"access", "refresh">>) = <<"refresh">>
    /\ Head(<<"refresh", "access">>) = "refresh" /\ Tail(<<"refresh", "access">>) = <<"access">>
    /\ Head(<<"access">>) = "access" /\ Tail(<<"access">>) = << >>
    /\ Head(<<"refresh">>) = "refresh" /\ Tail(<<"refresh">>) = << >>
    /\ << >> \in Seq(Bearer!Statements)
    /\ <<"access">> \in Seq(Bearer!Statements)
    /\ <<"refresh">> \in Seq(Bearer!Statements)
BY DEF Bearer!Statements

\* No two plans are the same.
LEMMA PlansDiffer ==
    /\ <<"access">> # <<"refresh">>
    /\ <<"access">> # << >> /\ <<"refresh">> # << >>
    /\ \A p \in BothPlans : p \notin {<<"access">>, <<"refresh">>, << >>}
BY DEF BothPlans

\* An UPDATE starts: the sessions that are due are among the rows of the one on
\* authlier_access_sessions, for they exist and are named by its WHERE.
LEMMA BearerStartUpdate ==
    ASSUME NEW x \in Txs, BearerInv, Bearer!StartUpdate(x)
    PROVE  BearerInv'
<1>1. /\ tx[x] \in Bearer!Transaction /\ tx[x].pc = "statement"
      /\ tx \in [Txs -> Bearer!Transaction]
      /\ Relies(x, tx[x], access, refresh, holder)
  BY BearerParts DEF BearerReliance, Bearer!StartUpdate
<1>2. Revoking(tx[x], access, refresh)
  BY <1>1 DEF Relies
<1> DEFINE plan == tx[x].plan
           q == [tx[x] EXCEPT !.pc = "update", !.todo = Bearer!Matching(x), !.plan = Tail(plan)]
<1>3. tx' = [tx EXCEPT ![x] = q] /\ UNCHANGED <<access, refresh, expired, holder, parent>>
  BY <1>1 DEF Bearer!StartUpdate
<1>4. /\ plan \in BothPlans \cup {<<"access">>, <<"refresh">>}
      /\ plan = <<"refresh">> => tx[x].due \subseteq tx[x].wrote
  BY <1>1, <1>2, PlansDiffer DEF Revoking
<1>5. Tail(plan) \in Seq(Bearer!Statements)
  BY <1>4, PlanOrder DEF BothPlans
<1>6. /\ Bearer!Matching(x) \subseteq Bearer!Rows
      /\ \A t \in Bearer!Matching(x) \cap Tokens : refresh[t] # None
  BY PostgresAssumption DEF Bearer!Matching, Bearer!Rows, Bearer!Existing
<1>7. q \in Bearer!Transaction /\ q.pc = "update"
  BY <1>1, <1>5, <1>6 DEF Bearer!Transaction, Bearer!Running
<1>8. /\ q.due = tx[x].due /\ q.sids = tx[x].sids /\ q.new = tx[x].new
      /\ q.wrote = tx[x].wrote /\ q.todo = Bearer!Matching(x) /\ q.plan = Tail(plan)
  BY <1>1 DEF Bearer!Transaction
<1>9. \/ Tail(plan) = <<"access">>
      \/ /\ Tail(plan) \in {<<"refresh">>, << >>}
         /\ tx[x].due \subseteq Bearer!Matching(x) \cup tx[x].wrote
  <2>1. CASE Head(plan) = "access"
    <3>1. tx[x].due \subseteq Bearer!Matching(x)
      BY <1>1, <1>2, <2>1 DEF Bearer!Matching, Bearer!Existing, Revoking, Bearer!Transaction
    <3>2. Tail(plan) \in {<<"refresh">>, << >>}
      BY <1>4, <2>1, PlanOrder DEF BothPlans
    <3> QED BY <3>1, <3>2
  <2>2. CASE Head(plan) # "access"
    BY <1>4, <2>2, PlanOrder DEF BothPlans
  <2> QED BY <2>1, <2>2
<1>10. Revoking(q, access, refresh)
  BY <1>2, <1>6, <1>7, <1>8, <1>9 DEF Revoking
<1>11. Relies(x, q, access, refresh, holder')
  BY <1>7, <1>10 DEF Relies
<1> HIDE DEF q, plan
<1> QED BY <1>3, <1>7, <1>11, BearerMoves

\* An UPDATE reaches a row that nobody else holds.
LEMMA BearerUpdateRow ==
    ASSUME NEW x \in Txs, BearerInv, Bearer!UpdateRow(x)
    PROVE  BearerInv'
<1>1. /\ tx[x] \in Bearer!Transaction /\ tx[x].pc = "update"
      /\ tx \in [Txs -> Bearer!Transaction]
      /\ Relies(x, tx[x], access, refresh, holder)
  BY BearerParts DEF BearerReliance, Bearer!UpdateRow
<1>2. Revoking(tx[x], access, refresh)
  BY <1>1 DEF Relies
<1>3. PICK row \in tx[x].todo :
         /\ Bearer!Available(x, row)
         /\ holder' = [holder EXCEPT ![row] = x]
         /\ tx' = [tx EXCEPT ![x].todo = @ \ {row}, ![x].wrote = @ \cup {row}]
  BY DEF Bearer!UpdateRow
<1> DEFINE q == [tx[x] EXCEPT !.todo = @ \ {row}, !.wrote = @ \cup {row}]
<1>4. tx' = [tx EXCEPT ![x] = q] /\ UNCHANGED <<access, refresh, expired, parent>>
  BY <1>1, <1>3 DEF Bearer!UpdateRow
<1>5. row \in Bearer!Rows /\ holder[row] \in {None, x}
  BY <1>1, <1>3 DEF Bearer!Transaction, Bearer!Available
<1>6. q \in Bearer!Transaction /\ q.pc = "update"
  BY <1>1, <1>5 DEF Bearer!Transaction
<1>7. /\ q.due = tx[x].due /\ q.sids = tx[x].sids /\ q.new = tx[x].new
      /\ q.plan = tx[x].plan
      /\ q.todo = tx[x].todo \ {row} /\ q.wrote = tx[x].wrote \cup {row}
  BY <1>1 DEF Bearer!Transaction
<1>8. q.todo \cup q.wrote = tx[x].todo \cup tx[x].wrote
  BY <1>3, <1>7
<1>9. Revoking(q, access, refresh)
  BY <1>1, <1>2, <1>6, <1>7, <1>8 DEF Revoking
<1>10. Relies(x, q, access, refresh, holder')
  BY <1>6, <1>9 DEF Relies
<1> HIDE DEF q
<1> QED BY <1>3, <1>4, <1>5, <1>6, <1>10, BearerMoves

\* An UPDATE has reached all of its rows.
LEMMA BearerFinishUpdate ==
    ASSUME NEW x \in Txs, BearerInv, Bearer!FinishUpdate(x)
    PROVE  BearerInv'
<1>1. /\ tx[x] \in Bearer!Transaction /\ tx[x].pc = "update" /\ tx[x].todo = {}
      /\ tx \in [Txs -> Bearer!Transaction]
      /\ Relies(x, tx[x], access, refresh, holder)
  BY BearerParts DEF BearerReliance, Bearer!FinishUpdate
<1>2. Revoking(tx[x], access, refresh)
  BY <1>1 DEF Relies
<1> DEFINE pc == IF tx[x].plan = << >> THEN "commit" ELSE "statement"
           q == [tx[x] EXCEPT !.pc = pc]
<1>3. tx' = [tx EXCEPT ![x] = q] /\ UNCHANGED <<access, refresh, expired, holder, parent>>
  BY <1>1 DEF Bearer!FinishUpdate, Bearer!Goto
<1>4. q \in Bearer!Transaction /\ q.pc = pc /\ pc \in {"commit", "statement"}
  BY <1>1 DEF Bearer!Transaction, Bearer!Running
<1>5. /\ q.due = tx[x].due /\ q.sids = tx[x].sids /\ q.new = tx[x].new
      /\ q.plan = tx[x].plan /\ q.todo = {} /\ q.wrote = tx[x].wrote
  BY <1>1 DEF Bearer!Transaction
<1>6. Revoking(q, access, refresh)
  BY <1>1, <1>2, <1>4, <1>5, PlansDiffer DEF Revoking
<1>7. pc = "commit" => ~Rotates(q)
  BY <1>1, <1>2, <1>5, PlansDiffer DEF Rotates, Revoking, Bearer!Transaction
<1>8. Relies(x, q, access, refresh, holder')
  BY <1>4, <1>6, <1>7 DEF Relies
<1> HIDE DEF q, pc
<1> QED BY <1>3, <1>4, <1>8, BearerMoves

\* A rotation commits: the token it held becomes the only spent one that its replacement
\* follows, and the replacement the only unspent one of the session.
LEMMA BearerCommitRotation ==
    ASSUME NEW x \in Txs, BearerInv, Bearer!CommitRotation(x), UNCHANGED expired,
           Rotating(x, tx[x], refresh, holder), Inserted(x, tx[x], refresh, holder)
    PROVE  /\ BearerTables'
           /\ \A y \in Txs \ {x} : Spares(y, access, refresh, holder, access', refresh', holder)
<1> DEFINE t == tx[x].tok
           u == tx[x].new
           s == refresh[t].session
<1>1. BearerTables
  BY BearerParts
<1>2. /\ t \in Tokens /\ u \in Tokens /\ t # u /\ holder[t] = x /\ holder[u] = x
      /\ refresh[t] # None /\ ~refresh[t].rotated /\ refresh[u] = None
  BY DEF Rotating, Inserted
<1>3. refresh[t] \in Bearer!RefreshToken /\ s \in SessionIDs
  BY <1>1, <1>2 DEF BearerTables, Bearer!RefreshToken
<1>4. /\ refresh' = [refresh EXCEPT ![t].rotated = TRUE,
                                    ![u] = [session |-> s, rotated |-> FALSE, revoked |-> FALSE]]
      /\ parent' = [parent EXCEPT ![u] = t] /\ UNCHANGED access
  BY DEF Bearer!CommitRotation
<1>5. /\ refresh'[t] = [refresh[t] EXCEPT !.rotated = TRUE]
      /\ refresh'[u] = [session |-> s, rotated |-> FALSE, revoked |-> FALSE]
      /\ \A v \in Tokens \ {t, u} : refresh'[v] = refresh[v]
      /\ \A v \in Tokens : parent'[v] = IF v = u THEN t ELSE parent[v]
  BY <1>1, <1>2, <1>4 DEF BearerTables
<1>6. /\ refresh'[t] \in Bearer!RefreshToken /\ refresh'[t].session = s /\ refresh'[t].rotated
      /\ refresh'[u] \in Bearer!RefreshToken /\ refresh'[u].session = s /\ ~refresh'[u].rotated
      /\ None \notin Bearer!RefreshToken
  <2>1. refresh'[t] \in Bearer!RefreshToken /\ refresh'[t].session = s /\ refresh'[t].rotated
    BY <1>3, <1>5 DEF Bearer!RefreshToken
  <2>2. refresh'[u] \in Bearer!RefreshToken /\ refresh'[u].session = s /\ ~refresh'[u].rotated
    BY <1>3, <1>5 DEF Bearer!RefreshToken
  <2> QED BY <2>1, <2>2, NoRowAssumption
<1>7. refresh'[t] # None /\ refresh'[u] # None
  BY <1>6
<1>8. /\ refresh' \in [Tokens -> Bearer!RefreshToken \cup {None}]
      /\ parent' \in [Tokens -> Tokens \cup {None}]
  <2>1. \A v \in Tokens : refresh'[v] \in Bearer!RefreshToken \cup {None}
    BY <1>1, <1>5, <1>6 DEF BearerTables
  <2>2. DOMAIN refresh' = Tokens /\ refresh' = [v \in Tokens |-> refresh'[v]]
    BY <1>1, <1>4 DEF BearerTables
  <2> QED BY <1>1, <1>2, <1>4, <2>1, <2>2 DEF BearerTables
<1> HIDE DEF t, u, s
<1>9. Referential'
  <2>1. \A v \in Tokens : refresh'[v] # None => access[refresh'[v].session] # "absent"
    <3>1. access[s] # "absent"
      BY <1>1, <1>2 DEF BearerTables, Referential, s
    <3>2. refresh'[t].session = s /\ refresh'[u].session = s
      BY <1>6
    <3>3. \A v \in Tokens \ {t, u} : refresh'[v] # None => access[refresh'[v].session] # "absent"
      BY <1>1, <1>5 DEF BearerTables, Referential
    <3> QED BY <3>1, <3>2, <3>3
  <2>2. \A v \in Tokens : parent'[v] # None => refresh'[v] # None /\ refresh'[parent'[v]] # None
    BY <1>1, <1>2, <1>5, <1>7 DEF BearerTables, Referential
  <2> QED BY <1>4, <2>1, <2>2 DEF Referential
<1>10. Bearer!OneUnspentToken'
  <2> SUFFICES ASSUME NEW v \in Tokens, NEW w \in Tokens,
                      refresh'[v] # None, ~refresh'[v].rotated,
                      refresh'[w] # None, ~refresh'[w].rotated,
                      refresh'[v].session = refresh'[w].session
               PROVE  v = w
    BY DEF Bearer!OneUnspentToken
  <2>1. v # t /\ w # t
    BY <1>6
  <2>2. \A z \in Tokens \ {t, u} :
           refresh[z] # None /\ ~refresh[z].rotated => refresh[z].session # s
    BY <1>1, <1>2 DEF BearerTables, Bearer!OneUnspentToken, s
  <2>3. CASE v = u \/ w = u
    BY <1>5, <1>6, <2>1, <2>2, <2>3
  <2>4. CASE v # u /\ w # u
    BY <1>1, <1>5, <2>1, <2>4 DEF BearerTables, Bearer!OneUnspentToken
  <2> QED BY <2>3, <2>4
<1>11. Bearer!RotationAtomic'
  <2> SUFFICES ASSUME NEW v \in Tokens, refresh'[v] # None
               PROVE  /\ refresh'[v].rotated <=> \E w \in Tokens : parent'[w] = v
                      /\ \A w, z \in Tokens : parent'[w] = v /\ parent'[z] = v =>
                            w = z /\ refresh'[w].session = refresh'[v].session
    BY DEF Bearer!RotationAtomic
  <2>1. \A w \in Tokens : parent[w] # t
    BY <1>1, <1>2 DEF BearerTables, Bearer!RotationAtomic
  <2>2. \A w \in Tokens : parent[w] # u
    BY <1>1, <1>2, PostgresAssumption DEF BearerTables, Referential
  <2>3. parent[u] = None
    BY <1>1, <1>2 DEF BearerTables, Referential
  <2>4. CASE v = t
    BY ZenonT(40), <1>2, <1>5, <1>6, <2>1, <2>4
  <2>5. CASE v = u
    BY <1>2, <1>5, <1>6, <2>2, <2>5
  <2>6. CASE v # t /\ v # u
    <3>1. refresh'[v] = refresh[v] /\ \A w \in Tokens : parent'[w] = v <=> parent[w] = v
      BY <1>5, <2>3, <2>6, PostgresAssumption
    <3>2. \A w \in Tokens : parent[w] = v => refresh'[w].session = refresh[w].session
      <4> SUFFICES ASSUME NEW w \in Tokens, parent[w] = v
                   PROVE  refresh'[w].session = refresh[w].session
        OBVIOUS
      <4>1. w # u
        BY <2>3, PostgresAssumption
      <4> QED BY <1>5, <1>6, <4>1 DEF s
    <3>3. /\ refresh[v].rotated <=> \E w \in Tokens : parent[w] = v
          /\ \A w, z \in Tokens : parent[w] = v /\ parent[z] = v =>
                w = z /\ refresh[w].session = refresh[v].session
      BY <1>1, <3>1 DEF BearerTables, Bearer!RotationAtomic
    <3> QED BY <3>1, <3>2, <3>3
  <2> QED BY <2>4, <2>5, <2>6
<1>12. BearerTables'
  BY <1>1, <1>4, <1>8, <1>9, <1>10, <1>11 DEF BearerTables
<1>13. ASSUME NEW y \in Txs \ {x}
       PROVE  Spares(y, access, refresh, holder, access', refresh', holder)
  BY <1>2, <1>4, <1>5, <1>7 DEF Spares
<1> QED BY <1>12, <1>13

\* A revocation commits: rows only become revoked.
LEMMA BearerCommitRevocation ==
    ASSUME NEW x \in Txs, BearerInv, Bearer!CommitRevocation(x), UNCHANGED expired,
           Revoking(tx[x], access, refresh)
    PROVE  /\ BearerTables'
           /\ \A sid \in tx[x].wrote \cap SessionIDs : access'[sid] = "revoked"
           /\ \A y \in Txs : Spares(y, access, refresh, holder, access', refresh', holder)
<1>1. BearerTables /\ UNCHANGED parent
  BY BearerParts DEF Bearer!CommitRevocation
<1>2. \A sid \in SessionIDs :
         access'[sid] = IF sid \in tx[x].wrote THEN "revoked" ELSE access[sid]
  BY DEF Bearer!CommitRevocation
<1>3. access' \in [SessionIDs -> {"absent", "live", "revoked"}]
  BY <1>1 DEF Bearer!CommitRevocation, BearerTables
<1>4. \A t \in Tokens : refresh'[t] = IF t \in tx[x].wrote
                                      THEN [refresh[t] EXCEPT !.revoked = TRUE]
                                      ELSE refresh[t]
  BY DEF Bearer!CommitRevocation
<1>5. ASSUME NEW t \in Tokens
      PROVE  /\ refresh'[t] = None <=> refresh[t] = None
             /\ refresh'[t] # None => /\ refresh'[t] \in Bearer!RefreshToken
                                      /\ refresh'[t].session = refresh[t].session
                                      /\ refresh'[t].rotated = refresh[t].rotated
  <2>1. t \in tx[x].wrote => refresh[t] # None
    BY DEF Revoking
  <2>2. refresh[t] # None => refresh[t] \in Bearer!RefreshToken
    BY <1>1 DEF BearerTables
  <2> QED BY <1>4, <2>1, <2>2, NoRowAssumption DEF Bearer!RefreshToken
<1>6. refresh' \in [Tokens -> Bearer!RefreshToken \cup {None}]
  <2>1. refresh' = [t \in Tokens |-> refresh'[t]]
    BY DEF Bearer!CommitRevocation
  <2> QED BY <1>5, <2>1
<1>7. Referential'
  <2>1. \A sid \in SessionIDs : access[sid] # "absent" => access'[sid] # "absent"
    BY <1>2
  <2>2. \A t \in Tokens : refresh[t] # None => refresh[t].session \in SessionIDs
    BY <1>1 DEF BearerTables, Bearer!RefreshToken
  <2> QED BY <1>1, <1>5, <2>1, <2>2 DEF BearerTables, Referential
<1>8. Bearer!OneUnspentToken'
  BY <1>1, <1>5 DEF BearerTables, Bearer!OneUnspentToken
<1>9. Bearer!RotationAtomic'
  <2> SUFFICES ASSUME NEW v \in Tokens, refresh'[v] # None
               PROVE  /\ refresh'[v].rotated <=> \E w \in Tokens : parent'[w] = v
                      /\ \A w, z \in Tokens : parent'[w] = v /\ parent'[z] = v =>
                            w = z /\ refresh'[w].session = refresh'[v].session
    BY DEF Bearer!RotationAtomic
  <2>1. /\ refresh[v].rotated <=> \E w \in Tokens : parent[w] = v
        /\ \A w, z \in Tokens : parent[w] = v /\ parent[z] = v =>
              w = z /\ refresh[w].session = refresh[v].session
    BY <1>1, <1>5 DEF BearerTables, Bearer!RotationAtomic
  <2>2. \A w \in Tokens : parent[w] = v => refresh'[w] # None
    BY <1>1, <1>5, PostgresAssumption DEF BearerTables, Referential
  <2> QED BY <1>1, <1>5, <2>1, <2>2
<1>10. BearerTables'
  BY <1>1, <1>3, <1>6, <1>7, <1>8, <1>9 DEF BearerTables
<1>11. ASSUME NEW y PROVE Spares(y, access, refresh, holder, access', refresh', holder)
  BY <1>2, <1>5 DEF Spares
<1> QED BY <1>2, <1>10, <1>11

\* A commit, whether its answer arrives or not.
LEMMA BearerCommit ==
    ASSUME NEW x \in Txs, BearerInv, Bearer!Commit(x)
    PROVE  BearerInv'
<1>1. /\ tx[x] \in Bearer!Transaction /\ tx[x].pc = "commit"
      /\ Relies(x, tx[x], access, refresh, holder) /\ UNCHANGED expired
  BY BearerParts DEF BearerReliance, Bearer!Commit
<1>2. PICK D \in {tx[x].due, {}} : Bearer!End(x, D)
  BY DEF Bearer!Commit
<1>3. D \in SUBSET SessionIDs /\ tx[x].due \subseteq SessionIDs
  BY <1>1 DEF Bearer!Transaction
<1>4. CASE Rotates(tx[x])
  <2>1. /\ Rotating(x, tx[x], refresh, holder) /\ Inserted(x, tx[x], refresh, holder)
        /\ Bearer!CommitRotation(x) /\ D = {}
    BY <1>1, <1>2, <1>4 DEF Relies, Rotates, Bearer!Commit, Rotating
  <2> QED BY <1>1, <1>2, <1>3, <2>1, BearerCommitRotation, BearerEnds
<1>5. CASE ~Rotates(tx[x])
  <2>1. /\ Revoking(tx[x], access, refresh) /\ Bearer!CommitRevocation(x)
        /\ tx[x].due \subseteq tx[x].wrote
    BY <1>1, <1>5 DEF Relies, Rotates, Bearer!Commit, Revoking
  <2>2. \A sid \in D : access'[sid] = "revoked"
    BY <1>1, <1>2, <1>3, <2>1, BearerCommitRevocation
  <2> QED BY <1>1, <1>2, <1>3, <2>1, <2>2, BearerCommitRevocation, BearerEnds
<1> QED BY <1>4, <1>5

\* CreateSession: a new session with its first token.  No lock and no transaction is
\* touched, and the token is nobody's.
LEMMA BearerCreate ==
    ASSUME NEW sid \in SessionIDs, NEW t \in Tokens, BearerInv, Bearer!CreateSession(sid, t)
    PROVE  BearerInv'
<1> DEFINE row == [session |-> sid, rotated |-> FALSE, revoked |-> FALSE]
<1>1. BearerTables
  BY BearerParts
<1>2. /\ access[sid] = "absent" /\ refresh[t] = None /\ holder[t] = None
      /\ access' = [access EXCEPT ![sid] = "live"]
      /\ refresh' = [refresh EXCEPT ![t] = row]
      /\ UNCHANGED <<expired, holder, tx, parent>>
  BY DEF Bearer!CreateSession
<1>3. row \in Bearer!RefreshToken /\ row.session = sid /\ ~row.rotated
  BY DEF Bearer!RefreshToken
<1>4. row # None
  BY <1>3, NoRowAssumption
<1> HIDE DEF row
<1>5. /\ refresh' \in [Tokens -> Bearer!RefreshToken \cup {None}]
      /\ access' \in [SessionIDs -> {"absent", "live", "revoked"}]
      /\ \A v \in Tokens : refresh'[v] = IF v = t THEN row ELSE refresh[v]
      /\ \A s \in SessionIDs : access'[s] = IF s = sid THEN "live" ELSE access[s]
  BY <1>1, <1>2, <1>3 DEF BearerTables
<1>6. \A v \in Tokens : refresh[v] # None =>
         /\ refresh[v].session \in SessionIDs /\ access[refresh[v].session] # "absent"
         /\ refresh[v].session # sid
  BY <1>1, <1>2 DEF BearerTables, Referential, Bearer!RefreshToken
<1>7. \A v \in Tokens : parent[v] # t
  BY <1>1, <1>2, PostgresAssumption DEF BearerTables, Referential
<1>8. parent[t] = None
  BY <1>1, <1>2 DEF BearerTables, Referential
<1>9. Referential'
  <2>1. \A v \in Tokens : refresh'[v] # None => access'[refresh'[v].session] # "absent"
    BY <1>3, <1>5, <1>6
  <2>2. \A v \in Tokens : parent'[v] # None => refresh'[v] # None /\ refresh'[parent'[v]] # None
    BY <1>1, <1>2, <1>4, <1>5 DEF BearerTables, Referential
  <2> QED BY <2>1, <2>2 DEF Referential
<1>10. Bearer!OneUnspentToken'
  BY <1>1, <1>3, <1>5, <1>6 DEF BearerTables, Bearer!OneUnspentToken
<1>11. Bearer!RotationAtomic'
  <2> SUFFICES ASSUME NEW v \in Tokens, refresh'[v] # None
               PROVE  /\ refresh'[v].rotated <=> \E w \in Tokens : parent'[w] = v
                      /\ \A w, z \in Tokens : parent'[w] = v /\ parent'[z] = v =>
                            w = z /\ refresh'[w].session = refresh'[v].session
    BY DEF Bearer!RotationAtomic
  <2>1. CASE v = t
    BY <1>2, <1>3, <1>5, <1>7, <2>1
  <2>2. CASE v # t
    <3>1. /\ refresh[v].rotated <=> \E w \in Tokens : parent[w] = v
          /\ \A w, z \in Tokens : parent[w] = v /\ parent[z] = v =>
                w = z /\ refresh[w].session = refresh[v].session
      BY <1>1, <1>5, <2>2 DEF BearerTables, Bearer!RotationAtomic
    <3>2. \A w \in Tokens : parent[w] = v => refresh'[w] = refresh[w]
      BY <1>5, <1>8, PostgresAssumption
    <3> QED BY <1>2, <1>5, <2>2, <3>1, <3>2
  <2> QED BY <2>1, <2>2
<1>12. BearerTables'
  BY <1>1, <1>2, <1>5, <1>9, <1>10, <1>11 DEF BearerTables
<1>13. BearerReliance'
  <2> SUFFICES ASSUME NEW y \in Txs PROVE Relies(y, tx[y], access', refresh', holder)
    BY <1>2 DEF BearerReliance
  <2>1. Spares(y, access, refresh, holder, access', refresh', holder)
    BY <1>2, <1>4, <1>5, PostgresAssumption DEF Spares
  <2>2. Relies(y, tx[y], access, refresh, holder) /\ tx[y] \in Bearer!Transaction
    BY BearerParts DEF BearerReliance
  <2> QED BY <2>1, <2>2, RelianceKept
<1> QED
  BY <1>2, <1>12, <1>13
  DEF BearerInv, BearerTables, Bearer!TypeOK, Bearer!LocksReleased, Bearer!Free

\* The passing of time.
LEMMA BearerExpire ==
    ASSUME NEW sid \in SessionIDs, BearerInv, Bearer!Expire(sid)
    PROVE  BearerInv'
<1>1. UNCHANGED <<access, refresh, holder, tx, parent>> /\ expired' \subseteq SessionIDs
  BY DEF Bearer!Expire, BearerInv, Bearer!TypeOK
<1> QED
  BY <1>1 DEF BearerInv, Bearer!TypeOK, Bearer!LocksReleased, Bearer!Free, Referential,
              Bearer!OneUnspentToken, Bearer!RotationAtomic, BearerReliance

\* A step of the other groups.
LEMMA BearerStutter == BearerInv /\ UNCHANGED bearerVars => BearerInv'
BY DEF bearerVars, BearerInv, Bearer!TypeOK, Bearer!LocksReleased, Bearer!Free, Referential,
       Bearer!OneUnspentToken, Bearer!RotationAtomic, BearerReliance

\* Every step of every transaction.
LEMMA BearerNext == BearerInv /\ Bearer!Next => BearerInv'
<1> SUFFICES ASSUME BearerInv, Bearer!Next PROVE BearerInv'
  OBVIOUS
<1>1. ASSUME NEW x \in Txs, Bearer!Step(x) PROVE BearerInv'
  BY <1>1, BearerLockCurrent, BearerInsert, BearerMark, BearerStartUpdate, BearerUpdateRow,
     BearerFinishUpdate, BearerCommit, BearerRolledBack
  DEF Bearer!Step, Bearer!DeadlockAbort
<1>2. ASSUME NEW x \in Txs, Bearer!Fail(x) PROVE BearerInv'
  BY <1>2, BearerRolledBack DEF Bearer!Fail
<1> QED BY <1>1, <1>2, BearerStart, BearerCreate, BearerExpire DEF Bearer!Next

\* The empty tables.
LEMMA BearerInit == Bearer!Init => BearerInv
<1> SUFFICES ASSUME Bearer!Init PROVE BearerInv
  OBVIOUS
<1>1. Bearer!TypeOK
  BY BearerIdle DEF Bearer!Init, Bearer!TypeOK
<1>2. Bearer!LocksReleased /\ Referential /\ Bearer!OneUnspentToken /\ Bearer!RotationAtomic
  BY DEF Bearer!Init, Bearer!LocksReleased, Referential, Bearer!OneUnspentToken,
         Bearer!RotationAtomic
<1>3. BearerReliance
  BY DEF Bearer!Init, BearerReliance, Relies, Bearer!Idle
<1> QED BY <1>1, <1>2, <1>3 DEF BearerInv

\* The bearer tables, locks and transactions of every reachable state.
THEOREM BearerInvariant == Spec => []BearerInv
<1>1. Init => BearerInv
  BY BearerInit DEF Init
<1>2. BearerInv /\ [Next]_vars => BearerInv'
  BY BearerNext, BearerStutter DEF Next, vars
<1> QED BY <1>1, <1>2, PTL DEF Spec

\* RevokeAll, a sign-out and the detection of a reused token have revoked every session
\* they are about when they answer: RevokedBeforeAnswer, whatever transactions overlap.
THEOREM RevocationsComplete == Spec => []RevokedBeforeAnswer
<1>1. BearerInv => RevokedBeforeAnswer
  BY DEF BearerInv, BearerReliance, Relies, RevokedBeforeAnswer, Bearer!RevokedBeforeAnswer,
         Bearer!Free
<1> QED BY <1>1, BearerInvariant, PTL

\* No circular wait that the server would not break.  While transactions of the bearer
\* store run, one of them is not blocked or is among those that the server may abort.
BearerGoesOn ==
    (\E x \in Txs : ~Bearer!Free(x)) =>
        \E x \in Txs : ~Bearer!Free(x) /\ (~Bearer!Blocked(x) \/ x \in Bearer!Deadlocked)

\* Whoever waits for a row waits for a transaction that runs: LocksReleased leaves no row
\* with one that is over.
THEOREM NoBearerStandstill == Spec => []BearerGoesOn
<1>1. BearerInv => BearerGoesOn
  <2> SUFFICES ASSUME BearerInv, NEW y \in Txs, ~Bearer!Free(y),
                      \A x \in Txs : ~Bearer!Free(x) => Bearer!Blocked(x)
               PROVE  \E x \in Txs : ~Bearer!Free(x) /\ x \in Bearer!Deadlocked
    BY DEF BearerGoesOn
  <2> DEFINE D == {x \in Txs : ~Bearer!Free(x)}
  <2>1. ASSUME NEW x \in D, NEW row \in Bearer!Wanted(x) PROVE holder[row] \in D
    <3>1. x \in Txs /\ Bearer!Blocked(x) /\ tx[x] \in Bearer!Transaction
      BY <2>1, BearerParts
    <3>2. holder[row] # None
      BY <2>1, <3>1 DEF Bearer!Blocked, Bearer!Available
    <3>3. row \in Bearer!Rows
      <4>1. Relies(x, tx[x], access, refresh, holder)
        BY <3>1, BearerParts DEF BearerReliance
      <4>2. tx[x].pc \in {"lock", "insert", "mark"} => tx[x].tok \in Tokens /\ tx[x].new \in Tokens
        BY <4>1 DEF Relies, Rotating
      <4>3. tx[x].todo \subseteq Bearer!Rows
        BY <3>1 DEF Bearer!Transaction
      <4> QED BY <2>1, <4>2, <4>3 DEF Bearer!Wanted, Bearer!Rows
    <3> QED BY <3>2, <3>3, BearerParts DEF Bearer!LocksReleased
  <2>2. y \in D /\ D \in SUBSET Txs
    OBVIOUS
  <2>3. y \in Bearer!Deadlocked
    BY <2>1, <2>2 DEF Bearer!Deadlocked
  <2> QED BY <2>3
<1> QED BY <1>1, BearerInvariant, PTL

-----------------------------------------------------------------------------
(***************************************************************************)
(* Google identities: the inductive invariant.                             *)
(***************************************************************************)

\* What a transaction of GoogleStore carries to its next statement; one that is about to
\* delete an identity has found a password, and no statement deletes passwords.
CarriedBy(q) ==
    /\ q.pc \in {"lock", "check", "insert"} => q.sub \in Subjects /\ q.user \in users
    /\ q.pc \in {"byemail", "create"} => q.sub \in Subjects /\ q.email \in Emails
    /\ q.pc \in {"unlink", "delete"} => q.user \in users
    /\ q.pc = "delete" => q.user \in passwords

GoogleInv ==
    /\ Google!TypeOK /\ Google!OneIdentityPerUser /\ Google!EveryUserHasAMethod
    /\ \A r \in Requests : CarriedBy(req[r])

\* The invariant contains what Google!Consistent says.
LEMMA GoogleConsistent == GoogleInv => Google!Consistent
BY DEF GoogleInv, Google!Consistent

-----------------------------------------------------------------------------
(***************************************************************************)
(* Google identities: every step keeps the invariant.                      *)
(***************************************************************************)

\* The parts of Google!TypeOK about tables, and those about locks and requests.
GoogleTables ==
    /\ users \subseteq Emails
    /\ passwords \subseteq users
    /\ identity \in [Subjects -> users \cup {None}]
    /\ Google!OneIdentityPerUser /\ Google!EveryUserHasAMethod

\* The invariant in these parts.
LEMMA GoogleParts ==
    GoogleInv <=> /\ GoogleTables
                  /\ lock \in [Emails -> Requests \cup {None}]
                  /\ \A u \in Emails : lock[u] # None => ~Google!Free(lock[u])
                  /\ req \in [Requests -> Google!Request]
                  /\ \A r \in Requests : CarriedBy(req[r])
BY DEF GoogleInv, GoogleTables, Google!TypeOK

\* A step of request r keeps the invariant when it keeps the tables, only adds users and
\* passwords, takes locks only for r and leaves r with what it carries.
LEMMA GoogleStep ==
    ASSUME NEW r \in Requests, GoogleInv, GoogleTables',
           users \subseteq users', passwords \subseteq passwords',
           NEW q \in Google!Request, req' = [req EXCEPT ![r] = q], CarriedBy(q)',
           lock' \in [Emails -> Requests \cup {None}],
           \A u \in Emails : lock'[u] \in {None, lock[u], r},
           \A u \in Emails : lock'[u] = r => q.pc # "idle"
    PROVE  GoogleInv'
<1>1. req' \in [Requests -> Google!Request]
  BY GoogleParts
<1>2. \A i \in Requests : req'[i] = IF i = r THEN q ELSE req[i]
  BY GoogleParts
<1>3. ASSUME NEW i \in Requests PROVE CarriedBy(req[i])'
  <2>1. CASE i = r
    BY <1>2, <2>1 DEF CarriedBy
  <2>2. CASE i # r
    BY <1>2, <2>2, GoogleParts DEF CarriedBy
  <2> QED BY <2>1, <2>2
<1>4. ASSUME NEW u \in Emails, lock'[u] # None PROVE req'[lock'[u]].pc # "idle"
  <2>1. CASE lock'[u] = r
    BY <1>2, <2>1
  <2>2. CASE lock'[u] # r
    BY <1>2, <1>4, <2>2, GoogleParts DEF Google!Free
  <2> QED BY <2>1, <2>2
<1> QED BY <1>1, <1>3, <1>4 DEF GoogleInv, GoogleTables, Google!TypeOK, Google!Free

\* What an idle request carries: nothing.
LEMMA GoogleIdle ==
    Google!Idle \in Google!Request /\ Google!Idle.pc = "idle"
BY DEF Google!Idle, Google!Request

\* A transaction that ends, with the tables as it leaves them.
LEMMA GoogleEnds ==
    ASSUME NEW r \in Requests, GoogleInv, GoogleTables', Google!End(r),
           users \subseteq users', passwords \subseteq passwords'
    PROVE  GoogleInv'
<1>1. /\ lock' \in [Emails -> Requests \cup {None}]
      /\ \A u \in Emails : lock'[u] = IF lock[u] = r THEN None ELSE lock[u]
  BY GoogleParts DEF Google!End
<1>2. \A u \in Emails : lock'[u] # r /\ lock'[u] \in {None, lock[u], r}
  BY <1>1, PostgresAssumption
<1>3. req' = [req EXCEPT ![r] = Google!Idle] /\ CarriedBy(Google!Idle)'
  BY GoogleIdle DEF Google!End, CarriedBy
<1> QED BY <1>1, <1>2, <1>3, GoogleIdle, GoogleStep

\* Steps that leave the tables alone.
LEMMA GoogleTablesKept ==
    GoogleTables /\ UNCHANGED <<users, passwords, identity>> => GoogleTables'
BY DEF GoogleTables, Google!OneIdentityPerUser, Google!EveryUserHasAMethod, Google!IdentitiesOf

\* A transaction that moves on to statement pc, with or without the lock of its user.
LEMMA GoogleMoves ==
    ASSUME NEW r \in Requests, GoogleInv, UNCHANGED <<users, passwords, identity>>,
           NEW q \in Google!Request, q.pc # "idle", req' = [req EXCEPT ![r] = q],
           CarriedBy(q),
           UNCHANGED lock \/ \E u \in Emails : lock' = [lock EXCEPT ![u] = r]
    PROVE  GoogleInv'
<1>1. GoogleTables' /\ lock \in [Emails -> Requests \cup {None}]
  BY GoogleParts, GoogleTablesKept
<1>2. lock' \in [Emails -> Requests \cup {None}]
  BY <1>1
<1>3. \A u \in Emails : lock'[u] \in {None, lock[u], r}
  BY <1>1
<1>4. CarriedBy(q)'
  BY DEF CarriedBy
<1> QED BY <1>1, <1>2, <1>3, <1>4, GoogleStep

\* Who has which identity, said without the sets of them.
LEMMA GoogleTablesAre ==
    ASSUME users \subseteq Emails
    PROVE  GoogleTables <=>
             /\ passwords \subseteq users
             /\ identity \in [Subjects -> users \cup {None}]
             /\ \A s, t \in Subjects : identity[s] \in Emails /\ identity[s] = identity[t] => s = t
             /\ \A u \in users : u \in passwords \/ \E s \in Subjects : identity[s] = u
BY DEF GoogleTables, Google!OneIdentityPerUser, Google!EveryUserHasAMethod, Google!IdentitiesOf

\* A link to an account, which has no identity yet.
LEMMA GoogleLink ==
    ASSUME GoogleInv, NEW s \in Subjects, NEW u \in users',
           identity' = Google!Linked(s, u), UNCHANGED passwords,
           users' \subseteq Emails, users \subseteq users',
           \A v \in users' \ users : v = u /\ identity[s] = None
    PROVE  GoogleTables'
<1>1. /\ passwords \subseteq users /\ users \subseteq Emails
      /\ identity \in [Subjects -> users \cup {None}]
      /\ \A i, j \in Subjects : identity[i] \in Emails /\ identity[i] = identity[j] => i = j
      /\ \A v \in users : v \in passwords \/ \E i \in Subjects : identity[i] = v
  BY GoogleParts, GoogleTablesAre DEF GoogleTables
<1>2. CASE identity[s] = None /\ Google!IdentitiesOf(u) = {}
  <2>1. identity' = [identity EXCEPT ![s] = u]
    BY <1>2 DEF Google!Linked
  <2>2. \A i \in Subjects : identity'[i] = IF i = s THEN u ELSE identity[i]
    BY <1>1, <2>1
  <2>3. \A i \in Subjects : identity[i] # u
    BY <1>2 DEF Google!IdentitiesOf
  <2>4. identity' \in [Subjects -> users' \cup {None}]
    BY <1>1, <2>1
  <2>5. \A i, j \in Subjects : identity'[i] \in Emails /\ identity'[i] = identity'[j] => i = j
    BY <1>1, <2>2, <2>3
  <2>6. \A v \in users' : v \in passwords' \/ \E i \in Subjects : identity'[i] = v
    <3> SUFFICES ASSUME NEW v \in users', v \notin passwords
                 PROVE  \E i \in Subjects : identity'[i] = v
      OBVIOUS
    <3>1. CASE v = u
      BY <2>2, <3>1
    <3>2. CASE v # u
      <4>1. PICK i \in Subjects : identity[i] = v
        BY <1>1, <3>2
      <4>2. i # s
        BY <1>1, <1>2, <3>2, <4>1, PostgresAssumption
      <4> QED BY <2>2, <4>1, <4>2
    <3> QED BY <3>1, <3>2
  <2>7. passwords' \subseteq users'
    BY <1>1
  <2> QED
    BY <2>4, <2>5, <2>6, <2>7
    DEF GoogleTables, Google!OneIdentityPerUser, Google!EveryUserHasAMethod, Google!IdentitiesOf
<1>3. CASE ~(identity[s] = None /\ Google!IdentitiesOf(u) = {})
  <2>1. UNCHANGED identity
    BY <1>3 DEF Google!Linked
  <2>2. users' = users
    <3> SUFFICES ASSUME users' # users PROVE FALSE
      OBVIOUS
    <3>1. u \in users' \ users /\ identity[s] = None
      OBVIOUS
    <3>2. Google!IdentitiesOf(u) = {}
      BY <1>1, <3>1, PostgresAssumption DEF Google!IdentitiesOf
    <3> QED BY <1>3, <3>1, <3>2
  <2> QED BY <2>1, <2>2, GoogleParts, GoogleTablesKept
<1> QED BY <1>2, <1>3

\* A transaction begins.
LEMMA GoogleBegin ==
    ASSUME NEW r \in Requests, GoogleInv,
           \/ \E s \in Subjects, e \in Emails, u \in Emails \cup {None} :
                 Google!FindIdentity(r, s, e, u)
           \/ \E u \in Emails : Google!BeginUnlink(r, u)
    PROVE  GoogleInv'
<1>1. ASSUME NEW s \in Subjects, NEW e \in Emails, NEW u \in Emails \cup {None},
             Google!FindIdentity(r, s, e, u)
      PROVE  GoogleInv'
  <2>1. CASE identity[s] # None
    <3>1. UNCHANGED googleVars
      BY <1>1, <2>1 DEF Google!FindIdentity, googleVars
    <3>2. GoogleTables'
      BY <3>1, GoogleParts, GoogleTablesKept DEF googleVars
    <3> QED
      BY <3>1, <3>2, GoogleParts
      DEF googleVars, GoogleInv, GoogleTables, Google!TypeOK, Google!Free, CarriedBy
  <2>2. CASE identity[s] = None
    <3> DEFINE q == [pc |-> IF u = None THEN "byemail" ELSE "lock",
                     sub |-> s, email |-> e, user |-> u]
    <3>1. q \in Google!Request /\ q.pc # "idle"
      BY DEF Google!Request
    <3>2. /\ req' = [req EXCEPT ![r] = q] /\ UNCHANGED <<users, passwords, identity, lock>>
          /\ u # None => u \in users
      BY <1>1, <2>2 DEF Google!FindIdentity
    <3>3. CarriedBy(q)
      BY <3>2 DEF CarriedBy
    <3> HIDE DEF q
    <3> QED BY <3>1, <3>2, <3>3, GoogleMoves
  <2> QED BY <2>1, <2>2
<1>2. ASSUME NEW u \in Emails, Google!BeginUnlink(r, u) PROVE GoogleInv'
  <2> DEFINE q == [Google!Idle EXCEPT !.pc = "unlink", !.user = u]
  <2>1. q \in Google!Request /\ q.pc = "unlink" /\ q.user = u
    BY DEF Google!Request, Google!Idle
  <2>2. /\ req' = [req EXCEPT ![r] = q] /\ UNCHANGED <<users, passwords, identity, lock>>
        /\ u \in users
    BY <1>2 DEF Google!BeginUnlink
  <2>3. CarriedBy(q)
    BY <2>1, <2>2 DEF CarriedBy
  <2> HIDE DEF q
  <2> QED BY <2>1, <2>2, <2>3, GoogleMoves
<1> QED BY <1>1, <1>2

\* The statements of ResolveIdentity and UnlinkIdentity.
LEMMA GoogleStatement ==
    ASSUME NEW r \in Requests, GoogleInv, Google!Step(r)
    PROVE  GoogleInv'
<1> DEFINE q(pc) == [req[r] EXCEPT !.pc = pc]
<1>1. /\ req[r] \in Google!Request /\ CarriedBy(req[r]) /\ users \subseteq Emails
      /\ GoogleTables /\ req \in [Requests -> Google!Request]
  BY GoogleParts DEF GoogleTables
<1>2. ASSUME NEW pc \in {"check", "insert", "create", "delete"}
      PROVE  /\ q(pc) \in Google!Request /\ q(pc).pc = pc
             /\ q(pc).sub = req[r].sub /\ q(pc).email = req[r].email
             /\ q(pc).user = req[r].user
             /\ Google!Goto(r, pc) => req' = [req EXCEPT ![r] = q(pc)]
  BY <1>1 DEF Google!Request, Google!Goto
<1> HIDE DEF q
<1>3. ASSUME Google!End(r), UNCHANGED <<users, passwords, identity>> PROVE GoogleInv'
  BY <1>1, <1>3, GoogleTablesKept, GoogleEnds
<1>4. CASE Google!LockUser(r)
  <2>1. req[r].pc = "lock" /\ req[r].sub \in Subjects /\ req[r].user \in users
    BY <1>1, <1>4 DEF Google!LockUser, CarriedBy
  <2>2. CarriedBy(q("check"))
    BY <1>2, <2>1 DEF CarriedBy
  <2> QED BY <1>1, <1>2, <1>4, <2>1, <2>2, GoogleMoves DEF Google!LockUser, Google!Acquire
<1>5. CASE Google!CheckLinked(r)
  <2>1. req[r].pc = "check" /\ req[r].sub \in Subjects /\ req[r].user \in users
    BY <1>1, <1>5 DEF Google!CheckLinked, CarriedBy
  <2>2. CarriedBy(q("insert"))
    BY <1>2, <2>1 DEF CarriedBy
  <2> QED BY <1>2, <1>3, <1>5, <2>2, GoogleMoves DEF Google!CheckLinked
<1>6. CASE Google!InsertIdentity(r)
  <2>1. req[r].pc = "insert" /\ req[r].sub \in Subjects /\ req[r].user \in users
    BY <1>1, <1>6 DEF Google!InsertIdentity, CarriedBy
  <2>2. GoogleTables'
    BY <1>1, <1>6, <2>1, GoogleLink DEF Google!InsertIdentity
  <2> QED BY <1>6, <2>2, GoogleEnds DEF Google!InsertIdentity
<1>7. CASE Google!FindByEmail(r)
  <2>1. req[r].pc = "byemail" /\ req[r].sub \in Subjects /\ req[r].email \in Emails
    BY <1>1, <1>7 DEF Google!FindByEmail, CarriedBy
  <2>2. CarriedBy(q("create"))
    BY <1>2, <2>1 DEF CarriedBy
  <2> QED BY <1>2, <1>3, <1>7, <2>2, GoogleMoves DEF Google!FindByEmail
<1>8. CASE Google!CreateUser(r)
  <2>1. req[r].pc = "create" /\ req[r].sub \in Subjects /\ req[r].email \in Emails
    BY <1>1, <1>8 DEF Google!CreateUser, CarriedBy
  <2>2. CASE Google!MayCreate(r)
    <3>1. /\ users' = users \cup {req[r].email}
          /\ identity' = Google!Linked(req[r].sub, req[r].email)
          /\ identity[req[r].sub] = None /\ Google!End(r) /\ UNCHANGED passwords
      BY <1>8, <2>2 DEF Google!CreateUser, Google!MayCreate
    <3>2. GoogleTables'
      BY <1>1, <2>1, <3>1, GoogleLink
    <3> QED BY <3>1, <3>2, GoogleEnds
  <2>3. CASE ~Google!MayCreate(r)
    BY <1>3, <1>8, <2>3 DEF Google!CreateUser
  <2> QED BY <2>2, <2>3
<1>9. CASE Google!CountMethods(r)
  <2>1. req[r].pc = "unlink" /\ req[r].user \in users
    BY <1>1, <1>9 DEF Google!CountMethods, CarriedBy
  <2>2. req[r].user \in passwords => CarriedBy(q("delete"))
    BY <1>2, <2>1 DEF CarriedBy
  <2> QED BY <1>1, <1>2, <1>3, <1>9, <2>1, <2>2, GoogleMoves DEF Google!CountMethods
<1>10. CASE Google!DeleteIdentity(r)
  <2> DEFINE u == req[r].user
  <2>1. req[r].pc = "delete" /\ u \in users /\ u \in passwords
    BY <1>1, <1>10 DEF Google!DeleteIdentity, CarriedBy
  <2>2. /\ identity' = [s \in Subjects |-> IF identity[s] = u THEN None ELSE identity[s]]
        /\ UNCHANGED <<users, passwords>> /\ Google!End(r)
    BY <1>10 DEF Google!DeleteIdentity
  <2> HIDE DEF u
  <2>3. GoogleTables'
    <3>1. identity' \in [Subjects -> users' \cup {None}] /\ passwords' \subseteq users'
      BY <1>1, <2>2 DEF GoogleTables
    <3>2. \A s \in Subjects : identity'[s] = IF identity[s] = u THEN None ELSE identity[s]
      BY <2>2
    <3>3. Google!OneIdentityPerUser'
      BY <1>1, <3>2, PostgresAssumption
      DEF GoogleTables, Google!OneIdentityPerUser, Google!IdentitiesOf
    <3>4. Google!EveryUserHasAMethod'
      BY <1>1, <2>1, <2>2, <3>2 DEF GoogleTables, Google!EveryUserHasAMethod, Google!IdentitiesOf
    <3> QED BY <1>1, <2>2, <3>1, <3>3, <3>4 DEF GoogleTables
  <2> QED BY <2>2, <2>3, GoogleEnds
<1> QED BY <1>4, <1>5, <1>6, <1>7, <1>8, <1>9, <1>10 DEF Google!Step

\* A registration beside them: the new user has a password.
LEMMA GoogleRegister ==
    ASSUME NEW e \in Emails, GoogleInv, Google!Register(e)
    PROVE  GoogleInv'
<1>1. /\ users' = users \cup {e} /\ passwords' = passwords \cup {e}
      /\ UNCHANGED <<identity, lock, req>>
  BY DEF Google!Register
<1>2. GoogleTables'
  <2>1. GoogleTables
    BY GoogleParts
  <2>2. Google!OneIdentityPerUser'
    BY <1>1, <2>1 DEF GoogleTables, Google!OneIdentityPerUser, Google!IdentitiesOf
  <2>3. Google!EveryUserHasAMethod'
    BY <1>1, <2>1 DEF GoogleTables, Google!EveryUserHasAMethod, Google!IdentitiesOf
  <2> QED BY <1>1, <2>1, <2>2, <2>3 DEF GoogleTables
<1>3. \A r \in Requests : CarriedBy(req[r])'
  BY <1>1, GoogleParts DEF CarriedBy
<1> QED BY <1>1, <1>2, <1>3, GoogleParts DEF GoogleInv, GoogleTables, Google!TypeOK, Google!Free

\* A step of the other groups.
LEMMA GoogleStutter == GoogleInv /\ UNCHANGED googleVars => GoogleInv'
BY DEF googleVars, GoogleInv, Google!TypeOK, Google!Free, CarriedBy,
       Google!OneIdentityPerUser, Google!EveryUserHasAMethod, Google!IdentitiesOf

\* Every step of every transaction.
LEMMA GoogleNext == GoogleInv /\ Google!Next => GoogleInv'
<1>1. ASSUME GoogleInv, NEW r \in Requests, Google!Rollback(r) PROVE GoogleInv'
  BY <1>1, GoogleParts, GoogleTablesKept, GoogleEnds DEF Google!Rollback
<1> QED BY <1>1, GoogleBegin, GoogleStatement, GoogleRegister DEF Google!Next

\* The empty tables.
LEMMA GoogleInit == Google!Init => GoogleInv
<1> SUFFICES ASSUME Google!Init PROVE GoogleInv
  OBVIOUS
<1>1. Google!TypeOK
  BY GoogleIdle DEF Google!Init, Google!TypeOK
<1>2. \A r \in Requests : CarriedBy(req[r])
  BY GoogleIdle DEF Google!Init, CarriedBy
<1>3. Google!OneIdentityPerUser /\ Google!EveryUserHasAMethod
  BY PostgresAssumption
  DEF Google!Init, Google!OneIdentityPerUser, Google!EveryUserHasAMethod, Google!IdentitiesOf
<1> QED BY <1>1, <1>2, <1>3 DEF GoogleInv

\* The identities, locks and transactions of GoogleStore in every reachable state.
THEOREM GoogleInvariant == Spec => []GoogleInv
<1>1. Init => GoogleInv
  BY GoogleInit DEF Init
<1>2. GoogleInv /\ [Next]_vars => GoogleInv'
  BY GoogleNext, GoogleStutter DEF Next, vars
<1> QED BY <1>1, <1>2, PTL DEF Spec

\* A Google sign-in is never attached to an account that exists: SignInNeverLinks.  Only
\* the INSERT of a link and the creation of a user write an identity, and the second is
\* refused when the user appeared since the SELECT by address.
THEOREM SignInsNeverLink == Spec => SignInNeverLinks
<1> DEFINE Adds == \A s \in Subjects :
              identity[s] = None /\ identity'[s] # None =>
                  \/ identity'[s] \notin users
                  \/ \E r \in Requests : req[r].pc = "insert" /\ req[r].user = identity'[s]
<1>1. GoogleInv /\ [Next]_vars => [Adds]_(Google!vars)
  <2> SUFFICES ASSUME GoogleInv, Google!Next PROVE Adds
    BY DEF Next, vars, googleVars, Google!vars
  <2>1. identity \in [Subjects -> users \cup {None}]
    BY DEF GoogleInv, Google!TypeOK
  <2>2. ASSUME NEW s, NEW u, NEW t \in Subjects, identity' = Google!Linked(s, u),
               identity[t] = None, identity'[t] # None
        PROVE  identity'[t] = u
    BY <2>1, <2>2 DEF Google!Linked
  <2>3. ASSUME NEW r \in Requests, Google!InsertIdentity(r) PROVE Adds
    BY <2>2, <2>3 DEF Google!InsertIdentity
  <2>4. ASSUME NEW r \in Requests, Google!CreateUser(r) PROVE Adds
    <3>1. CASE Google!MayCreate(r)
      BY <2>2, <2>4, <3>1 DEF Google!CreateUser, Google!MayCreate
    <3>2. CASE ~Google!MayCreate(r)
      BY <2>4, <3>2 DEF Google!CreateUser
    <3> QED BY <3>1, <3>2
  <2>5. ASSUME NEW r \in Requests, Google!DeleteIdentity(r) PROVE Adds
    BY <2>5 DEF Google!DeleteIdentity
  <2>6. CASE UNCHANGED identity
    BY <2>6
  <2> QED
    BY <2>3, <2>4, <2>5, <2>6
    DEF Google!Next, Google!Step, Google!Register, Google!FindIdentity, Google!BeginUnlink,
        Google!Rollback, Google!LockUser, Google!CheckLinked, Google!FindByEmail,
        Google!CountMethods
<1> QED BY <1>1, GoogleInvariant, PTL DEF Spec, SignInNeverLinks, Google!SignInNeverLinks

-----------------------------------------------------------------------------
(***************************************************************************)
(* Cookie sessions: the inductive invariant.                               *)
(***************************************************************************)

\* What a transaction of SessionStore relies on, in the table s and the locks h: from its
\* SELECT ... FOR UPDATE on, the session it rotates is unrevoked and held, and so is every
\* row that RevokeAll has reached.
CookieRelies(x, q, s, h) ==
    /\ q.pc \in {"lock", "insert", "commit"} =>
          /\ q.tok \in SessionTokens /\ s[q.tok] # None
          /\ q.rec \in Cookie!Record /\ q.rec.hash # q.tok
          /\ q.rec.subject = s[q.tok].subject
    /\ q.pc \in {"insert", "commit"} => h[q.tok] = x /\ ~s[q.tok].revoked
    /\ q.pc = "commit" => h[q.rec.hash] = x /\ s[q.rec.hash] = None
    /\ q.pc = "update" =>
          /\ \A t \in q.todo \cup q.wrote : s[t] # None
          /\ \A t \in q.wrote : h[t] = x

CookieReliance == \A x \in Txs : CookieRelies(x, cookieTx[x], sessions, cookieHolder)

CookieInv == Cookie!Consistent /\ CookieReliance

\* Rows are never deleted and never change hands, and nobody but y revokes or inserts a
\* row that y holds.
CookieSpares(y, s, h, s2, h2) ==
    /\ \A t \in SessionTokens : s[t] # None => s2[t] # None /\ s2[t].subject = s[t].subject
    /\ \A t \in SessionTokens : h[t] = y =>
          /\ h2[t] = y
          /\ s[t] = None => s2[t] = None
          /\ s[t] # None /\ ~s[t].revoked => ~s2[t].revoked

\* The parts of the invariant.
CookieTables ==
    /\ sessions \in [SessionTokens -> Cookie!Record \cup {None}]
    /\ now \in Cookie!Times
    /\ cookieParent \in [SessionTokens -> SessionTokens \cup {None}]
    /\ Cookie!OneReplacement

\* The invariant in these parts.
LEMMA CookieParts ==
    CookieInv <=> /\ CookieTables
                  /\ cookieHolder \in [SessionTokens -> Txs \cup {None}]
                  /\ Cookie!LocksReleased
                  /\ cookieTx \in [Txs -> Cookie!Transaction] /\ CookieReliance
BY DEF CookieInv, CookieTables, Cookie!Consistent, Cookie!TypeOK

\* What a transaction relies on survives whatever spares it.
LEMMA CookieRelianceKept ==
    ASSUME NEW x, NEW q \in Cookie!Transaction, NEW s, NEW h, NEW s2, NEW h2,
           CookieRelies(x, q, s, h), CookieSpares(x, s, h, s2, h2)
    PROVE  CookieRelies(x, q, s2, h2)
<1>1. q.todo \subseteq SessionTokens /\ q.wrote \subseteq SessionTokens
  BY DEF Cookie!Transaction
<1>2. q.rec \in Cookie!Record => q.rec.hash \in SessionTokens
  BY DEF Cookie!Record
<1> QED BY <1>1, <1>2 DEF CookieRelies, CookieSpares

\* A step of transaction x keeps the invariant when it keeps the table, spares the other
\* transactions, takes rows only for x, and leaves x with what it relies on.
LEMMA CookieStep ==
    ASSUME NEW x \in Txs, CookieInv, CookieTables',
           NEW q \in Cookie!Transaction, cookieTx' = [cookieTx EXCEPT ![x] = q],
           cookieHolder' \in [SessionTokens -> Txs \cup {None}],
           \A t \in SessionTokens : cookieHolder'[t] \in {None, cookieHolder[t], x},
           \A t \in SessionTokens : cookieHolder'[t] = x => q.pc # "idle",
           CookieRelies(x, q, sessions', cookieHolder'),
           \A y \in Txs \ {x} :
               CookieSpares(y, sessions, cookieHolder, sessions', cookieHolder')
    PROVE  CookieInv'
<1>1. cookieTx' \in [Txs -> Cookie!Transaction]
  BY CookieParts
<1>2. \A y \in Txs : cookieTx'[y] = IF y = x THEN q ELSE cookieTx[y]
  BY CookieParts
<1>3. CookieReliance'
  <2> SUFFICES ASSUME NEW y \in Txs
               PROVE  CookieRelies(y, cookieTx'[y], sessions', cookieHolder')
    BY DEF CookieReliance
  <2>1. CASE y = x
    BY <1>2, <2>1
  <2>2. CASE y # x
    <3>1. CookieRelies(y, cookieTx[y], sessions, cookieHolder) /\ cookieTx[y] \in Cookie!Transaction
      BY CookieParts DEF CookieReliance
    <3> QED BY <1>2, <2>2, <3>1, CookieRelianceKept
  <2> QED BY <2>1, <2>2
<1>4. Cookie!LocksReleased'
  <2> SUFFICES ASSUME NEW t \in SessionTokens, cookieHolder'[t] # None
               PROVE  cookieTx'[cookieHolder'[t]].pc # "idle"
    BY DEF Cookie!LocksReleased, Cookie!Free
  <2>1. CASE cookieHolder'[t] = x
    BY <1>2, <2>1
  <2>2. CASE cookieHolder'[t] # x
    BY <1>2, <2>2, CookieParts DEF Cookie!LocksReleased, Cookie!Free
  <2> QED BY <2>1, <2>2
<1> QED BY <1>1, <1>3, <1>4 DEF CookieInv, CookieTables, Cookie!Consistent, Cookie!TypeOK

\* The transaction on a free connection has the type of one.
LEMMA CookieIdle == Cookie!Idle \in Cookie!Transaction /\ Cookie!Idle.pc = "idle"
BY PostgresAssumption DEF Cookie!Idle, Cookie!Transaction, Cookie!Times

-----------------------------------------------------------------------------
(***************************************************************************)
(* Cookie sessions: every step keeps the invariant.                        *)
(***************************************************************************)

\* Steps that leave the table alone.
LEMMA CookieTablesKept ==
    CookieTables /\ UNCHANGED <<sessions, cookieParent>> /\ now' \in Cookie!Times => CookieTables'
BY DEF CookieTables, Cookie!OneReplacement, Cookie!Exists

\* A transaction ends, with the table as its commit or rollback leaves it.
LEMMA CookieEnds ==
    ASSUME NEW x \in Txs, CookieInv, CookieTables', Cookie!End(x),
           \A y \in Txs \ {x} :
               CookieSpares(y, sessions, cookieHolder, sessions', cookieHolder)
    PROVE  CookieInv'
<1>1. /\ cookieHolder' \in [SessionTokens -> Txs \cup {None}]
      /\ \A t \in SessionTokens :
            cookieHolder'[t] = IF cookieHolder[t] = x THEN None ELSE cookieHolder[t]
  BY CookieParts DEF Cookie!End
<1>2. /\ \A t \in SessionTokens : cookieHolder'[t] # x
      /\ \A t \in SessionTokens : cookieHolder'[t] \in {None, cookieHolder[t], x}
  BY <1>1, PostgresAssumption
<1>3. \A y \in Txs \ {x} :
         CookieSpares(y, sessions, cookieHolder, sessions', cookieHolder')
  BY <1>1 DEF CookieSpares
<1>4. /\ cookieTx' = [cookieTx EXCEPT ![x] = Cookie!Idle]
      /\ CookieRelies(x, Cookie!Idle, sessions', cookieHolder')
  BY CookieIdle DEF Cookie!End, CookieRelies
<1> QED BY <1>1, <1>2, <1>3, <1>4, CookieIdle, CookieStep

\* A transaction that ends without effect.
LEMMA CookieRolledBack ==
    ASSUME NEW x \in Txs, CookieInv, Cookie!RolledBack(x)
    PROVE  CookieInv'
<1>1. CookieTables' /\ Cookie!End(x) /\ UNCHANGED sessions
  BY CookieParts, CookieTablesKept DEF Cookie!RolledBack, CookieTables
<1>2. \A y \in Txs : CookieSpares(y, sessions, cookieHolder, sessions', cookieHolder)
  BY <1>1 DEF CookieSpares
<1> QED BY <1>1, <1>2, CookieEnds

\* A statement that only takes rows for its transaction and moves it on.
LEMMA CookieMoves ==
    ASSUME NEW x \in Txs, CookieInv, UNCHANGED <<sessions, now, cookieParent>>,
           NEW q \in Cookie!Transaction, q.pc # "idle",
           cookieTx' = [cookieTx EXCEPT ![x] = q],
           \/ UNCHANGED cookieHolder
           \/ \E t \in SessionTokens : /\ cookieHolder[t] \in {None, x}
                                       /\ cookieHolder' = [cookieHolder EXCEPT ![t] = x],
           CookieRelies(x, q, sessions, cookieHolder')
    PROVE  CookieInv'
<1>1. CookieTables' /\ cookieHolder \in [SessionTokens -> Txs \cup {None}]
  BY CookieParts, CookieTablesKept DEF CookieTables
<1>2. cookieHolder' \in [SessionTokens -> Txs \cup {None}]
  BY <1>1
<1>3. \A t \in SessionTokens : cookieHolder'[t] \in {None, cookieHolder[t], x}
  BY <1>1
<1>4. \A t \in SessionTokens, y \in Txs \ {x} : cookieHolder[t] = y => cookieHolder'[t] = y
  BY <1>1, PostgresAssumption
<1>5. \A y \in Txs \ {x} :
         CookieSpares(y, sessions, cookieHolder, sessions', cookieHolder')
  BY <1>4 DEF CookieSpares
<1> QED BY <1>1, <1>2, <1>3, <1>5, CookieStep

\* A record that Create or Rotate draws.
LEMMA NewRecordType ==
    ASSUME NEW t \in SessionTokens, NEW s \in SessionSubjects, NEW at \in Cookie!Times
    PROVE  LET rec == Cookie!NewRecord(t, s, at) IN
           rec \in Cookie!Record /\ rec.hash = t /\ rec.subject = s /\ ~rec.revoked
BY PostgresAssumption DEF Cookie!NewRecord, Cookie!Record, Cookie!Times

\* A transaction begins.
LEMMA CookieBegin ==
    ASSUME NEW x \in Txs, CookieInv,
           \/ \E t, u \in SessionTokens : Cookie!BeginRotate(x, t, u)
           \/ \E s \in SessionSubjects : Cookie!BeginRevokeAll(x, s)
    PROVE  CookieInv'
<1>1. ASSUME NEW t \in SessionTokens, NEW u \in SessionTokens, Cookie!BeginRotate(x, t, u)
      PROVE  CookieInv'
  <2> DEFINE rec == Cookie!NewRecord(u, sessions[t].subject, now)
             q == [Cookie!Idle EXCEPT !.pc = "lock", !.tok = t, !.at = now, !.rec = rec]
  <2>1. sessions[t] # None /\ sessions[t] \in Cookie!Record /\ now \in Cookie!Times
    BY <1>1, CookieParts DEF CookieTables, Cookie!BeginRotate, Cookie!Rotatable, Cookie!Exists
  <2>2. sessions[t].subject \in SessionSubjects
    BY <2>1 DEF Cookie!Record
  <2>3. rec \in Cookie!Record /\ rec.hash = u /\ rec.subject = sessions[t].subject
    BY <2>1, <2>2, NewRecordType
  <2>4. /\ cookieTx' = [cookieTx EXCEPT ![x] = q] /\ t # u
        /\ UNCHANGED <<sessions, now, cookieHolder, cookieParent>>
    BY <1>1 DEF Cookie!BeginRotate
  <2> HIDE DEF rec
  <2>5. /\ q \in Cookie!Transaction /\ q.pc = "lock" /\ q.tok = t /\ q.rec = rec
    BY <2>1, <2>3, CookieIdle DEF Cookie!Transaction, Cookie!Idle
  <2>6. CookieRelies(x, q, sessions, cookieHolder')
    BY <2>1, <2>3, <2>4, <2>5 DEF CookieRelies
  <2> HIDE DEF q
  <2> QED BY <2>4, <2>5, <2>6, CookieMoves
<1>2. ASSUME NEW s \in SessionSubjects, Cookie!BeginRevokeAll(x, s) PROVE CookieInv'
  <2> DEFINE q == [Cookie!Idle EXCEPT !.pc = "update", !.subject = s, !.todo = Cookie!BelongTo(s)]
  <2>1. /\ cookieTx' = [cookieTx EXCEPT ![x] = q]
        /\ UNCHANGED <<sessions, now, cookieHolder, cookieParent>>
    BY <1>2 DEF Cookie!BeginRevokeAll
  <2>2. /\ Cookie!BelongTo(s) \subseteq SessionTokens
        /\ \A t \in Cookie!BelongTo(s) : sessions[t] # None
    BY DEF Cookie!BelongTo, Cookie!Exists
  <2>3. /\ q \in Cookie!Transaction /\ q.pc = "update" /\ q.wrote = {}
        /\ q.todo = Cookie!BelongTo(s)
    BY <2>2, CookieIdle DEF Cookie!Transaction, Cookie!Idle
  <2>4. CookieRelies(x, q, sessions, cookieHolder')
    BY <2>2, <2>3 DEF CookieRelies
  <2> HIDE DEF q
  <2> QED BY <2>1, <2>3, <2>4, CookieMoves
<1> QED BY <1>1, <1>2

\* Rotate's SELECT ... FOR UPDATE and INSERT, and the rows of RevokeAll's UPDATE.
LEMMA CookieStatement ==
    ASSUME NEW x \in Txs, CookieInv,
           Cookie!LockCurrent(x) \/ Cookie!InsertReplacement(x) \/ Cookie!UpdateRow(x)
    PROVE  CookieInv'
<1> DEFINE q0 == cookieTx[x]
<1>1. /\ q0 \in Cookie!Transaction /\ CookieRelies(x, q0, sessions, cookieHolder)
      /\ cookieTx \in [Txs -> Cookie!Transaction]
      /\ cookieHolder \in [SessionTokens -> Txs \cup {None}]
  BY CookieParts DEF CookieReliance
<1>2. CASE Cookie!LockCurrent(x)
  <2>1. CASE Cookie!RolledBack(x)
    BY <2>1, CookieRolledBack
  <2>2. CASE ~Cookie!RolledBack(x)
    <3> DEFINE q == [q0 EXCEPT !.pc = "insert"]
    <3>1. /\ q0.pc = "lock" /\ Cookie!Available(x, q0.tok) /\ Cookie!Rotatable(q0.tok, q0.at)
          /\ cookieHolder' = [cookieHolder EXCEPT ![q0.tok] = x]
          /\ cookieTx' = [cookieTx EXCEPT ![x] = q]
          /\ UNCHANGED <<sessions, now, cookieParent>>
      BY <1>1, <1>2, <2>2 DEF Cookie!LockCurrent, Cookie!Held
    <3>2. /\ q \in Cookie!Transaction /\ q.pc = "insert" /\ q.tok = q0.tok /\ q.rec = q0.rec
      BY <1>1 DEF Cookie!Transaction
    <3>3. ~sessions[q0.tok].revoked /\ cookieHolder[q0.tok] \in {None, x}
      BY <3>1 DEF Cookie!Rotatable, Cookie!ActiveAt, Cookie!Available
    <3>4. q0.tok \in SessionTokens /\ cookieHolder'[q0.tok] = x
      BY <1>1, <3>1 DEF CookieRelies
    <3>5. CookieRelies(x, q, sessions, cookieHolder')
      BY <1>1, <3>1, <3>2, <3>3, <3>4 DEF CookieRelies
    <3> HIDE DEF q, q0
    <3> QED BY <3>1, <3>2, <3>3, <3>4, <3>5, CookieMoves
  <2> QED BY <2>1, <2>2
<1>3. CASE Cookie!InsertReplacement(x)
  <2> DEFINE u == q0.rec.hash
  <2>1. CASE Cookie!RolledBack(x)
    BY <2>1, CookieRolledBack
  <2>2. CASE ~Cookie!RolledBack(x)
    <3> DEFINE q == [q0 EXCEPT !.pc = "commit"]
    <3>1. /\ q0.pc = "insert" /\ Cookie!Available(x, u) /\ ~Cookie!Exists(u)
          /\ cookieHolder' = [cookieHolder EXCEPT ![u] = x]
          /\ cookieTx' = [cookieTx EXCEPT ![x] = q]
          /\ UNCHANGED <<sessions, now, cookieParent>>
      BY <1>1, <1>3, <2>2 DEF Cookie!InsertReplacement, Cookie!Held
    <3>2. /\ q \in Cookie!Transaction /\ q.pc = "commit" /\ q.tok = q0.tok /\ q.rec = q0.rec
      BY <1>1 DEF Cookie!Transaction
    <3>3. sessions[u] = None /\ cookieHolder[u] \in {None, x}
      BY <3>1 DEF Cookie!Exists, Cookie!Available
    <3>4. u \in SessionTokens /\ q0.tok \in SessionTokens /\ cookieHolder[q0.tok] = x
      BY <1>1, <3>1 DEF CookieRelies, Cookie!Record
    <3>5. cookieHolder'[u] = x /\ cookieHolder'[q0.tok] = x
      BY <1>1, <3>1, <3>4
    <3>6. CookieRelies(x, q, sessions, cookieHolder')
      BY <1>1, <3>1, <3>2, <3>3, <3>5 DEF CookieRelies
    <3> HIDE DEF q, q0, u
    <3> QED BY <3>1, <3>2, <3>3, <3>4, <3>6, CookieMoves
  <2> QED BY <2>1, <2>2
<1>4. CASE Cookie!UpdateRow(x)
  <2>1. PICK t \in q0.todo :
           /\ Cookie!Available(x, t)
           /\ cookieHolder' = [cookieHolder EXCEPT ![t] = x]
           /\ cookieTx' = [cookieTx EXCEPT ![x].todo = @ \ {t}, ![x].wrote = @ \cup {t}]
    BY <1>4 DEF Cookie!UpdateRow, Cookie!Held
  <2> DEFINE q == [q0 EXCEPT !.todo = @ \ {t}, !.wrote = @ \cup {t}]
  <2>2. /\ q0.pc = "update" /\ cookieTx' = [cookieTx EXCEPT ![x] = q]
        /\ UNCHANGED <<sessions, now, cookieParent>>
    BY <1>1, <1>4, <2>1 DEF Cookie!UpdateRow
  <2>3. t \in SessionTokens /\ q0.wrote \subseteq SessionTokens /\ cookieHolder[t] \in {None, x}
    BY <1>1, <2>1 DEF Cookie!Transaction, Cookie!Available
  <2>4. /\ q \in Cookie!Transaction /\ q.pc = "update"
        /\ q.todo = q0.todo \ {t} /\ q.wrote = q0.wrote \cup {t}
    BY <1>1, <2>2, <2>3 DEF Cookie!Transaction
  <2>5. \A u \in q0.wrote \cup {t} : cookieHolder'[u] = x
    BY <1>1, <2>1, <2>2, <2>3 DEF CookieRelies
  <2>6. \A u \in q.todo \cup q.wrote : sessions[u] # None
    BY <1>1, <2>1, <2>2, <2>4 DEF CookieRelies
  <2>7. CookieRelies(x, q, sessions, cookieHolder')
    BY <2>4, <2>5, <2>6 DEF CookieRelies
  <2> HIDE DEF q, q0
  <2> QED BY <2>1, <2>2, <2>3, <2>4, <2>7, CookieMoves
<1> QED BY <1>2, <1>3, <1>4

\* Rotate's UPDATE and commit: the session it held unrevoked had no replacement yet.
LEMMA CookieCommitRotation ==
    ASSUME NEW x \in Txs, CookieInv, Cookie!CommitRotation(x)
    PROVE  CookieInv'
<1> DEFINE t == cookieTx[x].tok
           rec == cookieTx[x].rec
           u == rec.hash
<1>1. CookieTables /\ Cookie!End(x) /\ UNCHANGED now
  BY CookieParts DEF Cookie!CommitRotation
<1>2. /\ t \in SessionTokens /\ sessions[t] # None /\ ~sessions[t].revoked
      /\ rec \in Cookie!Record /\ u # t /\ rec.subject = sessions[t].subject
      /\ sessions[u] = None /\ cookieHolder[t] = x /\ cookieHolder[u] = x
  BY CookieParts DEF Cookie!CommitRotation, CookieReliance, CookieRelies
<1>3. u \in SessionTokens /\ sessions[t] \in Cookie!Record /\ rec # None
  BY <1>1, <1>2, NoRowAssumption DEF CookieTables, Cookie!Record
<1>4. /\ sessions' = [sessions EXCEPT ![t].revoked = TRUE, ![u] = rec]
      /\ cookieParent' = [cookieParent EXCEPT ![u] = t]
  BY DEF Cookie!CommitRotation
<1>5. /\ sessions'[t] = [sessions[t] EXCEPT !.revoked = TRUE] /\ sessions'[u] = rec
      /\ \A v \in SessionTokens \ {t, u} : sessions'[v] = sessions[v]
      /\ \A v \in SessionTokens : cookieParent'[v] = IF v = u THEN t ELSE cookieParent[v]
  BY <1>1, <1>2, <1>3, <1>4 DEF CookieTables
<1>6. /\ sessions'[t] \in Cookie!Record /\ sessions'[t].revoked
      /\ sessions'[t].subject = sessions[t].subject
  BY <1>3, <1>5 DEF Cookie!Record
<1>7. sessions'[t] # None
  BY <1>6, NoRowAssumption
<1> HIDE DEF t, rec, u
<1>8. /\ sessions' \in [SessionTokens -> Cookie!Record \cup {None}]
      /\ cookieParent' \in [SessionTokens -> SessionTokens \cup {None}]
  <2>1. \A v \in SessionTokens : sessions'[v] \in Cookie!Record \cup {None}
    BY <1>1, <1>2, <1>5, <1>6 DEF CookieTables
  <2>2. sessions' = [v \in SessionTokens |-> sessions'[v]]
    BY <1>1, <1>4 DEF CookieTables
  <2> QED BY <1>1, <1>2, <1>4, <2>1, <2>2 DEF CookieTables
<1>9. Cookie!OneReplacement'
  <2> SUFFICES ASSUME NEW v \in SessionTokens, NEW w \in SessionTokens, cookieParent'[w] = v
               PROVE  /\ sessions'[v] # None /\ sessions'[w] # None
                      /\ sessions'[v].revoked /\ sessions'[v].subject = sessions'[w].subject
                      /\ \A z \in SessionTokens : cookieParent'[z] = v => z = w
    BY DEF Cookie!OneReplacement, Cookie!Exists
  <2>1. \A z \in SessionTokens : cookieParent[z] # t
    BY <1>1, <1>2 DEF CookieTables, Cookie!OneReplacement
  <2>2. \A z \in SessionTokens : cookieParent[z] # u
    BY <1>1, <1>2, <1>3 DEF CookieTables, Cookie!OneReplacement, Cookie!Exists
  <2>3. cookieParent[u] \notin SessionTokens
    BY <1>1, <1>2, <1>3 DEF CookieTables, Cookie!OneReplacement, Cookie!Exists
  <2>4. CASE w = u
    <3>1. v = t
      BY <1>5, <2>4
    <3> QED BY <1>2, <1>3, <1>5, <1>6, <1>7, <2>1, <2>4, <3>1
  <2>5. CASE w # u
    <3>1. cookieParent[w] = v /\ v # t /\ v # u
      BY <1>5, <2>1, <2>2, <2>5
    <3>2. /\ sessions[v] # None /\ sessions[w] # None
          /\ sessions[v].revoked /\ sessions[v].subject = sessions[w].subject
          /\ \A z \in SessionTokens : cookieParent[z] = v => z = w
      BY <1>1, <3>1 DEF CookieTables, Cookie!OneReplacement, Cookie!Exists
    <3>3. sessions'[v] = sessions[v] /\ sessions'[w] # None
          /\ sessions'[w].subject = sessions[w].subject
      BY <1>5, <1>6, <1>7, <2>5, <3>1, <3>2
    <3> QED BY <1>5, <3>1, <3>2, <3>3
  <2> QED BY <2>4, <2>5
<1>10. CookieTables'
  BY <1>1, <1>8, <1>9 DEF CookieTables
<1>11. ASSUME NEW y \in Txs \ {x}
       PROVE  CookieSpares(y, sessions, cookieHolder, sessions', cookieHolder)
  BY <1>2, <1>3, <1>5, <1>6, <1>7 DEF CookieSpares
<1> QED BY <1>1, <1>10, <1>11, CookieEnds

\* A change of existing rows that revokes them or extends them keeps the table's
\* consistency, for neither the rows nor their subjects change.
LEMMA CookieRowsChanged ==
    ASSUME CookieTables, UNCHANGED <<now, cookieParent>>,
           sessions' \in [SessionTokens -> Cookie!Record \cup {None}],
           \A t \in SessionTokens :
               IF sessions[t] = None THEN sessions'[t] = None
               ELSE /\ sessions'[t] # None /\ sessions'[t].subject = sessions[t].subject
                    /\ sessions[t].revoked => sessions'[t].revoked
    PROVE  CookieTables'
<1>1. Cookie!OneReplacement'
  BY DEF CookieTables, Cookie!OneReplacement, Cookie!Exists
<1> QED BY <1>1 DEF CookieTables

\* RevokeAll commits: the rows it revokes are its own.
LEMMA CookieCommitRevokeAll ==
    ASSUME NEW x \in Txs, CookieInv, Cookie!CommitRevokeAll(x)
    PROVE  CookieInv'
<1> DEFINE W == cookieTx[x].wrote
<1>1. CookieTables /\ Cookie!End(x) /\ UNCHANGED <<now, cookieParent>>
  BY CookieParts DEF Cookie!CommitRevokeAll
<1>2. \A t \in W : sessions[t] # None /\ cookieHolder[t] = x
  BY CookieParts DEF Cookie!CommitRevokeAll, CookieReliance, CookieRelies
<1>3. sessions' = [t \in SessionTokens |->
                     IF t \in W THEN [sessions[t] EXCEPT !.revoked = TRUE] ELSE sessions[t]]
  BY DEF Cookie!CommitRevokeAll, Cookie!Revoked
<1> HIDE DEF W
<1>4. ASSUME NEW t \in SessionTokens, t \in W
      PROVE  /\ sessions'[t] \in Cookie!Record /\ sessions'[t] # None
             /\ sessions'[t].subject = sessions[t].subject /\ sessions'[t].revoked
  <2>1. sessions[t] \in Cookie!Record
    BY <1>1, <1>2, <1>4 DEF CookieTables
  <2>2. /\ sessions'[t] \in Cookie!Record
        /\ sessions'[t].subject = sessions[t].subject /\ sessions'[t].revoked
    BY <1>3, <1>4, <2>1 DEF Cookie!Record
  <2> QED BY <2>2, NoRowAssumption
<1>5. \A t \in SessionTokens \ W : sessions'[t] = sessions[t]
  BY <1>3
<1>6. sessions' \in [SessionTokens -> Cookie!Record \cup {None}]
  <2>1. sessions' = [t \in SessionTokens |-> sessions'[t]]
    BY <1>3
  <2>2. \A t \in SessionTokens : sessions'[t] \in Cookie!Record \cup {None}
    BY <1>1, <1>4, <1>5 DEF CookieTables
  <2> QED BY <2>1, <2>2
<1>7. CookieTables'
  BY <1>1, <1>2, <1>4, <1>5, <1>6, CookieRowsChanged
<1>8. ASSUME NEW y \in Txs \ {x}
      PROVE  CookieSpares(y, sessions, cookieHolder, sessions', cookieHolder)
  BY <1>2, <1>4, <1>5 DEF CookieSpares
<1> QED BY <1>1, <1>7, <1>8, CookieEnds

\* Create, Extend and Revoke work on a row that nobody holds.
LEMMA CookieOneRow ==
    ASSUME NEW t \in SessionTokens, CookieInv, CookieTables',
           cookieHolder[t] = None, UNCHANGED <<cookieHolder, cookieTx>>,
           \A u \in SessionTokens \ {t} : sessions'[u] = sessions[u],
           sessions[t] # None => /\ sessions'[t] # None
                                 /\ sessions'[t].subject = sessions[t].subject
    PROVE  CookieInv'
<1>1. ASSUME NEW y \in Txs
      PROVE  CookieSpares(y, sessions, cookieHolder, sessions', cookieHolder)
  BY <1>1, PostgresAssumption DEF CookieSpares
<1>2. CookieReliance'
  <2> SUFFICES ASSUME NEW y \in Txs
               PROVE  CookieRelies(y, cookieTx[y], sessions', cookieHolder)
    BY DEF CookieReliance
  <2>1. CookieRelies(y, cookieTx[y], sessions, cookieHolder) /\ cookieTx[y] \in Cookie!Transaction
    BY CookieParts DEF CookieReliance
  <2> QED BY <1>1, <2>1, CookieRelianceKept
<1> QED
  BY <1>2, CookieParts
  DEF CookieInv, CookieTables, Cookie!Consistent, Cookie!TypeOK, Cookie!LocksReleased, Cookie!Free

\* The three statements.
LEMMA CookieSingle ==
    ASSUME NEW t \in SessionTokens, CookieInv,
           \/ \E s \in SessionSubjects : Cookie!Create(t, s)
           \/ \E at \in Cookie!Times : Cookie!Extend(t, at)
           \/ Cookie!Revoke(t)
    PROVE  CookieInv'
<1>1. CookieTables
  BY CookieParts
<1>2. ASSUME NEW s \in SessionSubjects, Cookie!Create(t, s) PROVE CookieInv'
  <2> DEFINE rec == Cookie!NewRecord(t, s, now)
  <2>1. rec \in Cookie!Record /\ rec.hash = t /\ rec # None
    BY <1>1, NewRecordType, NoRowAssumption DEF CookieTables
  <2>2. /\ sessions[t] = None /\ sessions' = [sessions EXCEPT ![t] = rec]
        /\ cookieHolder[t] = None /\ UNCHANGED <<now, cookieHolder, cookieTx, cookieParent>>
    BY <1>2, <2>1 DEF Cookie!Create, Cookie!StoreCreate, Cookie!Exists
  <2> HIDE DEF rec
  <2>3. /\ sessions' \in [SessionTokens -> Cookie!Record \cup {None}]
        /\ \A u \in SessionTokens : sessions'[u] = IF u = t THEN rec ELSE sessions[u]
    BY <1>1, <2>1, <2>2 DEF CookieTables
  <2>4. Cookie!OneReplacement'
    <3>1. \A v \in SessionTokens : cookieParent[v] # t
      BY <1>1, <2>2 DEF CookieTables, Cookie!OneReplacement, Cookie!Exists
    <3>2. cookieParent[t] \notin SessionTokens
      BY <1>1, <2>2 DEF CookieTables, Cookie!OneReplacement, Cookie!Exists
    <3> QED
      BY <1>1, <2>2, <2>3, <3>1, <3>2 DEF CookieTables, Cookie!OneReplacement, Cookie!Exists
  <2>5. CookieTables'
    BY <1>1, <2>2, <2>3, <2>4 DEF CookieTables
  <2> QED BY <2>2, <2>3, <2>5, CookieOneRow
<1>3. ASSUME NEW rec, sessions[t] \in Cookie!Record, rec \in Cookie!Record,
             rec.subject = sessions[t].subject, sessions[t].revoked => rec.revoked,
             sessions' = [sessions EXCEPT ![t] = rec], cookieHolder[t] = None,
             UNCHANGED <<now, cookieHolder, cookieTx, cookieParent>>
      PROVE  CookieInv'
  <2>1. rec # None /\ sessions[t] # None
    BY <1>3, NoRowAssumption
  <2>2. /\ sessions' \in [SessionTokens -> Cookie!Record \cup {None}]
        /\ \A u \in SessionTokens : sessions'[u] = IF u = t THEN rec ELSE sessions[u]
    BY <1>1, <1>3 DEF CookieTables
  <2>3. CookieTables'
    BY <1>1, <1>3, <2>1, <2>2, CookieRowsChanged
  <2> QED BY <1>3, <2>1, <2>2, <2>3, CookieOneRow
<1>4. ASSUME NEW at \in Cookie!Times, Cookie!Extend(t, at) PROVE CookieInv'
  <2> DEFINE expires == Cookie!ExtendedExpiry(sessions[t], at)
             rec == [sessions[t] EXCEPT !.last = at, !.expires = expires]
  <2>1. sessions[t] \in Cookie!Record
    BY <1>1, <1>4
    DEF CookieTables, Cookie!Extend, Cookie!StoreExtend, Cookie!Extendable, Cookie!Exists
  <2>2. expires \in Nat /\ at \in Nat
    BY <2>1, PostgresAssumption
    DEF Cookie!ExtendedExpiry, Cookie!Earlier, Cookie!Record, Cookie!Times
  <2>3. /\ sessions' = [sessions EXCEPT ![t].last = at, ![t].expires = expires]
        /\ cookieHolder[t] = None /\ UNCHANGED <<now, cookieHolder, cookieTx, cookieParent>>
    BY <1>4 DEF Cookie!Extend, Cookie!StoreExtend
  <2> HIDE DEF expires
  <2>4. sessions' = [sessions EXCEPT ![t] = rec]
    BY <1>1, <2>3 DEF CookieTables
  <2>5. /\ rec \in Cookie!Record /\ rec.subject = sessions[t].subject
        /\ rec.revoked = sessions[t].revoked
    BY <2>1, <2>2 DEF Cookie!Record
  <2> HIDE DEF rec
  <2> QED BY <1>3, <2>1, <2>3, <2>4, <2>5
<1>5. CASE Cookie!Revoke(t)
  <2> DEFINE rec == [sessions[t] EXCEPT !.revoked = TRUE]
  <2>1. sessions[t] \in Cookie!Record
    BY <1>1, <1>5 DEF CookieTables, Cookie!Revoke, Cookie!StoreRevoke, Cookie!Exists
  <2>2. /\ sessions' = [sessions EXCEPT ![t] = rec]
        /\ cookieHolder[t] = None /\ UNCHANGED <<now, cookieHolder, cookieTx, cookieParent>>
    BY <1>1, <1>5 DEF CookieTables, Cookie!Revoke, Cookie!StoreRevoke, Cookie!Revoked
  <2>3. rec \in Cookie!Record /\ rec.subject = sessions[t].subject /\ rec.revoked
    BY <2>1 DEF Cookie!Record
  <2> HIDE DEF rec
  <2> QED BY <1>3, <2>1, <2>2, <2>3
<1> QED BY <1>2, <1>4, <1>5

\* A step of the other groups.
LEMMA CookieStutter == CookieInv /\ UNCHANGED cookieVars => CookieInv'
BY DEF cookieVars, CookieInv, CookieReliance, Cookie!Consistent, Cookie!TypeOK,
       Cookie!LocksReleased, Cookie!Free, Cookie!OneReplacement, Cookie!Exists

\* The passing of time.
LEMMA CookieTick == CookieInv /\ Cookie!Tick => CookieInv'
<1> SUFFICES ASSUME CookieInv, Cookie!Tick PROVE CookieInv'
  OBVIOUS
<1>1. now' \in Cookie!Times /\ UNCHANGED <<sessions, cookieHolder, cookieTx, cookieParent>>
  BY PostgresAssumption DEF Cookie!Tick, Cookie!Times, CookieInv, Cookie!Consistent, Cookie!TypeOK
<1> QED
  BY <1>1 DEF CookieInv, CookieReliance, Cookie!Consistent, Cookie!TypeOK,
              Cookie!LocksReleased, Cookie!Free, Cookie!OneReplacement, Cookie!Exists

\* Every step of every transaction.
LEMMA CookieNext == CookieInv /\ Cookie!Next => CookieInv'
<1> SUFFICES ASSUME CookieInv, Cookie!Next PROVE CookieInv'
  OBVIOUS
<1>1. ASSUME NEW x \in Txs, Cookie!Step(x) PROVE CookieInv'
  BY <1>1, CookieStatement, CookieCommitRotation, CookieCommitRevokeAll, CookieRolledBack
  DEF Cookie!Step, Cookie!DeadlockAbort
<1>2. ASSUME NEW x \in Txs, Cookie!Fail(x) PROVE CookieInv'
  BY <1>2, CookieRolledBack DEF Cookie!Fail
<1> QED BY <1>1, <1>2, CookieBegin, CookieSingle, CookieTick DEF Cookie!Next

\* The empty table.
LEMMA CookieInit == Cookie!Init => CookieInv
<1> SUFFICES ASSUME Cookie!Init PROVE CookieInv
  OBVIOUS
<1>1. Cookie!TypeOK
  BY CookieIdle, PostgresAssumption
  DEF Cookie!Init, Cookie!StoreInit, Cookie!TypeOK, Cookie!Times
<1>2. Cookie!LocksReleased /\ Cookie!OneReplacement
  BY PostgresAssumption DEF Cookie!Init, Cookie!LocksReleased, Cookie!OneReplacement
<1>3. CookieReliance
  BY CookieIdle DEF Cookie!Init, CookieReliance, CookieRelies
<1> QED BY <1>1, <1>2, <1>3 DEF CookieInv, Cookie!Consistent

\* The session table, locks and transactions of every reachable state.
THEOREM CookieInvariant == Spec => []CookieInv
<1>1. Init => CookieInv
  BY CookieInit DEF Init
<1>2. CookieInv /\ [Next]_vars => CookieInv'
  BY CookieNext, CookieStutter DEF Next, vars
<1> QED BY <1>1, <1>2, PTL DEF Spec

\* Rows, locks and transactions of all three groups are consistent between any two
\* statements: Consistent.
THEOREM AlwaysConsistent == Spec => []Consistent
<1>1. CookieInv /\ BearerInv /\ GoogleInv => Consistent
  BY GoogleConsistent DEF CookieInv, BearerInv, Consistent, Bearer!Consistent
<1> QED BY <1>1, CookieInvariant, BearerInvariant, GoogleInvariant, PTL

\* While transactions of the cookie store run, one of them is not blocked or is among
\* those that the server may abort.
CookieGoesOn ==
    (\E x \in Txs : ~Cookie!Free(x)) =>
        \E x \in Txs : ~Cookie!Free(x) /\ (~Cookie!Blocked(x) \/ x \in Cookie!Deadlocked)

\* Nor does the cookie store leave a row with a transaction that is over.
THEOREM NoCookieStandstill == Spec => []CookieGoesOn
<1>1. CookieInv => CookieGoesOn
  <2> SUFFICES ASSUME CookieInv, NEW y \in Txs, ~Cookie!Free(y),
                      \A x \in Txs : ~Cookie!Free(x) => Cookie!Blocked(x)
               PROVE  \E x \in Txs : ~Cookie!Free(x) /\ x \in Cookie!Deadlocked
    BY DEF CookieGoesOn
  <2> DEFINE D == {x \in Txs : ~Cookie!Free(x)}
  <2>1. ASSUME NEW x \in D, NEW t \in Cookie!Wanted(x) PROVE cookieHolder[t] \in D
    <3>1. /\ x \in Txs /\ Cookie!Blocked(x) /\ cookieTx[x] \in Cookie!Transaction
          /\ CookieRelies(x, cookieTx[x], sessions, cookieHolder)
      BY <2>1, CookieParts DEF CookieReliance
    <3>2. cookieHolder[t] # None
      BY <2>1, <3>1 DEF Cookie!Blocked, Cookie!Available
    <3>3. t \in SessionTokens
      <4>1. cookieTx[x].pc \in {"lock", "insert", "commit"} =>
               cookieTx[x].tok \in SessionTokens /\ cookieTx[x].rec.hash \in SessionTokens
        BY <3>1 DEF CookieRelies, Cookie!Record
      <4>2. cookieTx[x].todo \subseteq SessionTokens
        BY <3>1 DEF Cookie!Transaction
      <4> QED BY <2>1, <4>1, <4>2 DEF Cookie!Wanted
    <3> QED BY <3>2, <3>3, CookieParts DEF Cookie!LocksReleased
  <2>2. y \in D /\ D \in SUBSET Txs
    OBVIOUS
  <2>3. y \in Cookie!Deadlocked
    BY <2>1, <2>2 DEF Cookie!Deadlocked
  <2> QED BY <2>3
<1> QED BY <1>1, CookieInvariant, PTL

=============================================================================
