-------------------------- MODULE MySQLTransactions --------------------------
(***************************************************************************)
(* How the MySQL adapter's methods run on InnoDB, at the default level     *)
(* REPEATABLE READ.                                                        *)
(*                                                                         *)
(* A method begins with its SELECT ... FOR UPDATE, if it has one: it locks *)
(* the rows it finds, and the gap where it finds none.  A gap may be       *)
(* locked by several, but only others are kept from inserting into it.     *)
(* The plain SELECTs that follow read a snapshot that is taken after the   *)
(* locks, and the method decides.  Its INSERT, UPDATE and DELETE           *)
(* statements then work on the latest rows, wait for the locks of other    *)
(* transactions, and the commit releases its own.  A method of such        *)
(* statements alone holds every lock it takes until it commits, and is one *)
(* step.                                                                   *)
(*                                                                         *)
(* A row is named by its table and key, an entry of another index by the   *)
(* index and the value.                                                    *)
(***************************************************************************)
EXTENDS Integers

CONSTANTS
    Requests,
    Users,
    Subjects,  \* the users with sessions and second factors; their stores look at no account
    MaxTime,   \* bound: the last instant of a modelled run
    None

VARIABLES
    rows,   \* the committed rows that exist
    req,
    now

\* Functions of few arguments, as the module TLC has them; the provers expand these.
d :> e == [x \in {d} |-> e]

f @@ g == [x \in DOMAIN f \cup DOMAIN g |-> IF x \in DOMAIN f THEN f[x] ELSE g[x]]

Exists(d) == d \in DOMAIN rows

Row(d) == IF Exists(d) THEN rows[d] ELSE None

\* The statements that write: rows to insert, and rows to update, replace or, with None,
\* delete.
Statements(insert, update) == [insert |-> insert, update |-> update]

\* A method: what it locks, what it decides, and what it writes for each answer that is
\* not a refusal.
Method(locks, answer, statements) ==
    [locks |-> locks, answer |-> answer, write |-> [ok |-> statements]]

Erased(D) == [d \in D |-> None]

\* Of the call that runs: its locks, its answer, and the sessions that RevokeAll will
\* return.
Idle == [call |-> None, held |-> {}, answer |-> None, found |-> {}]

Free(r) == req[r].call = None

Open(r) == ~Free(r) /\ req[r].answer = None

Decided(r) == ~Free(r) /\ req[r].answer # None

Call(r, call) ==
    /\ Free(r)
    /\ req' = [req EXCEPT ![r] = [Idle EXCEPT !.call = call]]
    /\ UNCHANGED <<rows, now>>

\* A row that is there is locked by one transaction, a gap by any number.
Lockable(r, locks) ==
    \A x \in Requests \ {r} : \A d \in locks \cap req[x].held : ~Exists(d)

\* What an INSERT waits for besides its own key: the range of the subject's index it goes
\* into, or, for a foreign key, the parent row.
Guard(d, value) ==
    CASE d[1] = "sessions" -> <<"sessions.subject", value.subject>>
      [] d[1] \in {"password_credentials", "email_verifications", "password_resets"} ->
            <<"users", d[2]>>
      [] d[1] \in {"google_identities", "passkey_credentials"} -> <<"users", value>>
      [] OTHER -> d

All(s) == s.insert @@ s.update

Touched(s) ==
    LET all == All(s) IN
    DOMAIN all \cup {Guard(d, all[d]) : d \in {e \in DOMAIN all : ~Exists(e) /\ all[e] # None}}

Writable(r, s) == \A x \in Requests \ {r} : req[x].held \cap Touched(s) = {}

\* A key that exists, in the table or in a unique index, refuses the INSERT and with it
\* the transaction.
Duplicate(s) == \E d \in DOMAIN s.insert : Exists(d)

Written(s) ==
    LET all == All(s) IN
    [d \in {e \in DOMAIN rows \cup DOMAIN all : e \in DOMAIN all => all[e] # None} |->
        IF d \in DOMAIN all THEN all[d] ELSE rows[d]]

\* The statements run and the transaction is committed or, at a duplicate, rolled back.
Effect(r, s) ==
    /\ Writable(r, s)
    /\ rows' = IF Duplicate(s) THEN rows ELSE Written(s)
    /\ req' = [req EXCEPT ![r] = Idle]
    /\ UNCHANGED now

\* A method refuses: the deferred Rollback.
Refused(r, m) ==
    /\ m.answer \notin DOMAIN m.write
    /\ req' = [req EXCEPT ![r] = Idle]
    /\ UNCHANGED <<rows, now>>

\* A method without a locking read.
Put(r, m) ==
    /\ Open(r)
    /\ \/ Refused(r, m)
       \/ m.answer \in DOMAIN m.write /\ Effect(r, m.write[m.answer])

\* The locking reads, and the decision.
Begin(r, m, found) ==
    /\ Open(r)
    /\ Lockable(r, m.locks)
    /\ \/ Refused(r, m)
       \/ /\ m.answer \in DOMAIN m.write
          /\ req' = [req EXCEPT ![r].held = m.locks, ![r].answer = m.answer, ![r].found = found]
          /\ UNCHANGED <<rows, now>>

\* The statements that follow from the decision, on the rows as they are now.
Commit(r, m) == Decided(r) /\ Effect(r, m.write[req[r].answer])

\* A statement fails, the context is cancelled, InnoDB chooses the transaction to end a
\* deadlock, or a token or ceremony has expired: the deferred Rollback.
Fail(r) ==
    /\ ~Free(r)
    /\ req' = [req EXCEPT ![r] = Idle]
    /\ UNCHANGED <<rows, now>>

Tick == now < MaxTime /\ now' = now + 1 /\ UNCHANGED <<rows, req>>

=============================================================================
