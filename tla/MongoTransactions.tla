-------------------------- MODULE MongoTransactions --------------------------
(***************************************************************************)
(* How the MongoDB adapter writes.  A method is either one write of one    *)
(* document, which is atomic, or a closure that Adapter.transaction hands  *)
(* to WithTransaction.                                                     *)
(*                                                                         *)
(* A closure reads everything from one snapshot, so what it decides is a   *)
(* function of the documents at that moment; MongoDB refuses to commit it  *)
(* only if a document it WRITES was written since.  What it merely read is *)
(* not checked.  WithTransaction then runs the closure again on a new      *)
(* snapshot, until it commits, is refused by its own checks, or fails.     *)
(*                                                                         *)
(* A document is named by its collection and key.  A unique index is one   *)
(* more collection, with the indexed value as key.                         *)
(***************************************************************************)
EXTENDS Integers

CONSTANTS
    Requests,
    Users,
    Subjects,  \* the users with sessions and second factors; their stores look at no account
    MaxTime,   \* bound: the last instant of a modelled run
    None

VARIABLES
    docs,   \* the documents that exist
    req,
    now

\* Functions of few arguments, as the module TLC has them; the provers expand these.
d :> e == [x \in {d} |-> e]

f @@ g == [x \in DOMAIN f \cup DOMAIN g |-> IF x \in DOMAIN f THEN f[x] ELSE g[x]]

Exists(d) == d \in DOMAIN docs

Doc(d) == IF Exists(d) THEN docs[d] ELSE None

\* What a method does: its answer, and the documents it writes; a deleted one gets None.
Ok(write) == [answer |-> "ok", write |-> write]

Refuse(answer) == [answer |-> answer, write |-> <<>>]

Erased(D) == [d \in D |-> None]

\* call: the method and its arguments.  out: what it decided from its snapshot.
\* seen: history, the documents a revocation has to deal with.
Idle == [call |-> None, out |-> None, seen |-> {}]

Free(r) == req[r] = Idle

Open(r) == req[r].call # None /\ req[r].out = None

Prepared(r) == req[r].out # None

Call(r, call, seen) ==
    /\ Free(r)
    /\ req' = [req EXCEPT ![r] = [call |-> call, out |-> None, seen |-> seen]]
    /\ UNCHANGED <<docs, now>>

Written(write) ==
    [d \in {e \in DOMAIN docs \cup DOMAIN write : e \in DOMAIN write => write[e] # None} |->
        IF d \in DOMAIN write THEN write[d] ELSE docs[d]]

Conflicts(x, write) == Prepared(x) /\ DOMAIN req[x].out.write \cap DOMAIN write # {}

\* A document that is inserted by a write of a seen one is to be seen as well.
SeenAfter(x, write) ==
    IF req[x].seen \cap DOMAIN write = {} THEN req[x].seen
    ELSE req[x].seen \cup {d \in DOMAIN write : ~Exists(d)}

\* The write takes effect, and transactions that were about to write one of its
\* documents start over.
Effect(r, write) ==
    /\ docs' = Written(write)
    /\ req' = [x \in Requests |->
                  IF x = r THEN Idle
                  ELSE [req[x] EXCEPT !.seen = SeenAfter(x, write),
                                      !.out = IF Conflicts(x, write) THEN None ELSE @]]
    /\ UNCHANGED now

\* A single write; one that matches nothing has no effect.
Put(r, out) == Open(r) /\ Effect(r, out.write)

\* A closure runs on a snapshot.  Without a write there is nothing to commit.
Attempt(r, out) ==
    /\ Open(r)
    /\ req' = [req EXCEPT ![r] = IF out.write = <<>> THEN Idle ELSE [@ EXCEPT !.out = out]]
    /\ UNCHANGED <<docs, now>>

Commit(r) == Prepared(r) /\ Effect(r, req[r].out.write)

\* A command fails before it has an effect, WithTransaction gives up, or the closure
\* finds a token or ceremony expired.
Fail(r) ==
    /\ ~Free(r)
    /\ req' = [req EXCEPT ![r] = Idle]
    /\ UNCHANGED <<docs, now>>

Tick == now < MaxTime /\ now' = now + 1 /\ UNCHANGED <<docs, req>>

=============================================================================
