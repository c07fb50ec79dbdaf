--------------------------- MODULE PostgresAdapter ---------------------------
(***************************************************************************)
(* The PostgreSQL adapter's stores of cookie sessions, bearer sessions and *)
(* Google identities in one database.  The groups use tables of their own, *)
(* so that no transaction of one waits for a row of another, and a step of *)
(* the adapter is a step of one group.                                     *)
(***************************************************************************)
EXTENDS Integers

CONSTANTS
    Txs,               \* connections with a transaction of a session store
    Requests,          \* requests with a transaction of GoogleStore
    SessionTokens,     \* hashes of cookie session tokens
    SessionSubjects,
    Tokens,            \* hashes of refresh tokens
    SessionIDs,        \* bearer sessions
    Emails, Subjects,  \* addresses, and Google subjects
    Lifetime, Extension, AbsoluteLifetime,   \* of cookie sessions
    MaxTime,           \* bound: the last instant of a modelled run
    None

ASSUME PostgresAssumption ==
    /\ SessionIDs \cap Tokens = {}
    /\ None \notin SessionIDs \cup Tokens \cup Txs
    /\ None \notin Emails \cup Subjects \cup Requests
    /\ None \notin SessionTokens \cup SessionSubjects
    /\ Lifetime \in Nat \ {0} /\ Extension \in BOOLEAN
    /\ AbsoluteLifetime \in Nat /\ AbsoluteLifetime > Lifetime
    /\ MaxTime \in Nat

VARIABLES
    sessions, now, cookieHolder, cookieTx, cookieParent,
    access, refresh, expired, holder, tx, parent,
    users, passwords, identity, lock, req

Cookie == INSTANCE PostgresSessions
            WITH Tokens <- SessionTokens, Subjects <- SessionSubjects, NoRecord <- None,
                 holder <- cookieHolder, tx <- cookieTx, parent <- cookieParent

Bearer == INSTANCE PostgresBearer

Google == INSTANCE GoogleIdentities

ASSUME NoRowAssumption == None \notin Bearer!RefreshToken /\ None \notin Cookie!Record

cookieVars == <<sessions, now, cookieHolder, cookieTx, cookieParent>>
bearerVars == <<access, refresh, expired, holder, tx, parent>>
googleVars == <<users, passwords, identity, lock, req>>
vars == <<cookieVars, bearerVars, googleVars>>

Init == Cookie!Init /\ Bearer!Init /\ Google!Init

\* Bound: one group at a time leaves its initial state.  The groups share no variable
\* and each property below is about one of them, so no step is missed.
Next ==
    \/ Bearer!Init /\ Google!Init /\ Cookie!Next /\ UNCHANGED <<bearerVars, googleVars>>
    \/ Cookie!Init /\ Google!Init /\ Bearer!Next /\ UNCHANGED <<cookieVars, googleVars>>
    \/ Cookie!Init /\ Bearer!Init /\ Google!Next /\ UNCHANGED <<cookieVars, bearerVars>>

Spec == Init /\ [][Next]_vars

\* The server runs every statement it has accepted, unless a lock keeps it waiting, and
\* serves the requests that wait for a lock in turn.
FairSpec ==
    /\ Spec
    /\ \A r \in Requests : SF_googleVars(Google!Step(r))

-----------------------------------------------------------------------------
\* What holds of rows, locks and transactions between any two statements: one replacement
\* of a rotated session, one unspent token of a bearer session, a token spent exactly when
\* it has one committed replacement, one Google identity of an account and no account
\* without a way to sign in, and no lock that outlives its transaction.
Consistent ==
    Cookie!Consistent /\ Bearer!Consistent /\ Bearer!RotationAtomic /\ Google!Consistent

\* While transactions on sessions run, one of them can go on, whatever rows they hold and
\* in whatever order they locked them.
SomeoneProceeds == Cookie!SomeoneProceeds /\ Bearer!SomeoneProceeds

\* RevokeAll of bearer sessions, a sign-out and the detection of a reused token have
\* revoked every session they are about when they answer.
RevokedBeforeAnswer == Bearer!RevokedBeforeAnswer

\* A Google sign-in is never attached to an account that exists: an identity appears only
\* with a new account or in a link that the account's own session began.
SignInNeverLinks == Google!SignInNeverLinks

\* No transaction waits for a lock for ever.  Those of GoogleStore all end, committed or not;
\* those on sessions never all come to a stop.
TransactionsProceed == Google!TransactionsEnd /\ []SomeoneProceeds

\* "RevokeAll durably invalidates every session for a subject" (sessiontoken.go).
RevokeAllComplete == Cookie!RevokeAllComplete

=============================================================================
