---------------------------- MODULE RedisAdapter ----------------------------
(***************************************************************************)
(* The Redis adapter as a whole: its account stores, its cookie sessions,  *)
(* its bearer sessions, and the stores of second factors and federated     *)
(* sign-ins in one database.  The groups of stores use keys of their own   *)
(* under the prefix of the application, so an EXEC of one group never      *)
(* spoils a transaction of another, and a step of the adapter is a step of *)
(* one group.                                                              *)
(***************************************************************************)
EXTENDS RedisAccounts

CONSTANTS
    SessionTokens,     \* hashes of cookie session tokens
    Tokens,            \* hashes of refresh tokens
    SessionIDs,        \* bearer sessions
    Lifetime, Extension, AbsoluteLifetime,   \* of cookie sessions
    RefreshLifetime,
    Secrets, RecoveryCodes, Challenges, ChallengeLifetime, EnrollmentLifetime,  \* of TOTP
    States,            \* hashes of the states of federated sign-ins
    MaxTime            \* bound: the last instant of a modelled run

VARIABLES
    sessions, cookieNow, index, cookieReq,
    access, refresh, bearerNow, bySubject, bySession, bearerReq,
    fields, totpNow, totpReq

Cookie == INSTANCE RedisSessions
            WITH Tokens <- SessionTokens, Subjects <- Users, NoRecord <- None,
                 now <- cookieNow, req <- cookieReq

Bearer == INSTANCE RedisBearer
            WITH Subjects <- Users, now <- bearerNow, req <- bearerReq

Totp == INSTANCE RedisTotp
          WITH Subjects <- Users, now <- totpNow, req <- totpReq

ASSUME LifetimesAssumption ==
    /\ Lifetime \in Nat \ {0} /\ AbsoluteLifetime \in Nat /\ AbsoluteLifetime > Lifetime
    /\ Extension \in BOOLEAN
    /\ RefreshLifetime \in Nat
    /\ ChallengeLifetime \in Nat /\ EnrollmentLifetime \in Nat
    /\ MaxTime \in Nat

ASSUME NoRowAssumption ==
    None \notin Cookie!Record \cup Bearer!AccessSession \cup Bearer!RefreshToken

ASSUME NoFieldAssumption ==
    /\ \A key \in {"totp-enrollments", "totp-credentials", "totp-recovery-codes",
                   "totp-challenges"} \cup Totp!FlowHashes : None \notin Totp!Values(key)
    /\ \A k \in RecoveryCodes : None # {k}

cookieVars == <<sessions, cookieNow, index, cookieReq>>
bearerVars == <<access, refresh, bearerNow, bySubject, bySession, bearerReq>>
totpVars == <<fields, totpNow, totpReq>>

AdapterInit == Init /\ Cookie!Init /\ Bearer!Init /\ Totp!Init

\* Bound: one group at a time leaves its initial state.  The groups share no variable
\* and each property below is about one of them, so no step is missed.
AdapterNext ==
    \/ /\ Cookie!Init /\ Bearer!Init /\ Totp!Init
       /\ Next /\ UNCHANGED <<cookieVars, bearerVars, totpVars>>
    \/ /\ Init /\ Bearer!Init /\ Totp!Init
       /\ Cookie!Next /\ UNCHANGED <<vars, bearerVars, totpVars>>
    \/ /\ Init /\ Cookie!Init /\ Totp!Init
       /\ Bearer!Next /\ UNCHANGED <<vars, cookieVars, totpVars>>
    \/ /\ Init /\ Cookie!Init /\ Bearer!Init
       /\ Totp!Next /\ UNCHANGED <<vars, cookieVars, bearerVars>>

AdapterSpec == AdapterInit /\ [][AdapterNext]_<<vars, cookieVars, bearerVars, totpVars>>

-----------------------------------------------------------------------------
\* Every hash, set and call of the groups keeps its shape, within the attempts of
\* Adapter.watch.
AdapterTypeOK == TypeOK /\ Cookie!TypeOK /\ Bearer!TypeOK /\ Totp!TypeOK

\* What holds of the accounts together, whichever calls race: a way to sign in, one Google
\* identity, sets and lookup hashes that agree with the records, and no recovery codes of a
\* second factor that is disabled.
AdapterConsistent ==
    /\ AdapterTypeOK
    /\ NeverLockedOut /\ OneIdentityPerUser /\ IndexesAgree
    /\ Totp!RecoverySound

\* Whatever an EXEC writes is still what the method would decide from the state it writes
\* to: the keys watched cover the keys read.
AdapterDecisionsStillHold == DecisionsStillHold /\ Totp!DecisionsStillHold

\* The two groups of sessions implement what their managers are promised: each method takes
\* effect in one step, on the state it then finds.
StoresSpec == Cookie!StoreSpec /\ Bearer!StoreSpec

\* When RevokeAll, a sign-out or the detection of a reused token answers, every session it
\* is about is revoked with all its tokens, those included that were created or rotated in
\* while it was collecting them.
RevokedBeforeAnswer == Cookie!RevokeAllComplete /\ Bearer!RevokedBeforeAnswer

\* What the managers of sessions rely on, together: their stores change as the abstract ones
\* do, and a revocation that has been answered is complete.
PromisesKept == StoresSpec /\ RevokedBeforeAnswer

=============================================================================
