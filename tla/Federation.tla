----------------------------- MODULE Federation -----------------------------
(***************************************************************************)
(* Redirect flows to an identity provider: oidc.Manager, saml.Manager,     *)
(* googleoauth.Manager, their stores and their handlers, from the request  *)
(* for an authorization URL to the identity that is handed to the account  *)
(* layer.                                                                  *)
(*                                                                         *)
(* The three packages run the same protocol.  The nonce stands for what    *)
(* ties a provider's answer to one flow: the OIDC nonce, the SAML request  *)
(* identifier.  Providers, browsers and the application's ConnectionSource *)
(* are external: a provider may answer a flow more than once, a browser    *)
(* may bring any answer back with any state, again and again, and the      *)
(* application may change a connection at any time.                        *)
(***************************************************************************)
EXTENDS Integers

CONSTANTS
    Redirects,         \* requests of the routes that begin a flow, and callbacks
    States,            \* state hashes
    Nonces,            \* nonces and request identifiers, drawn once each
    OIDC, SAML,        \* connection identifiers
    Google,            \* the one Google client of the process
    Configurations,    \* contents of a connection
    RequiringEmail,    \* those with RequireVerifiedEmail, or RequireEmail
    CertificateTimes,  \* when the certificate of the SAML connections is valid
    Lifetime,          \* of a challenge or a SAML request
    MaxFlowTime,       \* bound: the last instant of a modelled run
    Absent             \* no row, connection or answer

ASSUME FederationAssumption ==
    /\ RequiringEmail \subseteq Configurations
    /\ CertificateTimes \subseteq Nat
    /\ Lifetime \in Nat \ {0} /\ MaxFlowTime \in Nat
    /\ Google \notin OIDC \cup SAML /\ OIDC \cap SAML = {}
    /\ Absent \notin States \cup Nonces \cup Configurations \cup OIDC \cup SAML \cup {Google}

VARIABLES
    flowNow,
    connections,  \* what the ConnectionSource answers
    challenges,   \* authlier_oidc_challenges, _saml_requests and _google_challenges
    flows,        \* history: what each nonce was drawn for
    answers,      \* the providers' answers
    accepted,     \* history: the identities handed to the account layer
    redirect      \* the requests

flowVars == <<flowNow, connections, challenges, flows, answers, accepted, redirect>>

Connections == OIDC \cup SAML \cup {Google}

Times == 0..MaxFlowTime

Flow == [conn: Connections, config: Configurations, expires: Nat]

Challenge == [nonce: Nonces, conn: Connections, config: Configurations, expires: Nat]

\* email: the identity has an address, one the provider verified where that is asked for.
ProviderAnswer == [nonce: Nonces, email: BOOLEAN]

Identity == [nonce: Nonces, answer: ProviderAnswer, config: Configurations, at: Times]

ASSUME NoFlowRowAssumption == Absent \notin Flow \cup Challenge \cup ProviderAnswer

ChallengeAttempts == 3

Consumed == {"lookup", "exchange"}

Redirect == [pc: {"idle", "create"} \cup Consumed, conn: Connections \cup {Absent},
             config: Configurations \cup {Absent}, tries: 0..(ChallengeAttempts - 1),
             challenge: Challenge \cup {Absent}, answer: ProviderAnswer \cup {Absent}, at: Times]

IdleRedirect == [pc |-> "idle", conn |-> Absent, config |-> Absent, tries |-> 0,
                 challenge |-> Absent, answer |-> Absent, at |-> 0]

FreeRedirect(r) == redirect[r].pc = "idle"

Return(r) == redirect' = [redirect EXCEPT ![r] = IdleRedirect]

\* findConnection; a SAML connection must also have a certificate that is valid now.
FoundConnection(c) ==
    /\ connections[c] # Absent
    /\ c \in SAML => flowNow \in CertificateTimes

-----------------------------------------------------------------------------
(***************************************************************************)
(* Beginning a flow.                                                       *)
(***************************************************************************)

\* The connection is read once, before the first attempt to store the challenge.
BeginFlow(r, c) ==
    /\ FreeRedirect(r)
    /\ FoundConnection(c)
    /\ redirect' = [redirect EXCEPT ![r] = [IdleRedirect EXCEPT !.pc = "create", !.conn = c,
                                                                !.config = connections[c]]]
    /\ UNCHANGED <<flowNow, connections, challenges, flows, answers, accepted>>

\* googleoauth.Begin does not retry.
AttemptsOf(c) == IF c = Google THEN 1 ELSE ChallengeAttempts

RedrawState(r) ==
    IF redirect[r].tries + 1 < AttemptsOf(redirect[r].conn)
      THEN redirect' = [redirect EXCEPT ![r].tries = @ + 1]
      ELSE Return(r)

\* A fresh state and nonce; a state hash in use is ErrConflict.
CreateChallenge(r, s, n) ==
    LET q == redirect[r] IN
    /\ q.pc = "create"
    /\ flows[n] = Absent
    /\ IF challenges[s] = Absent
         THEN /\ challenges' = [challenges EXCEPT ![s] =
                    [nonce |-> n, conn |-> q.conn, config |-> q.config,
                     expires |-> flowNow + Lifetime]]
              /\ flows' = [flows EXCEPT ![n] =
                    [conn |-> q.conn, config |-> q.config, expires |-> flowNow + Lifetime]]
              /\ Return(r)
         ELSE RedrawState(r) /\ UNCHANGED <<challenges, flows>>
    /\ UNCHANGED <<flowNow, connections, answers, accepted>>

-----------------------------------------------------------------------------
(***************************************************************************)
(* The provider answers and the browser returns.                           *)
(***************************************************************************)

Authenticate(n, email) ==
    /\ flows[n] # Absent
    /\ answers' = answers \cup {[nonce |-> n, email |-> email]}
    /\ UNCHANGED <<flowNow, connections, challenges, flows, accepted, redirect>>

\* Slip: the challenge is read, to be deleted once the flow has completed.
TakenLeaving(s) == challenges

\* DELETE ... RETURNING: the row is gone whatever becomes of the callback.
Taken(s) == [challenges EXCEPT ![s] = Absent]

\* ConsumeChallenge and validChallenge: an expired one is consumed and refused.
InTime(c) == flowNow < c.expires

ConsumeChallenge(r, s, answer) ==
    /\ FreeRedirect(r)
    /\ challenges[s] # Absent
    /\ challenges' = Taken(s)
    /\ IF InTime(challenges[s])
         THEN redirect' = [redirect EXCEPT ![r] = [IdleRedirect EXCEPT
                  !.pc = IF challenges[s].conn = Google THEN "exchange" ELSE "lookup",
                  !.config = IF challenges[s].conn = Google THEN challenges[s].config ELSE Absent,
                  !.challenge = challenges[s], !.answer = answer, !.at = flowNow]]
         ELSE UNCHANGED redirect
    /\ UNCHANGED <<flowNow, connections, flows, answers, accepted>>

\* Slip: the connection is looked up by its identifier alone.
MatchesById(challenge) == FoundConnection(challenge.conn)

\* challengeMatchesConnection; the SAML manager compares hashes of the connection.
Matches(challenge) ==
    /\ FoundConnection(challenge.conn)
    /\ connections[challenge.conn] = challenge.config

\* The connection is looked up again; it must be the one the flow began with.
LookupConnection(r) ==
    LET q == redirect[r] IN
    /\ q.pc = "lookup"
    /\ IF Matches(q.challenge)
         THEN redirect' = [redirect EXCEPT ![r].pc = "exchange",
                                           ![r].config = connections[q.challenge.conn]]
         ELSE Return(r)
    /\ UNCHANGED <<flowNow, connections, challenges, flows, answers, accepted>>

\* Slip: the nonce is not compared.
AcceptableUnbound(q) ==
    q.challenge.conn = Google \/ q.config \in RequiringEmail => q.answer.email

\* The identity the provider returned answers this flow and has the address asked for.
Acceptable(q) ==
    /\ q.answer.nonce = q.challenge.nonce
    /\ q.challenge.conn = Google \/ q.config \in RequiringEmail => q.answer.email

\* Exchange of the code, or verification of the SAML response, and what Complete
\* checks of the result.
Exchange(r) ==
    LET q == redirect[r] IN
    /\ q.pc = "exchange"
    /\ IF Acceptable(q)
         THEN accepted' = accepted \cup
                  {[nonce |-> q.challenge.nonce, answer |-> q.answer, config |-> q.config,
                    at |-> q.at]}
         ELSE UNCHANGED accepted
    /\ Return(r)
    /\ UNCHANGED <<flowNow, connections, challenges, flows, answers>>

-----------------------------------------------------------------------------
(***************************************************************************)
(* Failures and the environment.                                           *)
(***************************************************************************)

\* The attempt guard, the provider, a store call or the account layer fails.
FailFlow(r) ==
    /\ ~FreeRedirect(r)
    /\ Return(r)
    /\ UNCHANGED <<flowNow, connections, challenges, flows, answers, accepted>>

\* The application changes, removes or restores an OIDC or SAML connection.
Reconfigure(c, config) ==
    /\ c # Google
    /\ connections' = [connections EXCEPT ![c] = config]
    /\ UNCHANGED <<flowNow, challenges, flows, answers, accepted, redirect>>

FlowTick ==
    /\ flowNow < MaxFlowTime
    /\ flowNow' = flowNow + 1
    /\ UNCHANGED <<connections, challenges, flows, answers, accepted, redirect>>

FlowInit ==
    /\ flowNow = 0
    /\ connections \in [Connections -> Configurations]
    /\ challenges = [s \in States |-> Absent]
    /\ flows = [n \in Nonces |-> Absent]
    /\ answers = {} /\ accepted = {}
    /\ redirect = [r \in Redirects |-> IdleRedirect]

FlowNext ==
    \/ FlowTick
    \/ \E c \in Connections, config \in Configurations \cup {Absent} : Reconfigure(c, config)
    \/ \E n \in Nonces, email \in BOOLEAN : Authenticate(n, email)
    \/ \E r \in Redirects :
          \/ \E c \in Connections : BeginFlow(r, c)
          \/ \E s \in States, n \in Nonces : CreateChallenge(r, s, n)
          \/ \E s \in States, answer \in answers : ConsumeChallenge(r, s, answer)
          \/ LookupConnection(r) \/ Exchange(r) \/ FailFlow(r)

FlowSpec == FlowInit /\ [][FlowNext]_flowVars

-----------------------------------------------------------------------------
\* Every table, history and request keeps its shape: a Begin makes as many attempts
\* as its package allows.
FlowTypeOK ==
    /\ flowNow \in Times
    /\ connections \in [Connections -> Configurations \cup {Absent}]
    /\ challenges \in [States -> Challenge \cup {Absent}]
    /\ flows \in [Nonces -> Flow \cup {Absent}]
    /\ answers \subseteq ProviderAnswer
    /\ accepted \subseteq Identity
    /\ redirect \in [Redirects -> Redirect]
    /\ \A r \in Redirects :
          redirect[r].pc = "create" => redirect[r].tries < AttemptsOf(redirect[r].conn)

Stored == {s \in States : challenges[s] # Absent}

Serving == {r \in Redirects : redirect[r].pc \in Consumed}

\* A flow is waiting, or one callback serves it, or it has been accepted once: a
\* duplicated or concurrent callback and a callback after a failed exchange find
\* nothing to consume.
FlowConsumedOnce ==
    /\ \A s \in Stored : \A r \in Serving : challenges[s].nonce # redirect[r].challenge.nonce
    /\ \A r1, r2 \in Serving :
          redirect[r1].challenge.nonce = redirect[r2].challenge.nonce => r1 = r2
    /\ \A i \in accepted :
          /\ \A s \in Stored : challenges[s].nonce # i.nonce
          /\ \A r \in Serving : redirect[r].challenge.nonce # i.nonce
          /\ \A j \in accepted : i.nonce = j.nonce => i = j

\* A user who has authenticated for a flow is signed in once: of all the answers the
\* provider gives to it, one is accepted, and the flow is then neither waiting nor being
\* served, with whatever states browsers bring the answers back, crossed between two
\* flows, again, later or at the same time.
AnswerSpent ==
    \A i \in accepted :
        /\ \A j \in accepted : i.answer.nonce = j.answer.nonce => i = j
        /\ \A s \in Stored : challenges[s].nonce # i.answer.nonce
        /\ \A r \in Serving : redirect[r].challenge.nonce # i.answer.nonce

\* An identity is accepted under the configuration its flow began with, although the
\* connection may be changed, removed and restored while the user is at the provider.
ConfigurationKept == \A i \in accepted : i.config = flows[i.nonce].config

\* A flow that began under a configuration that asks for an address, and every Google
\* flow, yields an identity with one.
AddressRequired ==
    \A i \in accepted :
        flows[i.nonce].conn = Google \/ flows[i.nonce].config \in RequiringEmail
        => i.answer.email

\* No flow is completed from its expiry on.
ConsumedInTime == \A i \in accepted : i.at < flows[i.nonce].expires

\* What holds of waiting, served and accepted flows together.
FlowsConsistent == FlowTypeOK /\ FlowConsumedOnce /\ ConsumedInTime

\* An identity is accepted under the terms its flow began with.
TermsKept == ConfigurationKept /\ AddressRequired
=============================================================================
