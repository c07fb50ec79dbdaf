# Authlier in TLA+

A verification project for Authlier, a Go library for authentication: TLA+
modules translated from the source, TLC configurations that check them on small
instances, and proofs checked by TLAPS. `PROJECT.json` lists components, runs,
findings, hazards and theorems, and maps every definition to the lines it
models.

Check a run with `tlc -config X.cfg MCModule` and a proof module with
`tlapm BearerSessionsProofs.tla`.

## 1. The system

An application mounts one HTTP handler. A handler calls *managers*, one per
package; a manager validates, draws tokens, reads the clock and calls a *store*;
a store is implemented by one of four adapters (PostgreSQL, MySQL, MongoDB,
Redis). Everything durable is in the store. Managers keep configuration only,
apart from the optional session cache and the discovery caches, so that any
number of servers can run beside each other, and everything that can go wrong
goes wrong between two store calls or inside one.

| Component | State | Operations | What makes it correct |
|---|---|---|---|
| Cookie sessions (`sessiontoken`) | session rows; cache entries with a TTL | Create, Resolve (cache, extension), Rotate, Revoke, RevokeByID, RevokeAll | sessions end by idle and absolute lifetime; a revoked one is not accepted; one successor per rotation |
| Bearer sessions (`token_session.go`, `refreshtoken`, `accesstoken`) | access sessions, refresh tokens, signed access tokens | Create, Refresh, Resolve, RevokeCurrent, RevokeByID, RevokeAll | a refresh token is spent once; reuse ends the session; the chain and the access tokens stay within the session |
| Accounts (`emailpassword`, `passwordreset`, `emailverification`, identity store) | user, password hash, Google identities, passkeys, mailed tokens | Register, Login with rehash, Change/Add/RemovePassword, Request/Reset, Request/Verify, link and unlink | no lock-out; no password reinstated; mailed tokens take effect once |
| Sign-in handlers | sessions of the account | all routes that issue or end sessions | answered revocations are complete; where verification is required, no password or mailed token opens a session before it |
| TOTP (`totp`) | enrollment, credential, recovery codes, challenges | BeginEnrollment, Enable, CreateChallenge, CompleteTOTP, CompleteRecovery, Disable | codes, recovery codes and challenges are used once |
| Passkeys (`passkey`) | ceremonies, credentials with counters | begin/complete registration and sign-in, delete | ceremonies spent once and in time; counters advance |
| Federation (`oidc`, `saml`, `googleoauth`) | challenges; the application's connections | Authorize, Authenticate | one use per flow and per answer, under the configuration it began with |
| Google identities | identity rows of several users | ResolveIdentity, UnlinkIdentity | one identity per user, sign-in never links |
| Adapters | the tables, row locks, watched keys | the stores' methods | each method is the atomic step its interface promises |

Interactions: handlers compose accounts with sessions (`SignIn`); TOTP and
passkey routes end in the same session issue; federation hands an identity to
Google identities; every manager depends on the atomicity of its adapter.

What is hard: a manager reads, then writes, and other requests come in between;
store calls fail with or without having taken effect; clients retry what was
already done; the cache is written after the row it copies has changed;
the four databases isolate transactions in four ways (section 2); callbacks and mailed
links arrive twice or late. `hazards` in `PROJECT.json` names each place.

## 2. The modules

| Module | Models | State and steps |
|---|---|---|
| `SessionStore` | the `sessiontoken.Store` interface | abstract: the table of sessions, one atomic action per method, `StoreSpec` |
| `CookieSessions` | `sessiontoken.Manager` | extends `SessionStore`; per request a program counter and a copied record, one step per store or cache call; the cache with expiries |
| `BearerStore` | `refreshtoken.Store` with `AccessSessionStore` | abstract: the two tables, `StoreSpec` |
| `BearerSessions` | the bearer manager and its routes | requests over the two tables; access tokens as claims; a history of who replaced whom (`parent`) |
| `PostgresSessions` | the PostgreSQL `SessionStore` | one step per statement, row locks, the snapshot of RevokeAll's UPDATE; extends `SessionStore` for rows and single-statement methods |
| `PostgresBearer` | the PostgreSQL bearer stores | one step per statement, row locks, snapshots, inserts pending until commit, deadlock aborts, failures |
| `GoogleIdentities` | the PostgreSQL `ResolveIdentity` / `UnlinkIdentity` over several users | one step per statement with row locks and unique-index entries |
| `PostgresAdapter` | the PostgreSQL adapter's three groups above | composes them; they use different tables |
| `MySQLTransactions` | InnoDB as the adapter uses it | rows, record and gap locks; a method is what it locks, decides and writes |
| `MySQLSessions`, `MySQLAccounts`, `MySQLTotp` | every method of the MySQL stores | one operator per method, and the calls |
| `MySQLAdapter` | the MySQL adapter | all of them over one set of rows |
| `MongoTransactions` | MongoDB as the adapter uses it | documents, single writes, snapshot transactions with write conflicts and retries |
| `MongoSessions`, `MongoAccounts`, `MongoTotp` | every method of the MongoDB stores | one operator per method, and the calls |
| `MongoAdapter` | the MongoDB adapter | all of them over one set of documents |
| `RedisSessions` | the Redis `SessionStore` | WATCH / read / EXEC with attempts; extends `SessionStore` |
| `RedisBearer` | the Redis bearer stores | the same, with the sets per subject and per session; extends `BearerStore` |
| `RedisAccounts` | the Redis account stores | the keys each method watches and writes; EXEC fails when a watched key was written |
| `RedisTotp` | the Redis TOTP store and the states of federated sign-ins | the same over the fields of hashes, with the set of recovery codes beside their hash |
| `RedisAdapter` | the Redis adapter with its four groups of stores | composes the four, which use different keys |
| `Accounts` | one account with everything that signs it in | managers' reads and the PostgreSQL transactions; the lock of the user's row |
| `SignIn` | the HTTP handlers | extends `Accounts` with the account's sessions and each handler's remaining stages |
| `Totp` | `totp.Manager` and its PostgreSQL store | enrollment, credential, codes as (secret, counter), challenges |
| `Passkeys` | `passkey.Manager` and its PostgreSQL store | ceremonies, credentials, assertions carrying any counter |
| `Federation` | the redirect protocol of the three packages | flows, provider answers in any order, changing connections |
| `BearerSessionsProofs`, `CookieSessionsProofs`, `SignInProofs` (of `SignIn` and `Totp`), `CeremonyProofs` (of `Passkeys` and `Federation`), `PostgresAdapterProofs`, `MySQLAdapterProofs`, `MongoAdapterProofs`, `RedisAdapterProofs` | | theorems (section 4) |

`MC*` modules only add the symmetry sets. Operators whose comment begins with
"Slip" are deliberately wrong variants of the definition they stand beside; they
are used by no specification and serve to confirm that each property depends on
the code it is about.

### Conventions

- A request occupies a slot. When it is answered, the slot may serve another one;
  a slot keeps its last result, so that properties can speak of answers.
- A token, secret or identifier is a model value. What the code draws at random
  is drawn from a set; where collisions are handled (three attempts) a value in
  use may be drawn again, elsewhere it is new.
- Time is a small number. A request that reads the clock once and uses the value
  in later calls carries it; the clock goes on in between.
- A method that reads the clock itself and passes the value to one store call in
  the same breath is taken to read it at the store's step.
- A failed store call has taken effect or not; either way the handler answers
  with an error.
- `Max...`, the token sets and `WatchAttempts` are the bounds of the runs. The
  code's own bounds, such as the three draws, are kept.

### The four kinds of transactions

What a store method may rely on differs from adapter to adapter, and this is
where their code differs too.

- *PostgreSQL, READ COMMITTED.* Each statement has a snapshot of its own. A
  statement that meets a locked row waits and then works on the latest version of
  that row, but rows inserted meanwhile are not part of it. The server aborts one
  of a cycle of waiting transactions.
- *MySQL, REPEATABLE READ on InnoDB.* `SELECT ... FOR UPDATE` locks the rows it
  finds and the gaps and index ranges it searched; plain SELECTs read a snapshot;
  writes work on the latest rows and hold their locks until the commit. An INSERT
  waits for a lock on its gap and on the parent row of a foreign key (`Guard`).
  Every method takes its locks, decides, and then writes; a method of writing
  statements alone is one step, because the locks of its first statement are held
  to the end. A deadlock ends in `Fail`, which any transaction may take at any
  time.
- *MongoDB, snapshot.* A closure reads one snapshot and commits unless a document
  it wrote was written by another transaction since; `WithTransaction` then runs
  it again. Documents it merely read are not validated. `Conflicts` is stated
  at the commit of the other transaction; MongoDB may also abort the later writer
  earlier, which restarts the same closure on the same documents.
- *Redis, WATCH.* EXEC does nothing when a watched key was written since; keys
  are whole hashes, so unrelated records spoil a transaction as well; after 16
  attempts the method gives up. In `RedisAccounts` the first WATCH is a step of its
  own only where something read before it decides the call. The WATCH of a further
  attempt belongs to the step of the EXEC that failed, which changes nothing and so
  commutes with any write in between.

### Abstract specifications and refinement

`SessionStore` and `BearerStore` state what the interfaces promise, one atomic
step per method. They are used from both sides. `CookieSessions_requests` and
`BearerSessions_chain` check, as a property `StoreSpec`, that the managers, with
all their interleavings, only take steps the store provides for. The runs of the
Redis and MySQL adapters check (`StoresSpec`, in `PromisesKept`) that their
transactions implement these atomic steps: the hashes or rows are the tables,
every commit that writes is one abstract step, everything else a stutter.

MongoDB implements less. `RevokeAll` commits although a session was created since
its snapshot, and leaves that session active. `WeakStoreSpec` of both abstract
modules is `StoreSpec` with a RevokeAll that revokes a set of the subject's
sessions, and `RevokedBeforeAnswer` (also in `PromisesKept`) says which it
cannot miss: those that were there when it was called, and a replacement rotated
in meanwhile, because a rotation writes the session it replaces and thereby
conflicts.

The PostgreSQL session stores implement neither, see `PostgresAdapter_revokeall`
and the leftover token below; they have properties of their own.

## 3. The runs

Runs expected to pass:

| Run | Shows |
|---|---|
| `CookieSessions_requests` | two requests on extending sessions, with or without a cache (chosen in `Init`): the expiry is always one lifetime after the last extension, capped; cached copies never grant more than the row; nobody is accepted after expiry; one successor per rotated credential; without a cache, revoked before the request arrived means refused; a live session is refused only by the extension race described below; the manager implements `SessionStore` |
| `BearerSessions_chain` | the token chain, reuse detection, revocation, sign-out and access tokens, with three tokens and a leeway; the manager implements `BearerStore` |
| `PostgresAdapter_stores` | statement by statement: one replacement of a rotated cookie session, one unspent token of a bearer session, rotation all or nothing, the bearer session's row revoked before the answer; one identity per user, sign-in never links, everyone keeps a method; no lock outlives its transaction and somebody can always go on; every transaction on identities ends |
| `SignIn_sessions` | accounts under their handlers: no lock-out, no password reinstated, mailed tokens take effect once; an answered revocation left none of the earlier sessions; where verification is required no password or mailed token opens a session before it, and nothing does before an SSO callback has let the owner in |
| `Totp_codes` | codes, recovery codes and challenges are used once; nothing is proven against a disabled factor; an enrollment that a newer one replaced is never enabled |
| `Passkeys_ceremonies` | ceremonies spent once and in time, counters advance, removed credentials prove nothing, registrations belong to who began them |
| `Federation_flows` | flows consumed once and in time, under the configuration they began with; a user who has authenticated for a flow is signed in once, although answers and states are crossed and repeated |
| `RedisAdapter_stores` | the watched keys suffice for each decision about accounts, second factors and redirect states, so that what was read and verified still holds when it is acted on; no lock-out; sets and lookup hashes agree with the records; a revocation answers only after every session and token, also one rotated in meanwhile, is revoked; the session stores implement `SessionStore` and `BearerStore` |
| `MongoAdapter_stores` | what a transaction commits is what its method would decide from the documents it commits to, although only written ones are validated; no lock-out and one Google identity per user, which rest on `lockUser`; addresses unique; no recovery codes of a disabled factor; the session stores implement the abstract ones up to `WeakStoreSpec` |
| `MySQLAdapter_stores` | the same of its rows and locks; the session stores implement `SessionStore` and `BearerStore`; RevokeAll returns exactly the sessions it revokes, those inserted meanwhile included |

State invariants that belong together are checked as one conjunction, with its
parts named and explained in the module: `Consistent` (also `SignInConsistent`,
`FlowsConsistent`, `AdapterConsistent`, `CeremoniesSound`) holds the module's type
invariant with the invariants that relate its tables (for `BearerSessions`,
`TokenChain`), `CodesOnce` and `TermsKept` what their names say.

Runs in which TLC finds a behaviour that contradicts a statement of the
repository (the quotations are under `findings`):

| Run | The behaviour |
|---|---|
| `PostgresAdapter_revokeall` | a cookie session is rotated while RevokeAll's UPDATE waits for its row; the UPDATE revokes the old row, does not see the new one, and the session goes on under its new credential after RevokeAll has answered |
| `Passkeys_signin` | no open sign-in ceremony is ever accepted, because the store compares its empty subject with the user's |

`Passkeys_ceremonies` sets `BindsSubject = FALSE`, the comparison without which
sign-in works, so that the rest of sign-in is checked at all; `Passkeys_signin`
uses the code's comparison.

### Other deviations met while modelling

The models contain these behaviours too; the properties are stated so that they
admit them. They have no run of their own.

- *Stale cache after a sign-out* (`sessiontoken.go:194`): Resolve reads the row, a
  sign-out revokes it and deletes the cache entry, Resolve writes the entry. The
  signed-out credential is accepted until the entry expires. For this reason
  `RevokedNeverAccepted` is checked without a cache, and `CacheBehindStore`
  bounds the copy by the row it was taken from.
- *Extension race* (`sessiontoken.go:383`): two requests find an extension due;
  the second one's conditional UPDATE matches nothing and a live session is
  refused. `RefusedOnlyIfInactive` admits a refusal after a concurrent extension
  only.
- *Repeated Revoke on MySQL* (`storage/mysql/sessions.go:140`): the driver counts
  changed rows unless the application's DSN says otherwise, so revoking a revoked
  session answers "not found", although `sessiontoken.go:57` says "Revoke is
  idempotent." `MySQLSessions!Revoke` does so; the session is revoked under
  either answer.
- *Leftover refresh token on PostgreSQL* (`storage/postgres/sessions.go:368`): the
  UPDATE of revokeAccessSession that waits for a rotation does not see the token
  it inserts. The token stays unrevoked, although `refreshtoken.go:49` says that
  reuse "invalidates the durable session and all its refresh tokens". Its
  session's row is revoked, which is what `RevokedBeforeAnswer` demands there, and
  Refresh resolves the session before it rotates (`RotatesOnlyLiveSession`).
- *RevokeAll on MongoDB* (`storage/mongodb/sessions.go:137`): a session created
  between its snapshot and its commit stays active.
- *Sign-out racing a refresh* (`handler.go:318`): a sign-out by refresh token that
  is rotated meanwhile is answered 204 with the session alive.
  `SignOutEndsSession` admits a token that was spent before it was looked up.
- *TOTP confirmation* (`storage/postgres/totp.go:73`): Enable takes whatever
  enrollment the row holds, also one that replaced the enrollment whose code was
  checked, so that the newer secret is enabled without a code of its own
  (`AbandonedNeverEnabled` says that the older one is not); and both it and BeginEnrollment replace an enabled credential, although
  the package's test store answers `ErrAlreadyEnabled` (`totp/totp_test.go:275`).
- *SSO before verification* (`handler_sso.go:44`, `:79`): the callbacks of OIDC and
  SAML issue a session to whatever user the application resolves, and neither
  `resolveOIDCIdentity` nor `completeProviderAuthentication` asks whether the address
  is verified. The owner may then link a Google identity or register a passkey and
  come back with it, the address still not verified.
  `website/content/docs/email-verification.md:53` promises of `RequireEmailVerification` only that it
  prevents *password* sign-in, so `VerifiedBeforeSession` claims just that once an
  SSO identity has been resolved to the account (`vouched`), and of every route until
  then.
- *RemovePassword* (`storage/postgres/accounts.go:200`): the hash is compared in a
  plain SELECT, ReplacePasswordHash does not take the lock of the user's row, and
  the DELETE names the user only, so a password changed in between is deleted. The
  MySQL store does the same (`storage/mysql/accounts.go:203`), and
  `DecisionsStillHold` admits it there (`HashReplaced`), although
  `emailpassword.go:57` says "makes account credential writes atomic"; the Redis
  and MongoDB stores compare and delete in one validated transaction.

### Bounds

Two concurrent requests suffice for every race named under hazards. A slot serves
any number of requests one after the other, so two slots also give retries and
long sequences. Three refresh tokens give a chain with a middle, which forking
and reuse need. In the runs of the managers time goes far enough for the sessions,
tokens, codes and ceremonies to expire and to be used before, at and after that
boundary, and for the cap of the absolute lifetime to bind; in those of the
adapters, where a lifetime is one comparison, for the shortest to elapse. Two watch attempts give one that is
spoilt and a last one. One subject is enough where subjects never meet in a row;
`Passkeys_ceremonies` and the identities of `PostgresAdapter_stores` have two. The
MySQL and MongoDB runs have two `Users` but one address, over which they compete,
and one subject with sessions and a second factor: no method of these stores looks
at an account.

`CookieSessions` chooses in `Init` whether there is a cache. With one, a single
token is drawn (`CachedTokens`), because the races of a cached copy are about one
row; without one, three others are, and the clock moves once (`UncachedTime`), so
that an extension races with rotations and revocations; expiry is the same decision
with a cache and is checked there. `SignIn`
chooses in `Init` whether verification is required, and at each step whether the
remaining settings (signing in at sign-up, sending mail) are on. In
`Federation_flows` one SAML connection has a certificate that is valid always or
ceases to be; while it is always valid the connection takes the steps of an OIDC
connection, and Google flows run beside it.

The four adapters let one group of stores at a time leave its initial state
(`Only` in MySQL and MongoDB, `AdapterNext` and `Next` in the others). The groups
share no variable, row, document or key, so a behaviour of the whole adapter is
an interleaving of independent ones, and each property is about the state of one.

Symmetry is over model values. In the run with a liveness property it is over the
tokens of the session stores, of which the liveness property and the
transactions it is about contain none. Every run checks for deadlock.

### Fairness

`PostgresAdapter_stores` has the liveness property, `TransactionsProceed`. `FairSpec`
assumes strong fairness of each GoogleStore transaction's steps, because a step
that waits for a lock is enabled only now and then: PostgreSQL queues the waiters
for a lock, and its deadlock detector aborts a cycle. For the session stores the
weaker `SomeoneProceeds`, part of it, holds without fairness: whatever waits for whatever, one of
the running transactions has an enabled step (section 4 proves a form of it without
`ENABLED`). It is not assumed that a statement succeeds or
that clients come back.

## 4. The proofs

The proofs cover every number of requests, tokens, sessions, subjects, credentials
and passwords and every lifetime that meets the named assumptions (lifetimes are
numbers in the order the configuration demands, `None`, in `Totp` `NoRow` and in
`Federation` `Absent`, is not a value). The bounds
of the runs (`MaxTime`, `MaxFlowTime`, `MaxPeriod`, `MaxHashes`, `MaxCount`) are arbitrary natural numbers
there. Every inductive invariant was checked by TLC on the instance of the module's
run before it was proved.

The invariants of the managers have one shape. A manager's method is a sequence of
calls, and a property of what is in the tables is never inductive alone: it depends
on what each request in flight carries from an earlier call to the next one. So
`Carried` or `Sound` says, per stage of a request, what it relies on; one lemma says
that no step of another request takes it away (rows persist, revocation is final,
copies lag behind); and each action has to hand it to its next stage.

`BearerSessionsProofs`:

- `AlwaysConsistent`: `Consistent`, from the two theorems that follow.
- `TypeCorrect`: `TypeOK`. It is not inductive alone: a request that is about to
  rotate needs a token, one about to revoke a session; `Carried` says what a
  request carries at each of its stages.
- `StoreEffect` (lemma): every step of every route changes the tables by one of
  the store's own methods or not at all. All that follows is argued over three
  store steps instead of some twenty actions.
- `ChainSound`: `TokenChain`, that is `OneUnspentToken`, `ChainWithinSession` and
  `RevokedTogether`. The
  inductive invariant `Chain` adds `Rooted` (a token without a row replaced
  nothing) and `ParentKnown` (a replaced token has a row). They depend on each
  other: a rotation spends the one unspent token, so no second replacement of the
  same token exists, and the replacement inherits revocation state and expiry
  from a token that agrees with its session.
- `Final`: `NothingRevives`, that revocation and rotation are final, from the store
  steps; in the run it is part of what `StoreSpec` says.
- `SpentInLiveSession`: `RotatesOnlyLiveSession`. Rotation checks only the token;
  that the session is alive follows from `Chain`.

Its second part continues with the requests. The invariant adds `Sound`
(what a request relies on between its calls) and `Issued` (every signed token is
within a session).

- `TokensWithinSessions`: `AccessTokenWithinSession`. A token is signed before the
  session is inserted or the rotation is answered; `Sound` bounds the token in the
  request's hands, and the expiry of a session never moves.
- `ReuseAlwaysEnds`: `ReuseEndsSession`; `RevokedIsRefused`: `RevokedNeverServed`.
  A request that remembers a revocation on arrival finds a revoked row at each later
  call (`RowsPersist`).
- `SignOutEnds`: the action property `SignOutEndsSession`.
- `ImplementsStore`: the manager implements `BearerStore`. `StoreEffect` is most of
  it; the carried clock reading has to be one of `Times`.

`CookieSessionsProofs`, with and without a cache and with and without extension:

- `AlwaysConsistent`: `Consistent`. The hard part is `IdleWindow` beside
  `CacheBehindStore`: the new expiry is computed from a copy that may be stale, and is
  right because a copy has the creation time of its row and the store refuses an
  expiry that is not later. The invariant says of every record in a request's hands
  that it lags behind its row.
- `AcceptedInTime`: `AcceptedBeforeExpiry`; `RevokedIsRefused`:
  `RevokedNeverAccepted`, both from what a Resolve may answer with (`Answerable`).
- `RefusalsAreJustified`: the action property `RefusedOnlyIfInactive`.
- `ImplementsStore`: the manager implements `SessionStore`, cache, retries and
  abandoned requests included.

`SignInProofs`, first of the account, its handlers and then of TOTP. Of the account alone:

- `TypeCorrect`: `TypeOK`.
- `AlwaysAWayIn`: `NeverLockedOut`. The inductive invariant adds `HolderLocked`
  (a request that is about to delete holds the row lock) and `RemovalSafe` (the
  account still has another method than the one about to go). Every other
  action either adds methods or waits for the lock.
- `RehashReinstatesNothing`: `RehashKeepsPassword`, from `Carried`: old and new
  hash of a rehash are of one password, and the update compares the old one.
- `TokensSpentOnce`: `MailedTokenOnce`, from the fact that a token on an open row
  has not been used and a drawn token is not issued again.

of the handlers:

- `ImplementsAccount`: the handlers implement the specification of `Accounts`, so
  `AccountsHold` inherits `NeverLockedOut`, `MailedTokenOnce` and
  `RehashKeepsPassword`.
- `SessionsConsistent`: `SignInConsistent`. While a required address is not verified,
  no handler is about to issue a session to a password or a mailed token, whoever else
  has been let in. That there is no session at all before an SSO callback has let the
  owner in is not inductive: a handler may be about to issue one, a Google identity or
  a passkey may be there to sign in with, an owner's request may be about to link one.
  `Closed` says that none of these is the case; `Gate` holds both parts.
- `RevocationsComplete`: `AnsweredRevocationComplete`, from `Ended` and the fact that a
  remembered session was issued before, so that no new one is among them.

and of `Totp`:

- `ChallengesConsistent`: `Consistent`; `CodesServeOnce`: `CodesOnce`;
  `AbandonedStaysOut`: `AbandonedNeverEnabled`; `DisabledIsFinal`: the action property
  `DisabledProvesNothing`. The invariant adds that a secret is drawn once, that an
  accepted code's counter is not above the credential's, and that a recovery code
  that is still there has not been used.

`CeremonyProofs`, first of passkeys:

- `CeremoniesServeOnce`: `CeremoniesSound`, from `Spent` (an entry of the history that
  names a ceremony has consumed it).
- `CountersAlwaysAdvance`: `CountersAdvance`. The invariant `CountsBounded` says that a
  row's counter is no smaller than any it was used with since its registration; the
  compare-and-swap of the row makes it inductive.
- `RemovedIsRefused`: `RemovedProvesNothing`, from `RowsRegistered`.
- `OpenCeremonyServed`: `OpenCeremonyAccepted` of a store that does not compare the
  subject. The run `Passkeys_signin` shows that the adapters, which do, violate it;
  the theorem says that there is no other cause.

and then of redirect flows:

- `FlowsServedOnce`: `FlowsConsistent`; `AnswersServeOnce`: `AnswerSpent`; `TermsHold`:
  `TermsKept`. The invariant adds that a nonce is in one place: a stored challenge, the
  callback that took it, or the accepted identities (`StoredOnce`), that a challenge
  agrees with the flow it was drawn for (`FlowsAgree`), and that an accepted identity
  answers the flow it completed (`OwnAnswer`).

`PostgresAdapterProofs`, statement by statement, with any number of transactions:

- `AlwaysConsistent`: `Consistent`, from `BearerInvariant`, `CookieInvariant` and
  `GoogleInvariant`. Each group's inductive invariant says what a transaction relies on
  between two statements. For bearer sessions (`Relies`): from its SELECT FOR UPDATE on, the
  token that is rotated is unspent and held, and its replacement, once inserted, is held
  and not yet visible; a revocation has the rows of everything it is due to revoke in
  what it has written or still has to write. For cookie sessions (`CookieRelies`): the same of
  the row that is rotated, its replacement and the rows RevokeAll has reached. A lemma
  (`RelianceKept`) says that it survives whatever `Spares` it, and every action of the
  others does: it changes a row only under a lock of its own. For Google identities
  (`CarriedBy`): one about to delete an identity has found a password.
- `RevocationsComplete`: `RevokedBeforeAnswer`, that the bearer session's row is revoked
  before the store answers.
- `SignInsNeverLink`: the action property `SignInNeverLinks`.
- `NoBearerStandstill`, `NoCookieStandstill`: while transactions run, one of them is not
  blocked, or is part of a circle of waiters that the server may abort one of. This is what
  `SomeoneProceeds` checks with `ENABLED`, stated through the locks; it rests on
  `LocksReleased` (whoever waits, waits for a transaction that runs).

Its assumptions: lifetimes and bounds are natural numbers, `None` is neither a row nor a
user.

`RedisAdapterProofs`, for all four groups of stores, command by command:

- `AlwaysConsistent`: `AdapterConsistent`. Four inductive invariants, one per group
  (`CookieInv`, `BearerInv`, `AccountsInv`, `TotpInv`).
- `DecisionsHold`: the action property `AdapterDecisionsStillHold`. This is what WATCH is
  for, and the heart of the invariants: what a transaction that nobody has marked decided
  is right for the current state (`CookieRelies`, `BearerRelies`, `AccountRelies`,
  `TotpRelies`). It survives the EXEC of another in two ways. If that one writes a key the
  transaction watches, it is marked and relies on nothing. If not, the keys it watches
  are unchanged (`PipelineWrites`: an EXEC leaves the keys it does not list alone), and they
  are all its decision depends on (`DecisionUntouched`, `WatchedSuffices`). The second
  half is where a key could have been forgotten in the code.
- `PromisesAreKept`: `PromisesKept`; `RevocationsComplete`: a call that revokes a subject's
  sessions is not answered while one it is due to revoke is alive.
- `ImplementsStores`: the sessions implement `SessionStore`, the bearer sessions
  `BearerStore`, index sets and retries included.

What the invariants add: the index sets agree with the hashes; nothing belongs to an
account that does not exist, so that a new account's ID is new in every table
(`NoOrphans`, `FreshFor`); a bearer session and its tokens are revoked together
(`Together`), which is needed because a RevokeAll with nothing to revoke answers without
an EXEC, that is, unchecked; a listed recovery code has its field (`SoundFor`).

Assumptions: lifetimes and bounds are natural numbers, a method has at least one attempt,
`None` is no record, plan or field.

`MongoAdapterProofs`, for any number of calls and all stores at once:

- `AlwaysConsistent`: `Consistent`. A closure's write is decided on a snapshot, waits, and
  takes effect on other documents than it was decided on; MongoDB compares only those it
  writes. So the invariant is about writes that wait: `Safe(w)` says of the documents as
  they are that `w` may take effect on them. There are three steps to it. Every method
  decides on a safe write (`DecisionsAreSafe`, method by method). The effect of a safe
  write keeps the documents sound (`SafeKeepsSound`). And a safe write stays safe while
  another takes effect that shares no document with it (`StaysSafe`). The third is where
  `lockUser` counts: a write that takes a way to sign in, or adds an identity, contains
  the user's document, so two of them about one user do conflict, and the unique indexes
  do the same for addresses. What is added to the property is that the owner of an
  identity exists, that a write that waits inserts no account but the one whose
  identifier its call drew, and that no two calls drew the same one.
- `DecisionsHold`: the action property `DecisionsStillHold`. Safety does not say which
  write it is, so a second invariant (`More`) has every waiting write be the one that its
  method would decide on now (`StillDecides`; that of a RevokeAll may miss sessions, but
  for no session a part of it, `Whole`). It is kept because a method writes most of what
  its decision rests on, and what it only reads is kept by the safety of both writes:
  shown for each method that is a transaction (`PasswordsHold` to `BearersHold`, together
  `DecisionStays`). This is where a document that was read and not written could have been
  forgotten.
- `RevocationsComplete`: `RevokedBeforeAnswer`. What a revocation is about stays so
  (`StaysAbout`), and what a conflict-free write inserts next to it cannot exist: it would
  inherit from a document that both write (`Inherits`).
- `PromisesAreKept`: `PromisesKept`, from `RevocationsComplete` and `ImplementsStores`. A
  step changes the documents by a write that its method may decide on then (`DocsStep`),
  and each such write is a step of the abstract store (`CookieEffect`, `BearerEffect`), a
  RevokeAll that missed a session being `StoreRevokeSome`.

What `More` adds to the properties: the calls fit what their managers looked up (`Fits`),
a refresh token belongs to a session that exists, and a mailed token is drawn for one mail
and sent to one user.

Assumptions: lifetimes and bounds are natural numbers, `None` is no document's value.

`MySQLAdapterProofs`, for any number of transactions and all stores at once:

- `AlwaysConsistent`: `Consistent`. Here nothing is validated at the commit; what a method
  decided after its locking reads has to be kept right by its locks. The invariant says so
  of every decided method (`Standing`): from the rows as they are it would decide the same,
  it holds what it would lock, and a RevokeAll has found exactly the sessions there are.
  The argument has three steps. What a method writes that may decide so is safe for the
  rows as they are (`AlwaysProper`, method by method; `Safe` as for MongoDB), and safe
  writes keep the rows sound (`SafeKeepsSound`). No statement gets past the locks of
  another transaction: it touches no locked row and inserts into no locked gap or range,
  nor below a locked parent row (`WritableApart`), and takes no way to sign in from a user
  whose row is locked (`RemoversLock`). And a write that stays out of the locks of a method
  leaves its decision as it was (`DecisionStays`), which is shown for each method with a
  SELECT: this is where a lock could have been forgotten in the code.
- `DecisionsHold`: the action property `DecisionsStillHold`, from the same invariant.
  RemovePassword is excepted in one respect (`HashReplaced`): no lock protects the hash it
  compared, and its DELETE does not look at the hash again, so it removes one that has
  replaced it since, whether a sign-in's, of the same password, or a ChangePassword's, of
  a new one. That the account has a password and another way to sign in still stands.
- `PromisesAreKept`: `PromisesKept`, from `ImplementsStores` and `RevocationsComplete`. A
  commit changes the rows by what its method would write if it ran in one step
  (`RowsStep`), and each such write is a step of the abstract store (`CookieEffect`,
  `BearerEffect`), also where it was decided one step earlier.

What is added to the property: the call still fits what its manager looked up (`Fits`; no
method deletes a session or changes its owner or its creation), a mailed token is sent to
one user for one purpose, mail belongs to a user that exists, and a row that exists is
locked by one transaction.

Assumptions: lifetimes and bounds are natural numbers, `None` is no row's value.

Only model-checked: all liveness and whatever is stated with `ENABLED`
(`TransactionsProceed`, with `TransactionsEnd` and `SomeoneProceeds`), which are out of
the prover's reach; and the two runs that find a violation.

## 5. What is not modelled

- The ceremonies of passkeys in Redis; the content and counter of a passkey
  credential in MySQL, MongoDB and Redis (`Passkeys` has them over PostgreSQL).
- The OIDC and Google discovery caches, which keep the first provider they
  discover, under a lock, for good; SAML metadata.
- Configuration, wiring, migrations: sequential code that runs once. Its results
  are the constants and initial states.
- Password encodings, address normalisation, token hashing, WebAuthn, JWT, OIDC
  and SAML signature checks: functions without state, or libraries. A request
  whose check fails changes nothing.
- Attempt guards (a callback of the application), JSON, cookies, CSRF origins,
  mail delivery.

## 6. Plan

1. Done: sessions of both kinds with their abstract stores, accounts, sign-in,
   TOTP, passkeys, federation; all four adapters with their transactions; the safety
   properties and refinements of the managers, the handlers and the four adapters proved.
2. Further modelling: passkey counters in the other three adapters; liveness of
   the managers (every request is answered although draws collide and stores
   fail) and of the PostgreSQL session transactions, for which smaller instances
   are needed.
