--------------------------- MODULE CeremonyProofs ---------------------------
(***************************************************************************)
(* Proofs about the two sign-ins that a browser carries through a row it   *)
(* can spend once: passkey ceremonies, and redirect flows to an identity   *)
(* provider.  Passkeys is proved for any number of requests, ceremonies,   *)
(* credentials and subjects, any counter bound, and both forms of          *)
(* consumePasskeyCeremony; Federation for any number of requests, states,  *)
(* nonces and connections, any configurations and any lifetime.            *)
(***************************************************************************)
EXTENDS Passkeys, Federation, TLAPS

-----------------------------------------------------------------------------
(***************************************************************************)
(* Passkeys: the inductive invariant.                                      *)
(***************************************************************************)

\* What a request relies on at the call it is about to make, given the ceremonies C.
CarriedBy(x, C) ==
    /\ x.pc = "create" /\ x.kind = "registration" => x.subject \in Subjects
    /\ x.pc \in {"register", "lookup", "authenticate"} =>
          x.token \in Tokens /\ C[x.token] # None /\ x.cred \in Credentials
    /\ x.pc = "register" => x.subject \in Subjects /\ C[x.token].subject = x.subject
    /\ x.pc = "authenticate" => x.subject \in Subjects /\ x.previous \in Credential
    /\ x.pc # "idle" => x.answer = None

Carried == \A r \in Requests : CarriedBy(req[r], ceremonies)

\* An entry that names a ceremony was made by consuming it, before its expiry, and
\* every registration and sign-in names one.
Spent ==
    /\ \A i \in 1..Len(log) :
          /\ log[i].kind # "removed" => log[i].token # None
          /\ log[i].token # None => /\ ceremonies[log[i].token] # None
                                    /\ ceremonies[log[i].token].consumed

\* The counter of a row is no smaller than any it was used with since its registration.
CountsBounded ==
    \A i \in 1..Len(log) :
        /\ SignedIn(i) /\ credentials[log[i].cred] # None
        /\ \A k \in i..Len(log) : ~Registered(k, log[i].cred)
        => log[i].count <= credentials[log[i].cred].count

\* A row that is there was registered, and has not been removed since.
RowsRegistered ==
    \A c \in Credentials :
        credentials[c] # None =>
            \E i \in 1..Len(log) :
                Registered(i, c) /\ \A k \in i..Len(log) : ~Removed(k, c)

Ceremonial == TypeOK /\ Carried /\ Spent /\ CeremonySpentOnce /\ ProvenInTime /\ RegisteredBySubject

Inv == /\ Ceremonial
       /\ CountsBounded /\ CountersAdvance
       /\ RowsRegistered /\ RemovedProvesNothing

-----------------------------------------------------------------------------
(***************************************************************************)
(* Requests.                                                               *)
(***************************************************************************)

\* The request every handler starts from has the type of one, and relies on nothing.
LEMMA IdleType ==
  ASSUME NEW answer \in Answers
  PROVE  /\ Idle \in Request
         /\ [Idle EXCEPT !.answer = answer] \in Request
         /\ \A C : CarriedBy([Idle EXCEPT !.answer = answer], C)
  BY PasskeysAssumption DEF Idle, Request, Answers, CeremonyAttempts, CarriedBy, Kinds

\* A ceremony that is there keeps its type, its owner and its expiry, and stays consumed.
Kept ==
    \A t \in Tokens : ceremonies[t] # None =>
        /\ ceremonies'[t] # None
        /\ ceremonies'[t].type = ceremonies[t].type
        /\ ceremonies'[t].subject = ceremonies[t].subject
        /\ ceremonies'[t].expires = ceremonies[t].expires
        /\ ceremonies[t].consumed => ceremonies'[t].consumed

\* Changing one request leaves what the others rely on.
LEMMA UpdateCarried ==
  ASSUME TypeOK, Carried, Kept, NEW r \in Requests, NEW x \in Request,
         req' = [req EXCEPT ![r] = x], CarriedBy(x, ceremonies')
  PROVE  req' \in [Requests -> Request] /\ Carried'
<1>1. req \in [Requests -> Request]
  BY DEF TypeOK
<1>2. \A q \in Requests : CarriedBy(req[q], ceremonies')
  BY DEF Carried, CarriedBy, Kept
<1>3. req'[r] = x /\ \A q \in Requests : q # r => req'[q] = req[q]
  BY <1>1
<1> QED BY <1>1, <1>2, <1>3 DEF Carried

\* So does an answer.
LEMMA AnswerCarried ==
  ASSUME TypeOK, Carried, Kept, NEW r \in Requests, NEW answer \in Answers, Answer(r, answer)
  PROVE  req' \in [Requests -> Request] /\ Carried'
  BY IdleType, UpdateCarried DEF Answer

-----------------------------------------------------------------------------
(***************************************************************************)
(* The steps of the tables: a ceremony is inserted, or one entry is        *)
(* written to the history.                                                 *)
(***************************************************************************)

\* A transaction that completes a ceremony, as the history sees it.
Completed(r, e) ==
    /\ log' = Append(log, e) /\ e \in Entry
    /\ e.kind \in {"registered", "authenticated"} /\ e.at = now
    /\ e.token \in Tokens /\ ceremonies[e.token] # None
    /\ ~ceremonies[e.token].consumed /\ now < ceremonies[e.token].expires
    /\ Consume(e.token)
    /\ e.kind = "registered" => e.subject = ceremonies[e.token].subject

\* What a committed registration does.
LEMMA RegistrationCommits ==
  ASSUME TypeOK, Carried, NEW r \in Requests, CompleteRegistration(r), log' # log
  PROVE  \E e \in Entry :
            /\ Completed(r, e) /\ e.kind = "registered"
            /\ credentials[e.cred] = None
            /\ credentials' = [credentials EXCEPT ![e.cred] =
                                  [owner |-> e.subject, count |-> e.count, clone |-> FALSE]]
            /\ \E answer \in Answers : Answer(r, answer)
            /\ now' = now
<1> DEFINE q == req[r]
           e == [kind |-> "registered", subject |-> q.subject, at |-> now,
                 token |-> q.token, cred |-> q.cred, count |-> q.count, clone |-> FALSE]
<1>1. /\ q \in Request /\ q.pc = "register" /\ CarriedBy(q, ceremonies) /\ now \in 0..MaxTime
  BY DEF TypeOK, Carried, CompleteRegistration
<1>2. /\ q.token \in Tokens /\ ceremonies[q.token] # None /\ q.cred \in Credentials
      /\ q.subject \in Subjects /\ ceremonies[q.token].subject = q.subject
  BY <1>1 DEF CarriedBy
<1>3. e \in Entry
  BY <1>1, <1>2 DEF Entry, Request
<1>4. /\ Consumable(q.token, "registration", q.subject)
      /\ credentials[q.cred] = None
      /\ Consume(q.token)
      /\ credentials' = [credentials EXCEPT ![q.cred] =
             [owner |-> q.subject, count |-> q.count, clone |-> FALSE]]
      /\ log' = Append(log, e)
      /\ \E answer \in {"ok", "error"} : Answer(r, answer)
      /\ now' = now
  BY <1>2 DEF CompleteRegistration, Record
<1>5. Completed(r, e)
  BY <1>2, <1>3, <1>4 DEF Completed, Consumable
<1>6. \E answer \in Answers : Answer(r, answer)
  BY <1>4 DEF Answers
<1> QED BY <1>3, <1>4, <1>5, <1>6

\* What a committed sign-in does.
LEMMA AuthenticationCommits ==
  ASSUME TypeOK, Carried, NEW r \in Requests, CompleteAuthentication(r), log' # log
  PROVE  \E e \in Entry :
            /\ Completed(r, e) /\ e.kind = "authenticated"
            /\ credentials[e.cred] \in Credential
            /\ credentials' = [credentials EXCEPT ![e.cred] = Updated(credentials[e.cred], e.count)]
            /\ e.clone = Updated(credentials[e.cred], e.count).clone
            /\ \E answer \in Answers : Answer(r, answer)
            /\ now' = now
<1> DEFINE q == req[r]
           updated == Updated(q.previous, q.count)
           e == [kind |-> "authenticated", subject |-> q.subject, at |-> now,
                 token |-> q.token, cred |-> q.cred, count |-> q.count, clone |-> updated.clone]
<1>1. /\ q \in Request /\ q.pc = "authenticate" /\ CarriedBy(q, ceremonies) /\ now \in 0..MaxTime
  BY DEF TypeOK, Carried, CompleteAuthentication
<1>2. /\ q.token \in Tokens /\ ceremonies[q.token] # None /\ q.cred \in Credentials
      /\ q.subject \in Subjects /\ q.previous \in Credential
  BY <1>1 DEF CarriedBy
<1>3. updated \in Credential
  BY <1>1, <1>2 DEF Updated, Credential, Request
<1>4. e \in Entry
  BY <1>1, <1>2, <1>3 DEF Entry, Request, Credential
<1>5. /\ Consumable(q.token, "authentication", q.subject)
      /\ credentials[q.cred] = q.previous
      /\ Consume(q.token)
      /\ credentials' = [credentials EXCEPT ![q.cred] = updated]
      /\ log' = Append(log, e)
      /\ \E answer \in {"ok", "error"} : Answer(r, answer)
      /\ now' = now
  BY DEF CompleteAuthentication, Record, Swappable
<1>6. Completed(r, e)
  BY <1>2, <1>4, <1>5 DEF Completed, Consumable
<1>7. \E answer \in Answers : Answer(r, answer)
  BY <1>5 DEF Answers
<1> QED BY <1>2, <1>4, <1>5, <1>6, <1>7

-----------------------------------------------------------------------------
(***************************************************************************)
(* The history.                                                            *)
(***************************************************************************)

\* Appending to the history changes nothing that is in it.
LEMMA Appended ==
  ASSUME TypeOK, NEW e \in Entry, log' = Append(log, e)
  PROVE  /\ Len(log) \in Nat /\ Len(log') = Len(log) + 1
         /\ DOMAIN log = 1..Len(log) /\ DOMAIN log' = 1..(Len(log) + 1)
         /\ log'[Len(log) + 1] = e
         /\ \A i \in 1..Len(log) : log'[i] = log[i] /\ log[i] \in Entry
         /\ log' \in Seq(Entry)
  BY DEF TypeOK

\* What an entry must satisfy to be written beside the ceremonies.
Writable(e) ==
    /\ e.kind # "removed" => e.token # None /\ e.at < ceremonies'[e.token].expires
    /\ e.token # None => /\ e.token \in Tokens /\ ceremonies'[e.token] # None
                         /\ ceremonies'[e.token].consumed
                         /\ ceremonies[e.token] # None /\ ~ceremonies[e.token].consumed
    /\ e.kind = "registered" => e.subject = ceremonies'[e.token].subject

History == Spent /\ CeremonySpentOnce /\ ProvenInTime /\ RegisteredBySubject

\* Writing such an entry keeps what the history says of the ceremonies.
LEMMA HistoryGrows ==
  ASSUME Ceremonial, Kept, NEW e \in Entry, log' = Append(log, e), Writable(e)
  PROVE  log' \in Seq(Entry) /\ History'
<1> DEFINE n == Len(log)
<1>1. /\ n \in Nat /\ Len(log') = n + 1
      /\ DOMAIN log = 1..n /\ DOMAIN log' = 1..(n + 1)
      /\ log'[n + 1] = e
      /\ \A i \in 1..n : log'[i] = log[i] /\ log[i] \in Entry
      /\ log' \in Seq(Entry)
  BY Appended DEF Ceremonial
<1> HIDE DEF n
<1>2. \A i \in 1..(n + 1) : i # n + 1 => i \in 1..n
  BY <1>1
<1>3. \A i \in 1..n :
         /\ log[i].kind # "removed" => /\ log[i].token # None /\ log[i].token \in Tokens
                                       /\ log[i].at < ceremonies[log[i].token].expires
         /\ log[i].token # None => /\ log[i].token \in Tokens /\ ceremonies[log[i].token] # None
                                   /\ ceremonies[log[i].token].consumed
         /\ log[i].kind = "registered" => log[i].subject = ceremonies[log[i].token].subject
  BY <1>1 DEF n, Ceremonial, Spent, ProvenInTime, RegisteredBySubject, Entry
<1>4. \A i \in 1..(n + 1) :
         /\ log'[i].kind # "removed" => /\ log'[i].token # None
                                        /\ log'[i].at < ceremonies'[log'[i].token].expires
         /\ log'[i].token # None => /\ ceremonies'[log'[i].token] # None
                                    /\ ceremonies'[log'[i].token].consumed
         /\ log'[i].kind = "registered" => log'[i].subject = ceremonies'[log'[i].token].subject
  <2> TAKE i \in 1..(n + 1)
  <2>1. CASE i = n + 1
    BY <1>1, <2>1 DEF Writable
  <2>2. CASE i \in 1..n
    BY <1>1, <1>3, <2>2 DEF Kept
  <2> QED BY <1>2, <2>1, <2>2
<1>5. \A i \in 1..n : log[i].token # None => log[i].token # e.token
  BY <1>3 DEF Writable
<1>6. \A i, j \in 1..(n + 1) : log'[i].token = log'[j].token /\ log'[i].token # None => i = j
  <2>1. \A i, j \in 1..n : log[i].token = log[j].token /\ log[i].token # None => i = j
    BY <1>1 DEF Ceremonial, CeremonySpentOnce
  <2> QED BY <1>1, <1>2, <1>5, <2>1
<1> QED BY <1>1, <1>4, <1>6 DEF History, Spent, CeremonySpentOnce, ProvenInTime, RegisteredBySubject

\* A step that writes none keeps it too.
LEMMA HistoryStays ==
  ASSUME Ceremonial, Kept, log' = log
  PROVE  log' \in Seq(Entry) /\ History'
<1>1. DOMAIN log = 1..Len(log) /\ \A i \in 1..Len(log) : log[i] \in Entry
  BY DEF Ceremonial, TypeOK
<1>2. \A i \in 1..Len(log) :
         /\ log[i].kind # "removed" => log[i].token # None
         /\ log[i].token # None => log[i].token \in Tokens /\ ceremonies[log[i].token] # None
  BY <1>1 DEF Ceremonial, Spent, Entry
<1>3. Spent'
  BY <1>2 DEF Ceremonial, Spent, Kept
<1>4. ProvenInTime' /\ RegisteredBySubject'
  BY <1>1, <1>2 DEF Ceremonial, ProvenInTime, RegisteredBySubject, Kept
<1> QED BY <1>3, <1>4 DEF Ceremonial, TypeOK, History, CeremonySpentOnce

-----------------------------------------------------------------------------
(***************************************************************************)
(* What the history says of the credentials.                               *)
(***************************************************************************)

\* A sign-in is written only if its credential is registered, with a counter above the
\* ones it was used with or with a warning.
SignInWritable(e) ==
    e.kind = "authenticated" =>
        /\ \E i \in 1..Len(log) :
              Registered(i, e.cred) /\ \A k \in i..Len(log) : ~Removed(k, e.cred)
        /\ \A i \in 1..Len(log) :
              /\ SignedIn(i) /\ log[i].cred = e.cred
              /\ \A k \in i..Len(log) : ~Registered(k, e.cred)
              /\ ~e.clone
              => log[i].count < e.count \/ (log[i].count = 0 /\ e.count = 0)

\* Writing such an entry keeps what the history says of the sign-ins.
LEMMA SignInsGrow ==
  ASSUME TypeOK, CountersAdvance, RemovedProvesNothing, NEW e \in Entry, log' = Append(log, e),
         SignInWritable(e)
  PROVE  CountersAdvance' /\ RemovedProvesNothing'
<1> DEFINE n == Len(log)
<1>1. /\ n \in Nat /\ Len(log') = n + 1
      /\ DOMAIN log = 1..n /\ DOMAIN log' = 1..(n + 1)
      /\ log'[n + 1] = e
      /\ \A i \in 1..n : log'[i] = log[i]
  BY Appended
<1> HIDE DEF n
<1>2. \A i \in 1..(n + 1) : i # n + 1 => i \in 1..n
  BY <1>1
<1>3. ASSUME NEW i \in DOMAIN log', NEW j \in DOMAIN log',
             i < j, log'[i].kind = "authenticated", log'[j].kind = "authenticated",
             log'[i].cred = log'[j].cred,
             \A k \in i..j : ~(log'[k].kind = "registered" /\ log'[k].cred = log'[i].cred),
             ~log'[j].clone
      PROVE  log'[i].count < log'[j].count \/ (log'[i].count = 0 /\ log'[j].count = 0)
  <2>1. i \in 1..n /\ log'[i] = log[i] /\ i \in Nat
    BY <1>1, <1>3
  <2>2. CASE j \in 1..n
    <3>1. \A k \in i..j : log'[k] = log[k]
      BY <1>1, <2>1, <2>2
    <3> QED BY <1>1, <1>3, <2>1, <2>2, <3>1 DEF CountersAdvance, SignedIn, Registered
  <2>3. CASE j = n + 1
    <3>1. \A k \in i..n : log'[k] = log[k] /\ k \in i..j
      BY <1>1, <2>1, <2>3
    <3> QED BY <1>1, <1>3, <2>1, <2>3, <3>1 DEF SignInWritable, SignedIn, Registered, n
  <2> QED BY <1>1, <1>2, <2>2, <2>3
<1>4. ASSUME NEW j \in DOMAIN log', log'[j].kind = "authenticated"
      PROVE  \E i \in 1..(j - 1) :
                /\ log'[i].kind = "registered" /\ log'[i].cred = log'[j].cred
                /\ \A k \in i..j : ~(log'[k].kind = "removed" /\ log'[k].cred = log'[j].cred)
  <2>1. CASE j \in 1..n
    <3>1. PICK i \in 1..(j - 1) : /\ Registered(i, log[j].cred)
                                  /\ \A k \in i..j : ~Removed(k, log[j].cred)
      BY <1>1, <1>4, <2>1 DEF RemovedProvesNothing, SignedIn
    <3>2. \A k \in i..j : log'[k] = log[k]
      BY <1>1, <2>1
    <3>3. i \in i..j
      BY <1>1, <2>1
    <3> QED BY <1>1, <2>1, <3>1, <3>2, <3>3 DEF Registered, Removed
  <2>2. CASE j = n + 1
    <3>1. PICK i \in 1..n : /\ Registered(i, e.cred)
                            /\ \A k \in i..n : ~Removed(k, e.cred)
      BY <1>1, <1>4, <2>2 DEF SignInWritable, n
    <3>2. \A k \in i..j : k = j \/ (k \in i..n /\ log'[k] = log[k])
      BY <1>1, <2>2
    <3>3. i \in 1..(j - 1) /\ log'[i] = log[i]
      BY <1>1, <2>2
    <3> QED BY <1>1, <1>4, <2>2, <3>1, <3>2, <3>3 DEF Registered, Removed
  <2> QED BY <1>1, <1>2, <2>1, <2>2
<1>5. CountersAdvance'
  BY <1>3 DEF CountersAdvance, SignedIn, Registered
<1>6. RemovedProvesNothing'
  BY <1>4 DEF RemovedProvesNothing, SignedIn, Registered, Removed
<1> QED BY <1>5, <1>6

\* The rows and the history agree.
RowsAgree == CountsBounded /\ RowsRegistered

\* They still agree when an entry about one credential is written and its row, if there
\* is one afterwards, is new or was there with no larger a counter.
LEMMA RowsGrow ==
  ASSUME TypeOK, RowsAgree, NEW e \in Entry, log' = Append(log, e),
         \A c \in Credentials : c # e.cred => credentials'[c] = credentials[c],
         credentials'[e.cred] # None =>
            \/ e.kind = "registered"
            \/ /\ e.kind = "authenticated" /\ credentials[e.cred] # None
               /\ credentials[e.cred].count \in Nat /\ credentials'[e.cred].count \in Nat
               /\ credentials[e.cred].count <= credentials'[e.cred].count
               /\ e.count <= credentials'[e.cred].count
  PROVE  RowsAgree'
<1> DEFINE n == Len(log)
<1>1. /\ n \in Nat /\ Len(log') = n + 1
      /\ log'[n + 1] = e
      /\ \A i \in 1..n : log'[i] = log[i] /\ log[i] \in Entry
  BY Appended
<1> HIDE DEF n
<1>2. \A i \in 1..(n + 1) : i # n + 1 => i \in 1..n
  BY <1>1
<1>3. ASSUME NEW i \in 1..(n + 1), log'[i].kind = "authenticated",
             credentials'[log'[i].cred] # None,
             \A k \in i..(n + 1) : ~(log'[k].kind = "registered" /\ log'[k].cred = log'[i].cred)
      PROVE  log'[i].count <= credentials'[log'[i].cred].count
  <2>1. CASE i = n + 1
    BY <1>1, <1>3, <2>1
  <2>2. CASE i \in 1..n
    <3>1. log'[i] = log[i] /\ log[i] \in Entry /\ n + 1 \in i..(n + 1)
      BY <1>1, <2>2
    <3>2. \A k \in i..n : log'[k] = log[k] /\ k \in i..(n + 1)
      BY <1>1, <2>2
    <3>3. credentials[log[i].cred] # None => log[i].count <= credentials[log[i].cred].count
      BY <1>3, <2>2, <3>1, <3>2 DEF RowsAgree, CountsBounded, SignedIn, Registered, n
    <3>4. CASE log[i].cred = e.cred
      <4>1. e.kind = "authenticated"
        BY <1>1, <1>3, <3>1, <3>4
      <4>2. log[i].count \in Int /\ e.count \in Int
        BY <3>1 DEF Entry
      <4> QED BY <1>3, <3>1, <3>3, <3>4, <4>1, <4>2
    <3>5. CASE log[i].cred # e.cred
      BY <1>3, <3>1, <3>3, <3>5 DEF Entry
    <3> QED BY <3>4, <3>5
  <2> QED BY <1>2, <2>1, <2>2
<1>4. ASSUME NEW c \in Credentials, credentials'[c] # None
      PROVE  \E i \in 1..(n + 1) :
                /\ log'[i].kind = "registered" /\ log'[i].cred = c
                /\ \A k \in i..(n + 1) : ~(log'[k].kind = "removed" /\ log'[k].cred = c)
  <2>1. CASE c = e.cred /\ e.kind = "registered"
    <3>1. n + 1 \in 1..(n + 1) /\ \A k \in (n + 1)..(n + 1) : k = n + 1
      BY <1>1
    <3> QED BY <1>1, <2>1, <3>1
  <2>2. CASE ~(c = e.cred /\ e.kind = "registered")
    <3>1. credentials[c] # None /\ ~(e.kind = "removed" /\ e.cred = c)
      BY <1>4, <2>2
    <3>2. PICK i \in 1..n : Registered(i, c) /\ \A k \in i..n : ~Removed(k, c)
      BY <3>1 DEF RowsAgree, RowsRegistered, n
    <3>3. \A k \in i..(n + 1) : k = n + 1 \/ (k \in i..n /\ log'[k] = log[k])
      BY <1>1
    <3>4. i \in 1..(n + 1) /\ log'[i] = log[i]
      BY <1>1
    <3> QED BY SMTT(20), <1>1, <3>1, <3>2, <3>3, <3>4 DEF Registered, Removed
  <2> QED BY <2>1, <2>2
<1> QED BY <1>1, <1>3, <1>4 DEF RowsAgree, CountsBounded, RowsRegistered, SignedIn, Registered,
                                  Removed

-----------------------------------------------------------------------------
(***************************************************************************)
(* The steps.                                                              *)
(***************************************************************************)

\* A committed registration or sign-in keeps the ceremonies and the history in order.
LEMMA CompletionStep ==
  ASSUME Ceremonial, NEW r \in Requests, NEW e \in Entry, Completed(r, e),
         \E answer \in Answers : Answer(r, answer),
         now' = now, credentials' \in [Credentials -> Credential \cup {None}]
  PROVE  Ceremonial'
<1>1. /\ ceremonies \in [Tokens -> Ceremony \cup {None}] /\ ceremonies[e.token] \in Ceremony
      /\ e.token \in Tokens /\ e.token # None
  BY PasskeysAssumption DEF Ceremonial, TypeOK, Completed
<1>2. ceremonies'[e.token] = [ceremonies[e.token] EXCEPT !.consumed = TRUE]
  BY <1>1 DEF Completed, Consume
<1>3. ceremonies'[e.token] \in Ceremony /\ ceremonies'[e.token] # None
  BY <1>1, <1>2, NoRowAssumption DEF Ceremony
<1>4. /\ ceremonies'[e.token].type = ceremonies[e.token].type
      /\ ceremonies'[e.token].subject = ceremonies[e.token].subject
      /\ ceremonies'[e.token].expires = ceremonies[e.token].expires
      /\ ceremonies'[e.token].consumed
  BY <1>1, <1>2 DEF Ceremony
<1>5. \A t \in Tokens : t # e.token => ceremonies'[t] = ceremonies[t]
  BY <1>1 DEF Completed, Consume
<1>6. Kept
  BY <1>3, <1>4, <1>5 DEF Kept
<1>7. ceremonies' \in [Tokens -> Ceremony \cup {None}]
  <2>1. ceremonies' = [ceremonies EXCEPT ![e.token] = ceremonies'[e.token]]
    BY <1>1 DEF Completed, Consume
  <2> QED BY <1>1, <1>3, <2>1
<1>8. log' \in Seq(Entry) /\ History'
  <2>1. Writable(e)
    BY <1>1, <1>3, <1>4 DEF Writable, Completed, Entry
  <2> QED BY <1>6, <2>1, HistoryGrows DEF Completed
<1>9. req' \in [Requests -> Request] /\ Carried'
  BY <1>6, AnswerCarried DEF Ceremonial
<1> QED BY <1>7, <1>8, <1>9 DEF Ceremonial, TypeOK, History

\* A step of the requests that commits no completion and removes nothing.
LEMMA QuietStep ==
  ASSUME Inv, Kept, log' = log, credentials' = credentials,
         ceremonies' \in [Tokens -> Ceremony \cup {None}], now' \in 0..MaxTime,
         req' \in [Requests -> Request], Carried'
  PROVE  Inv'
<1>1. log' \in Seq(Entry) /\ History'
  BY HistoryStays DEF Inv
<1>2. Ceremonial'
  BY <1>1 DEF Inv, Ceremonial, TypeOK, History
<1>3. CountsBounded' /\ CountersAdvance' /\ RowsRegistered' /\ RemovedProvesNothing'
  BY DEF Inv, CountsBounded, CountersAdvance, RowsRegistered, RemovedProvesNothing,
         SignedIn, Registered, Removed
<1> QED BY <1>2, <1>3 DEF Inv

\* The registration transaction.
LEMMA RegistrationStep ==
  ASSUME Inv, NEW r \in Requests, CompleteRegistration(r), log' # log
  PROVE  Inv'
<1>1. PICK e \in Entry :
            /\ Completed(r, e) /\ e.kind = "registered"
            /\ credentials[e.cred] = None
            /\ credentials' = [credentials EXCEPT ![e.cred] =
                                  [owner |-> e.subject, count |-> e.count, clone |-> FALSE]]
            /\ \E answer \in Answers : Answer(r, answer)
            /\ now' = now
  BY RegistrationCommits DEF Inv, Ceremonial
<1>2. /\ credentials \in [Credentials -> Credential \cup {None}]
      /\ e.cred \in Credentials /\ log' = Append(log, e)
  BY <1>1 DEF Inv, Ceremonial, TypeOK, Entry, Completed
<1>3. [owner |-> e.subject, count |-> e.count, clone |-> FALSE] \in Credential
  BY DEF Credential, Entry
<1>4. credentials' \in [Credentials -> Credential \cup {None}]
  BY <1>1, <1>2, <1>3
<1>5. Ceremonial'
  BY <1>1, <1>4, CompletionStep DEF Inv
<1>6. \A c \in Credentials : c # e.cred => credentials'[c] = credentials[c]
  BY <1>1, <1>2
<1>7. RowsAgree'
  BY <1>1, <1>2, <1>6, RowsGrow DEF Inv, Ceremonial, RowsAgree
<1>8. CountersAdvance' /\ RemovedProvesNothing'
  BY <1>1, <1>2, SignInsGrow DEF Inv, Ceremonial, SignInWritable
<1> QED BY <1>5, <1>7, <1>8 DEF Inv, RowsAgree

\* UpdateCounter keeps the larger counter, and warns unless the new one is larger or the
\* authenticator does not count.
LEMMA CounterUpdated ==
  ASSUME NEW old \in Credential, NEW n \in 0..MaxCount
  PROVE  LET new == Updated(old, n) IN
         /\ new \in Credential /\ old.count \in Nat /\ new.count \in Nat
         /\ old.count <= new.count /\ n <= new.count
         /\ ~new.clone => n > old.count \/ (n = 0 /\ old.count = 0)
<1> DEFINE stuck == n <= old.count /\ (n # 0 \/ old.count # 0)
<1>0. old.count \in 0..MaxCount /\ n \in Nat /\ old.count \in Nat
  BY PasskeysAssumption DEF Credential
<1>1. CASE stuck
  <2>1. Updated(old, n) = [old EXCEPT !.clone = TRUE]
    BY <1>1 DEF Updated
  <2>2. /\ [old EXCEPT !.clone = TRUE] \in Credential
        /\ [old EXCEPT !.clone = TRUE].count = old.count
        /\ [old EXCEPT !.clone = TRUE].clone
    BY DEF Credential
  <2> QED BY <1>0, <1>1, <2>1, <2>2
<1>2. CASE ~stuck
  <2>1. Updated(old, n) = [old EXCEPT !.count = n]
    BY <1>2 DEF Updated
  <2>2. [old EXCEPT !.count = n] \in Credential /\ [old EXCEPT !.count = n].count = n
    BY DEF Credential
  <2> QED BY <1>0, <1>2, <2>1, <2>2
<1> QED BY <1>1, <1>2

\* The sign-in transaction: the row it replaces is the one it was computed from.
LEMMA AuthenticationStep ==
  ASSUME Inv, NEW r \in Requests, CompleteAuthentication(r), log' # log
  PROVE  Inv'
<1>1. PICK e \in Entry :
            /\ Completed(r, e) /\ e.kind = "authenticated"
            /\ credentials[e.cred] \in Credential
            /\ credentials' = [credentials EXCEPT ![e.cred] = Updated(credentials[e.cred], e.count)]
            /\ e.clone = Updated(credentials[e.cred], e.count).clone
            /\ \E answer \in Answers : Answer(r, answer)
            /\ now' = now
  BY AuthenticationCommits DEF Inv, Ceremonial
<1> DEFINE old == credentials[e.cred]
           new == Updated(old, e.count)
<1>2. /\ credentials \in [Credentials -> Credential \cup {None}]
      /\ e.cred \in Credentials /\ log' = Append(log, e)
      /\ e.count \in 0..MaxCount /\ old # None
  BY <1>1, NoRowAssumption DEF Inv, Ceremonial, TypeOK, Entry, Completed
<1>3. /\ new \in Credential /\ old.count \in Nat /\ new.count \in Nat
      /\ old.count <= new.count /\ e.count <= new.count
      /\ ~new.clone => e.count > old.count \/ (e.count = 0 /\ old.count = 0)
  BY <1>1, <1>2, CounterUpdated
<1>4. credentials' \in [Credentials -> Credential \cup {None}] /\ credentials'[e.cred] = new
  BY <1>1, <1>2, <1>3
<1>5. Ceremonial'
  BY <1>1, <1>4, CompletionStep DEF Inv
<1>6. \A c \in Credentials : c # e.cred => credentials'[c] = credentials[c]
  BY <1>1, <1>2
<1> HIDE DEF new
<1>7. RowsAgree'
  BY <1>1, <1>2, <1>3, <1>4, <1>6, RowsGrow DEF Inv, Ceremonial, RowsAgree
<1>8. SignInWritable(e)
  <2>1. \E i \in 1..Len(log) :
              Registered(i, e.cred) /\ \A k \in i..Len(log) : ~Removed(k, e.cred)
    BY <1>2 DEF Inv, RowsRegistered
  <2>2. ASSUME NEW i \in 1..Len(log), SignedIn(i), log[i].cred = e.cred,
               \A k \in i..Len(log) : ~Registered(k, e.cred), ~e.clone
        PROVE  log[i].count < e.count \/ (log[i].count = 0 /\ e.count = 0)
    <3>1. log[i].count <= old.count
      BY <1>2, <2>2 DEF Inv, CountsBounded
    <3>2. log[i].count \in Nat
      <4>1. log[i] \in Entry
        BY DEF Inv, Ceremonial, TypeOK
      <4> QED BY <4>1 DEF Entry
    <3>3. e.count > old.count \/ (e.count = 0 /\ old.count = 0)
      BY <1>1, <1>3, <2>2 DEF new
    <3> QED BY <1>2, <1>3, <3>1, <3>2, <3>3
  <2> QED BY <2>1, <2>2 DEF SignInWritable
<1>9. CountersAdvance' /\ RemovedProvesNothing'
  BY <1>2, <1>8, SignInsGrow DEF Inv, Ceremonial
<1> QED BY <1>5, <1>7, <1>9 DEF Inv, RowsAgree

\* The removal of a credential.
LEMMA RemovalStep ==
  ASSUME Inv, NEW r \in Requests, NEW s \in Subjects, NEW c \in Credentials, Remove(r, s, c)
  PROVE  Inv'
<1> DEFINE e == [kind |-> "removed", subject |-> s, at |-> now, token |-> None,
                 cred |-> c, count |-> 0, clone |-> FALSE]
<1>1. /\ e \in Entry /\ e.kind = "removed" /\ e.token = None /\ e.cred = c
  BY PasskeysAssumption DEF Entry, Inv, Ceremonial, TypeOK
<1>2. /\ log' = Append(log, e) /\ credentials' = [credentials EXCEPT ![c] = None]
      /\ UNCHANGED <<now, ceremonies, req>>
  BY DEF Remove, Record
<1> HIDE DEF e
<1>3. /\ credentials' \in [Credentials -> Credential \cup {None}]
      /\ credentials'[c] = None
      /\ \A d \in Credentials : d # c => credentials'[d] = credentials[d]
  BY <1>2 DEF Inv, Ceremonial, TypeOK
<1>4. log' \in Seq(Entry) /\ History'
  <2>1. Kept /\ Writable(e)
    BY <1>1, <1>2 DEF Kept, Writable
  <2> QED BY <1>1, <1>2, <2>1, HistoryGrows DEF Inv
<1>5. Ceremonial'
  <2>1. Carried'
    BY <1>2 DEF Inv, Ceremonial, Carried
  <2> QED BY <1>2, <1>3, <1>4, <2>1 DEF Inv, Ceremonial, TypeOK, History
<1>6. RowsAgree'
  BY <1>1, <1>2, <1>3, RowsGrow DEF Inv, Ceremonial, RowsAgree
<1>7. CountersAdvance' /\ RemovedProvesNothing'
  BY <1>1, <1>2, SignInsGrow DEF Inv, Ceremonial, SignInWritable
<1> QED BY <1>5, <1>6, <1>7 DEF Inv, RowsAgree

\* Beginning a ceremony, finding one and failing: only a request changes, or a ceremony
\* is inserted under a token that none has.
LEMMA RequestStep ==
  ASSUME Inv, NEW r \in Requests,
         \/ \E s \in Subjects : BeginRegistration(r, s)
         \/ BeginAuthentication(r)
         \/ \E t \in Tokens, c \in Credentials, n \in 0..MaxCount :
               \/ FindCeremony(r, t, c, n)
               \/ \E s \in Subjects : VerifyRegistration(r, s, t, c, n)
         \/ \E t \in Tokens : CreateCeremony(r, t)
         \/ FindUserByCredential(r)
         \/ Fail(r)
         \/ (CompleteRegistration(r) \/ CompleteAuthentication(r)) /\ log' = log
  PROVE  Inv'
<1>0. /\ TypeOK /\ Carried /\ now \in 0..MaxTime /\ req \in [Requests -> Request]
      /\ ceremonies \in [Tokens -> Ceremony \cup {None}]
      /\ credentials \in [Credentials -> Credential \cup {None}]
      /\ req[r] \in Request /\ CarriedBy(req[r], ceremonies)
  BY DEF Inv, Ceremonial, TypeOK, Carried
<1>1. Idle \in Request
  BY IdleType DEF Answers
<1>2. ASSUME NEW x \in Request, req' = [req EXCEPT ![r] = x], CarriedBy(x, ceremonies),
             UNCHANGED <<now, ceremonies, credentials, log>>
      PROVE  Inv'
  <2>1. Kept
    BY <1>2 DEF Kept
  <2>2. req' \in [Requests -> Request] /\ Carried'
    BY <1>0, <1>2, <2>1, UpdateCarried
  <2> QED BY <1>0, <1>2, <2>1, <2>2, QuietStep
<1>3. ASSUME NEW answer \in Answers, Answer(r, answer),
             UNCHANGED <<now, ceremonies, credentials, log>>
      PROVE  Inv'
  BY <1>2, <1>3, IdleType DEF Answer
<1>4. CASE \E s \in Subjects : BeginRegistration(r, s)
  <2>1. PICK s \in Subjects : BeginRegistration(r, s)
    BY <1>4
  <2> DEFINE x == [Idle EXCEPT !.pc = "create", !.subject = s]
  <2>2. x \in Request /\ CarriedBy(x, ceremonies)
    BY <1>1 DEF Idle, Request, CarriedBy
  <2> HIDE DEF x
  <2>3. req' = [req EXCEPT ![r] = x] /\ UNCHANGED <<now, ceremonies, credentials, log>>
    BY <2>1 DEF BeginRegistration, Start, x
  <2> QED BY <1>2, <2>2, <2>3
<1>5. CASE BeginAuthentication(r)
  <2> DEFINE x == [Idle EXCEPT !.pc = "create", !.kind = "authentication"]
  <2>2. x \in Request /\ CarriedBy(x, ceremonies)
    BY <1>1 DEF Idle, Request, CarriedBy, Kinds
  <2> HIDE DEF x
  <2>3. req' = [req EXCEPT ![r] = x] /\ UNCHANGED <<now, ceremonies, credentials, log>>
    BY <1>5 DEF BeginAuthentication, Start, x
  <2> QED BY <1>2, <2>2, <2>3
<1>6. ASSUME NEW t \in Tokens, NEW c \in Credentials, NEW n \in 0..MaxCount,
             FindCeremony(r, t, c, n)
      PROVE  Inv'
  <2> DEFINE x == [Idle EXCEPT !.pc = "lookup", !.kind = "authentication", !.token = t,
                               !.cred = c, !.count = n]
  <2>2. x \in Request /\ CarriedBy(x, ceremonies)
    BY <1>1, <1>6 DEF Idle, Request, CarriedBy, Kinds, FindCeremony, Found
  <2> HIDE DEF x
  <2>3. req' = [req EXCEPT ![r] = x] /\ UNCHANGED <<now, ceremonies, credentials, log>>
    BY <1>6 DEF FindCeremony, Start, x
  <2> QED BY <1>2, <2>2, <2>3
<1>7. ASSUME NEW t \in Tokens, NEW c \in Credentials, NEW n \in 0..MaxCount, NEW s \in Subjects,
             VerifyRegistration(r, s, t, c, n)
      PROVE  Inv'
  <2> DEFINE x == [Idle EXCEPT !.pc = "register", !.subject = s, !.token = t,
                               !.cred = c, !.count = n]
  <2>2. x \in Request /\ CarriedBy(x, ceremonies)
    BY <1>1, <1>7 DEF Idle, Request, CarriedBy, VerifyRegistration, Found, MayComplete
  <2> HIDE DEF x
  <2>3. req' = [req EXCEPT ![r] = x] /\ UNCHANGED <<now, ceremonies, credentials, log>>
    BY <1>7 DEF VerifyRegistration, Start, x
  <2> QED BY <1>2, <2>2, <2>3
<1>8. ASSUME NEW t \in Tokens, CreateCeremony(r, t)
      PROVE  Inv'
  <2>1. CASE ceremonies[t] = None
    <3> DEFINE row == [type |-> req[r].kind, subject |-> req[r].subject,
                       expires |-> now + CeremonyLifetime, consumed |-> FALSE]
    <3>1. /\ ceremonies' = [ceremonies EXCEPT ![t] = row] /\ Answer(r, "ok")
          /\ UNCHANGED <<now, credentials, log>>
      BY <1>8, <2>1 DEF CreateCeremony
    <3>2. row \in Ceremony
      BY <1>0, PasskeysAssumption DEF Ceremony, Request
    <3> HIDE DEF row
    <3>3. ceremonies' \in [Tokens -> Ceremony \cup {None}]
      BY <1>0, <3>1, <3>2
    <3>4. Kept
      BY <1>0, <2>1, <3>1 DEF Kept
    <3>5. req' \in [Requests -> Request] /\ Carried'
      BY <1>0, <3>1, <3>4, AnswerCarried DEF Answers
    <3> QED BY <1>0, <3>1, <3>3, <3>4, <3>5, QuietStep
  <2>2. CASE ceremonies[t] # None
    <3>1. Redraw(r) /\ UNCHANGED <<now, ceremonies, credentials, log>> /\ req[r].pc = "create"
      BY <1>8, <2>2 DEF CreateCeremony
    <3>2. CASE req[r].tries < CeremonyAttempts - 1
      <4> DEFINE x == [req[r] EXCEPT !.tries = @ + 1]
      <4>1. x \in Request /\ CarriedBy(x, ceremonies)
        BY <1>0, <3>2 DEF Request, CarriedBy, CeremonyAttempts
      <4>2. req' = [req EXCEPT ![r] = x]
        BY <3>1, <3>2 DEF Redraw
      <4> HIDE DEF x
      <4> QED BY <1>2, <3>1, <4>1, <4>2
    <3>3. CASE ~(req[r].tries < CeremonyAttempts - 1)
      BY <1>3, <3>1, <3>3 DEF Redraw, Answers
    <3> QED BY <3>2, <3>3
  <2> QED BY <2>1, <2>2
<1>9. CASE FindUserByCredential(r)
  <2>1. CASE credentials[req[r].cred] = None
    BY <1>3, <1>9, <2>1 DEF FindUserByCredential, Answers
  <2>2. CASE credentials[req[r].cred] # None
    <3> DEFINE row == credentials[req[r].cred]
               x == [req[r] EXCEPT !.pc = "authenticate", !.subject = row.owner, !.previous = row]
    <3>1. req[r].pc = "lookup" /\ req[r].cred \in Credentials /\ row \in Credential
      BY <1>0, <1>9, <2>2 DEF FindUserByCredential, CarriedBy
    <3>2. x \in Request /\ CarriedBy(x, ceremonies)
      BY <1>0, <3>1 DEF Request, CarriedBy, Credential
    <3>3. req' = [req EXCEPT ![r] = x] /\ UNCHANGED <<now, ceremonies, credentials, log>>
      BY <1>9, <2>2 DEF FindUserByCredential
    <3> HIDE DEF x
    <3> QED BY <1>2, <3>2, <3>3
  <2> QED BY <2>1, <2>2
<1>10. CASE Fail(r)
  BY <1>3, <1>10 DEF Fail, Answers
<1>11. CASE (CompleteRegistration(r) \/ CompleteAuthentication(r)) /\ log' = log
  <2>1. \A e : Append(log, e) # log
    <3> SUFFICES ASSUME NEW e PROVE Append(log, e) # log
      OBVIOUS
    <3>1. log \in Seq(Entry)
      BY <1>0 DEF TypeOK
    <3>2. Len(log) \in Nat
      BY <3>1
    <3>3. Len(Append(log, e)) = Len(log) + 1
      OBVIOUS
    <3> QED BY <3>2, <3>3
  <2>2. \E answer \in Answers : Answer(r, answer) /\ UNCHANGED <<now, ceremonies, credentials, log>>
    BY <1>11, <2>1 DEF CompleteRegistration, CompleteAuthentication, Record, Answers
  <2> QED BY <1>3, <2>2
<1> QED BY <1>4, <1>5, <1>6, <1>7, <1>8, <1>9, <1>10, <1>11

\* Every step keeps the invariant.
LEMMA Inductive == Inv /\ [Next]_vars => Inv'
<1> SUFFICES ASSUME Inv, [Next]_vars PROVE Inv'
  OBVIOUS
<1>1. CASE Tick \/ UNCHANGED vars
  <2>1. /\ UNCHANGED <<ceremonies, credentials, log, req>>
        /\ now' \in 0..MaxTime
    BY <1>1, PasskeysAssumption DEF Tick, vars, Inv, Ceremonial, TypeOK
  <2>2. Kept /\ Carried' /\ req' \in [Requests -> Request]
        /\ ceremonies' \in [Tokens -> Ceremony \cup {None}]
    BY <2>1 DEF Inv, Ceremonial, TypeOK, Carried, Kept
  <2> QED BY <2>1, <2>2, QuietStep
<1>2. ASSUME NEW r \in Requests, Begin(r) \/ Step(r)
      PROVE  Inv'
  BY <1>2, RequestStep, RemovalStep, RegistrationStep, AuthenticationStep DEF Begin, Step
<1> QED BY <1>1, <1>2 DEF Next

\* It holds at the start: nothing is stored and every request is idle.
LEMMA Initially == Init => Inv
<1> SUFFICES ASSUME Init PROVE Inv
  OBVIOUS
<1>1. Idle \in Request /\ CarriedBy(Idle, ceremonies)
  BY IdleType DEF Answers, Idle, CarriedBy
<1>2. TypeOK /\ Carried
  BY <1>1, PasskeysAssumption DEF Init, TypeOK, Carried
<1>3. Len(log) = 0 /\ DOMAIN log = {} /\ \A i \in 1..Len(log) : FALSE
  BY DEF Init
<1> QED BY <1>2, <1>3 DEF Init, Inv, Ceremonial, Spent, CeremonySpentOnce, ProvenInTime,
  RegisteredBySubject, CountsBounded, CountersAdvance, RowsRegistered, RemovedProvesNothing

\* So it holds throughout.
LEMMA Invariant == Spec => []Inv
  BY Initially, Inductive, PTL DEF Spec

-----------------------------------------------------------------------------
(***************************************************************************)
(* Passkeys: the theorems.                                                 *)
(***************************************************************************)

\* CeremoniesSound is an invariant: a ceremony completes one registration or sign-in at
\* most, before its expiry, and a registration is for the subject who began it, however
\* many requests found the ceremony open.
THEOREM CeremoniesServeOnce == Spec => []CeremoniesSound
<1>1. Inv => CeremoniesSound
  BY DEF Inv, Ceremonial, CeremoniesSound
<1> QED BY <1>1, Invariant, PTL

\* CountersAdvance is an invariant: sign-ins with one credential that raise no clone
\* warning used advancing counters, since the UPDATE of CompleteAuthentication compares
\* the row with the one the new counter was computed from.
THEOREM CountersAlwaysAdvance == Spec => []CountersAdvance
<1>1. Inv => CountersAdvance
  BY DEF Inv
<1> QED BY <1>1, Invariant, PTL

\* OpenCeremonyAccepted holds of a store that does not compare the subject: the comparison
\* in consumePasskeyCeremony is the one thing that refuses a verified sign-in whose
\* ceremony is open.
THEOREM OpenCeremonyServed ==
  ASSUME ~BindsSubject
  PROVE  Spec => OpenCeremonyAccepted
<1>1. ASSUME Inv, [Next]_vars, NEW r \in Requests,
             req[r].pc = "authenticate", req'[r].answer = "invalid_ceremony"
      PROVE  ~Found(req[r].token, "authentication")
  <2>1. req \in [Requests -> Request] /\ req[r].answer = None
    BY <1>1 DEF Inv, Ceremonial, TypeOK, Carried, CarriedBy
  <2>2. req'[r] # req[r]
    BY <1>1, <2>1, PasskeysAssumption
  <2>3. \A q \in Requests : \A x : req' = [req EXCEPT ![q] = x] => q = r /\ req'[r] = x
    BY <2>1, <2>2
  <2>4. \A q \in Requests : \A answer : Answer(q, answer) => q = r /\ answer = "invalid_ceremony"
    <3>1. \A answer : [Idle EXCEPT !.answer = answer].answer = answer
      BY DEF Idle
    <3> QED BY <1>1, <2>3, <3>1 DEF Answer
  <2>5. PICK q \in Requests : Begin(q) \/ Step(q)
    BY <1>1, <2>2 DEF Next, Tick, vars
  <2>6. ~Begin(q)
    BY <1>1, <2>2, <2>3 DEF Begin, BeginRegistration, BeginAuthentication, Remove, FindCeremony,
                            VerifyRegistration, Start, Free
  <2>7. q = r
    <3>1. \A t \in Tokens : CreateCeremony(q, t) => q = r
      BY <2>1, <2>2, <2>4 DEF CreateCeremony, Redraw
    <3>2. FindUserByCredential(q) => q = r
      BY <2>1, <2>2, <2>4 DEF FindUserByCredential
    <3> QED BY <2>4, <2>5, <2>6, <3>1, <3>2
      DEF Step, CompleteRegistration, CompleteAuthentication, Fail
  <2>8. CompleteAuthentication(r)
    <3>1. ~Fail(r)
      BY <2>4 DEF Fail
    <3> QED BY <1>1, <2>5, <2>6, <2>7, <3>1
      DEF Step, CreateCeremony, CompleteRegistration, FindUserByCredential
  <2>9. ~Consumable(req[r].token, "authentication", req[r].subject)
    BY <2>4, <2>8 DEF CompleteAuthentication
  <2> QED BY <1>1, <2>9 DEF Consumable, Found
<1>2. Inv /\ [Next]_vars =>
        [\A r \in Requests :
            req[r].pc = "authenticate" /\ req'[r].answer = "invalid_ceremony"
            => ~Found(req[r].token, "authentication")]_vars
  BY <1>1
<1> QED BY <1>2, Invariant, PTL DEF Spec, OpenCeremonyAccepted

\* RemovedProvesNothing is an invariant: a sign-in completes only with a credential that
\* is registered at that moment, whatever was loaded before its removal.
THEOREM RemovedIsRefused == Spec => []RemovedProvesNothing
<1>1. Inv => RemovedProvesNothing
  BY DEF Inv
<1> QED BY <1>1, Invariant, PTL

-----------------------------------------------------------------------------
(***************************************************************************)
(* Redirect flows.  A nonce is drawn once, so the flow recorded            *)
(* for it is the reference that the stored challenge, the request that has *)
(* consumed it and the identity accepted from it must all agree with.      *)
(***************************************************************************)

\* What a request carries to its next step.
FlowCarriedBy(x) ==
    /\ x.pc = "create" => /\ x.conn \in Connections /\ x.config \in Configurations
                          /\ x.tries < AttemptsOf(x.conn)
    /\ x.pc \in Consumed => x.challenge \in Challenge /\ x.answer \in ProviderAnswer
    /\ x.pc = "exchange" => x.config = x.challenge.config

FlowCarried == \A r \in Redirects : FlowCarriedBy(redirect[r])

FlowTypes == FlowTypeOK /\ FlowCarried

\* A challenge, stored or consumed, against the flow f of its nonce.
Agrees(c, f) ==
    f # Absent /\ f.conn = c.conn /\ f.config = c.config /\ f.expires = c.expires

FlowsAgree ==
    /\ \A s \in Stored : Agrees(challenges[s], flows[challenges[s].nonce])
    /\ \A r \in Serving :
          /\ Agrees(redirect[r].challenge, flows[redirect[r].challenge.nonce])
          /\ redirect[r].at < redirect[r].challenge.expires
    /\ \A i \in accepted :
          LET f == flows[i.nonce] IN
          /\ f # Absent /\ i.config = f.config /\ i.at < f.expires
          /\ f.conn = Google \/ f.config \in RequiringEmail => i.answer.email

\* No two stored challenges are of one flow.
StoredOnce == \A s1, s2 \in Stored : challenges[s1].nonce = challenges[s2].nonce => s1 = s2

\* What is accepted answers the flow that was completed.
OwnAnswer == \A i \in accepted : i.answer.nonce = i.nonce

FlowInv == FlowTypes /\ FlowsAgree /\ StoredOnce /\ FlowConsumedOnce /\ OwnAnswer

-----------------------------------------------------------------------------
(***************************************************************************)
(* Types of redirect flows.                                                *)
(***************************************************************************)

\* The request of a free slot has the type of one and carries nothing.
LEMMA FlowIdleType ==
  IdleRedirect \in Redirect /\ FlowCarriedBy(IdleRedirect) /\ IdleRedirect.pc = "idle"
<1>1. IdleRedirect \in Redirect
  BY FederationAssumption DEF IdleRedirect, Redirect, Times, ChallengeAttempts
<1> QED BY <1>1 DEF IdleRedirect, FlowCarriedBy, Consumed

\* What FlowTypeOK and FlowCarried say of the requests.
FlowReqOK == /\ redirect \in [Redirects -> Redirect] /\ FlowCarried
             /\ \A q \in Redirects :
                   redirect[q].pc = "create" => redirect[q].tries < AttemptsOf(redirect[q].conn)

\* Changing one request keeps the types of all.
LEMMA FlowUpdateTypes ==
  ASSUME FlowTypes, NEW r \in Redirects, NEW x \in Redirect, FlowCarriedBy(x),
         redirect' = [redirect EXCEPT ![r] = x]
  PROVE  FlowReqOK'
<1>1. redirect' \in [Redirects -> Redirect] /\ FlowCarried'
  BY DEF FlowTypes, FlowTypeOK, FlowCarried
<1> QED BY <1>1 DEF FlowReqOK, FlowCarried, FlowCarriedBy

\* So does returning.
LEMMA FlowReturnTypes ==
  ASSUME FlowTypes, NEW r \in Redirects, Return(r)
  PROVE  FlowReqOK'
  BY FlowIdleType, FlowUpdateTypes DEF Return

\* Every step keeps the types and what the requests carry.
LEMMA FlowTypesInductive == FlowTypes /\ [FlowNext]_flowVars => FlowTypes'
<1> SUFFICES ASSUME FlowTypes, [FlowNext]_flowVars PROVE FlowTypes'
  OBVIOUS
<1> USE FederationAssumption, NoFlowRowAssumption
<1>0. flowNow \in Times /\ flowNow \in Nat
  BY DEF FlowTypes, FlowTypeOK, Times
<1>1. ASSUME NEW r \in Redirects PROVE redirect[r] \in Redirect /\ FlowCarriedBy(redirect[r])
  BY DEF FlowTypes, FlowTypeOK, FlowCarried
<1>2. CASE FlowTick
  BY <1>2 DEF FlowTick, FlowTypes, FlowTypeOK, Times, FlowCarried, FlowCarriedBy
<1>3. ASSUME NEW c \in Connections, NEW config \in Configurations \cup {Absent},
             Reconfigure(c, config)
      PROVE  FlowTypes'
  BY <1>3 DEF Reconfigure, FlowTypes, FlowTypeOK, FlowCarried, FlowCarriedBy
<1>4. ASSUME NEW n \in Nonces, NEW email \in BOOLEAN, Authenticate(n, email) PROVE FlowTypes'
  BY <1>4 DEF Authenticate, ProviderAnswer, FlowTypes, FlowTypeOK, FlowCarried, FlowCarriedBy
<1>5. ASSUME NEW r \in Redirects, NEW c \in Connections, BeginFlow(r, c) PROVE FlowTypes'
  <2> DEFINE x == [IdleRedirect EXCEPT !.pc = "create", !.conn = c, !.config = connections[c]]
  <2>1. connections[c] \in Configurations
    BY <1>5 DEF BeginFlow, FoundConnection, FlowTypes, FlowTypeOK
  <2>2. x \in Redirect
    BY <2>1, FlowIdleType DEF Redirect
  <2>3. FlowCarriedBy(x)
    BY <2>1 DEF FlowCarriedBy, IdleRedirect, AttemptsOf, ChallengeAttempts, Consumed
  <2> HIDE DEF x
  <2>4. redirect' = [redirect EXCEPT ![r] = x]
    BY <1>5 DEF BeginFlow, x
  <2>5. FlowReqOK'
    BY <2>2, <2>3, <2>4, FlowUpdateTypes DEF FlowReqOK
  <2> QED BY <1>5, <2>5 DEF BeginFlow, FlowTypes, FlowTypeOK, FlowReqOK
<1>6. ASSUME NEW r \in Redirects, NEW s \in States, NEW n \in Nonces, CreateChallenge(r, s, n)
      PROVE  FlowTypes'
  <2>0. /\ redirect[r].pc = "create" /\ redirect[r].conn \in Connections
        /\ redirect[r].config \in Configurations
        /\ UNCHANGED <<flowNow, connections, answers, accepted>>
    BY <1>1, <1>6 DEF CreateChallenge, FlowCarriedBy
  <2>1. CASE challenges[s] = Absent
    <3> DEFINE c == [nonce |-> n, conn |-> redirect[r].conn, config |-> redirect[r].config,
                     expires |-> flowNow + Lifetime]
               f == [conn |-> redirect[r].conn, config |-> redirect[r].config,
                     expires |-> flowNow + Lifetime]
    <3>1. c \in Challenge /\ f \in Flow
      BY <1>0, <2>0 DEF Challenge, Flow
    <3>2. /\ challenges' = [challenges EXCEPT ![s] = c] /\ flows' = [flows EXCEPT ![n] = f]
          /\ Return(r)
      BY <1>6, <2>1 DEF CreateChallenge
    <3> HIDE DEF c, f
    <3>3. FlowReqOK'
      BY <3>2, FlowReturnTypes DEF FlowReqOK
    <3> QED BY <2>0, <3>1, <3>2, <3>3 DEF FlowTypes, FlowTypeOK, FlowReqOK
  <2>2. CASE challenges[s] # Absent
    <3>1. RedrawState(r) /\ UNCHANGED <<challenges, flows>>
      BY <1>6, <2>2 DEF CreateChallenge
    <3>2. FlowReqOK'
      <4>1. CASE redirect[r].tries + 1 < AttemptsOf(redirect[r].conn)
        <5> DEFINE x == [redirect[r] EXCEPT !.tries = @ + 1]
        <5>1. redirect[r].tries + 1 \in 0..(ChallengeAttempts - 1)
          BY <1>1, <4>1 DEF Redirect, AttemptsOf, ChallengeAttempts
        <5>2. x \in Redirect
          BY <1>1, <5>1 DEF Redirect
        <5>3. FlowCarriedBy(x)
          BY <1>1, <2>0, <4>1 DEF FlowCarriedBy, Redirect, Consumed
        <5>4. redirect' = [redirect EXCEPT ![r] = x]
          BY <3>1, <4>1 DEF RedrawState
        <5> HIDE DEF x
        <5> QED BY <5>2, <5>3, <5>4, FlowUpdateTypes DEF FlowReqOK
      <4>2. CASE Return(r)
        BY <4>2, FlowReturnTypes DEF FlowReqOK
      <4> QED BY <3>1, <4>1, <4>2 DEF RedrawState
    <3> QED BY <2>0, <3>1, <3>2 DEF FlowTypes, FlowTypeOK, FlowReqOK
  <2> QED BY <2>1, <2>2
<1>7. ASSUME NEW r \in Redirects, NEW s \in States, NEW answer \in answers,
             ConsumeChallenge(r, s, answer)
      PROVE  FlowTypes'
  <2> DEFINE c == challenges[s]
             x == [IdleRedirect EXCEPT
                  !.pc = IF c.conn = Google THEN "exchange" ELSE "lookup",
                  !.config = IF c.conn = Google THEN c.config ELSE Absent,
                  !.challenge = c, !.answer = answer, !.at = flowNow]
  <2>1. c \in Challenge /\ answer \in ProviderAnswer
    BY <1>7 DEF ConsumeChallenge, FlowTypes, FlowTypeOK
  <2>2. challenges' \in [States -> Challenge \cup {Absent}]
        /\ UNCHANGED <<flowNow, connections, flows, answers, accepted>>
    BY <1>7 DEF ConsumeChallenge, Taken, FlowTypes, FlowTypeOK
  <2>3. x \in Redirect
    BY <1>0, <2>1, FlowIdleType DEF Redirect, Consumed, Challenge
  <2>4. FlowCarriedBy(x)
    BY <2>1 DEF FlowCarriedBy, IdleRedirect, Consumed
  <2>5. redirect' = redirect \/ redirect' = [redirect EXCEPT ![r] = x]
    BY <1>7 DEF ConsumeChallenge
  <2> HIDE DEF x
  <2>6. FlowReqOK'
    BY <2>3, <2>4, <2>5, FlowUpdateTypes DEF FlowReqOK, FlowTypes, FlowTypeOK, FlowCarried
  <2> QED BY <2>2, <2>6 DEF FlowTypes, FlowTypeOK, FlowReqOK
<1>8. ASSUME NEW r \in Redirects, LookupConnection(r) PROVE FlowTypes'
  <2> DEFINE x == [redirect[r] EXCEPT !.pc = "exchange",
                                      !.config = connections[redirect[r].challenge.conn]]
  <2>1. CASE Matches(redirect[r].challenge)
    <3>1. /\ redirect[r].pc = "lookup" /\ redirect[r].challenge \in Challenge
          /\ connections[redirect[r].challenge.conn] = redirect[r].challenge.config
      BY <1>1, <1>8, <2>1 DEF LookupConnection, Matches, FlowCarriedBy, Consumed
    <3>2. x \in Redirect
      BY ZenonT(40), <1>1, <3>1 DEF Redirect, Consumed, Challenge
    <3>3. FlowCarriedBy(x)
      BY <1>1, <3>1 DEF FlowCarriedBy, Redirect, Consumed
    <3>4. redirect' = [redirect EXCEPT ![r] = x]
      BY <1>8, <2>1 DEF LookupConnection
    <3> HIDE DEF x
    <3>5. FlowReqOK'
      BY <3>2, <3>3, <3>4, FlowUpdateTypes DEF FlowReqOK
    <3> QED BY <1>8, <3>5 DEF LookupConnection, FlowTypes, FlowTypeOK, FlowReqOK
  <2>2. CASE ~Matches(redirect[r].challenge)
    <3>1. FlowReqOK'
      BY <1>8, <2>2, FlowReturnTypes DEF LookupConnection, FlowReqOK
    <3> QED BY <1>8, <3>1 DEF LookupConnection, FlowTypes, FlowTypeOK, FlowReqOK
  <2> QED BY <2>1, <2>2
<1>9. ASSUME NEW r \in Redirects, Exchange(r) PROVE FlowTypes'
  <2>1. accepted' \subseteq Identity
    <3> DEFINE i == [nonce |-> redirect[r].challenge.nonce, answer |-> redirect[r].answer,
                     config |-> redirect[r].config, at |-> redirect[r].at]
    <3>1. i \in Identity
      BY <1>1, <1>9 DEF Exchange, FlowCarriedBy, Consumed, Challenge, Identity, Redirect
    <3>2. accepted' = accepted \/ accepted' = accepted \cup {i}
      BY <1>9 DEF Exchange
    <3> HIDE DEF i
    <3> QED BY <3>1, <3>2 DEF FlowTypes, FlowTypeOK
  <2>2. FlowReqOK'
    BY <1>9, FlowReturnTypes DEF Exchange, FlowReqOK
  <2> QED BY <1>9, <2>1, <2>2 DEF Exchange, FlowTypes, FlowTypeOK, FlowReqOK
<1>10. ASSUME NEW r \in Redirects, FailFlow(r) PROVE FlowTypes'
  <2>1. FlowReqOK'
    BY <1>10, FlowReturnTypes DEF FailFlow, FlowReqOK
  <2> QED BY <1>10, <2>1 DEF FailFlow, FlowTypes, FlowTypeOK, FlowReqOK
<1>11. CASE UNCHANGED flowVars
  BY <1>11 DEF flowVars, FlowTypes, FlowTypeOK, FlowCarried, FlowCarriedBy
<1> QED BY <1>2, <1>3, <1>4, <1>5, <1>6, <1>7, <1>8, <1>9, <1>10, <1>11 DEF FlowNext

-----------------------------------------------------------------------------
(***************************************************************************)
(* Flows.                                                                  *)
(***************************************************************************)

Flowing == FlowsAgree /\ StoredOnce /\ FlowConsumedOnce /\ OwnAnswer

\* Tables and histories stay, and a request either keeps serving its challenge or
\* serves none.
LEMMA ReleaseFlows ==
  ASSUME FlowInv, UNCHANGED <<challenges, flows, accepted>>,
         \A q \in Redirects : redirect'[q].pc \in Consumed =>
             /\ redirect[q].pc \in Consumed
             /\ redirect'[q].challenge = redirect[q].challenge /\ redirect'[q].at = redirect[q].at
  PROVE  Flowing'
<1>1. Stored' = Stored
  BY DEF Stored
<1>2. \A q \in Serving' :
         /\ q \in Serving /\ redirect'[q].challenge = redirect[q].challenge
         /\ redirect'[q].at = redirect[q].at
  BY DEF Serving
<1>3. FlowsAgree'
  BY <1>1, <1>2 DEF FlowInv, FlowsAgree
<1>4. StoredOnce' /\ OwnAnswer'
  BY <1>1 DEF FlowInv, StoredOnce, OwnAnswer
<1>5. FlowConsumedOnce'
  BY <1>1, <1>2 DEF FlowInv, FlowConsumedOnce
<1> QED BY <1>3, <1>4, <1>5 DEF Flowing

\* A fresh nonce is of no challenge and no identity.
LEMMA CreateFlows ==
  ASSUME FlowInv, NEW r \in Redirects, NEW s \in States, NEW n \in Nonces,
         CreateChallenge(r, s, n), challenges[s] = Absent
  PROVE  Flowing'
<1> USE FederationAssumption, NoFlowRowAssumption
<1> DEFINE c == [nonce |-> n, conn |-> redirect[r].conn, config |-> redirect[r].config,
                 expires |-> flowNow + Lifetime]
           f == [conn |-> redirect[r].conn, config |-> redirect[r].config,
                 expires |-> flowNow + Lifetime]
<1>1. /\ challenges' = [challenges EXCEPT ![s] = c] /\ flows' = [flows EXCEPT ![n] = f]
      /\ redirect' = [redirect EXCEPT ![r] = IdleRedirect]
      /\ accepted' = accepted /\ flows[n] = Absent
  BY DEF CreateChallenge, Return
<1>2. c \in Challenge /\ f \in Flow
  BY DEF CreateChallenge, FlowInv, FlowTypes, FlowTypeOK, FlowCarried, FlowCarriedBy,
         Times, Challenge, Flow
<1>3. c.nonce = n /\ Agrees(c, f)
  BY <1>2 DEF Agrees
<1> HIDE DEF c, f
<1>4. /\ Stored' = Stored \cup {s} /\ s \notin Stored
      /\ challenges'[s] = c /\ \A g \in Stored : challenges'[g] = challenges[g]
  BY <1>1, <1>2 DEF Stored, FlowInv, FlowTypes, FlowTypeOK
<1>5. \A q \in Serving' : q \in Serving /\ redirect'[q] = redirect[q]
  BY <1>1, FlowIdleType DEF Serving, Consumed, FlowInv, FlowTypes, FlowTypeOK
<1>6. /\ \A g \in Stored : challenges[g].nonce # n /\ challenges[g].nonce \in Nonces
      /\ \A q \in Serving :
            redirect[q].challenge.nonce # n /\ redirect[q].challenge.nonce \in Nonces
      /\ \A i \in accepted : i.nonce # n /\ i.nonce \in Nonces
  <2>1. \A g \in Stored : challenges[g] \in Challenge
    BY DEF Stored, FlowInv, FlowTypes, FlowTypeOK
  <2>2. \A q \in Serving : redirect[q].challenge \in Challenge
    BY DEF Serving, FlowInv, FlowTypes, FlowCarried, FlowCarriedBy
  <2>3. \A i \in accepted : i.nonce \in Nonces
    BY DEF FlowInv, FlowTypes, FlowTypeOK, Identity
  <2> QED BY <1>1, <2>1, <2>2, <2>3 DEF FlowInv, FlowsAgree, Agrees, Challenge
<1>7. flows'[n] = f /\ \A m \in Nonces : m # n => flows'[m] = flows[m]
  BY <1>1 DEF FlowInv, FlowTypes, FlowTypeOK
<1>8. FlowsAgree'
  <2>1. \A g \in Stored' : Agrees(challenges'[g], flows'[challenges'[g].nonce])
    BY <1>3, <1>4, <1>6, <1>7 DEF FlowInv, FlowsAgree
  <2>2. \A q \in Serving' : /\ Agrees(redirect'[q].challenge, flows'[redirect'[q].challenge.nonce])
                            /\ redirect'[q].at < redirect'[q].challenge.expires
    BY <1>5, <1>6, <1>7 DEF FlowInv, FlowsAgree
  <2>3. \A i \in accepted : flows'[i.nonce] = flows[i.nonce]
    BY <1>6, <1>7
  <2> QED BY <1>1, <2>1, <2>2, <2>3 DEF FlowInv, FlowsAgree
<1>9. StoredOnce'
  BY <1>3, <1>4, <1>6 DEF FlowInv, StoredOnce
<1>10. FlowConsumedOnce'
  BY <1>1, <1>3, <1>4, <1>5, <1>6 DEF FlowInv, FlowConsumedOnce
<1>11. OwnAnswer'
  BY <1>1 DEF FlowInv, OwnAnswer
<1> QED BY <1>8, <1>9, <1>10, <1>11 DEF Flowing

\* The flow moves from the table to the one request that deleted its row.
LEMMA ConsumeFlows ==
  ASSUME FlowInv, NEW r \in Redirects, NEW s \in States, NEW answer \in answers,
         ConsumeChallenge(r, s, answer)
  PROVE  Flowing'
<1> USE FederationAssumption, NoFlowRowAssumption
<1> DEFINE c == challenges[s]
           x == [IdleRedirect EXCEPT
                  !.pc = IF c.conn = Google THEN "exchange" ELSE "lookup",
                  !.config = IF c.conn = Google THEN c.config ELSE Absent,
                  !.challenge = c, !.answer = answer, !.at = flowNow]
<1>1. /\ challenges' = [challenges EXCEPT ![s] = Absent] /\ s \in Stored
      /\ UNCHANGED <<flows, accepted>> /\ r \notin Serving
  BY DEF ConsumeChallenge, Taken, Stored, Serving, FreeRedirect, Consumed
<1>2. /\ Stored' = Stored \ {s} /\ \A g \in Stored' : challenges'[g] = challenges[g]
  BY <1>1 DEF Stored, FlowInv, FlowTypes, FlowTypeOK
<1>3. x.challenge = c /\ x.at = flowNow
  BY DEF IdleRedirect
<1>4. \/ redirect' = redirect
      \/ flowNow < c.expires /\ redirect' = [redirect EXCEPT ![r] = x]
  BY DEF ConsumeChallenge, InTime
<1> HIDE DEF x, c
<1>5. \A q \in Serving' :
         \/ q \in Serving /\ redirect'[q] = redirect[q] /\ q # r
         \/ q = r /\ redirect'[q].challenge = c /\ redirect'[q].at = flowNow /\ flowNow < c.expires
  BY <1>1, <1>3, <1>4 DEF Serving, FlowInv, FlowTypes, FlowTypeOK
<1>6. FlowsAgree'
  BY <1>1, <1>2, <1>5 DEF FlowInv, FlowsAgree, c
<1>7. StoredOnce' /\ OwnAnswer'
  BY <1>1, <1>2 DEF FlowInv, StoredOnce, OwnAnswer
<1>8. FlowConsumedOnce'
  <2>1. \A g \in Stored' : challenges[g].nonce # c.nonce
    BY <1>1, <1>2 DEF FlowInv, StoredOnce, c
  <2>2. \A q \in Serving : redirect[q].challenge.nonce # c.nonce
    BY <1>1 DEF FlowInv, FlowConsumedOnce, c
  <2>3. \A i \in accepted : i.nonce # c.nonce
    BY <1>1 DEF FlowInv, FlowConsumedOnce, c
  <2> QED BY <1>1, <1>2, <1>5, <2>1, <2>2, <2>3 DEF FlowInv, FlowConsumedOnce
<1> QED BY <1>6, <1>7, <1>8 DEF Flowing

\* The request that served the flow is the only one that can have it accepted.
LEMMA ExchangeFlows ==
  ASSUME FlowInv, NEW r \in Redirects, Exchange(r), Acceptable(redirect[r])
  PROVE  Flowing'
<1> DEFINE q == redirect[r]
           i == [nonce |-> q.challenge.nonce, answer |-> q.answer, config |-> q.config,
                 at |-> q.at]
<1>1. /\ accepted' = accepted \cup {i} /\ UNCHANGED <<challenges, flows>>
      /\ redirect' = [redirect EXCEPT ![r] = IdleRedirect] /\ r \in Serving /\ q.pc = "exchange"
  BY DEF Exchange, Return, Serving, Consumed
<1>2. Stored' = Stored
  BY <1>1 DEF Stored
<1>3. \A p \in Serving' : p \in Serving /\ redirect'[p] = redirect[p] /\ p # r
  BY <1>1, FlowIdleType DEF Serving, Consumed, FlowInv, FlowTypes, FlowTypeOK
<1>4. /\ i.nonce = q.challenge.nonce /\ i.answer = q.answer /\ i.config = q.config /\ i.at = q.at
  OBVIOUS
<1> HIDE DEF i
<1>5. /\ q.config = q.challenge.config /\ q.answer.nonce = q.challenge.nonce
      /\ q.challenge.conn = Google \/ q.config \in RequiringEmail => q.answer.email
  BY <1>1 DEF Acceptable, FlowInv, FlowTypes, FlowCarried, FlowCarriedBy
<1>6. Agrees(q.challenge, flows[q.challenge.nonce]) /\ q.at < q.challenge.expires
  BY <1>1 DEF FlowInv, FlowsAgree
<1> HIDE DEF q
<1>7. FlowsAgree'
  <2>1. LET f == flows[i.nonce] IN
          /\ f # Absent /\ i.config = f.config /\ i.at < f.expires
          /\ f.conn = Google \/ f.config \in RequiringEmail => i.answer.email
    BY <1>4, <1>5, <1>6 DEF Agrees
  <2> QED BY <1>1, <1>2, <1>3, <2>1 DEF FlowInv, FlowsAgree
<1>8. StoredOnce'
  BY <1>1, <1>2 DEF FlowInv, StoredOnce
<1>9. OwnAnswer'
  BY <1>1, <1>4, <1>5 DEF FlowInv, OwnAnswer
<1>10. FlowConsumedOnce'
  <2>1. /\ \A g \in Stored : challenges[g].nonce # i.nonce
        /\ \A p \in Serving : p # r => redirect[p].challenge.nonce # i.nonce
        /\ \A j \in accepted : j.nonce # i.nonce
    BY <1>1, <1>4 DEF FlowInv, FlowConsumedOnce, q
  <2> QED BY <1>1, <1>2, <1>3, <2>1 DEF FlowInv, FlowConsumedOnce
<1> QED BY <1>7, <1>8, <1>9, <1>10 DEF Flowing

\* Every step keeps the invariant.
LEMMA FlowInductive == FlowInv /\ [FlowNext]_flowVars => FlowInv'
<1> SUFFICES ASSUME FlowInv, [FlowNext]_flowVars PROVE FlowInv'
  OBVIOUS
<1>0. FlowTypes' /\ redirect \in [Redirects -> Redirect]
  BY FlowTypesInductive DEF FlowInv, FlowTypes, FlowTypeOK
<1> SUFFICES Flowing'
  BY <1>0 DEF FlowInv, Flowing
<1>1. ASSUME NEW r \in Redirects, Return(r), UNCHANGED <<challenges, flows, accepted>>
      PROVE  Flowing'
  BY <1>0, <1>1, FlowIdleType, ReleaseFlows DEF Return, Consumed
<1>2. CASE UNCHANGED <<challenges, flows, accepted, redirect>>
  BY <1>2, ReleaseFlows
<1>3. ASSUME NEW r \in Redirects, NEW c \in Connections, BeginFlow(r, c) PROVE Flowing'
  <2> DEFINE x == [IdleRedirect EXCEPT !.pc = "create", !.conn = c, !.config = connections[c]]
  <2>1. x.pc = "create"
    BY DEF IdleRedirect
  <2>2. redirect' = [redirect EXCEPT ![r] = x] /\ UNCHANGED <<challenges, flows, accepted>>
    BY <1>3 DEF BeginFlow
  <2> HIDE DEF x
  <2> QED BY <1>0, <2>1, <2>2, ReleaseFlows DEF Consumed
<1>4. ASSUME NEW r \in Redirects, NEW s \in States, NEW n \in Nonces, CreateChallenge(r, s, n)
      PROVE  Flowing'
  <2>1. CASE challenges[s] = Absent
    BY <1>4, <2>1, CreateFlows
  <2>2. CASE challenges[s] # Absent
    <3>1. RedrawState(r) /\ UNCHANGED <<challenges, flows, accepted>> /\ redirect[r].pc = "create"
      BY <1>4, <2>2 DEF CreateChallenge
    <3>2. CASE Return(r)
      BY <1>1, <3>1, <3>2
    <3>3. CASE redirect' = [redirect EXCEPT ![r].tries = @ + 1]
      <4>1. \A q \in Redirects : q # r => redirect'[q] = redirect[q]
        BY <1>0, <3>3
      <4>2. redirect'[r].pc = "create"
        BY <1>0, <3>1, <3>3 DEF Redirect
      <4> QED BY <3>1, <4>1, <4>2, ReleaseFlows DEF Consumed
    <3> QED BY <3>1, <3>2, <3>3 DEF RedrawState
  <2> QED BY <2>1, <2>2
<1>5. ASSUME NEW r \in Redirects, LookupConnection(r) PROVE Flowing'
  <2>1. CASE Return(r)
    BY <1>1, <1>5, <2>1 DEF LookupConnection
  <2>2. CASE ~Return(r)
    <3> DEFINE x == [redirect[r] EXCEPT !.pc = "exchange",
                                        !.config = connections[redirect[r].challenge.conn]]
    <3>1. /\ redirect' = [redirect EXCEPT ![r] = x] /\ UNCHANGED <<challenges, flows, accepted>>
          /\ redirect[r].pc \in Consumed
      BY <1>5, <2>2 DEF LookupConnection, Consumed
    <3>2. x.challenge = redirect[r].challenge /\ x.at = redirect[r].at
      BY <1>0 DEF Redirect
    <3> HIDE DEF x
    <3> QED BY <1>0, <3>1, <3>2, ReleaseFlows
  <2> QED BY <2>1, <2>2
<1>6. ASSUME NEW r \in Redirects, Exchange(r) PROVE Flowing'
  BY <1>1, <1>6, ExchangeFlows DEF Exchange
<1>7. ASSUME NEW r \in Redirects, FailFlow(r) PROVE Flowing'
  BY <1>1, <1>7 DEF FailFlow
<1> QED BY <1>2, <1>3, <1>4, <1>5, <1>6, <1>7, ConsumeFlows
  DEF FlowNext, flowVars, FlowTick, Reconfigure, Authenticate

\* It holds at the start: no flow is stored and nothing was answered.
LEMMA FlowInitially == FlowInit => FlowInv
<1> SUFFICES ASSUME FlowInit PROVE FlowInv
  OBVIOUS
<1>1. FlowTypes
  BY FlowIdleType, FederationAssumption DEF FlowInit, FlowTypes, FlowTypeOK, Times, FlowCarried
<1>2. Stored = {} /\ Serving = {}
  BY FlowIdleType DEF FlowInit, Stored, Serving, Consumed
<1> QED BY <1>1, <1>2 DEF FlowInit, FlowInv, FlowsAgree, StoredOnce, FlowConsumedOnce, OwnAnswer

\* So it holds throughout.
LEMMA FlowInvariant == FlowSpec => []FlowInv
  BY FlowInitially, FlowInductive, PTL DEF FlowSpec

-----------------------------------------------------------------------------
(***************************************************************************)
(* Redirect flows: the theorems.                                           *)
(***************************************************************************)

\* FlowsConsistent is an invariant: a flow is waiting, served by one callback or accepted
\* once, and never from its expiry on, although browsers repeat callbacks, exchanges fail
\* after the challenge was deleted and two callbacks race for one row.
THEOREM FlowsServedOnce == FlowSpec => []FlowsConsistent
<1>1. FlowInv => FlowsConsistent
  BY DEF FlowInv, FlowTypes, FlowsAgree, FlowsConsistent, ConsumedInTime
<1> QED BY <1>1, FlowInvariant, PTL

\* AnswerSpent is an invariant: a user who has authenticated for a flow is signed in once,
\* since an identity answers its own flow and that flow's challenge is consumed once.
THEOREM AnswersServeOnce == FlowSpec => []AnswerSpent
<1>1. FlowInv => AnswerSpent
  BY DEF FlowInv, OwnAnswer, FlowConsumedOnce, AnswerSpent
<1> QED BY <1>1, FlowInvariant, PTL

\* TermsKept is an invariant: an identity is accepted under the configuration its flow began
\* with, with the address that configuration asks for, however the application changes the
\* connection while the flow is under way.
THEOREM TermsHold == FlowSpec => []TermsKept
<1>1. FlowInv => TermsKept
  BY DEF FlowInv, FlowsAgree, TermsKept, ConfigurationKept, AddressRequired
<1> QED BY <1>1, FlowInvariant, PTL

=============================================================================
