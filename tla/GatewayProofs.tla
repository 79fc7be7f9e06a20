---------------------------- MODULE GatewayProofs ----------------------------
(***************************************************************************)
(* Theorems about Gateway: envelopes are accepted once and paid for, the   *)
(* charges of the threads of one process are booked once, within the cap   *)
(* and on slots of their own, and the breaker counts what it may, for any  *)
(* number of threads, tasks, requests, agents, crashes and lost answers.   *)
(***************************************************************************)
EXTENDS Gateway, Lemmas

-----------------------------------------------------------------------------
(* Envelopes and nonces                                                    *)

\* Nonces are numbered as envelopes are signed.
NonceTypes ==
  /\ now \in Nat
  /\ \E n \in Nat : DOMAIN envelopes = 1 .. n
  /\ \A nonce \in DOMAIN envelopes : envelopes[nonce].expiresAt \in Nat
  /\ DOMAIN accepted = DOMAIN envelopes
  /\ checked \in [Verifiers -> DOMAIN envelopes \cup {NoNonce}]

\* A nonce that the store of spent nonces knows is kept to the end of its
\* envelope's window, and an accepted one is known until then.
NonceKept ==
  /\ \A nonce \in DOMAIN spent :
       nonce \in DOMAIN envelopes /\ spent[nonce] = WindowEnd(nonce)
  /\ \A nonce \in DOMAIN accepted :
       /\ accepted[nonce] \in {0, 1}
       /\ accepted[nonce] = 1 => nonce \in DOMAIN spent \/ WindowEnd(nonce) <= now

NonceInv == NonceTypes /\ NonceKept

LEMMA NonceStart == ASSUME Init PROVE NonceInv
<1>1. DOMAIN envelopes = {} /\ DOMAIN spent = {} /\ DOMAIN accepted = {} /\ now = 0
      /\ checked = [v \in Verifiers |-> NoNonce]
  BY DEF Init, StoreInit
<1>2. 1 .. 0 = {} /\ 0 \in Nat
  OBVIOUS
<1> QED
  BY <1>1, <1>2 DEF NonceInv, NonceTypes, NonceKept

LEMMA WindowEnds ==
  ASSUME NonceTypes, NEW nonce \in DOMAIN envelopes PROVE WindowEnd(nonce) \in Nat
BY GatewayAssumption DEF NonceTypes, WindowEnd

\* The next nonce is a new one.
LEMMA NextNonce ==
  ASSUME NonceTypes
  PROVE  \E n \in Nat : /\ DOMAIN envelopes = 1 .. n
                        /\ Cardinality(DOMAIN envelopes) + 1 = n + 1
                        /\ n + 1 \notin DOMAIN envelopes /\ n + 1 # NoNonce
                        /\ 1 .. (n + 1) = DOMAIN envelopes \cup {n + 1}
<1>1. PICK n \in Nat : DOMAIN envelopes = 1 .. n
  BY DEF NonceTypes
<1>2. PICK lo \in Int, hi \in Int : lo = 1 /\ hi = n
  OBVIOUS
<1>3. Cardinality(lo .. hi) = IF lo > hi THEN 0 ELSE hi - lo + 1
  BY FS_Interval
<1>4. Cardinality(1 .. n) = n
  BY <1>2, <1>3
<1>5. 1 .. (n + 1) = (1 .. n) \cup {n + 1}
  OBVIOUS
<1> QED
  BY <1>1, <1>4, <1>5 DEF NoNonce

LEMMA SignKeepsNonces == ASSUME NonceInv, NEW w, Sign(w) PROVE NonceInv'
<1>1. PICK n \in Nat : /\ DOMAIN envelopes = 1 .. n
                       /\ Cardinality(DOMAIN envelopes) + 1 = n + 1
                       /\ n + 1 \notin DOMAIN envelopes /\ n + 1 # NoNonce
                       /\ 1 .. (n + 1) = DOMAIN envelopes \cup {n + 1}
  BY NextNonce DEF NonceInv
<1>2. /\ envelopes' = With(envelopes, n + 1, Signed(job[w].req))
      /\ accepted' = With(accepted, n + 1, 0)
      /\ UNCHANGED <<now, spent, checked>>
  BY <1>1 DEF Sign
<1>3. /\ DOMAIN envelopes' = 1 .. (n + 1) /\ DOMAIN accepted' = 1 .. (n + 1)
      /\ \A m \in DOMAIN envelopes : envelopes'[m] = envelopes[m] /\ accepted'[m] = accepted[m]
      /\ envelopes'[n + 1] = Signed(job[w].req) /\ accepted'[n + 1] = 0
  BY <1>1, <1>2 DEF With, NonceInv, NonceTypes
<1>4. Signed(job[w].req).expiresAt \in Nat
  BY GatewayAssumption DEF Signed, NonceInv, NonceTypes
<1>5. NonceTypes'
  BY <1>1, <1>2, <1>3, <1>4, SMTT(30) DEF NonceInv, NonceTypes
<1>6. \A m \in DOMAIN envelopes : WindowEnd(m)' = WindowEnd(m)
  BY <1>3 DEF WindowEnd
<1>7. NonceKept'
  <2>1. ASSUME NEW m \in DOMAIN spent'
        PROVE  m \in DOMAIN envelopes' /\ spent'[m] = WindowEnd(m)'
    <3>1. m \in DOMAIN envelopes /\ spent'[m] = WindowEnd(m)
      BY <1>2, <2>1 DEF NonceInv, NonceKept
    <3> QED
      BY <1>1, <1>3, <1>6, <3>1
  <2>2. ASSUME NEW m \in DOMAIN accepted'
        PROVE  /\ accepted'[m] \in {0, 1}
               /\ accepted'[m] = 1 => m \in DOMAIN spent' \/ WindowEnd(m)' <= now'
    <3>1. CASE m = n + 1
      BY <1>3, <3>1
    <3>2. CASE m # n + 1
      <4>1. m \in DOMAIN envelopes /\ m \in DOMAIN accepted
        BY <1>1, <1>3, <2>2, <3>2 DEF NonceInv, NonceTypes
      <4> QED
        BY <1>2, <1>3, <1>6, <4>1 DEF NonceInv, NonceKept
    <3> QED
      BY <3>1, <3>2
  <2> QED
    BY <2>1, <2>2 DEF NonceKept
<1> QED
  BY <1>5, <1>7 DEF NonceInv

LEMMA SpendKeepsNonces == ASSUME NonceInv, NEW v \in Verifiers, Spend(v) PROVE NonceInv'
<1> DEFINE nonce == checked[v]
           kept  == {n \in DOMAIN spent : spent[n] > now}
<1>1. /\ nonce # NoNonce /\ DOMAIN spent' = kept \cup {nonce}
      /\ \A n \in kept \cup {nonce} : spent'[n] = IF n \in kept THEN spent[n] ELSE WindowEnd(n)
      /\ accepted' = IF nonce \in kept \/ now >= WindowEnd(nonce) THEN accepted
                     ELSE [accepted EXCEPT ![nonce] = @ + 1]
      /\ checked' = [checked EXCEPT ![v] = NoNonce]
      /\ UNCHANGED <<now, envelopes>>
  BY DEF Spend, storeVars
<1>2. nonce \in DOMAIN envelopes /\ now \in Nat
  BY <1>1 DEF NonceInv, NonceTypes
<1>3. \A n \in DOMAIN envelopes : WindowEnd(n)' = WindowEnd(n) /\ WindowEnd(n) \in Nat
  BY <1>1, WindowEnds DEF WindowEnd, NonceInv
<1>4. NonceTypes'
  BY <1>1 DEF NonceInv, NonceTypes
<1>5. \A n \in DOMAIN spent' : n \in DOMAIN envelopes' /\ spent'[n] = WindowEnd(n)'
  BY <1>1, <1>2, <1>3 DEF NonceInv, NonceKept
<1>6. ASSUME NEW n \in DOMAIN accepted'
      PROVE  /\ accepted'[n] \in {0, 1}
             /\ accepted'[n] = 1 => n \in DOMAIN spent' \/ WindowEnd(n)' <= now'
  <2>1. n \in DOMAIN envelopes /\ n \in DOMAIN accepted
    BY <1>1, <1>6 DEF NonceInv, NonceTypes
  <2>2. /\ accepted[n] \in {0, 1}
        /\ accepted[n] = 1 => n \in DOMAIN spent \/ WindowEnd(n) <= now
        /\ n \in DOMAIN spent => spent[n] = WindowEnd(n)
    BY <2>1 DEF NonceInv, NonceKept
  <2>3. accepted[n] = 1 => n \in kept \/ WindowEnd(n) <= now
    BY <1>2, <1>3, <2>1, <2>2
  <2>4. CASE accepted'[n] = accepted[n]
    BY <1>1, <1>3, <2>1, <2>2, <2>3, <2>4
  <2>5. CASE n = nonce /\ nonce \notin kept /\ ~(now >= WindowEnd(nonce))
    <3>1. accepted[n] = 0
      BY <1>2, <1>3, <2>1, <2>2, <2>3, <2>5
    <3>2. accepted'[n] = 1
      BY <1>1, <2>1, <2>5, <3>1
    <3> QED
      BY <1>1, <2>5, <3>2
  <2> QED
    BY <1>1, <2>1, <2>4, <2>5
<1> QED
  BY <1>4, <1>5, <1>6 DEF NonceInv, NonceKept

LEMMA CheckKeepsNonces ==
  ASSUME NonceInv, NEW v \in Verifiers, NEW nonce \in DOMAIN envelopes, CheckWindow(v, nonce)
  PROVE  NonceInv'
<1>1. checked' = [checked EXCEPT ![v] = nonce] /\ UNCHANGED <<now, envelopes, spent, accepted>>
  BY DEF CheckWindow, storeVars
<1> QED
  BY <1>1 DEF NonceInv, NonceTypes, NonceKept, WindowEnd

LEMMA NonceNext == ASSUME NonceInv, [Next]_vars PROVE NonceInv'
<1>1. ASSUME NEW w, Sign(w) PROVE NonceInv'
  BY <1>1, SignKeepsNonces
<1>2. ASSUME NEW v \in Verifiers, Spend(v) PROVE NonceInv'
  BY <1>2, SpendKeepsNonces
<1>3. ASSUME NEW v \in Verifiers, NEW nonce \in DOMAIN envelopes, CheckWindow(v, nonce)
      PROVE  NonceInv'
  BY <1>3, CheckKeepsNonces
<1>4. CASE Tick /\ UNCHANGED <<envelopes, spent, checked, accepted>>
  <2>1. now' = now + 1 /\ now \in Nat
    BY <1>4 DEF Tick, NonceInv, NonceTypes
  <2>2. \A n : WindowEnd(n)' = WindowEnd(n)
    BY <1>4 DEF WindowEnd
  <2>3. NonceTypes'
    BY <1>4, <2>1 DEF NonceInv, NonceTypes
  <2>4. \A n \in DOMAIN envelopes : WindowEnd(n) \in Nat
    BY WindowEnds DEF NonceInv
  <2>5. NonceKept'
    BY <1>4, <2>1, <2>2, <2>4 DEF NonceInv, NonceTypes, NonceKept
  <2> QED
    BY <2>3, <2>5 DEF NonceInv
<1>5. CASE UNCHANGED <<now, envelopes, spent, checked, accepted>>
  BY <1>5 DEF NonceInv, NonceTypes, NonceKept, WindowEnd
<1>6. ASSUME NEW w \in Workers, NEW j \in Jobs, BeginMint(w, j) \/ BeginTokens(w, j)
      PROVE  NonceInv'
  BY <1>5, <1>6 DEF BeginMint, BeginTokens, Enter, verification
<1>7. ASSUME NEW w \in Workers,
             BeginBadMint(w) \/ DeclineMint(w) \/ MintFails(w) \/ TokensDone(w)
      PROVE  NonceInv'
  BY <1>5, <1>7 DEF BeginBadMint, DeclineMint, MintFails, TokensDone, verification, storeVars
<1>8. ASSUME NEW w \in Workers, Store(w) PROVE NonceInv'
  <2>1. now' = now
    BY <1>8 DEF Store, Charging, LookUp, Read, Replace, Record, ConnectionLost
  <2> QED
    BY <1>5, <1>8, <2>1 DEF Store, verification
<1>9. CASE Restart
  BY <1>5, <1>9 DEF Restart, Crash, verification
<1>10. CASE Time \/ UNCHANGED vars
  BY <1>4, <1>5, <1>10 DEF Time, vars, storeVars, verification
<1> QED
  BY <1>1, <1>2, <1>3, <1>6, <1>7, <1>8, <1>9, <1>10 DEF Next

\* However many agents verify it at once, between the two steps of whom others
\* verify, spend or sign, an envelope is accepted once before its window ends
\* (verify, MemoryNonceStore.spend).
THEOREM AcceptedSafe == Spec => []AcceptedOnce
<1>1. Init => NonceInv
  BY NonceStart
<1>2. NonceInv /\ [Next]_vars => NonceInv'
  BY NonceNext
<1>3. NonceInv => AcceptedOnce
  BY DEF NonceInv, NonceKept, AcceptedOnce
<1> QED
  BY <1>1, <1>2, <1>3, PTL DEF Spec

-----------------------------------------------------------------------------
(* What is charged                                                         *)

\* The workers are threads of one process; callers agree on the cap of calls.
OneProcess == \A w \in Workers : ProcessOf[w] = Process
SameCap(cap) == \A lim \in LimitSets : lim.maxCalls = cap

Stages == {"ready", "lookup", "read", "replace", "record", "granted", "refused"}

\* The worker holds the lock of the process.
Holding(w) == at[w] \in {"read", "replace", "record"}

TaskOf(w) == job[w].req.task
IdOf(w) == job[w].req.id

ChargeTypes ==
  /\ at \in [Workers -> Stages] /\ job \in [Workers -> Jobs]
  /\ DOMAIN draft = Workers /\ DOMAIN documents = Tasks /\ wasted \in [Tasks -> Nat]
  /\ \A t \in Tasks : documents[t].calls \in Nat
  /\ IsFiniteSet(DOMAIN idem)
  /\ \A id \in DOMAIN idem : idem[id].req.id = id /\ \E j \in Jobs : idem[id].req = j.req

\* One thread is in the lock at a time, and what it charges is not recorded.
Alone ==
  /\ \A v \in Workers, w \in Workers : Holding(v) /\ Holding(w) => v = w
  /\ \A w \in Workers : Holding(w) => IdOf(w) \notin DOMAIN idem

\* The document about to be written is the one in the store and the charge.
Drafted(cap) ==
  \A w \in Workers : at[w] = "replace" =>
    /\ draft[w].calls = documents[TaskOf(w)].calls + job[w].req.callN
    /\ cap # None => draft[w].calls <= cap

Booked(cap) ==
  \A t \in Tasks :
    /\ documents[t].calls =
         SumOf(CallsRecorded, Recorded(t)) + SumOf(CallsMade, Recording(t)) + wasted[t]
    /\ cap # None => documents[t].calls <= cap

ChargeInv(cap) == ChargeTypes /\ Alone /\ Drafted(cap) /\ Booked(cap)

LEMMA JobFields ==
  ASSUME NEW j \in Jobs
  PROVE  /\ j.req \in BudgetCharge /\ j.req.task \in Tasks /\ j.req.callN \in Nat
         /\ j.req.id \in Ids /\ j.lim \in LimitSets
BY DocumentAssumption DEF BudgetCharge

LEMMA NoJobIsOne == NoJob \in Jobs
BY DocumentAssumption DEF NoJob

\* What is recorded, and what is being recorded, can be added up.
LEMMA BooksSummable ==
  ASSUME ChargeTypes, NEW S, S \subseteq Workers, NEW t
  PROVE  /\ Summable(CallsRecorded, Recorded(t)) /\ Summable(CallsMade, S)
         /\ SumOf(CallsRecorded, Recorded(t)) \in Nat /\ SumOf(CallsMade, S) \in Nat
<1>1. IsFiniteSet(Recorded(t))
  BY FS_Subset DEF ChargeTypes, Recorded
<1>2. ASSUME NEW id \in Recorded(t) PROVE CallsRecorded[id] \in Nat
  <2>1. PICK j \in Jobs : id \in DOMAIN idem /\ idem[id].req = j.req
    BY DEF ChargeTypes, Recorded
  <2> QED
    BY <2>1, JobFields DEF CallsRecorded
<1>3. IsFiniteSet(S)
  BY DocumentAssumption, FS_Subset
<1>4. ASSUME NEW w \in S PROVE CallsMade[w] \in Nat
  <2>1. w \in Workers /\ job[w] \in Jobs
    BY DEF ChargeTypes
  <2> QED
    BY <2>1, JobFields DEF CallsMade
<1>5. Summable(CallsRecorded, Recorded(t)) /\ Summable(CallsMade, S)
  BY <1>1, <1>2, <1>3, <1>4 DEF Summable
<1> QED
  BY <1>5, SumType

LEMMA ChargeStart ==
  ASSUME StoreInit, NEW cap \in Nat \cup {None} PROVE ChargeInv(cap)
<1>1. /\ documents = [t \in Tasks |-> EmptyDocument] /\ DOMAIN idem = {}
      /\ at = [w \in Workers |-> "ready"] /\ job = [w \in Workers |-> NoJob]
      /\ DOMAIN draft = Workers /\ wasted = [t \in Tasks |-> 0]
  BY DEF StoreInit
<1>2. ChargeTypes
  BY <1>1, NoJobIsOne, FS_EmptySet DEF ChargeTypes, EmptyDocument, Stages
<1>3. Alone /\ Drafted(cap)
  BY <1>1 DEF Alone, Drafted, Holding
<1>4. \A t : Recorded(t) = {} /\ Recording(t) = {}
  BY <1>1 DEF Recorded, Recording
<1>5. SumOf(CallsRecorded, {}) = 0 /\ SumOf(CallsMade, {}) = 0
  BY SumEmpty
<1>6. \A t \in Tasks : documents[t].calls = 0 /\ wasted[t] = 0
  BY <1>1 DEF EmptyDocument
<1>7. cap # None => 0 <= cap
  OBVIOUS
<1>8. Booked(cap)
  <2> SUFFICES ASSUME NEW t \in Tasks
               PROVE  /\ documents[t].calls = SumOf(CallsRecorded, Recorded(t))
                           + SumOf(CallsMade, Recording(t)) + wasted[t]
                      /\ cap # None => documents[t].calls <= cap
    BY DEF Booked
  <2>1. SumOf(CallsRecorded, Recorded(t)) = 0 /\ SumOf(CallsMade, Recording(t)) = 0
    BY <1>4, <1>5
  <2> QED
    BY <1>6, <1>7, <2>1
<1> QED
  BY <1>2, <1>3, <1>8 DEF ChargeInv

\* A worker that does not record, before and after, changes no sum.
LEMMA OtherJobs ==
  ASSUME ChargeTypes, NEW x \in Workers, at[x] # "record", at'[x] # "record",
         \A w \in Workers : w # x => at'[w] = at[w] /\ job'[w] = job[w], NEW t
  PROVE  /\ Recording(t)' = Recording(t)
         /\ SumOf(CallsMade, Recording(t))' = SumOf(CallsMade, Recording(t))
<1>1. Recording(t)' = Recording(t)
  BY DEF Recording
<1>2. PICK f, g, R : f = CallsMade /\ g = CallsMade' /\ R = Recording(t)
  OBVIOUS
<1>3. \A w \in R : g[w] = f[w]
  BY <1>2 DEF CallsMade, Recording
<1>4. SumOf(g, R) = SumOf(f, R)
  BY <1>3, SumSame
<1> QED
  BY <1>1, <1>2, <1>4

\* A step of worker x that writes nothing, in the lock or out of it.
LEMMA QuietStep ==
  ASSUME NEW cap, ChargeInv(cap), NEW x \in Workers, UNCHANGED accounts,
         at[x] # "record", at'[x] \in Stages, at'[x] \notin {"record", "replace"},
         at' = [at EXCEPT ![x] = at'[x]], job'[x] \in Jobs, job' = [job EXCEPT ![x] = job'[x]],
         draft' = draft \/ \E d : draft' = [draft EXCEPT ![x] = d],
         at'[x] = "read" =>
           /\ job'[x] = job[x] /\ IdOf(x) \notin DOMAIN idem
           /\ \A w \in Workers : ~Holding(w)
  PROVE  ChargeInv(cap)'
<1>0. ChargeTypes /\ Alone /\ Drafted(cap) /\ Booked(cap) /\ at \in [Workers -> Stages]
      /\ job \in [Workers -> Jobs] /\ DOMAIN draft = Workers
  BY DEF ChargeInv, ChargeTypes
<1>1. \A w \in Workers : w # x => at'[w] = at[w] /\ job'[w] = job[w] /\ draft'[w] = draft[w]
  BY <1>0
<1>2. ChargeTypes'
  <2>1. at' \in [Workers -> Stages] /\ job' \in [Workers -> Jobs] /\ DOMAIN draft' = Workers
    BY <1>0
  <2> QED
    BY <1>0, <2>1 DEF ChargeTypes, accounts
<1>3. Alone'
  <2>1. \A w \in Workers : w # x => (Holding(w)' <=> Holding(w)) /\ IdOf(w)' = IdOf(w)
    BY <1>1 DEF Holding, IdOf
  <2>2. Holding(x)' => at'[x] = "read"
    BY DEF Holding
  <2>3. idem' = idem
    BY DEF accounts
  <2>4. at'[x] = "read" => IdOf(x)' = IdOf(x)
    BY DEF IdOf
  <2> QED
    BY <1>0, <2>1, <2>2, <2>3, <2>4 DEF Alone
<1>4. Drafted(cap)'
  <2> SUFFICES ASSUME NEW w \in Workers, at'[w] = "replace"
               PROVE  /\ draft'[w].calls = documents'[TaskOf(w)'].calls + job'[w].req.callN
                      /\ cap # None => draft'[w].calls <= cap
    BY DEF Drafted
  <2>1. w # x /\ at[w] = "replace" /\ TaskOf(w)' = TaskOf(w) /\ job'[w] = job[w]
        /\ draft'[w] = draft[w] /\ documents' = documents
    BY <1>1 DEF TaskOf, accounts
  <2> QED
    BY <1>0, <2>1 DEF Drafted
<1>5. Booked(cap)'
  <2> SUFFICES ASSUME NEW t \in Tasks
               PROVE  /\ documents'[t].calls = SumOf(CallsRecorded, Recorded(t))'
                           + SumOf(CallsMade, Recording(t))' + wasted'[t]
                      /\ cap # None => documents'[t].calls <= cap
    BY DEF Booked
  <2>1. SumOf(CallsMade, Recording(t))' = SumOf(CallsMade, Recording(t))
    BY <1>0, <1>1, OtherJobs
  <2>2. SumOf(CallsRecorded, Recorded(t))' = SumOf(CallsRecorded, Recorded(t))
    BY DEF CallsRecorded, Recorded, accounts
  <2> QED
    BY <1>0, <2>1, <2>2 DEF Booked, accounts
<1> QED
  BY <1>2, <1>3, <1>4, <1>5 DEF ChargeInv

\* Nobody else holds the lock while x does.
LEMMA OnlyOne ==
  ASSUME Alone, NEW x \in Workers, Holding(x)
  PROVE  \A w \in Workers : w # x => at[w] \notin {"read", "replace", "record"}
BY DEF Alone, Holding

\* The holder of the lock decides on what it read.
LEMMA ReadKeeps ==
  ASSUME NEW cap \in Nat \cup {None}, cap # None => SameCap(cap), ChargeInv(cap),
         NEW x \in Workers, Read(x)
  PROVE  ChargeInv(cap)'
<1>0. ChargeTypes /\ Alone /\ Drafted(cap) /\ Booked(cap) /\ at \in [Workers -> Stages]
      /\ job \in [Workers -> Jobs] /\ DOMAIN draft = Workers /\ job[x] \in Jobs
  BY DEF ChargeInv, ChargeTypes
<1>1. UNCHANGED <<accounts, job, now, failures>> /\ at[x] = "read"
  BY DEF Read
<1>2. CASE ~Fits(documents[job[x].req.task], job[x].req, job[x].lim, stamp[x])
  <2>1. at' = [at EXCEPT ![x] = "refused"] /\ draft' = draft
    BY <1>2 DEF Read
  <2>2. at'[x] = "refused"
    BY <1>0, <2>1
  <2>3. job' = [job EXCEPT ![x] = job'[x]] /\ job'[x] \in Jobs
    BY <1>0, <1>1
  <2>4. at' = [at EXCEPT ![x] = at'[x]]
    BY <2>1, <2>2
  <2> QED
    BY <1>1, <2>1, <2>2, <2>3, <2>4, QuietStep DEF Stages
<1>3. CASE Fits(documents[job[x].req.task], job[x].req, job[x].lim, stamp[x])
  <2>1. PICK new : draft' = [draft EXCEPT ![x] =
                     Rewritten(documents[job[x].req.task], job[x].req, job[x].lim, stamp[x], new)]
    BY <1>3 DEF Read
  <2>2. at' = [at EXCEPT ![x] = "replace"]
    BY <1>3 DEF Read
  <2>3. \A w \in Workers : w # x => at'[w] \notin {"read", "replace", "record"}
    BY <1>0, <1>1, <2>2, OnlyOne DEF Holding
  <2>4. draft'[x].calls = documents[TaskOf(x)].calls + job[x].req.callN
    BY <1>0, <2>1 DEF Rewritten, TaskOf
  <2>5. cap # None => draft'[x].calls <= cap
    <3>1. cap # None => job[x].lim.maxCalls = cap
      BY <1>0, JobFields DEF SameCap
    <3> QED
      BY <1>3, <2>4, <3>1 DEF Fits, Affordable, TaskOf
  <2>6. ChargeTypes'
    BY <1>0, <1>1, <2>1, <2>2 DEF ChargeTypes, accounts, Stages
  <2>7. Alone'
    <3>1. IdOf(x)' \notin DOMAIN idem'
      BY <1>0, <1>1 DEF Alone, Holding, IdOf, accounts
    <3> QED
      BY <2>3, <3>1 DEF Alone, Holding
  <2>8. Drafted(cap)'
    <3>1. TaskOf(x)' = TaskOf(x) /\ documents' = documents /\ job' = job
      BY <1>1 DEF TaskOf, accounts
    <3> QED
      BY <2>3, <2>4, <2>5, <3>1 DEF Drafted
  <2>9. Booked(cap)'
    <3>1. \A t : Recording(t)' = Recording(t)
      BY <1>0, <1>1, <2>2 DEF Recording
    <3>2. CallsMade' = CallsMade /\ CallsRecorded' = CallsRecorded
          /\ \A t : Recorded(t)' = Recorded(t)
      BY <1>1 DEF CallsMade, CallsRecorded, Recorded, accounts
    <3> QED
      BY <1>0, <1>1, <3>1, <3>2 DEF Booked, accounts
  <2> QED
    BY <2>6, <2>7, <2>8, <2>9 DEF ChargeInv
<1> QED
  BY <1>2, <1>3

\* The document is written: the charge is booked and about to be recorded.
LEMMA ReplaceKeeps ==
  ASSUME NEW cap \in Nat \cup {None}, ChargeInv(cap), NEW x \in Workers, Replace(x)
  PROVE  ChargeInv(cap)'
<1>0. ChargeTypes /\ Alone /\ Drafted(cap) /\ Booked(cap) /\ at \in [Workers -> Stages]
      /\ job \in [Workers -> Jobs] /\ DOMAIN draft = Workers /\ job[x] \in Jobs
      /\ DOMAIN documents = Tasks /\ TaskOf(x) \in Tasks /\ job[x].req.callN \in Nat
  BY JobFields DEF ChargeInv, ChargeTypes, TaskOf
<1>1. /\ at[x] = "replace" /\ documents' = [documents EXCEPT ![TaskOf(x)] = draft[x]]
      /\ at' = [at EXCEPT ![x] = "record"] /\ UNCHANGED <<job, idem, wasted, draft>>
  BY DEF Replace, Await, TaskOf
<1>2. \A w \in Workers : w # x => at'[w] \notin {"read", "replace", "record"}
                                  /\ at[w] \notin {"read", "replace", "record"}
  BY <1>0, <1>1, OnlyOne DEF Holding
<1>3. draft[x].calls = documents[TaskOf(x)].calls + job[x].req.callN
      /\ (cap # None => draft[x].calls <= cap)
  BY <1>0, <1>1 DEF Drafted
<1>4. \A t \in Tasks : documents'[t].calls = documents[t].calls
                         + (IF t = TaskOf(x) THEN job[x].req.callN ELSE 0)
      /\ documents[t].calls \in Nat
  <2> TAKE t \in Tasks
  <2>1. documents[t].calls \in Nat
    BY <1>0 DEF ChargeTypes
  <2> QED
    BY <1>0, <1>1, <1>3, <2>1
<1>5. ChargeTypes'
  BY <1>0, <1>1, <1>4 DEF ChargeTypes, Stages
<1>6. Alone'
  <2>1. IdOf(x)' \notin DOMAIN idem'
    BY <1>0, <1>1 DEF Alone, Holding, IdOf
  <2> QED
    BY <1>2, <2>1 DEF Alone, Holding
<1>7. Drafted(cap)'
  <2>1. at'[x] # "replace"
    BY <1>0, <1>1
  <2> QED
    BY <1>2, <2>1 DEF Drafted
<1>8. Booked(cap)'
  <2> SUFFICES ASSUME NEW t \in Tasks
               PROVE  /\ documents'[t].calls = SumOf(CallsRecorded, Recorded(t))'
                           + SumOf(CallsMade, Recording(t))' + wasted'[t]
                      /\ cap # None => documents'[t].calls <= cap
    BY DEF Booked
  <2>1. /\ documents[t].calls =
             SumOf(CallsRecorded, Recorded(t)) + SumOf(CallsMade, Recording(t)) + wasted[t]
        /\ cap # None => documents[t].calls <= cap
    BY <1>0 DEF Booked
  <2>2. SumOf(CallsRecorded, Recorded(t))' = SumOf(CallsRecorded, Recorded(t))
    BY <1>1 DEF CallsRecorded, Recorded
  <2>3. CallsMade' = CallsMade
    BY <1>1 DEF CallsMade
  <2>4. /\ SumOf(CallsRecorded, Recorded(t)) \in Nat /\ SumOf(CallsMade, Recording(t)) \in Nat
        /\ wasted[t] \in Nat
    <3>1. Recording(t) \subseteq Workers
      BY DEF Recording
    <3> QED
      BY <1>0, <3>1, BooksSummable DEF ChargeTypes
  <2>5. CASE t = TaskOf(x)
    <3>1. PICK f, R, T : f = CallsMade /\ R = Recording(t) /\ T = Recording(t)'
      OBVIOUS
    <3>2. x \notin R /\ T = R \cup {x}
      BY <1>0, <1>1, <2>5, <3>1 DEF Recording, TaskOf
    <3>3. Summable(f, R)
      <4>1. R \subseteq Workers
        BY <3>1 DEF Recording
      <4> QED
        BY <1>0, <3>1, <4>1, BooksSummable
    <3>4. f[x] = job[x].req.callN /\ f[x] \in Nat
      BY <1>0, <3>1 DEF CallsMade
    <3>5. SumOf(f, T) = SumOf(f, R) + f[x]
      <4>1. SumOf(f, R \cup {x}) = SumOf(f, R) + f[x]
        BY <3>2, <3>3, <3>4, SumAdd
      <4> QED
        BY <3>2, <4>1
    <3>6. SumOf(CallsMade, Recording(t))' = SumOf(CallsMade, Recording(t)) + job[x].req.callN
      BY <2>3, <3>1, <3>4, <3>5
    <3>7. documents'[t].calls = documents[t].calls + job[x].req.callN
          /\ (cap # None => documents'[t].calls <= cap)
      BY <1>0, <1>1, <1>3, <2>5
    <3> QED
      BY <1>0, <1>1, <2>1, <2>2, <2>4, <3>6, <3>7
  <2>6. CASE t # TaskOf(x)
    <3>1. Recording(t)' = Recording(t)
      BY <1>0, <1>1, <2>6 DEF Recording, TaskOf
    <3>2. documents'[t].calls = documents[t].calls
      BY <1>0, <1>1, <2>6
    <3> QED
      BY <1>1, <2>1, <2>2, <2>3, <3>1, <3>2
  <2> QED
    BY <2>5, <2>6
<1> QED
  BY <1>5, <1>6, <1>7, <1>8 DEF ChargeInv

\* What a worker that leaves "record" takes out of the sum of what is recorded.
LEMMA LeavesRecording ==
  ASSUME ChargeTypes, NEW x \in Workers, at[x] = "record", at'[x] # "record",
         \A w \in Workers : w # x => at'[w] = at[w] /\ job'[w] = job[w], NEW t \in Tasks
  PROVE  SumOf(CallsMade, Recording(t))
           = SumOf(CallsMade, Recording(t))'
               + (IF t = TaskOf(x) THEN job[x].req.callN ELSE 0)
<1>1. PICK f, g, R, T : /\ f = CallsMade /\ g = CallsMade'
                        /\ R = Recording(t) /\ T = Recording(t)'
  OBVIOUS
<1>2. R \subseteq Workers /\ T = R \ {x} /\ (x \in R <=> t = TaskOf(x))
  BY <1>1 DEF Recording, TaskOf
<1>3. Summable(f, R) /\ Summable(f, T) /\ SumOf(f, R) \in Nat /\ SumOf(f, T) \in Nat
  <2>1. T \subseteq Workers
    BY <1>2
  <2> QED
    BY <1>1, <1>2, <2>1, BooksSummable
<1>4. \A w \in T : g[w] = f[w]
  BY <1>1, <1>2 DEF CallsMade
<1>5. SumOf(g, T) = SumOf(f, T)
  BY <1>4, SumSame
<1>6. CASE x \in R
  <2>1. R = T \cup {x} /\ x \notin T
    BY <1>2, <1>6
  <2>2. f[x] = job[x].req.callN /\ f[x] \in Nat
    BY <1>1, <1>3, <1>6 DEF CallsMade, Summable
  <2>3. SumOf(f, T \cup {x}) = SumOf(f, T) + f[x]
    BY <1>3, <2>1, <2>2, SumAdd
  <2>4. SumOf(f, R) = SumOf(f, T) + f[x]
    BY <2>1, <2>3
  <2> QED
    BY <1>1, <1>2, <1>5, <1>6, <2>2, <2>4
<1>7. CASE x \notin R
  <2>1. SumOf(f, R) = SumOf(g, T)
    BY <1>2, <1>5, <1>7
  <2>2. SumOf(g, T) \in Nat /\ t # TaskOf(x)
    BY <1>2, <1>3, <1>5, <1>7
  <2>3. SumOf(g, T) = SumOf(g, T) + 0
    BY <2>2
  <2> QED
    BY <1>1, <2>1, <2>2, <2>3
<1> QED
  BY <1>6, <1>7

\* The charge is recorded.
LEMMA RecordKeeps ==
  ASSUME NEW cap \in Nat \cup {None}, ChargeInv(cap), NEW x \in Workers, Record(x)
  PROVE  ChargeInv(cap)'
<1>0. ChargeTypes /\ Alone /\ Drafted(cap) /\ Booked(cap) /\ at \in [Workers -> Stages]
      /\ job \in [Workers -> Jobs] /\ DOMAIN draft = Workers /\ job[x] \in Jobs
      /\ TaskOf(x) \in Tasks /\ job[x].req.callN \in Nat
  BY JobFields DEF ChargeInv, ChargeTypes, TaskOf
<1>1. /\ at[x] = "record" /\ IdOf(x) \notin DOMAIN idem
      /\ DOMAIN idem' = DOMAIN idem \cup {IdOf(x)} /\ idem'[IdOf(x)].req = job[x].req
      /\ \A id \in DOMAIN idem : idem'[id] = idem[id]
      /\ draft' = [draft EXCEPT ![x] = EmptyDocument] /\ at' = [at EXCEPT ![x] = "granted"]
      /\ UNCHANGED <<job, documents, wasted>>
  <2>1. at[x] = "record"
    BY DEF Record
  <2>2. IdOf(x) \notin DOMAIN idem
    BY <1>0, <2>1 DEF Alone, Holding
  <2> QED
    BY <2>1, <2>2 DEF Record, Answer, IdOf
<1>2. \A w \in Workers : w # x => at'[w] \notin {"read", "replace", "record"}
                                  /\ at[w] \notin {"read", "replace", "record"}
  BY <1>0, <1>1, OnlyOne DEF Holding
<1>3. at'[x] = "granted"
  BY <1>0, <1>1
<1>4. ChargeTypes'
  <2>1. IsFiniteSet(DOMAIN idem')
    <3>1. PICK D, E, id : D = DOMAIN idem /\ E = DOMAIN idem' /\ id = IdOf(x)
      OBVIOUS
    <3>2. IsFiniteSet(D) /\ E = D \cup {id}
      BY <1>0, <1>1, <3>1 DEF ChargeTypes
    <3>3. IsFiniteSet(D \cup {id})
      BY <3>2, FS_AddElement
    <3> QED
      BY <3>1, <3>2, <3>3
  <2>2. ASSUME NEW id \in DOMAIN idem'
        PROVE  idem'[id].req.id = id /\ \E j \in Jobs : idem'[id].req = j.req
    <3>1. CASE id = IdOf(x)
      BY <1>0, <1>1, <3>1 DEF IdOf
    <3>2. CASE id # IdOf(x)
      <4>1. id \in DOMAIN idem /\ idem'[id] = idem[id]
        BY <1>1, <2>2, <3>2
      <4> QED
        BY <1>0, <4>1 DEF ChargeTypes
    <3> QED
      BY <3>1, <3>2
  <2>3. at' \in [Workers -> Stages] /\ job' \in [Workers -> Jobs] /\ DOMAIN draft' = Workers
    BY <1>0, <1>1 DEF Stages
  <2> QED
    BY <1>0, <1>1, <2>1, <2>2, <2>3 DEF ChargeTypes
<1>5. Alone'
  BY <1>2, <1>3 DEF Alone, Holding
<1>6. Drafted(cap)'
  BY <1>2, <1>3 DEF Drafted
<1>7. Booked(cap)'
  <2> SUFFICES ASSUME NEW t \in Tasks
               PROVE  /\ documents'[t].calls = SumOf(CallsRecorded, Recorded(t))'
                           + SumOf(CallsMade, Recording(t))' + wasted'[t]
                      /\ cap # None => documents'[t].calls <= cap
    BY DEF Booked
  <2>1. /\ documents[t].calls =
             SumOf(CallsRecorded, Recorded(t)) + SumOf(CallsMade, Recording(t)) + wasted[t]
        /\ cap # None => documents[t].calls <= cap
    BY <1>0 DEF Booked
  <2>2. SumOf(CallsMade, Recording(t))
          = SumOf(CallsMade, Recording(t))' + (IF t = TaskOf(x) THEN job[x].req.callN ELSE 0)
    <3>1. \A w \in Workers : w # x => at'[w] = at[w] /\ job'[w] = job[w]
      BY <1>0, <1>1
    <3> QED
      BY <1>0, <1>1, <1>3, <3>1, LeavesRecording
  <2>3. SumOf(CallsRecorded, Recorded(t))'
          = SumOf(CallsRecorded, Recorded(t)) + (IF t = TaskOf(x) THEN job[x].req.callN ELSE 0)
    <3>1. PICK f, g, R, T, id : /\ f = CallsRecorded /\ g = CallsRecorded'
                                /\ R = Recorded(t) /\ T = Recorded(t)' /\ id = IdOf(x)
      OBVIOUS
    <3>2. id \notin R /\ T = IF t = TaskOf(x) THEN R \cup {id} ELSE R
      BY <1>1, <3>1 DEF Recorded, TaskOf
    <3>3. \A i \in R : g[i] = f[i]
      BY <1>1, <3>1 DEF Recorded, CallsRecorded
    <3>4. Summable(f, R) /\ SumOf(f, R) \in Nat
      BY <1>0, <3>1, BooksSummable
    <3>5. CASE t = TaskOf(x)
      <4>1. g[id] = job[x].req.callN /\ g[id] \in Nat
        BY <1>0, <1>1, <3>1 DEF CallsRecorded
      <4>2. T = R \cup {id}
        BY <3>2, <3>5
      <4>3. id \notin R
        BY <3>2
      <4>4. Summable(f, R)
        BY <3>4
      <4>5. SumOf(g, T) = SumOf(f, R) + g[id]
        <5>1. SumOf(g, R) = SumOf(f, R)
          BY <3>3, SumSame
        <5>2. Summable(g, R)
          BY <3>3, <4>4 DEF Summable
        <5>3. SumOf(g, R \cup {id}) = SumOf(g, R) + g[id]
          BY <4>1, <4>3, <5>2, SumAdd
        <5> QED
          BY <4>2, <5>1, <5>3
      <4> QED
        BY <3>1, <3>5, <4>1, <4>5
    <3>6. CASE t # TaskOf(x)
      <4>1. SumOf(g, R) = SumOf(f, R)
        BY <3>3, SumSame
      <4>2. SumOf(g, T) = SumOf(f, R) + 0
        BY <3>2, <3>4, <3>6, <4>1
      <4> QED
        BY <3>1, <3>6, <4>2
    <3> QED
      BY <3>5, <3>6
  <2>4. /\ SumOf(CallsRecorded, Recorded(t)) \in Nat /\ SumOf(CallsMade, Recording(t))' \in Nat
        /\ wasted[t] \in Nat
    <3>1. Recording(t)' \subseteq Workers
      BY DEF Recording
    <3>2. SumOf(CallsRecorded, Recorded(t)) \in Nat
      BY <1>0, BooksSummable
    <3>3. CallsMade' = CallsMade
      BY <1>1 DEF CallsMade
    <3>4. SumOf(CallsMade, Recording(t)') \in Nat
      BY <1>0, <3>1, BooksSummable
    <3> QED
      BY <1>0, <3>2, <3>3, <3>4 DEF ChargeTypes
  <2>5. documents'[t].calls = documents[t].calls /\ wasted'[t] = wasted[t]
    BY <1>1
  <2>6. CASE t = TaskOf(x)
    <3>1. /\ SumOf(CallsMade, Recording(t)) = SumOf(CallsMade, Recording(t))' + job[x].req.callN
          /\ SumOf(CallsRecorded, Recorded(t))'
               = SumOf(CallsRecorded, Recorded(t)) + job[x].req.callN
      BY <2>2, <2>3, <2>6
    <3> QED
      BY <1>0, <2>1, <2>4, <2>5, <3>1
  <2>7. CASE t # TaskOf(x)
    <3>1. /\ SumOf(CallsMade, Recording(t)) = SumOf(CallsMade, Recording(t))'
          /\ SumOf(CallsRecorded, Recorded(t))' = SumOf(CallsRecorded, Recorded(t))
      BY <2>2, <2>3, <2>4, <2>7
    <3> QED
      BY <2>1, <2>5, <3>1
  <2> QED
    BY <2>6, <2>7
<1> QED
  BY <1>4, <1>5, <1>6, <1>7 DEF ChargeInv

\* What is wasted when the workers of W end.
LEMMA WastedOf ==
  ASSUME NEW W, Waste(W), NEW t \in Tasks
  PROVE  wasted'[t] = wasted[t]
           + SumOf(CallsMade, {w \in W : at[w] = "record" /\ job[w].req.task = t})
BY DEF Waste

\* The connection is lost: what was written stays without a record.
LEMMA LostKeeps ==
  ASSUME NEW cap \in Nat \cup {None}, ChargeInv(cap), NEW x \in Workers, ConnectionLost(x)
  PROVE  ChargeInv(cap)'
<1>0. ChargeTypes /\ Alone /\ Drafted(cap) /\ Booked(cap) /\ at \in [Workers -> Stages]
      /\ job \in [Workers -> Jobs] /\ DOMAIN draft = Workers /\ job[x] \in Jobs
      /\ TaskOf(x) \in Tasks /\ job[x].req.callN \in Nat /\ wasted \in [Tasks -> Nat]
  BY JobFields DEF ChargeInv, ChargeTypes, TaskOf
<1>1. /\ draft' = [draft EXCEPT ![x] = EmptyDocument] /\ at' = [at EXCEPT ![x] = "refused"]
      /\ UNCHANGED <<job, documents, idem>> /\ Waste({x})
  BY DEF ConnectionLost, Answer
<1>2. at'[x] = "refused"
  BY <1>0, <1>1
<1>3. DOMAIN wasted' = Tasks
  BY <1>1 DEF Waste
<1>4. CASE at[x] # "record"
  <2>1. \A t \in Tasks : wasted'[t] = wasted[t]
    <3> TAKE t \in Tasks
    <3>1. {w \in {x} : at[w] = "record" /\ job[w].req.task = t} = {}
      BY <1>4
    <3>2. wasted'[t] = wasted[t] + 0
      BY <1>1, <3>1, WastedOf, SumEmpty
    <3> QED
      BY <1>0, <3>2
  <2>2. wasted' = wasted
    <3>1. wasted' = [t \in Tasks |-> wasted'[t]]
      BY <1>1 DEF Waste
    <3> QED
      BY <1>0, <2>1, <3>1
  <2>3. UNCHANGED accounts /\ \E d : draft' = [draft EXCEPT ![x] = d]
    BY <1>1, <2>2 DEF accounts
  <2>4. job' = [job EXCEPT ![x] = job'[x]] /\ job'[x] \in Jobs
    BY <1>0, <1>1
  <2>5. at' = [at EXCEPT ![x] = at'[x]]
    BY <1>1, <1>2
  <2> QED
    BY <1>2, <1>4, <2>3, <2>4, <2>5, QuietStep DEF Stages
<1>5. CASE at[x] = "record"
  <2>1. \A w \in Workers : w # x => at'[w] \notin {"read", "replace", "record"}
    BY <1>0, <1>1, <1>5, OnlyOne DEF Holding
  <2>2. \A t \in Tasks : wasted'[t] = wasted[t] + (IF t = TaskOf(x) THEN job[x].req.callN ELSE 0)
    <3> TAKE t \in Tasks
    <3>1. CASE t = TaskOf(x)
      <4>1. {w \in {x} : at[w] = "record" /\ job[w].req.task = t} = {x}
        BY <1>5, <3>1 DEF TaskOf
      <4>2. SumOf(CallsMade, {x}) = job[x].req.callN
        <5>1. PICK f : f = CallsMade
          OBVIOUS
        <5>2. Summable(f, {}) /\ x \notin {}
          BY FS_EmptySet DEF Summable
        <5>3. f[x] = job[x].req.callN /\ f[x] \in Nat
          BY <1>0, <5>1 DEF CallsMade
        <5>4. SumOf(f, {} \cup {x}) = SumOf(f, {}) + f[x]
          BY <5>2, <5>3, SumAdd
        <5>5. {} \cup {x} = {x} /\ SumOf(f, {}) = 0
          BY SumEmpty
        <5>6. SumOf(f, {x}) = 0 + f[x]
          BY <5>4, <5>5
        <5> QED
          BY <5>1, <5>3, <5>6
      <4> QED
        BY <1>1, <3>1, <4>1, <4>2, WastedOf
    <3>2. CASE t # TaskOf(x)
      <4>1. {w \in {x} : at[w] = "record" /\ job[w].req.task = t} = {}
        BY <3>2 DEF TaskOf
      <4>2. wasted'[t] = wasted[t] + 0
        BY <1>1, <4>1, WastedOf, SumEmpty
      <4> QED
        BY <3>2, <4>2
    <3> QED
      BY <3>1, <3>2
  <2>3. ChargeTypes'
    <3>1. wasted' \in [Tasks -> Nat]
      <4>1. wasted' = [t \in Tasks |-> wasted'[t]]
        BY <1>1 DEF Waste
      <4>2. \A t \in Tasks : wasted'[t] \in Nat
        BY <1>0, <2>2
      <4> QED
        BY <4>1, <4>2
    <3> QED
      BY <1>0, <1>1, <3>1 DEF ChargeTypes, Stages
  <2>4. Alone'
    BY <1>2, <2>1 DEF Alone, Holding
  <2>5. Drafted(cap)'
    BY <1>2, <2>1 DEF Drafted
  <2>6. Booked(cap)'
    <3> SUFFICES ASSUME NEW t \in Tasks
                 PROVE  /\ documents'[t].calls = SumOf(CallsRecorded, Recorded(t))'
                             + SumOf(CallsMade, Recording(t))' + wasted'[t]
                        /\ cap # None => documents'[t].calls <= cap
      BY DEF Booked
    <3>1. /\ documents[t].calls =
               SumOf(CallsRecorded, Recorded(t)) + SumOf(CallsMade, Recording(t)) + wasted[t]
          /\ cap # None => documents[t].calls <= cap
      BY <1>0 DEF Booked
    <3>2. SumOf(CallsMade, Recording(t))
            = SumOf(CallsMade, Recording(t))' + (IF t = TaskOf(x) THEN job[x].req.callN ELSE 0)
      <4>1. \A w \in Workers : w # x => at'[w] = at[w] /\ job'[w] = job[w]
        BY <1>0, <1>1
      <4> QED
        BY <1>0, <1>2, <1>5, <4>1, LeavesRecording
    <3>3. SumOf(CallsRecorded, Recorded(t))' = SumOf(CallsRecorded, Recorded(t))
      BY <1>1 DEF CallsRecorded, Recorded
    <3>4. /\ SumOf(CallsRecorded, Recorded(t)) \in Nat /\ SumOf(CallsMade, Recording(t))' \in Nat
          /\ wasted[t] \in Nat
      <4>1. Recording(t)' \subseteq Workers
        BY DEF Recording
      <4>2. SumOf(CallsRecorded, Recorded(t)) \in Nat
        BY <1>0, BooksSummable
      <4>3. CallsMade' = CallsMade
        BY <1>1 DEF CallsMade
      <4>4. SumOf(CallsMade, Recording(t)') \in Nat
        BY <1>0, <4>1, BooksSummable
      <4> QED
        BY <1>0, <4>2, <4>3, <4>4
    <3>5. documents'[t].calls = documents[t].calls
      BY <1>1
    <3>6. PICK n \in Nat : n = IF t = TaskOf(x) THEN job[x].req.callN ELSE 0
      BY <1>0
    <3>7. wasted'[t] = wasted[t] + n /\ SumOf(CallsMade, Recording(t))
                                          = SumOf(CallsMade, Recording(t))' + n
      BY <2>2, <3>2, <3>6
    <3> QED
      BY <3>1, <3>3, <3>4, <3>5, <3>7
  <2> QED
    BY <2>3, <2>4, <2>5, <2>6 DEF ChargeInv
<1> QED
  BY <1>4, <1>5

\* The process dies, and its workers with it: nothing is being recorded then.
LEMMA CrashKeeps ==
  ASSUME NEW cap \in Nat \cup {None}, OneProcess, ChargeInv(cap), Crash(Process)
  PROVE  ChargeInv(cap)'
<1>0. ChargeTypes /\ Booked(cap) /\ wasted \in [Tasks -> Nat]
  BY DEF ChargeInv, ChargeTypes
<1>1. {w \in Workers : ProcessOf[w] = Process} = Workers
  BY DEF OneProcess
<1>2. /\ at' = [w \in Workers |-> "ready"] /\ job' = [w \in Workers |-> NoJob]
      /\ DOMAIN draft' = Workers /\ Waste(Workers) /\ UNCHANGED <<documents, idem>>
  BY <1>1 DEF Crash
<1>3. \A t \in Tasks : /\ wasted'[t] = wasted[t] + SumOf(CallsMade, Recording(t))
                       /\ wasted'[t] \in Nat /\ Recording(t)' = {}
                       /\ wasted[t] \in Nat /\ SumOf(CallsMade, Recording(t)) \in Nat
  <2> TAKE t \in Tasks
  <2>1. wasted'[t] = wasted[t] + SumOf(CallsMade, Recording(t))
    BY <1>2, WastedOf DEF Recording
  <2>2. SumOf(CallsMade, Recording(t)) \in Nat
    <3>1. Recording(t) \subseteq Workers
      BY DEF Recording
    <3> QED
      BY <1>0, <3>1, BooksSummable
  <2>3. Recording(t)' = {}
    BY <1>2 DEF Recording
  <2> QED
    BY <1>0, <2>1, <2>2, <2>3
<1>4. ChargeTypes'
  <2>1. wasted' \in [Tasks -> Nat]
    <3>1. wasted' = [t \in Tasks |-> wasted'[t]]
      BY <1>2 DEF Waste
    <3> QED
      BY <1>3, <3>1
  <2> QED
    BY <1>0, <1>2, <2>1, NoJobIsOne DEF ChargeTypes, Stages
<1>5. Alone' /\ Drafted(cap)'
  BY <1>2 DEF Alone, Drafted, Holding
<1>6. Booked(cap)'
  <2> SUFFICES ASSUME NEW t \in Tasks
               PROVE  /\ documents'[t].calls = SumOf(CallsRecorded, Recorded(t))'
                           + SumOf(CallsMade, Recording(t))' + wasted'[t]
                      /\ cap # None => documents'[t].calls <= cap
    BY DEF Booked
  <2>1. /\ documents[t].calls =
             SumOf(CallsRecorded, Recorded(t)) + SumOf(CallsMade, Recording(t)) + wasted[t]
        /\ cap # None => documents[t].calls <= cap
    BY <1>0 DEF Booked
  <2>2. SumOf(CallsRecorded, Recorded(t))' = SumOf(CallsRecorded, Recorded(t))
        /\ SumOf(CallsRecorded, Recorded(t)) \in Nat
    BY <1>0, <1>2, BooksSummable DEF CallsRecorded, Recorded
  <2>3. SumOf(CallsMade, Recording(t))' = 0
    BY <1>3, SumEmpty
  <2>4. documents'[t].calls = documents[t].calls
    BY <1>2
  <2> QED
    BY <1>3, <2>1, <2>2, <2>3, <2>4
<1> QED
  BY <1>4, <1>5, <1>6 DEF ChargeInv

\* The lock is free: the holder of it is gone to another stage.
LEMMA LookUpKeeps ==
  ASSUME NEW cap, OneProcess, ChargeInv(cap), NEW x \in Workers, LookUp(x)
  PROVE  ChargeInv(cap)'
<1>1. /\ at \in [Workers -> Stages] /\ job \in [Workers -> Jobs] /\ at[x] = "lookup"
      /\ UNCHANGED <<accounts, job, draft>>
  BY DEF ChargeInv, ChargeTypes, LookUp, Answer, Await
<1>2. job' = [job EXCEPT ![x] = job'[x]] /\ job'[x] \in Jobs /\ job'[x] = job[x]
  BY <1>1
<1>3. \A w \in Workers : ~Holding(w)
  BY DEF LookUp, Locked, OneProcess, Holding
<1>4. CASE IdOf(x) \in DOMAIN idem
  <2>1. at' = [at EXCEPT ![x] = "granted"]
    BY <1>4 DEF LookUp, Answer, IdOf
  <2>2. at'[x] = "granted"
    BY <1>1, <2>1
  <2>3. at' = [at EXCEPT ![x] = at'[x]]
    BY <2>1, <2>2
  <2> QED
    BY <1>1, <1>2, <2>2, <2>3, QuietStep DEF Stages
<1>5. CASE IdOf(x) \notin DOMAIN idem
  <2>1. at' = [at EXCEPT ![x] = "read"]
    BY <1>5 DEF LookUp, Await, IdOf
  <2>2. at'[x] = "read"
    BY <1>1, <2>1
  <2>3. at' = [at EXCEPT ![x] = at'[x]]
    BY <2>1, <2>2
  <2> QED
    BY <1>1, <1>2, <1>3, <1>5, <2>2, <2>3, QuietStep DEF Stages
<1> QED
  BY <1>4, <1>5

\* A worker out of the lock goes to another stage that is out of it.
LEMMA MoveKeeps ==
  ASSUME NEW cap, ChargeInv(cap), NEW x \in Workers, at[x] # "record",
         NEW stage \in {"ready", "lookup", "granted", "refused"}, NEW j \in Jobs,
         at' = [at EXCEPT ![x] = stage], job' = [job EXCEPT ![x] = j],
         UNCHANGED <<accounts, draft>>
  PROVE  ChargeInv(cap)'
<1>1. at'[x] = stage /\ job'[x] = j
  BY DEF ChargeInv, ChargeTypes
<1>2. at' = [at EXCEPT ![x] = at'[x]] /\ job' = [job EXCEPT ![x] = job'[x]]
  BY <1>1
<1> QED
  BY <1>1, <1>2, QuietStep, ZenonT(30) DEF Stages

LEMMA QuietKeeps ==
  ASSUME NEW cap, ChargeInv(cap), UNCHANGED <<accounts, at, job, draft>>
  PROVE  ChargeInv(cap)'
<1>1. ChargeTypes'
  BY DEF ChargeInv, ChargeTypes, accounts
<1>2. Alone' /\ Drafted(cap)'
  BY DEF ChargeInv, Alone, Drafted, Holding, TaskOf, IdOf, accounts
<1>3. /\ CallsRecorded' = CallsRecorded /\ CallsMade' = CallsMade
      /\ \A t : Recorded(t)' = Recorded(t) /\ Recording(t)' = Recording(t)
  BY DEF Recorded, Recording, CallsRecorded, CallsMade, accounts
<1>4. Booked(cap)'
  BY <1>3 DEF ChargeInv, Booked, accounts
<1> QED
  BY <1>1, <1>2, <1>4 DEF ChargeInv

LEMMA ChargeNext ==
  ASSUME NEW cap \in Nat \cup {None}, OneProcess, cap # None => SameCap(cap),
         ChargeInv(cap), [Next]_vars
  PROVE  ChargeInv(cap)'
<1>1. ASSUME NEW w \in Workers, NEW j \in Jobs, BeginMint(w, j) \/ BeginTokens(w, j)
      PROVE  ChargeInv(cap)'
  BY <1>1, MoveKeeps DEF BeginMint, BeginTokens, Enter
<1>2. ASSUME NEW w \in Workers, BeginBadMint(w) PROVE ChargeInv(cap)'
  <2>1. PICK j \in Jobs : job' = [job EXCEPT ![w] = j]
    BY <1>2, GatewayAssumption DEF BeginBadMint
  <2> QED
    BY <1>2, <2>1, MoveKeeps DEF BeginBadMint
<1>3. ASSUME NEW w \in Workers, Store(w) PROVE ChargeInv(cap)'
  BY <1>3, LookUpKeeps, ReadKeeps, ReplaceKeeps, RecordKeeps, LostKeeps DEF Store, Charging
<1>4. ASSUME NEW w \in Workers, Sign(w) \/ MintFails(w) \/ TokensDone(w)
      PROVE  ChargeInv(cap)'
  <2>1. /\ at[w] # "record" /\ at' = [at EXCEPT ![w] = "ready"]
        /\ job' = [job EXCEPT ![w] = NoJob] /\ UNCHANGED <<accounts, draft>>
    BY <1>4 DEF Sign, MintFails, TokensDone, Forget
  <2> QED
    BY <2>1, NoJobIsOne, MoveKeeps
<1>5. CASE Restart
  BY <1>5, CrashKeeps DEF Restart
<1>6. ASSUME NEW w \in Workers, DeclineMint(w) PROVE ChargeInv(cap)'
  BY <1>6, QuietKeeps DEF DeclineMint, storeVars, accounts
<1>7. ASSUME NEW v \in Verifiers,
             Spend(v) \/ \E nonce \in Presented \cap DOMAIN envelopes : CheckWindow(v, nonce)
      PROVE  ChargeInv(cap)'
  BY <1>7, QuietKeeps DEF CheckWindow, Spend, storeVars, accounts
<1>8. CASE Time \/ UNCHANGED vars
  BY <1>8, QuietKeeps DEF Time, Tick, vars, storeVars, accounts
<1> QED
  BY <1>1, <1>2, <1>3, <1>4, <1>5, <1>6, <1>7, <1>8 DEF Next

\* What the threads of one process charge is booked once and within the cap, however
\* often a request is repeated, whatever connections are lost and whenever the process
\* dies: the only calls on an account without a record are those whose charge was
\* interrupted after it was written.  With two processes it is not so
\* (charge in mongo_backend.py and dynamo_backend.py).
THEOREM BookedSafe ==
  ASSUME NEW cap \in Nat \cup {None}, OneProcess, SameCap(cap)
  PROVE  Spec => []BookedOnce
<1>1. Init => ChargeInv(cap)
  BY ChargeStart DEF Init
<1>2. ChargeInv(cap) /\ [Next]_vars => ChargeInv(cap)'
  BY ChargeNext
<1>3. ChargeInv(cap) => BookedOnce
  BY DEF ChargeInv, Booked, BookedOnce, SameCap
<1> QED
  BY <1>1, <1>2, <1>3, PTL DEF Spec

-----------------------------------------------------------------------------
(* What envelopes stand for                                                *)

\* A request id is of one task.
OwnTask == \A i \in Jobs, j \in Jobs : i.req.id = j.req.id => i.req.task = j.req.task

\* A charge that was granted is recorded, and so is that of every envelope.
EnvelopeInv ==
  /\ \A w \in Workers : at[w] = "granted" => IdOf(w) \in DOMAIN idem
  /\ \A n \in DOMAIN envelopes : envelopes[n].id \in Recorded(envelopes[n].task)

\* Records are only added.
LEMMA RecordsStay ==
  ASSUME [Next]_vars
  PROVE  \A id \in DOMAIN idem : id \in DOMAIN idem' /\ idem'[id] = idem[id]
<1>1. ASSUME NEW w \in Workers, Record(w)
      PROVE  \A id \in DOMAIN idem : id \in DOMAIN idem' /\ idem'[id] = idem[id]
  BY <1>1 DEF Record
<1>2. ASSUME NEW w \in Workers, Store(w), ~Record(w) PROVE idem' = idem
  BY <1>2 DEF Store, Charging, LookUp, Read, Replace, ConnectionLost, accounts
<1>3. ASSUME NEW w \in Workers, NEW j \in Jobs, BeginMint(w, j) \/ BeginTokens(w, j)
      PROVE  idem' = idem
  BY <1>3 DEF BeginMint, BeginTokens, Enter, accounts
<1>4. ASSUME NEW w \in Workers, BeginBadMint(w) \/ DeclineMint(w) \/ Sign(w) \/ MintFails(w)
                                  \/ TokensDone(w)
      PROVE  idem' = idem
  BY <1>4 DEF BeginBadMint, DeclineMint, Sign, MintFails, TokensDone, storeVars, accounts
<1>5. ASSUME NEW v \in Verifiers,
             Spend(v) \/ \E nonce \in Presented \cap DOMAIN envelopes : CheckWindow(v, nonce)
      PROVE  idem' = idem
  BY <1>5 DEF CheckWindow, Spend, storeVars
<1>6. CASE Restart \/ Time \/ UNCHANGED vars
  BY <1>6 DEF Restart, Crash, Time, Tick, vars, storeVars, accounts
<1>7. ASSUME NEW w \in Workers, Store(w)
      PROVE  \A id \in DOMAIN idem : id \in DOMAIN idem' /\ idem'[id] = idem[id]
  BY <1>1, <1>2, <1>7
<1> QED
  BY <1>3, <1>4, <1>5, <1>6, <1>7 DEF Next

\* Only a charge whose id is on record is granted.
LEMMA GrantedRecorded ==
  ASSUME ChargeTypes, [Next]_vars, NEW w \in Workers, at'[w] = "granted",
         at[w] = "granted" => IdOf(w) \in DOMAIN idem
  PROVE  IdOf(w)' \in DOMAIN idem'
<1>0. at \in [Workers -> Stages] /\ job \in [Workers -> Jobs]
  BY DEF ChargeTypes
<1>1. CASE at[w] = "granted" /\ job'[w] = job[w]
  BY <1>1, RecordsStay DEF IdOf
<1>2. CASE LookUp(w) \/ Record(w)
  BY <1>0, <1>2 DEF LookUp, Record, Answer, Await, IdOf, accounts
<1>3. ASSUME NEW x \in Workers, Store(x) PROVE IdOf(w)' \in DOMAIN idem'
  <2>1. job' = job
    BY <1>3 DEF Store, Charging, LookUp, Read, Replace, Record, ConnectionLost, Answer, Await
  <2>2. CASE x # w
    <3>1. at'[w] = at[w]
      BY <1>0, <1>3, <2>2 DEF Store, Charging, LookUp, Read, Replace, Record, ConnectionLost,
                              Answer, Await
    <3> QED
      BY <1>1, <2>1, <3>1
  <2>3. CASE Read(w) \/ Replace(w) \/ ConnectionLost(w)
    BY <1>0, <2>3 DEF Read, Replace, ConnectionLost, Answer, Await
  <2> QED
    BY <1>2, <1>3, <2>2, <2>3 DEF Store, Charging
<1>4. ASSUME NEW x \in Workers, NEW j \in Jobs, BeginMint(x, j) \/ BeginTokens(x, j)
      PROVE  IdOf(w)' \in DOMAIN idem'
  <2>1. at' = [at EXCEPT ![x] = "lookup"] /\ job' = [job EXCEPT ![x] = j]
    BY <1>4 DEF BeginMint, BeginTokens, Enter
  <2>2. w # x /\ at'[w] = at[w] /\ job'[w] = job[w]
    BY <1>0, <2>1
  <2> QED
    BY <1>1, <2>2
<1>5. ASSUME NEW x \in Workers, BeginBadMint(x) PROVE IdOf(w)' \in DOMAIN idem'
  <2>1. at' = [at EXCEPT ![x] = "refused"] /\ \E j : job' = [job EXCEPT ![x] = j]
    BY <1>5 DEF BeginBadMint
  <2>2. w # x /\ at'[w] = at[w] /\ job'[w] = job[w]
    BY <1>0, <2>1
  <2> QED
    BY <1>1, <2>2
<1>6. ASSUME NEW x \in Workers, Sign(x) \/ MintFails(x) \/ TokensDone(x)
      PROVE  IdOf(w)' \in DOMAIN idem'
  <2>1. at' = [at EXCEPT ![x] = "ready"] /\ job' = [job EXCEPT ![x] = NoJob]
    BY <1>6 DEF Sign, MintFails, TokensDone, Forget
  <2>2. w # x /\ at'[w] = at[w] /\ job'[w] = job[w]
    BY <1>0, <2>1
  <2> QED
    BY <1>1, <2>2
<1>7. CASE Restart
  <2>1. at'[w] = IF ProcessOf[w] = Process THEN "ready" ELSE at[w]
    BY <1>7 DEF Restart, Crash
  <2>2. job'[w] = IF ProcessOf[w] = Process THEN NoJob ELSE job[w]
    BY <1>7 DEF Restart, Crash
  <2> QED
    BY <1>1, <2>1, <2>2
<1>8. ASSUME NEW x \in Workers, DeclineMint(x) PROVE IdOf(w)' \in DOMAIN idem'
  BY <1>1, <1>8 DEF DeclineMint, storeVars
<1>9. ASSUME NEW v \in Verifiers,
             Spend(v) \/ \E nonce \in Presented \cap DOMAIN envelopes : CheckWindow(v, nonce)
      PROVE  IdOf(w)' \in DOMAIN idem'
  BY <1>1, <1>9 DEF CheckWindow, Spend, storeVars
<1>10. CASE Time \/ UNCHANGED vars
  BY <1>1, <1>10 DEF Time, Tick, vars, storeVars
<1> QED
  BY <1>3, <1>4, <1>5, <1>6, <1>7, <1>8, <1>9, <1>10 DEF Next

\* Who signs envelopes.
LEMMA SignedOnly ==
  ASSUME [Next]_vars
  PROVE  envelopes' = envelopes \/ \E w \in Workers : Sign(w)
<1>1. ASSUME NEW w \in Workers, Store(w) \/ BeginBadMint(w) \/ DeclineMint(w) \/ MintFails(w)
                                  \/ TokensDone(w)
      PROVE  envelopes' = envelopes
  BY <1>1 DEF Store, BeginBadMint, DeclineMint, MintFails, TokensDone
<1>2. ASSUME NEW w \in Workers, NEW j \in Jobs, BeginMint(w, j) \/ BeginTokens(w, j)
      PROVE  envelopes' = envelopes
  BY <1>2 DEF BeginMint, BeginTokens
<1>3. ASSUME NEW v \in Verifiers,
             Spend(v) \/ \E nonce \in Presented \cap DOMAIN envelopes : CheckWindow(v, nonce)
      PROVE  envelopes' = envelopes
  BY <1>3 DEF CheckWindow, Spend
<1>4. CASE Restart \/ Time \/ UNCHANGED vars
  BY <1>4 DEF Restart, Time, vars
<1> QED
  BY <1>1, <1>2, <1>3, <1>4 DEF Next

LEMMA EnvelopeNext ==
  ASSUME OwnTask, ChargeTypes, ChargeTypes', EnvelopeInv, [Next]_vars
  PROVE  EnvelopeInv'
<1>1. \A w \in Workers : at'[w] = "granted" => IdOf(w)' \in DOMAIN idem'
  BY GrantedRecorded DEF EnvelopeInv
<1>2. \A t : \A id \in Recorded(t) : id \in Recorded(t)'
  BY RecordsStay DEF Recorded
<1>3. ASSUME NEW n \in DOMAIN envelopes'
      PROVE  (envelopes[n].id \in Recorded(envelopes[n].task))'
  <2>1. CASE n \in DOMAIN envelopes /\ envelopes'[n] = envelopes[n]
    <3>1. PICK t, id : t = envelopes[n].task /\ id = envelopes[n].id
      OBVIOUS
    <3>2. id \in Recorded(t)'
      BY <1>2, <2>1, <3>1 DEF EnvelopeInv
    <3> QED
      BY <2>1, <3>1, <3>2 DEF Recorded
  <2>2. ASSUME NEW w \in Workers, Sign(w), envelopes'[n] = Signed(job[w].req)
        PROVE  (envelopes[n].id \in Recorded(envelopes[n].task))'
    <3>1. envelopes'[n].id = IdOf(w) /\ envelopes'[n].task = TaskOf(w)
      BY <2>2 DEF Signed, IdOf, TaskOf
    <3>2. IdOf(w) \in DOMAIN idem
      BY <2>2 DEF Sign, EnvelopeInv
    <3>3. PICK j \in Jobs : idem[IdOf(w)].req = j.req /\ j.req.id = IdOf(w)
      BY <3>2 DEF ChargeTypes
    <3>4. j.req.task = TaskOf(w)
      <4>1. job[w] \in Jobs
        BY DEF ChargeTypes
      <4> QED
        BY <3>3, <4>1 DEF OwnTask, IdOf, TaskOf
    <3>5. idem' = idem
      BY <2>2 DEF Sign, accounts
    <3> QED
      BY <3>1, <3>2, <3>3, <3>4, <3>5 DEF Recorded
  <2>3. ASSUME NEW w \in Workers, Sign(w)
        PROVE  \/ n \in DOMAIN envelopes /\ envelopes'[n] = envelopes[n]
               \/ envelopes'[n] = Signed(job[w].req)
    <3>1. PICK nonce : envelopes' = With(envelopes, nonce, Signed(job[w].req))
      BY <2>3 DEF Sign
    <3> QED
      BY <1>3, <3>1 DEF With
  <2> QED
    BY <1>3, <2>1, <2>2, <2>3, SignedOnly
<1> QED
  BY <1>1, <1>3 DEF EnvelopeInv

\* The requests with an envelope are among those on record, whose calls are booked.
LEMMA EnvelopesBooked ==
  ASSUME ChargeInv(None), EnvelopeInv PROVE EnvelopesPaid
<1> SUFFICES ASSUME NEW t \in Tasks
             PROVE  /\ Enveloped(t) \subseteq Recorded(t)
                    /\ SumOf(CallsRecorded, Enveloped(t)) <= documents[t].calls
  BY DEF EnvelopesPaid
<1>1. Enveloped(t) \subseteq Recorded(t)
  BY DEF Enveloped, EnvelopeInv
<1>2. PICK f, R, S, n, m, k : /\ f = CallsRecorded /\ R = Recorded(t) /\ S = Enveloped(t)
                              /\ n = SumOf(CallsRecorded, Recorded(t))
                              /\ m = SumOf(CallsMade, Recording(t)) /\ k = wasted[t]
  OBVIOUS
<1>3. Summable(f, R) /\ n \in Nat /\ m \in Nat /\ k \in Nat
  <2>1. Recording(t) \subseteq Workers
    BY DEF Recording
  <2> QED
    BY <1>2, <2>1, BooksSummable DEF ChargeInv, ChargeTypes
<1>4. \A x \in S : f[x] \in Nat /\ f[x] <= f[x]
  BY <1>1, <1>2, <1>3 DEF Summable
<1>5. S \subseteq R
  BY <1>1, <1>2
<1>6. SumOf(f, S) <= SumOf(f, R)
  BY <1>3, <1>4, <1>5, SumMore
<1>7. SumOf(f, S) \in Nat
  <2>1. Summable(f, S)
    BY <1>3, <1>4, <1>5, FS_Subset DEF Summable
  <2> QED
    BY <2>1, SumType
<1>8. documents[t].calls = n + m + k
  BY <1>2 DEF ChargeInv, Booked
<1>9. SumOf(f, R) = n
  BY <1>2
<1>10. SumOf(f, S) <= documents[t].calls
  BY <1>3, <1>6, <1>7, <1>8, <1>9
<1> QED
  BY <1>1, <1>2, <1>10

\* Every request that got an envelope is on record and its calls are booked, however
\* often a mint is repeated and wherever a crash or a lost connection interrupts one
\* (mint, of the threads of one gateway).
THEOREM PaidSafe ==
  ASSUME OneProcess, OwnTask
  PROVE  Spec => []EnvelopesPaid
<1>0. None \in Nat \cup {None} /\ (None # None => SameCap(None))
  OBVIOUS
<1>1. Init => ChargeInv(None) /\ EnvelopeInv
  <2>1. Init => ChargeInv(None)
    BY <1>0, ChargeStart DEF Init
  <2>2. Init => EnvelopeInv
    BY DEF Init, StoreInit, EnvelopeInv
  <2> QED
    BY <2>1, <2>2
<1>2. ChargeInv(None) /\ EnvelopeInv /\ [Next]_vars => ChargeInv(None)' /\ EnvelopeInv'
  <2>1. ChargeInv(None) /\ [Next]_vars => ChargeInv(None)'
    BY <1>0, ChargeNext
  <2> QED
    BY <2>1, EnvelopeNext DEF ChargeInv
<1>3. ChargeInv(None) /\ EnvelopeInv => EnvelopesPaid
  BY EnvelopesBooked
<1> QED
  BY <1>1, <1>2, <1>3, PTL DEF Spec

-----------------------------------------------------------------------------
(* The contract of a shared budget                                         *)

\* Callers agree on the slots; a lease id is always new (uuid4): there is no end of them.
SameSlots(m) == \A lim \in LimitSets : lim.maxConcurrent = m
LeasesNeverEnd == IsFiniteSet(Tasks) /\ ~IsFiniteSet(Leases)

\* The worker has drawn a lease that is not on record yet.
Drawn(w) == at[w] \in {"replace", "record"}

\* A document never has more leases than slots.
SlotsKept(m) ==
  \A t \in Tasks : /\ IsFiniteSet(DOMAIN documents[t].leases)
                   /\ Cardinality(DOMAIN documents[t].leases) <= m

\* The document about to be written has no lease but the live ones and the one drawn.
SlotsDrafted(m) ==
  \A w \in Workers : at[w] = "replace" =>
    /\ IsFiniteSet(DOMAIN draft[w].leases) /\ Cardinality(DOMAIN draft[w].leases) <= m
    /\ DOMAIN draft[w].leases \subseteq DOMAIN documents[TaskOf(w)].leases \cup {lease[w]}
    /\ lease[w] \in DOMAIN draft[w].leases

\* A lease drawn is of nobody else, and in the document once that is written.
LeasesDrawn ==
  /\ DOMAIN lease = Workers
  /\ \A w \in Workers : Drawn(w) => \A id \in DOMAIN idem : idem[id].lease # lease[w]
  /\ \A w \in Workers : at[w] = "record" => lease[w] \in DOMAIN documents[TaskOf(w)].leases
  /\ \A i \in DOMAIN idem, j \in DOMAIN idem : idem[i].lease = idem[j].lease => i = j

SlotInv(m) == SlotsKept(m) /\ SlotsDrafted(m) /\ LeasesDrawn

\* So far there are finitely many records and leases.
FinitelyMany ==
  IsFiniteSet(DOMAIN idem) /\ \A t \in Tasks : IsFiniteSet(DOMAIN documents[t].leases)

\* There always is a lease that nobody has.
LEMMA NewLeaseIsNew ==
  ASSUME FinitelyMany, LeasesNeverEnd
  PROVE  /\ NewLease \in Leases
         /\ \A t \in Tasks : NewLease \notin DOMAIN documents[t].leases
         /\ \A w \in Workers : NewLease # lease[w]
         /\ \A id \in DOMAIN idem : NewLease # idem[id].lease
<1> DEFINE of == [t \in Tasks |-> DOMAIN documents[t].leases]
           recordOf == [id \in DOMAIN idem |-> idem[id].lease]
           inDocuments == UNION {of[t] : t \in Tasks}
           drawn == {lease[w] : w \in Workers}
           recorded == {recordOf[id] : id \in DOMAIN idem}
<1>1. IsFiniteSet(inDocuments)
  <2> DEFINE D == {of[t] : t \in Tasks}
  <2>1. \A S \in D : IsFiniteSet(S)
    BY DEF FinitelyMany
  <2>2. IsFiniteSet(D)
    BY ImageFinite DEF LeasesNeverEnd
  <2> HIDE DEF D, of
  <2>3. IsFiniteSet(UNION D)
    BY <2>1, <2>2, FS_UNION
  <2> QED
    BY <2>3 DEF D
<1>2. IsFiniteSet(drawn)
  BY DocumentAssumption, ImageFinite
<1>3. IsFiniteSet(recorded)
  <2>1. PICK f, D : f = recordOf /\ D = DOMAIN idem
    OBVIOUS
  <2>2. IsFiniteSet({f[id] : id \in D})
    BY <2>1, ImageFinite DEF FinitelyMany
  <2> QED
    BY <2>1, <2>2
<1> HIDE DEF inDocuments, drawn, recorded
<1>4. IsFiniteSet((inDocuments \cup drawn) \cup recorded)
  BY <1>1, <1>2, <1>3, FS_Union
<1>5. ~(Leases \subseteq (inDocuments \cup drawn) \cup recorded)
  BY <1>4, FS_Subset DEF LeasesNeverEnd
<1>6. PICK l \in Leases : l \notin inDocuments /\ l \notin drawn /\ l \notin recorded
  BY <1>5
<1>7. /\ \A t \in Tasks : l \notin DOMAIN documents[t].leases
      /\ \A w \in Workers : l # lease[w]
      /\ \A id \in DOMAIN idem : l # idem[id].lease
  BY <1>6 DEF inDocuments, drawn, recorded
<1> QED
  BY <1>7 DEF NewLease

LEMMA SlotStart == ASSUME StoreInit, NEW m \in Nat PROVE SlotInv(m)
<1>1. /\ documents = [t \in Tasks |-> EmptyDocument] /\ DOMAIN idem = {}
      /\ at = [w \in Workers |-> "ready"] /\ DOMAIN lease = Workers
  BY DEF StoreInit
<1>2. DOMAIN EmptyDocument.leases = {} /\ IsFiniteSet({}) /\ Cardinality({}) = 0
  BY FS_EmptySet DEF EmptyDocument
<1>3. SlotsKept(m)
  <2>1. \A t \in Tasks : DOMAIN documents[t].leases = {}
    BY <1>1, <1>2
  <2>2. 0 <= m
    OBVIOUS
  <2>3. ASSUME NEW t \in Tasks
        PROVE  /\ IsFiniteSet(DOMAIN documents[t].leases)
               /\ Cardinality(DOMAIN documents[t].leases) <= m
    BY <1>2, <2>1, <2>2
  <2> QED
    BY <2>3 DEF SlotsKept
<1>4. SlotsDrafted(m) /\ LeasesDrawn
  BY <1>1 DEF SlotsDrafted, LeasesDrawn, Drawn
<1> QED
  BY <1>3, <1>4 DEF SlotInv

\* A step after which every worker with a lease is where it was.
LEMMA SlotsQuiet ==
  ASSUME NEW m, SlotInv(m), UNCHANGED <<documents, idem>>, DOMAIN lease' = Workers,
         \A w \in Workers : Drawn(w)' =>
           UNCHANGED <<at[w], job[w], lease[w], draft[w]>>
  PROVE  SlotInv(m)'
<1>1. SlotsKept(m)'
  BY DEF SlotInv, SlotsKept
<1>2. SlotsDrafted(m)'
  <2> SUFFICES ASSUME NEW w \in Workers, at'[w] = "replace"
               PROVE  /\ IsFiniteSet(DOMAIN draft'[w].leases)
                      /\ Cardinality(DOMAIN draft'[w].leases) <= m
                      /\ DOMAIN draft'[w].leases
                           \subseteq DOMAIN documents'[TaskOf(w)'].leases \cup {lease'[w]}
                      /\ lease'[w] \in DOMAIN draft'[w].leases
    BY DEF SlotsDrafted
  <2>1. /\ at[w] = "replace" /\ TaskOf(w)' = TaskOf(w) /\ lease'[w] = lease[w]
        /\ draft'[w] = draft[w] /\ documents' = documents
    BY DEF Drawn, TaskOf
  <2> QED
    BY <2>1 DEF SlotInv, SlotsDrafted
<1>3. LeasesDrawn'
  <2>1. ASSUME NEW w \in Workers, Drawn(w)'
        PROVE  Drawn(w) /\ lease'[w] = lease[w] /\ at'[w] = at[w] /\ TaskOf(w)' = TaskOf(w)
    BY <2>1 DEF Drawn, TaskOf
  <2>2. \A w \in Workers : Drawn(w)' => \A id \in DOMAIN idem' : idem'[id].lease # lease'[w]
    BY <2>1 DEF SlotInv, LeasesDrawn
  <2>3. \A w \in Workers : at'[w] = "record" =>
          lease'[w] \in DOMAIN documents'[TaskOf(w)'].leases
    <3>1. \A w \in Workers : at'[w] = "record" => Drawn(w)'
      BY DEF Drawn
    <3> QED
      BY <2>1, <3>1 DEF SlotInv, LeasesDrawn
  <2> QED
    BY <2>2, <2>3 DEF SlotInv, LeasesDrawn
<1> QED
  BY <1>1, <1>2, <1>3 DEF SlotInv

\* A charge is let through on a free slot, and its lease is new.
LEMMA SlotRead ==
  ASSUME NEW m \in Nat, SameSlots(m), LeasesNeverEnd, NEW cap, ChargeInv(cap), SlotInv(m),
         NEW x \in Workers, Read(x)
  PROVE  SlotInv(m)'
<1>0. /\ ChargeTypes /\ Alone /\ at \in [Workers -> Stages] /\ DOMAIN draft = Workers
      /\ DOMAIN lease = Workers /\ job[x] \in Jobs /\ TaskOf(x) \in Tasks
      /\ at[x] = "read" /\ UNCHANGED <<documents, idem, job>>
  BY JobFields DEF ChargeInv, ChargeTypes, SlotInv, LeasesDrawn, Read, accounts, TaskOf
<1>1. CASE ~Fits(documents[job[x].req.task], job[x].req, job[x].lim, stamp[x])
  <2>1. at' = [at EXCEPT ![x] = "refused"] /\ draft' = draft /\ lease' = lease
    BY <1>1 DEF Read
  <2>2. \A w \in Workers : Drawn(w)' => UNCHANGED <<at[w], job[w], lease[w], draft[w]>>
    BY <1>0, <2>1 DEF Drawn
  <2> QED
    BY <1>0, <2>1, <2>2, SlotsQuiet
<1>2. CASE Fits(documents[job[x].req.task], job[x].req, job[x].lim, stamp[x])
  <2>1. PICK doc, req, lim, ts, new :
          /\ doc = documents[TaskOf(x)] /\ req = job[x].req /\ lim = job[x].lim
          /\ ts = stamp[x] /\ new = NewLease
    OBVIOUS
  <2>2. /\ draft' = [draft EXCEPT ![x] = Rewritten(doc, req, lim, ts, new)]
        /\ lease' = [lease EXCEPT ![x] = new] /\ at' = [at EXCEPT ![x] = "replace"]
    BY <1>2, <2>1 DEF Read, TaskOf
  <2>3. \A w \in Workers : w # x => ~Drawn(w)'
    BY <1>0, <2>2, OnlyOne DEF Drawn, Holding
  <2>4. lim.maxConcurrent = m /\ m # None
    BY <1>0, <2>1, JobFields DEF SameSlots, None
  <2>5. DOMAIN draft'[x].leases = Live(doc, ts) \cup {new}
    BY <1>0, <2>2, <2>4 DEF Rewritten
  <2>6. IsFiniteSet(Live(doc, ts)) /\ Live(doc, ts) \subseteq DOMAIN doc.leases
        /\ Cardinality(Live(doc, ts)) < m
    <3>1. Live(doc, ts) \subseteq DOMAIN doc.leases
      BY DEF Live
    <3>2. IsFiniteSet(DOMAIN doc.leases)
      BY <1>0, <2>1 DEF SlotInv, SlotsKept
    <3>3. Cardinality(Live(doc, ts)) < m
      BY <1>2, <2>1, <2>4 DEF Fits, SlotFree, TaskOf
    <3> QED
      BY <3>1, <3>2, <3>3, FS_Subset
  <2>7. IsFiniteSet(DOMAIN draft'[x].leases) /\ Cardinality(DOMAIN draft'[x].leases) <= m
    <3>1. PICK L : L = Live(doc, ts)
      OBVIOUS
    <3>2. Cardinality(L) \in Nat
      BY <2>6, <3>1, FS_CardinalityType
    <3>3. /\ IsFiniteSet(L \cup {new})
          /\ Cardinality(L \cup {new}) = IF new \in L THEN Cardinality(L) ELSE Cardinality(L) + 1
      BY <2>6, <3>1, FS_AddElement
    <3>4. Cardinality(L \cup {new}) <= m
      BY <2>6, <3>1, <3>2, <3>3
    <3> QED
      BY <2>5, <3>1, <3>3, <3>4
  <2>8. lease'[x] = new /\ \A id \in DOMAIN idem : idem[id].lease # new
    BY <1>0, <2>1, <2>2, NewLeaseIsNew DEF SlotInv, SlotsKept, FinitelyMany, ChargeTypes
  <2>9. SlotsKept(m)'
    BY <1>0 DEF SlotInv, SlotsKept
  <2>10. SlotsDrafted(m)'
    <3> SUFFICES ASSUME NEW w \in Workers, at'[w] = "replace"
                 PROVE  /\ IsFiniteSet(DOMAIN draft'[w].leases)
                        /\ Cardinality(DOMAIN draft'[w].leases) <= m
                        /\ DOMAIN draft'[w].leases
                             \subseteq DOMAIN documents'[TaskOf(w)'].leases \cup {lease'[w]}
                        /\ lease'[w] \in DOMAIN draft'[w].leases
      BY DEF SlotsDrafted
    <3>1. w = x
      BY <2>3 DEF Drawn
    <3>2. documents'[TaskOf(x)'] = doc
      BY <1>0, <2>1 DEF TaskOf
    <3> QED
      BY <2>5, <2>6, <2>7, <2>8, <3>1, <3>2
  <2>11. LeasesDrawn'
    <3>1. at'[x] = "replace" /\ \A w \in Workers : at'[w] # "record"
      BY <1>0, <2>2, <2>3 DEF Drawn
    <3>2. \A w \in Workers : Drawn(w)' => \A id \in DOMAIN idem' : idem'[id].lease # lease'[w]
      BY <1>0, <2>3, <2>8
    <3>3. DOMAIN lease' = Workers
      BY <1>0, <2>2
    <3> QED
      BY <1>0, <3>1, <3>2, <3>3 DEF SlotInv, LeasesDrawn
  <2> QED
    BY <2>9, <2>10, <2>11 DEF SlotInv
<1> QED
  BY <1>1, <1>2

\* The document is written with the lease.
LEMMA SlotReplace ==
  ASSUME NEW m \in Nat, NEW cap, ChargeInv(cap), SlotInv(m), NEW x \in Workers, Replace(x)
  PROVE  SlotInv(m)'
<1>0. /\ ChargeTypes /\ Alone /\ at \in [Workers -> Stages] /\ DOMAIN documents = Tasks
      /\ DOMAIN lease = Workers /\ job[x] \in Jobs /\ TaskOf(x) \in Tasks
  BY JobFields DEF ChargeInv, ChargeTypes, SlotInv, LeasesDrawn, TaskOf
<1>1. /\ at[x] = "replace" /\ documents' = [documents EXCEPT ![TaskOf(x)] = draft[x]]
      /\ at' = [at EXCEPT ![x] = "record"] /\ UNCHANGED <<job, idem, lease, draft>>
  BY DEF Replace, Await, TaskOf
<1>2. \A w \in Workers : w # x => ~Drawn(w)'
  BY <1>0, <1>1, OnlyOne DEF Drawn, Holding
<1>3. /\ IsFiniteSet(DOMAIN draft[x].leases) /\ Cardinality(DOMAIN draft[x].leases) <= m
      /\ lease[x] \in DOMAIN draft[x].leases
  BY <1>1 DEF SlotInv, SlotsDrafted
<1>4. SlotsKept(m)'
  BY <1>0, <1>1, <1>3 DEF SlotInv, SlotsKept
<1>5. at'[x] = "record"
  BY <1>0, <1>1
<1>6. SlotsDrafted(m)'
  BY <1>2, <1>5 DEF SlotsDrafted, Drawn
<1>7. LeasesDrawn'
  <2>1. \A w \in Workers : Drawn(w)' => \A id \in DOMAIN idem' : idem'[id].lease # lease'[w]
    <3>1. \A id \in DOMAIN idem : idem[id].lease # lease[x]
      BY <1>1 DEF SlotInv, LeasesDrawn, Drawn
    <3> QED
      BY <1>1, <1>2, <3>1
  <2>2. \A w \in Workers : at'[w] = "record" =>
          lease'[w] \in DOMAIN documents'[TaskOf(w)'].leases
    <3>1. documents'[TaskOf(x)'] = draft[x]
      BY <1>0, <1>1 DEF TaskOf
    <3> QED
      BY <1>1, <1>2, <1>3, <3>1 DEF Drawn
  <2> QED
    BY <1>0, <1>1, <2>1, <2>2 DEF SlotInv, LeasesDrawn
<1> QED
  BY <1>4, <1>6, <1>7 DEF SlotInv

\* The lease goes on record with the charge.
LEMMA SlotRecord ==
  ASSUME NEW m \in Nat, SameSlots(m), NEW cap, ChargeInv(cap), SlotInv(m),
         NEW x \in Workers, Record(x)
  PROVE  SlotInv(m)'
<1>0. /\ ChargeTypes /\ Alone /\ at \in [Workers -> Stages] /\ job[x] \in Jobs
      /\ DOMAIN lease = Workers /\ at[x] = "record" /\ IdOf(x) \notin DOMAIN idem
  BY DEF ChargeInv, ChargeTypes, SlotInv, LeasesDrawn, Record, Alone, Holding
<1>1. job[x].lim.maxConcurrent # None
  BY <1>0, JobFields DEF SameSlots, None
<1>2. /\ DOMAIN idem' = DOMAIN idem \cup {IdOf(x)} /\ idem'[IdOf(x)].lease = lease[x]
      /\ \A id \in DOMAIN idem : idem'[id] = idem[id]
      /\ at' = [at EXCEPT ![x] = "granted"] /\ documents' = documents
      /\ lease' = [lease EXCEPT ![x] = None]
  BY <1>0, <1>1 DEF Record, Answer, IdOf
<1>3. \A w \in Workers : ~Drawn(w)'
  BY <1>0, <1>2, OnlyOne DEF Drawn, Holding
<1>4. SlotsKept(m)'
  BY <1>2 DEF SlotInv, SlotsKept
<1>5. SlotsDrafted(m)'
  BY <1>3 DEF SlotsDrafted, Drawn
<1>6. \A id \in DOMAIN idem : idem[id].lease # lease[x]
  BY <1>0 DEF SlotInv, LeasesDrawn, Drawn
<1>7. LeasesDrawn'
  <2>1. ASSUME NEW i \in DOMAIN idem', NEW j \in DOMAIN idem', idem'[i].lease = idem'[j].lease
        PROVE  i = j
    BY <1>2, <1>6, <2>1 DEF SlotInv, LeasesDrawn
  <2>2. DOMAIN lease' = Workers
    BY <1>0, <1>2
  <2> QED
    BY <1>3, <2>1, <2>2 DEF LeasesDrawn, Drawn
<1> QED
  BY <1>4, <1>5, <1>7 DEF SlotInv

LEMMA SlotNext ==
  ASSUME NEW m \in Nat, SameSlots(m), LeasesNeverEnd, OneProcess, NEW cap, ChargeInv(cap),
         SlotInv(m), [Next]_vars
  PROVE  SlotInv(m)'
<1>0. /\ at \in [Workers -> Stages] /\ job \in [Workers -> Jobs] /\ DOMAIN draft = Workers
      /\ DOMAIN lease = Workers
  BY DEF ChargeInv, ChargeTypes, SlotInv, LeasesDrawn
<1>1. ASSUME NEW x \in Workers, NEW stage \in {"ready", "lookup", "read", "granted", "refused"},
             at' = [at EXCEPT ![x] = stage],
             job' = job \/ \E j : job' = [job EXCEPT ![x] = j],
             lease' = lease \/ lease' = [lease EXCEPT ![x] = None],
             draft' = draft \/ draft' = [draft EXCEPT ![x] = EmptyDocument],
             UNCHANGED <<documents, idem>>
      PROVE  SlotInv(m)'
  <2>1. ASSUME NEW w \in Workers, Drawn(w)'
        PROVE  UNCHANGED <<at[w], job[w], lease[w], draft[w]>>
    <3>1. w # x
      BY <1>0, <1>1, <2>1 DEF Drawn
    <3> QED
      BY <1>0, <1>1, <3>1
  <2>2. DOMAIN lease' = Workers
    BY <1>0, <1>1
  <2> QED
    BY <1>1, <2>1, <2>2, SlotsQuiet
<1>2. ASSUME NEW w \in Workers, NEW j \in Jobs, BeginMint(w, j) \/ BeginTokens(w, j)
      PROVE  SlotInv(m)'
  BY <1>1, <1>2 DEF BeginMint, BeginTokens, Enter, accounts
<1>3. ASSUME NEW w \in Workers, BeginBadMint(w) PROVE SlotInv(m)'
  BY <1>1, <1>3 DEF BeginBadMint, accounts
<1>4. ASSUME NEW w \in Workers, LookUp(w) \/ ConnectionLost(w) PROVE SlotInv(m)'
  BY <1>1, <1>4 DEF LookUp, ConnectionLost, Answer, Await, accounts
<1>5. ASSUME NEW w \in Workers, Store(w) PROVE SlotInv(m)'
  BY <1>4, <1>5, SlotRead, SlotReplace, SlotRecord DEF Store, Charging
<1>6. ASSUME NEW w \in Workers, Sign(w) \/ MintFails(w) \/ TokensDone(w)
      PROVE  SlotInv(m)'
  BY <1>1, <1>6 DEF Sign, MintFails, TokensDone, Forget, accounts
<1>7. CASE Restart
  <2>1. {w \in Workers : ProcessOf[w] = Process} = Workers
    BY DEF OneProcess
  <2>2. at' = [w \in Workers |-> "ready"] /\ DOMAIN lease' = Workers
        /\ UNCHANGED <<documents, idem>>
    BY <1>7, <2>1 DEF Restart, Crash
  <2> QED
    BY <2>2, SlotsQuiet DEF Drawn
<1>8. CASE UNCHANGED <<documents, idem, at, job, lease, draft>>
  <2>1. \A w \in Workers : UNCHANGED <<at[w], job[w], lease[w], draft[w]>>
    BY <1>8
  <2> QED
    BY <1>0, <1>8, <2>1, SlotsQuiet
<1>9. ASSUME NEW w \in Workers, DeclineMint(w) PROVE SlotInv(m)'
  BY <1>8, <1>9 DEF DeclineMint, storeVars
<1>10. ASSUME NEW v \in Verifiers,
             Spend(v) \/ \E nonce \in Presented \cap DOMAIN envelopes : CheckWindow(v, nonce)
      PROVE  SlotInv(m)'
  BY <1>8, <1>10 DEF CheckWindow, Spend, storeVars
<1>11. CASE Time \/ UNCHANGED vars
  BY <1>8, <1>11 DEF Time, Tick, vars, storeVars, accounts
<1> QED
  BY <1>2, <1>3, <1>5, <1>6, <1>7, <1>9, <1>10, <1>11 DEF Next

\* The grants of the contract are the records, and its holders are the records whose
\* lease is in the document.
GrantedAs == [id \in DOMAIN idem |-> [task |-> idem[id].req.task, n |-> idem[id].req.callN]]
HeldBy(t) == {id \in Recorded(t) : idem[id].lease \in DOMAIN documents[t].leases}
Holders == [t \in Tasks |-> HeldBy(t)]

LEMMA ContractCounts ==
  /\ \A S : Contract!Cardinality(S) = Cardinality(S)
  /\ \A f, S : Contract!SumOf(f, S) = SumOf(f, S)
<1>1. \A S : Contract!Cardinality(S) = Cardinality(S)
  BY DEF Cardinality, Contract!Cardinality
<1>2. \A f, S : Contract!UnitsOf(f, S) = UnitsOf(f, S)
  BY DEF UnitsOf, Contract!UnitsOf
<1> QED
  BY <1>1, <1>2 DEF SumOf, Contract!SumOf

LEMMA SpentIsRecorded == \A t : Contract!Spent(t) = SumOf(CallsRecorded, Recorded(t))
<1> SUFFICES ASSUME NEW t PROVE Contract!Spent(t) = SumOf(CallsRecorded, Recorded(t))
  OBVIOUS
<1>1. PICK g : g = GrantedAs
  OBVIOUS
<1>2. [id \in DOMAIN g |-> g[id].n] = CallsRecorded
  BY <1>1 DEF GrantedAs, CallsRecorded
<1>3. Contract!GrantsOf(t) = Recorded(t)
  BY DEF Contract!GrantsOf, Recorded
<1>4. Contract!Spent(t) = Contract!SumOf([id \in DOMAIN g |-> g[id].n], Contract!GrantsOf(t))
  BY <1>1 DEF Contract!Spent, GrantedAs
<1> QED
  BY <1>2, <1>3, <1>4, ContractCounts

LEMMA ContractInit == ASSUME StoreInit PROVE Contract!Init
<1>1. DOMAIN idem = {}
  BY DEF StoreInit
<1>2. [id \in {} |-> [task |-> idem[id].req.task, n |-> idem[id].req.callN]] = <<>>
  OBVIOUS
<1>3. \A t \in Tasks : HeldBy(t) = {}
  BY <1>1 DEF HeldBy, Recorded
<1>4. [t \in Tasks |-> {id \in Recorded(t) : idem[id].lease \in DOMAIN documents[t].leases}]
        = [t \in Tasks |-> {}]
  BY <1>3 DEF HeldBy
<1> QED
  BY <1>1, <1>2, <1>4 DEF Contract!Init

\* Different requests hold different leases of the document.
LEMMA HoldersCounted ==
  ASSUME NEW m \in Nat, SlotInv(m), NEW t \in Tasks, NEW new,
         new \in DOMAIN documents[t].leases, \A id \in DOMAIN idem : idem[id].lease # new
  PROVE  Cardinality(HeldBy(t)) < m
<1> DEFINE H == HeldBy(t)
           L == DOMAIN documents[t].leases
           f == [id \in H |-> idem[id].lease]
<1>1. H \subseteq DOMAIN idem /\ \A id \in H : idem[id].lease \in L \ {new}
  BY DEF HeldBy, Recorded
<1>2. f \in Injection(H, L \ {new})
  BY <1>1 DEF Injection, IsInjective, SlotInv, LeasesDrawn
<1>3. IsFiniteSet(L) /\ Cardinality(L) <= m /\ new \in L
  BY DEF SlotInv, SlotsKept
<1> HIDE DEF H, L, f
<1>4. IsFiniteSet(L \ {new}) /\ Cardinality(L \ {new}) = Cardinality(L) - 1
  BY <1>3, FS_RemoveElement
<1>5. IsFiniteSet(H) /\ Cardinality(H) <= Cardinality(L \ {new})
  BY <1>2, <1>4, FS_Injection
<1>6. Cardinality(H) \in Nat /\ Cardinality(L) \in Nat
  BY <1>3, <1>5, FS_CardinalityType
<1>7. Cardinality(H) < m
  BY <1>3, <1>4, <1>5, <1>6
<1> QED
  BY <1>7 DEF H

\* A charge that is recorded is a grant of the contract.
LEMMA RecordGrants ==
  ASSUME NEW m \in Nat, SameSlots(m), NEW cap \in Nat, SameCap(cap), ChargeInv(cap),
         SlotInv(m), NEW x \in Workers, Record(x)
  PROVE  Contract!Next
<1>0. /\ ChargeTypes /\ Booked(cap) /\ job[x] \in Jobs /\ at[x] = "record"
      /\ IdOf(x) \notin DOMAIN idem /\ TaskOf(x) \in Tasks /\ IdOf(x) \in Ids
      /\ job[x].req.callN \in Nat
  BY JobFields DEF ChargeInv, ChargeTypes, Record, Alone, Holding, TaskOf, IdOf
<1>1. TheLimits.maxCalls = cap /\ TheLimits.maxConcurrent = m
  <2>1. job[x].lim \in LimitSets
    BY <1>0, JobFields
  <2>2. TheLimits \in LimitSets
    BY <2>1 DEF TheLimits
  <2> QED
    BY <2>2 DEF SameCap, SameSlots
<1>2. PICK t, id, n : t = TaskOf(x) /\ id = IdOf(x) /\ n = job[x].req.callN
  OBVIOUS
<1>3. /\ DOMAIN idem' = DOMAIN idem \cup {id} /\ idem'[id].lease = lease[x]
      /\ idem'[id].req.task = t /\ idem'[id].req.callN = n
      /\ \A i \in DOMAIN idem : idem'[i] = idem[i]
      /\ documents' = documents
  <2>1. job[x].lim.maxConcurrent # None
    BY <1>0, JobFields DEF SameSlots, None
  <2> QED
    BY <1>0, <1>2, <2>1 DEF Record, IdOf, TaskOf
<1>4. Contract!Spent(t) + n <= cap /\ n \in 0 .. cap
  <2>1. PICK a, b, k : /\ a = SumOf(CallsRecorded, Recorded(t))
                       /\ b = SumOf(CallsMade, Recording(t)) /\ k = wasted[t]
    OBVIOUS
  <2>2. documents[t].calls = a + b + k /\ documents[t].calls <= cap
    BY <1>0, <1>2, <2>1 DEF Booked, None
  <2>3. a \in Nat /\ k \in Nat
    BY <1>0, <1>2, <2>1, BooksSummable DEF ChargeTypes
  <2>4. b \in Nat /\ n <= b
    <3>1. PICK f, R : f = CallsMade /\ R = Recording(t)
      OBVIOUS
    <3>2. R \subseteq Workers /\ {x} \subseteq R /\ f[x] = n
      BY <1>0, <1>2, <3>1 DEF Recording, TaskOf, CallsMade
    <3>3. Summable(f, R) /\ SumOf(f, R) \in Nat /\ SumOf(f, {x}) \in Nat
      BY <1>0, <3>1, <3>2, BooksSummable
    <3>4. SumOf(f, {x}) <= SumOf(f, R)
      <4>1. \A w \in {x} : f[w] \in Nat /\ f[w] <= f[w]
        BY <1>0, <1>2, <3>2
      <4> QED
        BY <3>2, <3>3, <4>1, SumMore
    <3>5. SumOf(f, {} \cup {x}) = SumOf(f, {}) + f[x]
      <4>1. Summable(f, {}) /\ x \notin {} /\ f[x] \in Nat
        BY <1>0, <1>2, <3>2, FS_EmptySet DEF Summable
      <4> QED
        BY <4>1, SumAdd
    <3>6. SumOf(f, {x}) = n
      <4>1. {} \cup {x} = {x} /\ SumOf(f, {}) = 0
        BY SumEmpty
      <4>2. SumOf(f, {x}) = 0 + n
        BY <3>2, <3>5, <4>1
      <4> QED
        BY <1>0, <1>2, <4>2
    <3> QED
      BY <2>1, <3>1, <3>3, <3>4, <3>6
  <2>5. Contract!Spent(t) = a
    BY <2>1, SpentIsRecorded
  <2> QED
    BY <1>0, <1>2, <2>2, <2>3, <2>4, <2>5
<1>5. id \notin DOMAIN GrantedAs
  BY <1>0, <1>2 DEF GrantedAs
<1>6. GrantedAs' = [i \in DOMAIN GrantedAs \cup {id} |->
                      IF i = id THEN [task |-> t, n |-> n] ELSE GrantedAs[i]]
  <2>1. DOMAIN GrantedAs = DOMAIN idem
    BY DEF GrantedAs
  <2>2. GrantedAs' = [i \in DOMAIN idem' |-> [task |-> idem'[i].req.task, n |-> idem'[i].req.callN]]
    BY DEF GrantedAs
  <2>3. \A i \in DOMAIN idem' :
          [task |-> idem'[i].req.task, n |-> idem'[i].req.callN]
            = IF i = id THEN [task |-> t, n |-> n] ELSE GrantedAs[i]
    BY <1>3, <2>1 DEF GrantedAs
  <2> QED
    BY <1>3, <2>1, <2>2, <2>3
<1>7. PICK new : new = lease[x]
  OBVIOUS
<1>8. new \in DOMAIN documents[t].leases /\ \A i \in DOMAIN idem : idem[i].lease # new
  BY <1>0, <1>2, <1>7 DEF SlotInv, LeasesDrawn, Drawn
<1>9. Cardinality(HeldBy(t)) < m
  BY <1>0, <1>2, <1>8, HoldersCounted
<1>10. \A s \in Tasks : HeldBy(s)' = IF s = t THEN HeldBy(t) \cup {id} ELSE HeldBy(s)
  BY <1>0, <1>2, <1>3, <1>7, <1>8 DEF HeldBy, Recorded
<1>11. Holders' = [Holders EXCEPT ![t] = HeldBy(t) \cup {id}]
  <2>1. Holders' = [s \in Tasks |-> HeldBy(s)']
    BY DEF Holders
  <2>2. DOMAIN Holders = Tasks /\ \A s \in Tasks : Holders[s] = HeldBy(s)
    BY DEF Holders
  <2> QED
    BY <1>10, <2>1, <2>2
<1>12. Contract!Grant(id, t, n)
  <2>1. HeldBy(t) \in SUBSET Holders[t]
    BY <1>0, <1>2 DEF Holders
  <2>2. Contract!Cardinality(HeldBy(t)) < TheLimits.maxConcurrent
    BY <1>1, <1>9, ContractCounts
  <2> QED
    BY <1>1, <1>4, <1>5, <1>6, <1>11, <2>1, <2>2 DEF Contract!Grant, GrantedAs, Holders, HeldBy
<1> QED
  BY <1>0, <1>1, <1>2, <1>4, <1>12 DEF Contract!Next

\* Writing a document gives back the slots of the leases it leaves out.
LEMMA ReplaceGivesBack ==
  ASSUME NEW m \in Nat, NEW cap, ChargeInv(cap), SlotInv(m), NEW x \in Workers, Replace(x)
  PROVE  Contract!Next
<1>0. /\ DOMAIN documents = Tasks /\ TaskOf(x) \in Tasks
  BY JobFields DEF ChargeInv, ChargeTypes, TaskOf
<1>1. /\ at[x] = "replace" /\ documents' = [documents EXCEPT ![TaskOf(x)] = draft[x]]
      /\ idem' = idem
  BY DEF Replace, TaskOf
<1>2. PICK t : t = TaskOf(x)
  OBVIOUS
<1>3. /\ DOMAIN draft[x].leases \subseteq DOMAIN documents[t].leases \cup {lease[x]}
      /\ \A id \in DOMAIN idem : idem[id].lease # lease[x]
  BY <1>1, <1>2 DEF SlotInv, SlotsDrafted, LeasesDrawn, Drawn
<1>4. GrantedAs' = GrantedAs
  BY <1>1 DEF GrantedAs
<1>5. PICK keep : keep = HeldBy(t)'
  OBVIOUS
<1>6. keep \subseteq HeldBy(t)
  BY <1>0, <1>1, <1>2, <1>3, <1>5 DEF HeldBy, Recorded
<1>7. \A s \in Tasks : s # t => HeldBy(s)' = HeldBy(s)
  BY <1>0, <1>1, <1>2 DEF HeldBy, Recorded
<1>8. Holders' = [Holders EXCEPT ![t] = keep] /\ keep \in SUBSET Holders[t]
  <2>1. Holders' = [s \in Tasks |-> HeldBy(s)']
    BY DEF Holders
  <2>2. DOMAIN Holders = Tasks /\ \A s \in Tasks : Holders[s] = HeldBy(s)
    BY DEF Holders
  <2> QED
    BY <1>0, <1>2, <1>5, <1>6, <1>7, <2>1, <2>2
<1>9. Contract!GiveBack(t)
  BY <1>4, <1>8 DEF Contract!GiveBack, GrantedAs, Holders, HeldBy
<1> QED
  BY <1>0, <1>2, <1>9 DEF Contract!Next

LEMMA ContractStep ==
  ASSUME NEW m \in Nat, SameSlots(m), NEW cap \in Nat, SameCap(cap), ChargeInv(cap),
         SlotInv(m), [Next]_vars
  PROVE  Contract!Next \/ UNCHANGED Contract!vars
<1>1. ASSUME UNCHANGED <<documents, idem>> PROVE UNCHANGED Contract!vars
  BY <1>1 DEF Contract!vars, Recorded
<1>2. ASSUME NEW w \in Workers, Store(w) PROVE Contract!Next \/ UNCHANGED <<documents, idem>>
  BY <1>2, RecordGrants, ReplaceGivesBack
     DEF Store, Charging, LookUp, Read, ConnectionLost, accounts
<1>3. ASSUME NEW w \in Workers, NEW j \in Jobs, BeginMint(w, j) \/ BeginTokens(w, j)
      PROVE  UNCHANGED <<documents, idem>>
  BY <1>3 DEF BeginMint, BeginTokens, Enter, accounts
<1>4. ASSUME NEW w \in Workers, BeginBadMint(w) \/ DeclineMint(w) \/ Sign(w) \/ MintFails(w)
                                  \/ TokensDone(w)
      PROVE  UNCHANGED <<documents, idem>>
  BY <1>4 DEF BeginBadMint, DeclineMint, Sign, MintFails, TokensDone, storeVars, accounts
<1>5. ASSUME NEW v \in Verifiers,
             Spend(v) \/ \E nonce \in Presented \cap DOMAIN envelopes : CheckWindow(v, nonce)
      PROVE  UNCHANGED <<documents, idem>>
  BY <1>5 DEF CheckWindow, Spend, storeVars
<1>6. CASE Restart \/ Time \/ UNCHANGED vars
  BY <1>1, <1>6 DEF Restart, Crash, Time, Tick, vars, storeVars, accounts
<1> QED
  BY <1>1, <1>2, <1>3, <1>4, <1>5, <1>6 DEF Next

\* The document store implements the contract of a shared budget for the threads of one
\* process whose callers agree on the limits: a request is granted once, within the cap
\* on calls and on a slot of its own, through retries, lost connections and deaths of the
\* process between any two operations of a charge (class BudgetBackend; charge in
\* mongo_backend.py and dynamo_backend.py).
THEOREM KeepsContract ==
  ASSUME OneProcess, LeasesNeverEnd, NEW cap \in Nat, SameCap(cap), NEW m \in Nat, SameSlots(m)
  PROVE  Spec => ContractKept
<1>0. cap \in Nat \cup {None}
  OBVIOUS
<1>1. Init => ChargeInv(cap) /\ SlotInv(m) /\ Contract!Init
  BY <1>0, ChargeStart, SlotStart, ContractInit DEF Init
<1>2. ChargeInv(cap) /\ SlotInv(m) /\ [Next]_vars => ChargeInv(cap)' /\ SlotInv(m)'
  BY <1>0, ChargeNext, SlotNext
<1>3. ChargeInv(cap) /\ SlotInv(m) /\ [Next]_vars => [Contract!Next]_(Contract!vars)
  BY ContractStep
<1> QED
  BY <1>1, <1>2, <1>3, PTL DEF Spec, ContractKept, Contract!Spec

-----------------------------------------------------------------------------
(* What the variables hold                                                 *)

\* Mints under way, which may each come to a failure that the breaker counts.
UnderWay == {w \in Workers : at[w] # "ready" /\ Minting(w)}

Typed(doc) == TypedDocument(doc) /\ IsFiniteSet(DOMAIN doc.leases)

StoreTypes ==
  /\ StoreTypeOK /\ FinitelyMany
  /\ DOMAIN documents = Tasks /\ DOMAIN draft = Workers /\ \A w \in Workers : Typed(draft[w])

\* A closed breaker has counted fewer failures than it opens at, and one for each
\* mint under way may still come.
BreakerInv ==
  /\ failed \in Nat /\ failed + Cardinality(UnderWay) < FailureThreshold + Cardinality(Workers)
  /\ openedAt \in 0 .. MaxTime \cup {Closed}
  /\ openedAt = Closed => failed < FailureThreshold

IssueTypes ==
  \A nonce \in DOMAIN envelopes :
    /\ envelopes[nonce].id \in Ids /\ envelopes[nonce].task \in Tasks
    /\ envelopes[nonce].issuedAt \in Nat /\ envelopes[nonce].issuedAt <= now

TypeInv == NonceInv /\ StoreTypes /\ BreakerInv /\ IssueTypes

LEMMA EmptyTyped == Typed(EmptyDocument)
<1>1. <<>> \in Seq(Signatures) /\ DOMAIN <<>> = {} /\ IsFiniteSet({})
  BY FS_EmptySet
<1> QED
  BY <1>1 DEF Typed, TypedDocument, EmptyDocument

LEMMA LoopTyped ==
  ASSUME NEW doc, TypedDocument(doc), NEW req \in BudgetCharge, NEW lim \in LimitSets
  PROVE  LoopAfter(doc, req, lim) \in Seq(Signatures)
<1> DEFINE longer == <<req.sig>> \o doc.loop
<1>1. <<req.sig>> \in Seq(Signatures) /\ doc.loop \in Seq(Signatures)
  BY DEF BudgetCharge, TypedDocument
<1>2. longer \in Seq(Signatures)
  BY <1>1, ConcatProperties
<1>3. lim.loopHistory \in Nat
  BY LimitsAssumption DEF BudgetLimits
<1> HIDE DEF longer
<1>4. ASSUME Len(longer) > lim.loopHistory
      PROVE  SubSeq(longer, 1, lim.loopHistory) \in Seq(Signatures)
  <2>1. \A i \in 1 .. lim.loopHistory : longer[i] \in Signatures
    BY <1>2, <1>3, <1>4
  <2>2. PICK h \in Int, one \in Int : h = lim.loopHistory /\ one = 1
    BY <1>3
  <2>3. SubSeq(longer, one, h) \in Seq(Signatures)
    BY <2>1, <2>2, SubSeqProperties
  <2> QED
    BY <2>2, <2>3
<1> QED
  BY <1>2, <1>4 DEF LoopAfter, longer

LEMMA RewrittenTyped ==
  ASSUME NEW doc, Typed(doc), NEW req \in BudgetCharge, NEW lim \in LimitSets,
         NEW ts \in 0 .. MaxTime, NEW new \in Leases
  PROVE  Typed(Rewritten(doc, req, lim, ts, new))
<1> DEFINE after == Rewritten(doc, req, lim, ts, new)
<1>1. /\ doc.calls \in Nat /\ doc.tokens \in Nat /\ doc.risk \in Nat
      /\ DOMAIN doc.rate \subseteq 0 .. MaxTime
      /\ \A time \in DOMAIN doc.rate : doc.rate[time] \in Nat
      /\ doc.loop \in Seq(Signatures) /\ DOMAIN doc.leases \subseteq Leases
      /\ TypedDocument(doc) /\ IsFiniteSet(DOMAIN doc.leases)
  BY DEF Typed, TypedDocument
<1>2. req.callN \in Nat /\ req.tokens \in Nat /\ req.risk \in Nat
  BY DEF BudgetCharge
<1>3. after.calls \in Nat /\ after.tokens \in Nat /\ after.risk \in Nat
  <2>1. /\ after.calls = doc.calls + req.callN
        /\ after.tokens = doc.tokens + req.tokens
        /\ after.risk = doc.risk + req.risk
    BY DEF Rewritten
  <2>2. doc.calls + req.callN \in Nat /\ doc.tokens + req.tokens \in Nat /\ doc.risk + req.risk \in Nat
    <3>1. doc.calls \in Nat /\ doc.tokens \in Nat /\ doc.risk \in Nat
      BY <1>1
    <3> QED
      BY <1>2, <3>1
  <2> HIDE DEF after
  <2> QED
    BY <2>1, <2>2, Zenon
<1>4. /\ DOMAIN after.rate \subseteq 0 .. MaxTime
      /\ \A time \in DOMAIN after.rate : after.rate[time] \in Nat
  <2>1. CASE lim.rate = None
    BY <1>1, <2>1 DEF Rewritten
  <2>2. CASE lim.rate # None
    <3>1. PICK recent : recent = RecentCalls(doc, lim, ts)
      OBVIOUS
    <3>2. DOMAIN recent \subseteq 0 .. MaxTime /\ \A time \in DOMAIN recent : recent[time] \in Nat
      BY <1>1, <3>1 DEF RecentCalls
    <3>3. after.rate = Counted(recent, req.callN, ts)
      BY <2>2, <3>1 DEF Rewritten
    <3>4. Given(recent, ts, 0) + req.callN \in Nat
      BY <1>2, <3>2 DEF Given
    <3> QED
      BY <3>2, <3>3, <3>4 DEF Counted, With
  <2> QED
    BY <2>1, <2>2
<1>5. after.loop \in Seq(Signatures)
  BY <1>1, LoopTyped DEF Rewritten
<1>6. DOMAIN after.leases \subseteq Leases
  <2>1. Live(doc, ts) \subseteq Leases
    BY <1>1 DEF Live
  <2> QED
    BY <1>1, <2>1 DEF Rewritten
<1>7. IsFiniteSet(DOMAIN after.leases)
  <2>1. PICK L : L = Live(doc, ts)
    OBVIOUS
  <2>2. IsFiniteSet(L)
    BY <1>1, <2>1, FS_Subset DEF Live
  <2>3. IsFiniteSet(L \cup {new})
    BY <2>2, FS_AddElement
  <2>4. DOMAIN after.leases \in {DOMAIN doc.leases, L \cup {new}}
    BY <2>1 DEF Rewritten
  <2> QED
    BY <1>1, <2>3, <2>4
<1> QED
  BY <1>3, <1>4, <1>5, <1>6, <1>7 DEF Typed, TypedDocument

\* A step that writes no document and no record.
LEMMA TypesMove ==
  ASSUME StoreTypes, UNCHANGED <<documents, idem>>,
         at' \in [Workers -> Stages], job' \in [Workers -> Jobs],
         stamp' \in [Workers -> 0 .. MaxTime], lease' \in [Workers -> Leases \cup {None}],
         DOMAIN draft' = Workers, \A w \in Workers : Typed(draft'[w]),
         now' \in 0 .. MaxTime, failures' \in 0 .. MaxFailures, wasted' \in [Tasks -> Nat]
  PROVE  StoreTypes'
<1>1. StoreTypeOK'
  BY DEF StoreTypes, StoreTypeOK, Stages
<1>2. FinitelyMany' /\ DOMAIN documents' = Tasks
  BY DEF StoreTypes, FinitelyMany
<1>3. \A w \in Workers : Typed(draft[w])'
  BY DEF Typed, TypedDocument
<1> QED
  BY <1>1, <1>2, <1>3 DEF StoreTypes

LEMMA TypedParts ==
  ASSUME StoreTypes
  PROVE  /\ at \in [Workers -> Stages] /\ job \in [Workers -> Jobs]
         /\ stamp \in [Workers -> 0 .. MaxTime] /\ lease \in [Workers -> Leases \cup {None}]
         /\ DOMAIN draft = Workers /\ \A w \in Workers : Typed(draft[w])
         /\ now \in 0 .. MaxTime /\ failures \in 0 .. MaxFailures /\ wasted \in [Tasks -> Nat]
         /\ \A t \in Tasks : Typed(documents[t])
         /\ DOMAIN documents = Tasks /\ FinitelyMany
BY DEF StoreTypes, StoreTypeOK, Stages, Typed, FinitelyMany

\* A step that changes one worker only.
LEMMA TypesStep ==
  ASSUME StoreTypes, UNCHANGED <<documents, idem, now>>, NEW x \in Workers,
         NEW stage \in Stages, at' = [at EXCEPT ![x] = stage],
         job' = job \/ \E j \in Jobs : job' = [job EXCEPT ![x] = j],
         stamp' = stamp \/ \E ts \in 0 .. MaxTime : stamp' = [stamp EXCEPT ![x] = ts],
         lease' = lease \/ \E l \in Leases \cup {None} : lease' = [lease EXCEPT ![x] = l],
         draft' = draft \/ \E doc : Typed(doc) /\ draft' = [draft EXCEPT ![x] = doc],
         failures' \in 0 .. MaxFailures, wasted' \in [Tasks -> Nat]
  PROVE  StoreTypes'
<1>1. /\ at' \in [Workers -> Stages] /\ job' \in [Workers -> Jobs]
      /\ now' \in 0 .. MaxTime
  BY TypedParts
<1>2. stamp' \in [Workers -> 0 .. MaxTime] /\ lease' \in [Workers -> Leases \cup {None}]
  BY TypedParts
<1>3. DOMAIN draft' = Workers /\ \A w \in Workers : Typed(draft'[w])
  BY TypedParts
<1> QED
  BY <1>1, <1>2, <1>3, TypesMove

\* What is wasted can be counted.
LEMMA WasteTyped ==
  ASSUME StoreTypes, NEW W, W \subseteq Workers, Waste(W) PROVE wasted' \in [Tasks -> Nat]
<1>1. ASSUME NEW t \in Tasks
      PROVE  wasted[t] + SumOf(CallsMade, {w \in W : at[w] = "record" /\ job[w].req.task = t})
               \in Nat
  <2>1. PICK S : S = {w \in W : at[w] = "record" /\ job[w].req.task = t}
    OBVIOUS
  <2>2. IsFiniteSet(S) /\ S \subseteq Workers
    BY <2>1, DocumentAssumption, FS_Subset
  <2>3. \A w \in S : CallsMade[w] \in Nat
    BY <2>2, TypedParts, JobFields DEF CallsMade
  <2>4. SumOf(CallsMade, S) \in Nat
    BY <2>2, <2>3, SumType DEF Summable
  <2> QED
    BY <2>1, <2>4, TypedParts
<1> QED
  BY <1>1 DEF Waste

LEMMA NoneTyped == 0 \in 0 .. MaxTime /\ 0 \in 0 .. MaxFailures /\ None \in Leases \cup {None}
BY DocumentAssumption

LEMMA ReadTyped ==
  ASSUME StoreTypes, LeasesNeverEnd, NEW x \in Workers, Read(x) PROVE StoreTypes'
<1>0. job[x] \in Jobs /\ TaskOf(x) \in Tasks /\ stamp[x] \in 0 .. MaxTime
      /\ Typed(documents[TaskOf(x)])
  BY TypedParts, JobFields DEF TaskOf
<1>1. UNCHANGED <<accounts, job, now, failures>> /\ stamp' = [stamp EXCEPT ![x] = 0]
  BY DEF Read
<1>2. CASE ~Fits(documents[job[x].req.task], job[x].req, job[x].lim, stamp[x])
  <2>1. at' = [at EXCEPT ![x] = "refused"] /\ UNCHANGED <<draft, lease>> /\ "refused" \in Stages
    BY <1>2 DEF Read, Stages
  <2>2. \E ts \in 0 .. MaxTime : stamp' = [stamp EXCEPT ![x] = ts]
    BY <1>1, NoneTyped
  <2>3. UNCHANGED <<documents, idem, wasted, job, now, failures>>
    BY <1>1 DEF accounts
  <2> QED
    BY <2>1, <2>2, <2>3, TypedParts, TypesStep
<1>3. CASE Fits(documents[job[x].req.task], job[x].req, job[x].lim, stamp[x])
  <2>1. PICK doc : doc = Rewritten(documents[TaskOf(x)], job[x].req, job[x].lim, stamp[x], NewLease)
    OBVIOUS
  <2>2. /\ draft' = [draft EXCEPT ![x] = doc] /\ lease' = [lease EXCEPT ![x] = NewLease]
        /\ at' = [at EXCEPT ![x] = "replace"]
    BY <1>3, <2>1 DEF Read, TaskOf
  <2>3. NewLease \in Leases
    BY TypedParts, NewLeaseIsNew
  <2>4. Typed(doc)
    BY <1>0, <2>1, <2>3, JobFields, RewrittenTyped
  <2>5. /\ \E l \in Leases \cup {None} : lease' = [lease EXCEPT ![x] = l]
        /\ \E ts \in 0 .. MaxTime : stamp' = [stamp EXCEPT ![x] = ts]
        /\ \E d : Typed(d) /\ draft' = [draft EXCEPT ![x] = d]
    BY <1>1, <2>2, <2>3, <2>4, NoneTyped
  <2>6. UNCHANGED <<documents, idem, wasted, job, now, failures>> /\ "replace" \in Stages
    BY <1>1 DEF accounts, Stages
  <2> QED
    BY <2>2, <2>5, <2>6, TypedParts, TypesStep
<1> QED
  BY <1>2, <1>3

LEMMA ReplaceTyped == ASSUME StoreTypes, NEW x \in Workers, Replace(x) PROVE StoreTypes'
<1>0. TaskOf(x) \in Tasks /\ Typed(draft[x])
  BY TypedParts, JobFields DEF TaskOf
<1>1. /\ documents' = [documents EXCEPT ![TaskOf(x)] = draft[x]]
      /\ at' = [at EXCEPT ![x] = "record"]
      /\ UNCHANGED <<job, stamp, lease, idem, wasted, draft, now, failures>>
  BY DEF Replace, Await, TaskOf
<1>2. \A t \in Tasks : Typed(documents'[t])
  BY <1>0, <1>1, TypedParts
<1>3. at' \in [Workers -> Stages] /\ DOMAIN documents' = Tasks
  BY <1>1, TypedParts DEF Stages
<1>4. StoreTypeOK'
  BY <1>1, <1>2, <1>3 DEF StoreTypes, StoreTypeOK, Stages, Typed
<1>5. FinitelyMany'
  BY <1>1, <1>2 DEF StoreTypes, FinitelyMany, Typed
<1> QED
  BY <1>1, <1>3, <1>4, <1>5 DEF StoreTypes

LEMMA RecordTyped == ASSUME StoreTypes, NEW x \in Workers, Record(x) PROVE StoreTypes'
<1>0. /\ job[x] \in Jobs /\ job[x].req \in BudgetCharge /\ IdOf(x) \in Ids
      /\ draft[x].calls \in Nat /\ lease[x] \in Leases \cup {None}
  BY TypedParts, JobFields DEF IdOf, Typed, TypedDocument
<1>1. /\ draft' = [draft EXCEPT ![x] = EmptyDocument] /\ at' = [at EXCEPT ![x] = "granted"]
      /\ stamp' = [stamp EXCEPT ![x] = 0] /\ lease' = [lease EXCEPT ![x] = None]
      /\ UNCHANGED <<job, documents, wasted, now, failures>>
  BY DEF Record, Answer
<1>2. CASE IdOf(x) \in DOMAIN idem
  <2>1. idem' = idem
    BY <1>2 DEF Record, IdOf
  <2> QED
    BY <1>1, <2>1, EmptyTyped, NoneTyped, TypedParts, TypesStep DEF Stages
<1>3. CASE IdOf(x) \notin DOMAIN idem
  <2>1. /\ DOMAIN idem' = DOMAIN idem \cup {IdOf(x)}
        /\ \A id \in DOMAIN idem : idem'[id] = idem[id]
        /\ idem'[IdOf(x)].req = job[x].req /\ idem'[IdOf(x)].callsUsed = draft[x].calls
        /\ idem'[IdOf(x)].lease \in {None, lease[x]}
    BY <1>3 DEF Record, IdOf
  <2>2. ASSUME NEW id \in DOMAIN idem'
        PROVE  /\ id \in Ids /\ idem'[id].req \in BudgetCharge /\ idem'[id].req.id = id
               /\ idem'[id].callsUsed \in Nat /\ idem'[id].lease \in Leases \cup {None}
    <3>1. CASE id \in DOMAIN idem
      BY <2>1, <3>1 DEF StoreTypes, StoreTypeOK
    <3>2. CASE id = IdOf(x)
      BY <1>0, <2>1, <3>2 DEF IdOf
    <3> QED
      BY <2>1, <2>2, <3>1, <3>2
  <2>3. IsFiniteSet(DOMAIN idem')
    <3>1. PICK D, E, id : D = DOMAIN idem /\ E = DOMAIN idem' /\ id = IdOf(x)
      OBVIOUS
    <3>2. IsFiniteSet(D \cup {id})
      BY <3>1, FS_AddElement DEF StoreTypes, FinitelyMany
    <3> QED
      BY <2>1, <3>1, <3>2
  <2>4. /\ at' \in [Workers -> Stages] /\ stamp' \in [Workers -> 0 .. MaxTime]
        /\ lease' \in [Workers -> Leases \cup {None}] /\ DOMAIN draft' = Workers
    BY <1>1, NoneTyped, TypedParts DEF Stages
  <2>5. \A w \in Workers : Typed(draft'[w])
    BY <1>1, EmptyTyped, TypedParts
  <2>6. StoreTypeOK'
    BY <1>1, <2>2, <2>4 DEF StoreTypes, StoreTypeOK, Stages
  <2>7. FinitelyMany'
    BY <1>1, <2>3 DEF StoreTypes, FinitelyMany
  <2> QED
    BY <1>1, <2>4, <2>5, <2>6, <2>7 DEF StoreTypes
<1> QED
  BY <1>2, <1>3

\* Every step of the store, and every step of the gateway in it.
LEMMA StoreTyped == ASSUME StoreTypes, LeasesNeverEnd, NEW x \in Workers, Store(x) PROVE StoreTypes'
<1>1. CASE LookUp(x)
  BY <1>1, NoneTyped, TypedParts, TypesStep DEF LookUp, Answer, Await, accounts, Stages
<1>2. CASE ConnectionLost(x)
  <2>1. /\ at' = [at EXCEPT ![x] = "refused"] /\ stamp' = [stamp EXCEPT ![x] = 0]
        /\ lease' = [lease EXCEPT ![x] = None] /\ draft' = [draft EXCEPT ![x] = EmptyDocument]
        /\ UNCHANGED <<job, documents, idem, now>> /\ Waste({x})
        /\ failures' = failures + 1 /\ failures < MaxFailures
    BY <1>2 DEF ConnectionLost, Answer
  <2>2. wasted' \in [Tasks -> Nat]
    BY <2>1, WasteTyped
  <2>3. failures' \in 0 .. MaxFailures
    BY <2>1, TypedParts, DocumentAssumption
  <2> QED
    BY <2>1, <2>2, <2>3, EmptyTyped, NoneTyped, TypedParts, TypesStep DEF Stages
<1> QED
  BY <1>1, <1>2, ReadTyped, ReplaceTyped, RecordTyped DEF Store, Charging

LEMMA CrashTyped == ASSUME StoreTypes, NEW p, Crash(p) PROVE StoreTypes'
<1> DEFINE here == {w \in Workers : ProcessOf[w] = p}
<1>1. /\ at' = [w \in Workers |-> IF w \in here THEN "ready" ELSE at[w]]
      /\ job' = [w \in Workers |-> IF w \in here THEN NoJob ELSE job[w]]
      /\ stamp' = [w \in Workers |-> IF w \in here THEN 0 ELSE stamp[w]]
      /\ lease' = [w \in Workers |-> IF w \in here THEN None ELSE lease[w]]
      /\ draft' = [w \in Workers |-> IF w \in here THEN EmptyDocument ELSE draft[w]]
      /\ failures' = failures + 1 /\ failures < MaxFailures /\ Waste(here)
      /\ UNCHANGED <<documents, idem, now>>
  BY DEF Crash
<1>2. wasted' \in [Tasks -> Nat]
  BY <1>1, WasteTyped
<1>3. failures' \in 0 .. MaxFailures
  BY <1>1, TypedParts, DocumentAssumption
<1>4. at' \in [Workers -> Stages] /\ job' \in [Workers -> Jobs]
  BY <1>1, NoJobIsOne, TypedParts DEF Stages
<1>5. stamp' \in [Workers -> 0 .. MaxTime] /\ lease' \in [Workers -> Leases \cup {None}]
  BY <1>1, NoneTyped, TypedParts
<1>6. DOMAIN draft' = Workers /\ \A w \in Workers : Typed(draft'[w])
  BY <1>1, EmptyTyped, TypedParts
<1> QED
  BY <1>1, <1>2, <1>3, <1>4, <1>5, <1>6, TypedParts, TypesMove

LEMMA TypesStart == ASSUME StoreInit PROVE StoreTypes
<1>1. /\ documents = [t \in Tasks |-> EmptyDocument] /\ DOMAIN idem = {}
      /\ at = [w \in Workers |-> "ready"] /\ job = [w \in Workers |-> NoJob]
      /\ stamp = [w \in Workers |-> 0] /\ lease = [w \in Workers |-> None]
      /\ draft = [w \in Workers |-> EmptyDocument]
      /\ now = 0 /\ failures = 0 /\ wasted = [t \in Tasks |-> 0]
  BY DEF StoreInit
<1>2. /\ at \in [Workers -> Stages] /\ job \in [Workers -> Jobs]
      /\ stamp \in [Workers -> 0 .. MaxTime] /\ lease \in [Workers -> Leases \cup {None}]
      /\ now \in 0 .. MaxTime /\ failures \in 0 .. MaxFailures /\ wasted \in [Tasks -> Nat]
  BY <1>1, NoJobIsOne, NoneTyped DEF Stages
<1>3. \A t \in Tasks : Typed(documents[t])
  BY <1>1, EmptyTyped
<1>4. StoreTypeOK
  BY <1>1, <1>2, <1>3 DEF StoreTypeOK, Stages, Typed
<1>5. FinitelyMany
  BY <1>1, <1>3, FS_EmptySet DEF FinitelyMany, Typed
<1> QED
  BY <1>1, <1>4, <1>5, EmptyTyped DEF StoreTypes

LEMMA TypesNext == ASSUME StoreTypes, LeasesNeverEnd, [Next]_vars PROVE StoreTypes'
<1>1. ASSUME NEW w \in Workers, NEW j \in Jobs, BeginMint(w, j) \/ BeginTokens(w, j)
      PROVE  StoreTypes'
  BY <1>1, TypedParts, TypesStep DEF BeginMint, BeginTokens, Enter, accounts, Stages
<1>2. ASSUME NEW w \in Workers, BeginBadMint(w) PROVE StoreTypes'
  <2>1. PICK j \in Jobs : job' = [job EXCEPT ![w] = j]
    BY <1>2, GatewayAssumption DEF BeginBadMint
  <2> QED
    BY <1>2, <2>1, TypedParts, TypesStep DEF BeginBadMint, accounts, Stages
<1>3. ASSUME NEW w \in Workers, Store(w) PROVE StoreTypes'
  BY <1>3, StoreTyped
<1>4. ASSUME NEW w \in Workers, Sign(w) \/ MintFails(w) \/ TokensDone(w)
      PROVE  StoreTypes'
  <2>1. /\ at' = [at EXCEPT ![w] = "ready"] /\ job' = [job EXCEPT ![w] = NoJob]
        /\ stamp' = [stamp EXCEPT ![w] = 0] /\ lease' = [lease EXCEPT ![w] = None]
        /\ UNCHANGED <<accounts, draft, now, failures>>
    BY <1>4 DEF Sign, MintFails, TokensDone, Forget
  <2> QED
    BY <2>1, NoJobIsOne, NoneTyped, TypedParts, TypesStep DEF accounts, Stages
<1>5. CASE Restart
  BY <1>5, CrashTyped DEF Restart
<1>6. CASE UNCHANGED storeVars
  BY <1>6, TypedParts, TypesMove DEF storeVars
<1>7. ASSUME NEW w \in Workers, DeclineMint(w) PROVE StoreTypes'
  BY <1>6, <1>7 DEF DeclineMint
<1>8. ASSUME NEW v \in Verifiers,
             Spend(v) \/ \E nonce \in Presented \cap DOMAIN envelopes : CheckWindow(v, nonce)
      PROVE  StoreTypes'
  BY <1>6, <1>8 DEF CheckWindow, Spend
<1>9. CASE Time
  <2>1. now' = now + 1 /\ now < MaxTime
        /\ UNCHANGED <<accounts, at, job, stamp, lease, draft, failures>>
    BY <1>9 DEF Time, Tick
  <2>2. now' \in 0 .. MaxTime
    BY <2>1, TypedParts, DocumentAssumption
  <2> QED
    BY <2>1, <2>2, TypedParts, TypesMove DEF accounts
<1> QED
  BY <1>1, <1>2, <1>3, <1>4, <1>5, <1>6, <1>7, <1>8, <1>9 DEF Next, vars

-----------------------------------------------------------------------------
(* The breaker                                                             *)

LEMMA UnderWayCounted ==
  /\ IsFiniteSet(UnderWay) /\ Cardinality(UnderWay) \in Nat /\ Cardinality(Workers) \in Nat
  /\ Cardinality(UnderWay) <= Cardinality(Workers)
<1>1. UnderWay \subseteq Workers /\ IsFiniteSet(Workers)
  BY DocumentAssumption DEF UnderWay
<1> QED
  BY <1>1, FS_Subset, FS_CardinalityType

\* After a success, a restart or its time a closed breaker counts anew.
LEMMA BreakerCloses ==
  ASSUME failed' \in Nat, failed' < FailureThreshold, openedAt' = Closed PROVE BreakerInv'
<1>1. PICK n, k : n = Cardinality(UnderWay)' /\ k = Cardinality(Workers)
  OBVIOUS
<1>2. UnderWay' \subseteq Workers /\ IsFiniteSet(Workers)
  BY DocumentAssumption DEF UnderWay
<1>3. n \in Nat /\ k \in Nat /\ n <= k
  BY <1>1, <1>2, FS_Subset, FS_CardinalityType
<1>4. PICK f \in Nat, h \in Nat : f = failed' /\ h = FailureThreshold /\ f < h
  BY GatewayAssumption
<1>5. f + n < h + k
  <2>1. n \in Int /\ k \in Int /\ f \in Int /\ h \in Int /\ n <= k /\ f < h
    BY <1>3, <1>4
  <2> QED
    BY <2>1
<1> QED
  BY <1>1, <1>4, <1>5 DEF BreakerInv

\* A step that begins no mint and does not touch the breaker.
LEMMA BreakerStays ==
  ASSUME BreakerInv, UNCHANGED breaker, UnderWay' \subseteq UnderWay PROVE BreakerInv'
<1>1. PICK n, k, l : /\ n = Cardinality(UnderWay)' /\ k = Cardinality(Workers)
                     /\ l = Cardinality(UnderWay)
  OBVIOUS
<1>2. n \in Nat /\ k \in Nat /\ l \in Nat /\ n <= l
  BY <1>1, UnderWayCounted, FS_Subset, FS_CardinalityType
<1>3. failed' = failed /\ openedAt' = openedAt
  BY DEF breaker
<1>4. failed \in Nat /\ failed + l < FailureThreshold + k
  BY <1>1 DEF BreakerInv
<1>5. failed' + n < FailureThreshold + k
  <2>1. failed + n <= failed + l /\ FailureThreshold \in Nat
    BY <1>2, <1>4, GatewayAssumption
  <2> QED
    BY <1>2, <1>3, <1>4, <2>1
<1> QED
  BY <1>1, <1>3, <1>5 DEF BreakerInv

\* A mint that fails is no longer under way.
LEMMA BreakerCounts ==
  ASSUME StoreTypes, BreakerInv, NEW x \in Workers, MintFails(x) PROVE BreakerInv'
<1>0. at \in [Workers -> Stages] /\ job \in [Workers -> Jobs] /\ now \in 0 .. MaxTime
  BY TypedParts
<1>1. /\ x \in UnderWay /\ at' = [at EXCEPT ![x] = "ready"] /\ job' = [job EXCEPT ![x] = NoJob]
      /\ failed' = failed + 1
      /\ openedAt' = IF failed + 1 >= FailureThreshold THEN now ELSE openedAt
  BY DEF MintFails, UnderWay, Forget, RecordFailure
<1>2. UnderWay' = UnderWay \ {x}
  BY <1>0, <1>1 DEF UnderWay, Minting
<1>3. PICK n, k, l : /\ n = Cardinality(UnderWay)' /\ k = Cardinality(Workers)
                     /\ l = Cardinality(UnderWay)
  OBVIOUS
<1>4. k \in Nat /\ l \in Nat /\ n = l - 1
  BY <1>1, <1>2, <1>3, UnderWayCounted, FS_RemoveElement
<1>5. /\ failed \in Nat /\ failed + l < FailureThreshold + k
      /\ openedAt \in 0 .. MaxTime \cup {Closed}
      /\ openedAt = Closed => failed < FailureThreshold
  BY <1>3 DEF BreakerInv
<1>6. failed' \in Nat /\ failed' + n < FailureThreshold + k
  BY <1>1, <1>4, <1>5, GatewayAssumption
<1>7. openedAt' \in 0 .. MaxTime \cup {Closed} /\ (openedAt' = Closed => failed' < FailureThreshold)
  BY <1>0, <1>1, <1>5, GatewayAssumption DEF Closed
<1> QED
  BY <1>3, <1>6, <1>7 DEF BreakerInv

LEMMA AskCloses ==
  ASSUME BreakerInv, AskBreaker
  PROVE  failed' \in Nat /\ failed' < FailureThreshold /\ openedAt' = Closed
BY GatewayAssumption DEF BreakerInv, AskBreaker, breaker

LEMMA BreakerNext == ASSUME StoreTypes, BreakerInv, [Next]_vars PROVE BreakerInv'
<1>0. at \in [Workers -> Stages] /\ job \in [Workers -> Jobs]
  BY TypedParts
<1>1. ASSUME NEW w \in Workers, NEW j \in Jobs, BeginMint(w, j) PROVE BreakerInv'
  BY <1>1, AskCloses, BreakerCloses DEF BeginMint
<1>2. ASSUME NEW w \in Workers, NEW j \in Jobs, BeginTokens(w, j) PROVE BreakerInv'
  <2>1. j \in TokenJobs /\ job' = [job EXCEPT ![w] = j] /\ at' = [at EXCEPT ![w] = "lookup"]
        /\ UNCHANGED breaker
    BY <1>2 DEF BeginTokens, Enter
  <2>2. UnderWay' \subseteq UnderWay
    BY <1>0, <2>1 DEF UnderWay, Minting
  <2> QED
    BY <2>1, <2>2, BreakerStays
<1>3. ASSUME NEW w \in Workers, BeginBadMint(w) PROVE BreakerInv'
  BY <1>3, AskCloses, BreakerCloses DEF BeginBadMint
<1>4. CASE UNCHANGED <<breaker, at, job>>
  BY <1>4, BreakerStays DEF UnderWay, Minting
<1>5. ASSUME NEW w \in Workers, DeclineMint(w) PROVE BreakerInv'
  <2>1. CASE AskBreaker
    BY <2>1, AskCloses, BreakerCloses
  <2>2. CASE UNCHANGED breaker
    BY <1>4, <1>5, <2>2 DEF DeclineMint, storeVars
  <2> QED
    BY <1>5, <2>1, <2>2 DEF DeclineMint
<1>6. ASSUME NEW w \in Workers, Store(w) PROVE BreakerInv'
  <2>1. UNCHANGED <<breaker, job>> /\ \E stage : at' = [at EXCEPT ![w] = stage]
    BY <1>6 DEF Store, Charging, LookUp, Read, Replace, Record, ConnectionLost, Answer, Await
  <2>2. at[w] # "ready"
    BY <1>6 DEF Store, Charging, LookUp, Read, Replace, Record, ConnectionLost
  <2>3. UnderWay' \subseteq UnderWay
    BY <1>0, <2>1, <2>2 DEF UnderWay, Minting
  <2> QED
    BY <2>1, <2>3, BreakerStays
<1>7. ASSUME NEW w \in Workers, Sign(w) PROVE BreakerInv'
  BY <1>7, GatewayAssumption, BreakerCloses DEF Sign
<1>8. ASSUME NEW w \in Workers, TokensDone(w) PROVE BreakerInv'
  <2>1. UNCHANGED breaker /\ at' = [at EXCEPT ![w] = "ready"] /\ job' = [job EXCEPT ![w] = NoJob]
    BY <1>8 DEF TokensDone, Forget
  <2>2. UnderWay' \subseteq UnderWay
    BY <1>0, <2>1 DEF UnderWay, Minting
  <2> QED
    BY <2>1, <2>2, BreakerStays
<1>9. CASE Restart
  BY <1>9, GatewayAssumption, BreakerCloses DEF Restart
<1>10. ASSUME NEW v \in Verifiers,
              Spend(v) \/ \E nonce \in Presented \cap DOMAIN envelopes : CheckWindow(v, nonce)
       PROVE  BreakerInv'
  BY <1>4, <1>10 DEF CheckWindow, Spend, storeVars
<1>11. CASE Time \/ UNCHANGED vars
  BY <1>4, <1>11 DEF Time, Tick, vars, storeVars
<1> QED
  BY <1>1, <1>2, <1>3, <1>5, <1>6, <1>7, <1>8, <1>9, <1>10, <1>11, BreakerCounts DEF Next

LEMMA IssueNext ==
  ASSUME StoreTypes, StoreTypes', IssueTypes, [Next]_vars PROVE IssueTypes'
<1>0. now \in Nat /\ now' \in Nat
  BY DEF StoreTypes, StoreTypeOK
<1>1. now <= now'
  <2>1. now' = now \/ now' = now + 1
    BY DEF Next, BeginMint, BeginTokens, Enter, BeginBadMint, DeclineMint, Store, Charging, LookUp,
           Read, Replace, Record, ConnectionLost, Sign, MintFails, TokensDone, CheckWindow, Spend,
           Restart, Crash, Time, Tick, vars, storeVars
  <2> QED
    BY <1>0, <2>1
<1>2. CASE envelopes' = envelopes
  <2> SUFFICES ASSUME NEW nonce \in DOMAIN envelopes'
               PROVE  /\ envelopes'[nonce].id \in Ids /\ envelopes'[nonce].task \in Tasks
                      /\ envelopes'[nonce].issuedAt \in Nat /\ envelopes'[nonce].issuedAt <= now'
    BY DEF IssueTypes
  <2>1. PICK i : i = envelopes[nonce].issuedAt
    OBVIOUS
  <2>2. i \in Nat /\ i <= now
    BY <1>2, <2>1 DEF IssueTypes
  <2>3. i <= now'
    BY <1>0, <1>1, <2>2
  <2> QED
    BY <1>2, <2>1, <2>2, <2>3 DEF IssueTypes
<1>3. ASSUME NEW w \in Workers, Sign(w) PROVE IssueTypes'
  <2>1. PICK new : envelopes' = With(envelopes, new, Signed(job[w].req)) /\ now' = now
    BY <1>3 DEF Sign
  <2>2. /\ Signed(job[w].req).id \in Ids /\ Signed(job[w].req).task \in Tasks
        /\ Signed(job[w].req).issuedAt = now /\ now <= now
    BY <1>0, TypedParts, JobFields DEF Signed
  <2>3. \A nonce \in DOMAIN envelopes' :
          \/ nonce \in DOMAIN envelopes /\ envelopes'[nonce] = envelopes[nonce]
          \/ envelopes'[nonce] = Signed(job[w].req)
    BY <2>1 DEF With
  <2> QED
    BY <1>0, <2>1, <2>2, <2>3 DEF IssueTypes
<1> QED
  BY <1>2, <1>3, SignedOnly

\* What the gateway, the store and the agents keep has its type, and the breaker counts
\* no more failures than it opens at and one for every other thread of the process
\* (CircuitBreaker, EnvelopeSigner, MemoryNonceStore and the budget documents).
THEOREM GatewayTyped == ASSUME LeasesNeverEnd PROVE Spec => []TypeOK
<1>1. Init => TypeInv
  <2>1. Init => StoreTypes
    BY TypesStart DEF Init
  <2>2. Init => BreakerInv
    <3> SUFFICES ASSUME Init PROVE BreakerInv
      OBVIOUS
    <3>1. failed = 0 /\ openedAt = Closed
      BY DEF Init
    <3>2. PICK n, k : n = Cardinality(UnderWay) /\ k = Cardinality(Workers)
      OBVIOUS
    <3>3. 0 + n < FailureThreshold + k
      BY <3>2, UnderWayCounted, GatewayAssumption
    <3> QED
      BY <3>1, <3>2, <3>3, GatewayAssumption DEF BreakerInv
  <2>3. Init => IssueTypes
    BY DEF Init, IssueTypes
  <2> QED
    BY <2>1, <2>2, <2>3, NonceStart DEF TypeInv
<1>2. TypeInv /\ [Next]_vars => TypeInv'
  <2> SUFFICES ASSUME TypeInv, [Next]_vars PROVE TypeInv'
    OBVIOUS
  <2>1. NonceInv'
    BY NonceNext DEF TypeInv
  <2>2. StoreTypes'
    BY TypesNext DEF TypeInv
  <2>3. BreakerInv'
    BY BreakerNext DEF TypeInv
  <2>4. IssueTypes'
    BY <2>2, IssueNext DEF TypeInv
  <2> QED
    BY <2>1, <2>2, <2>3, <2>4 DEF TypeInv
<1>3. TypeInv => TypeOK
  <2> SUFFICES ASSUME TypeInv PROVE TypeOK
    OBVIOUS
  <2>1. failed \in 0 .. FailureThreshold + Cardinality(Workers)
    <3>1. PICK n, k : n = Cardinality(UnderWay) /\ k = Cardinality(Workers)
      OBVIOUS
    <3>2. failed \in Nat /\ failed + n < FailureThreshold + k /\ n \in Nat /\ k \in Nat
      BY <3>1, UnderWayCounted DEF TypeInv, BreakerInv
    <3> QED
      BY <3>1, <3>2, GatewayAssumption
  <2>2. DOMAIN envelopes = 1 .. Cardinality(DOMAIN envelopes)
    <3>1. PICK n \in Nat : DOMAIN envelopes = 1 .. n /\ Cardinality(DOMAIN envelopes) + 1 = n + 1
      BY NextNonce DEF TypeInv, NonceInv
    <3>2. PICK d, c : d = DOMAIN envelopes /\ c = Cardinality(d)
      OBVIOUS
    <3>3. IsFiniteSet(d)
      <4>1. PICK one \in Int, k \in Int : one = 1 /\ k = n
        OBVIOUS
      <4>2. IsFiniteSet(one .. k)
        BY FS_Interval
      <4> QED
        BY <3>1, <3>2, <4>1, <4>2
    <3>4. c \in Nat /\ c + 1 = n + 1
      BY <3>1, <3>2, <3>3, FS_CardinalityType
    <3>5. c = n
      BY <3>4
    <3> QED
      BY <3>1, <3>2, <3>5
  <2>3. checked \in [Verifiers -> DOMAIN envelopes \cup {NoNonce}]
    BY DEF TypeInv, NonceInv, NonceTypes
  <2> QED
    BY <2>1, <2>2, <2>3
       DEF TypeInv, TypeOK, StoreTypes, BreakerInv, IssueTypes, NonceInv, NonceTypes, NonceKept
<1> QED
  BY <1>1, <1>2, <1>3, PTL DEF Spec
=============================================================================
