----------------------------- MODULE StoreProofs -----------------------------
(***************************************************************************)
(* Theorems about BackendQuota: what the in-process store of a shared      *)
(* budget promises the workers and gateways that charge it, for any number *)
(* of tasks, workers, requests, limits and times.                          *)
(***************************************************************************)
EXTENDS BackendQuota, Lemmas

-----------------------------------------------------------------------------
(* Type correctness                                                        *)

QuotaTypes ==
  /\ seq \in [Quotas -> 0 .. MaxSeq]
  /\ callsUsed \in [Quotas -> Nat] /\ tokensUsed \in [Quotas -> Nat]
  /\ passed \in [Quotas -> Nat]

\* What a quota sends to the store is a charge.
LEMMA QuotaCharges ==
  ASSUME QuotaTypes, NEW q \in Quotas, seq[q] < MaxSeq, NEW n \in Nat
  PROVE  CallCharge(q) \in BudgetCharge /\ TokenCharge(q, n) \in BudgetCharge
<1>1. seq[q] + 1 \in 1 .. MaxSeq
  BY QuotasAssumption DEF QuotaTypes
<1>2. RequestId(q, "call") \in Ids /\ RequestId(q, "tok") \in Ids
  BY <1>1, QuotasAssumption DEF RequestId
<1> QED
  BY <1>2, QuotasAssumption DEF CallCharge, TokenCharge, BudgetCharge

\* What the store sees of a step.
StoreStep ==
  \/ \E req \in BudgetCharge, lim \in LimitSets : Charge(req, lim)
  \/ \E t \in Tasks : \E lease : ReleaseConcurrency(t, lease)
  \/ Tick
  \/ UNCHANGED storeVars

LEMMA StoreSteps == ASSUME QuotaTypes, [Next]_vars PROVE StoreStep
<1>1. ASSUME NEW q \in Quotas, ChargeCall(q) PROVE StoreStep
  <2>1. CallCharge(q) \in BudgetCharge /\ q.limits \in LimitSets /\ Charge(CallCharge(q), q.limits)
    BY <1>1, QuotaCharges, QuotasAssumption DEF ChargeCall
  <2> QED
    BY <2>1 DEF StoreStep
<1>2. ASSUME NEW q \in Quotas, NEW n \in TokenCharges, ChargeTokens(q, n) PROVE StoreStep
  <2>1. TokenCharge(q, n) \in BudgetCharge /\ q.limits \in LimitSets
        /\ Charge(TokenCharge(q, n), q.limits)
    BY <1>2, QuotaCharges, QuotasAssumption DEF ChargeTokens
  <2> QED
    BY <2>1 DEF StoreStep
<1>3. ASSUME NEW req \in Direct, DirectCharge(req) PROVE StoreStep
  BY <1>3, QuotasAssumption DEF DirectCharge, StoreStep
<1>4. ASSUME NEW req \in Direct, Release(req.task, req.id) PROVE StoreStep
  <2>1. req.task \in Tasks /\ ReleaseConcurrency(req.task, req.id)
    BY <1>4, QuotasAssumption DEF Release, BudgetCharge
  <2> QED
    BY <2>1 DEF StoreStep
<1>5. ASSUME Time \/ UNCHANGED vars PROVE StoreStep
  BY <1>5 DEF Time, vars, StoreStep
<1> QED
  BY <1>1, <1>2, <1>3, <1>4, <1>5 DEF Next

\* The smaller of two numbers.
LEMMA MinOfTwo ==
  ASSUME NEW a \in Int, NEW b \in Int
  PROVE  Min({a, b}) \in {a, b} /\ Min({a, b}) <= a /\ Min({a, b}) <= b
<1>1. \E x \in {a, b} : \A y \in {a, b} : x <= y
  OBVIOUS
<1> QED
  BY <1>1 DEF Min

\* Times of the clock: sequences of them.
LEMMA ClockTimes ==
  ASSUME NEW times \in Seq(0 .. MaxTime), NEW horizon \in Int, now \in 0 .. MaxTime, NEW n \in Nat
  PROVE  /\ DropExpired(times, horizon) \in Seq(0 .. MaxTime)
         /\ times \o [i \in 1 .. n |-> now] \in Seq(0 .. MaxTime)
<1>1. DropExpired(times, horizon) \in Seq(0 .. MaxTime)
  BY DropExpiredType
<1>2. [i \in 1 .. n |-> now] \in Seq(0 .. MaxTime)
  OBVIOUS
<1>3. times \o [i \in 1 .. n |-> now] \in Seq(0 .. MaxTime)
  BY <1>2, ConcatProperties
<1> QED
  BY <1>1, <1>3

\* Limits of the right types.
LEMMA LimitTypes ==
  ASSUME NEW lim \in LimitSets
  PROVE  /\ lim.maxCalls \in Nat \cup {None} /\ lim.maxTokens \in Nat \cup {None}
         /\ lim.rate \in (Nat \ {0}) \cup {None} /\ lim.window \in Nat \ {0}
         /\ lim.maxIdentical \in (Nat \ {0}) \cup {None} /\ lim.loopHistory \in Nat \ {0}
         /\ lim.maxConcurrent \in Nat \cup {None} /\ lim.leaseTtl \in Nat \ {0}
         /\ lim.maxRisk \in Nat \cup {None}
BY LimitsAssumption DEF BudgetLimits

LEMMA ChargeFields ==
  ASSUME NEW req \in BudgetCharge
  PROVE  /\ req.task \in Tasks /\ req.id \in Ids /\ req.sig \in Signatures
         /\ req.callN \in Nat /\ req.risk \in Nat /\ req.tokens \in Nat
BY DEF BudgetCharge

RateOK(r) ==
  /\ r = [limit |-> r.limit, window |-> r.window, times |-> r.times]
  /\ r.limit \in Nat \cup {None} /\ r.window \in Nat \ {0} /\ r.times \in Seq(0 .. MaxTime)

LoopOK(l) ==
  /\ l = [max |-> l.max, history |-> l.history, recent |-> l.recent]
  /\ l.max \in Nat \cup {None} /\ l.history \in Nat \ {0} /\ l.recent \in Seq(Signatures)

RiskOK(r) ==
  /\ r = [max |-> r.max, spent |-> r.spent]
  /\ r.max \in Nat \cup {None} /\ r.spent \in Nat

\* The objects and counters of the store.
ObjectsOK ==
  /\ now \in 0 .. MaxTime
  /\ calls \in [Tasks -> Nat] /\ tokens \in [Tasks -> Nat] /\ semCount \in [Tasks -> Nat]
  /\ DOMAIN rate = Tasks /\ DOMAIN loop = Tasks /\ DOMAIN risk = Tasks /\ DOMAIN leases = Tasks
  /\ \A t \in Tasks : RateOK(rate[t]) /\ LoopOK(loop[t]) /\ RiskOK(risk[t])

\* What a rate limit becomes of a charge, and whether it lets it pass.
LEMMA RateChargedType ==
  ASSUME ObjectsOK, NEW req \in BudgetCharge, NEW lim \in LimitSets, lim.rate # None
  PROVE  LET r    == RateOf(req.task, lim)
             live == IF req.callN = 0 THEN r.times ELSE DropExpired(r.times, now - r.window)
             room == IF Len(live) < r.limit THEN r.limit - Len(live) ELSE 0
             n    == Min({req.callN, room})
         IN  /\ RateOK(r) /\ r.limit = lim.rate /\ live \in Seq(0 .. MaxTime)
             /\ Len(live) \in Nat /\ Len(live) <= Len(r.times) /\ room \in Nat
             /\ n \in Nat /\ n <= room /\ (n = req.callN \/ n = room) /\ n <= req.callN
             /\ RateOK(RateCharged(req, lim).object)
             /\ RateCharged(req, lim).object
                  = [limit |-> r.limit, window |-> r.window,
                     times |-> live \o [i \in 1 .. n |-> now]]
             /\ RateCharged(req, lim).fits = (req.callN <= room)
<1> DEFINE r    == RateOf(req.task, lim)
           live == IF req.callN = 0 THEN r.times ELSE DropExpired(r.times, now - r.window)
           room == IF Len(live) < r.limit THEN r.limit - Len(live) ELSE 0
           n    == Min({req.callN, room})
           added == live \o [i \in 1 .. n |-> now]
<1>1. req.task \in Tasks /\ req.callN \in Nat
  BY ChargeFields
<1>2. RateOK(r) /\ r.limit = lim.rate
  <2>1. CASE rate[req.task].limit = lim.rate
    BY <1>1, <2>1 DEF ObjectsOK, RateOf
  <2>2. CASE rate[req.task].limit # lim.rate
    BY <2>2, LimitTypes DEF RateOf, RateOK
  <2> QED
    BY <2>1, <2>2
<1>3. r.limit \in Nat /\ r.window \in Nat /\ r.times \in Seq(0 .. MaxTime) /\ now \in 0 .. MaxTime
  BY <1>2, LimitTypes DEF RateOK, ObjectsOK
<1> HIDE DEF r
<1>4. live \in Seq(0 .. MaxTime) /\ Len(live) <= Len(r.times) /\ Len(r.times) \in Nat
  <2>1. PICK horizon \in Int : horizon = now - r.window
    BY <1>3
  <2>2. /\ DropExpired(r.times, horizon) \in Seq(0 .. MaxTime)
        /\ Len(DropExpired(r.times, horizon)) <= Len(r.times)
    BY <1>3, DropExpiredType
  <2> QED
    BY <1>3, <2>1, <2>2
<1>5. Len(live) \in Nat
  BY <1>4
<1> HIDE DEF live
<1>6. room \in Nat
  BY <1>3, <1>5
<1> HIDE DEF room
<1>7. n \in Nat /\ n <= room /\ (n = req.callN \/ n = room) /\ n <= req.callN
  <2>1. PICK c \in Nat, k \in Nat : c = req.callN /\ k = room
    BY <1>1, <1>6
  <2>2. Min({c, k}) \in {c, k} /\ Min({c, k}) <= c /\ Min({c, k}) <= k
    BY MinOfTwo
  <2> QED
    BY <2>1, <2>2
<1> HIDE DEF n
<1>8. added \in Seq(0 .. MaxTime)
  BY <1>3, <1>4, <1>7, ClockTimes
<1>9. /\ RateCharged(req, lim).object = [r EXCEPT !.times = added]
      /\ RateCharged(req, lim).fits = (req.callN <= room)
  BY DEF RateCharged, r, live, room, n
<1> HIDE DEF added
<1>10. [r EXCEPT !.times = added] = [limit |-> r.limit, window |-> r.window, times |-> added]
  BY <1>2 DEF RateOK
<1>11. RateOK(RateCharged(req, lim).object)
  BY <1>2, <1>8, <1>9, <1>10 DEF RateOK
<1> QED
  BY <1>2, <1>4, <1>5, <1>6, <1>7, <1>9, <1>10, <1>11 DEF r, live, room, n, added

LEMMA LoopChargedType ==
  ASSUME ObjectsOK, NEW req \in BudgetCharge, NEW lim \in LimitSets, lim.maxIdentical # None
  PROVE  LoopOK(LoopCharged(req, lim).object)
<1> DEFINE kept == IF loop[req.task].max = lim.maxIdentical THEN loop[req.task]
                   ELSE [max |-> lim.maxIdentical, history |-> lim.loopHistory, recent |-> <<>>]
           longer == Remember(kept.recent, req.sig, kept.history)
<1>1. LoopOK(kept)
  <2>1. CASE loop[req.task].max = lim.maxIdentical
    BY <2>1, ChargeFields DEF ObjectsOK
  <2>2. CASE loop[req.task].max # lim.maxIdentical
    BY <2>2, LimitTypes DEF LoopOK
  <2> QED
    BY <2>1, <2>2
<1> HIDE DEF kept
<1>2. longer \in Seq(Signatures)
  <2>1. kept.recent \in Seq(Signatures) /\ req.sig \in Signatures /\ kept.history \in Nat
    BY <1>1, ChargeFields DEF LoopOK
  <2> QED
    BY <2>1, RememberType
<1> HIDE DEF longer
<1>3. LoopCharged(req, lim).object = [kept EXCEPT !.recent = longer]
  BY DEF LoopCharged, kept, longer
<1> QED
  BY <1>1, <1>2, <1>3 DEF LoopOK

LEMMA RiskChargedType ==
  ASSUME ObjectsOK, NEW req \in BudgetCharge, NEW lim \in LimitSets, lim.maxRisk # None
  PROVE  LET kept == IF risk[req.task].max = lim.maxRisk THEN risk[req.task]
                     ELSE [max |-> lim.maxRisk, spent |-> 0]
             after == RiskCharged(req, lim)
         IN  /\ RiskOK(kept) /\ kept.max = lim.maxRisk /\ kept.max \in Nat
             /\ RiskOK(after.object) /\ after.object.max = lim.maxRisk
             /\ after.fits = (kept.spent + req.risk <= kept.max)
             /\ after.object.spent = IF after.fits THEN kept.spent + req.risk ELSE kept.spent
<1> DEFINE kept == IF risk[req.task].max = lim.maxRisk THEN risk[req.task]
                   ELSE [max |-> lim.maxRisk, spent |-> 0]
<1>1. RiskOK(kept) /\ kept.max = lim.maxRisk
  <2>1. CASE risk[req.task].max = lim.maxRisk
    BY <2>1, ChargeFields DEF ObjectsOK
  <2>2. CASE risk[req.task].max # lim.maxRisk
    BY <2>2, LimitTypes DEF RiskOK
  <2> QED
    BY <2>1, <2>2
<1>2. lim.maxRisk \in Nat /\ req.risk \in Nat
  BY LimitTypes, ChargeFields
<1>3. /\ RiskCharged(req, lim).fits = (kept.spent + req.risk <= kept.max)
      /\ RiskCharged(req, lim).object
           = IF kept.spent + req.risk <= kept.max THEN [kept EXCEPT !.spent = @ + req.risk] ELSE kept
  BY DEF RiskCharged, Affordable
<1> HIDE DEF kept
<1>4. [kept EXCEPT !.spent = @ + req.risk] = [max |-> kept.max, spent |-> kept.spent + req.risk]
  BY <1>1 DEF RiskOK
<1>5. RiskOK([max |-> kept.max, spent |-> kept.spent + req.risk])
  BY <1>1, <1>2 DEF RiskOK
<1> QED
  BY <1>1, <1>2, <1>3, <1>4, <1>5 DEF kept

RecordsOK ==
  /\ IsFiniteSet(DOMAIN idem) /\ DOMAIN idem \subseteq Ids
  /\ \A id \in DOMAIN idem :
       /\ idem[id].req \in BudgetCharge /\ idem[id].req.id = id
       /\ idem[id].at \in 0 .. MaxTime /\ idem[id].at <= now /\ idem[id].callsUsed \in Nat

LeasesOK ==
  \A t \in Tasks :
    /\ \A lease \in DOMAIN leases[t] : leases[t][lease] \in Nat
    /\ DOMAIN leases[t] \subseteq GrantsOf(t)
    /\ semCount[t] = Cardinality(DOMAIN leases[t])

StoreInv == ObjectsOK /\ RecordsOK /\ LeasesOK

\* The leases of a task are finitely many, and purging the expired ones leaves
\* the count right.
LEMMA PurgedLeases ==
  ASSUME StoreInv, NEW t \in Tasks
  PROVE  /\ IsFiniteSet(DOMAIN leases[t]) /\ Cardinality(DOMAIN leases[t]) \in Nat
         /\ DOMAIN Unexpired(t) \subseteq DOMAIN leases[t] /\ IsFiniteSet(DOMAIN Unexpired(t))
         /\ Purged(t) = Cardinality(DOMAIN Unexpired(t)) /\ Purged(t) \in Nat
<1>1. PICK D, E : D = DOMAIN leases[t] /\ E = Expired(t)
  OBVIOUS
<1>2. E \subseteq D /\ DOMAIN Unexpired(t) = D \ E
  BY <1>1 DEF Expired, Unexpired
<1>3. IsFiniteSet(D)
  BY <1>1, FS_Subset DEF StoreInv, RecordsOK, LeasesOK, GrantsOf
<1>4. IsFiniteSet(E) /\ IsFiniteSet(D \ E) /\ Cardinality(E) \in Nat /\ Cardinality(D) \in Nat
      /\ Cardinality(D \ E) \in Nat /\ Cardinality(E) <= Cardinality(D)
  BY <1>2, <1>3, FS_Subset, FS_CardinalityType
<1>5. Cardinality(D \ E) = Cardinality(D) - Cardinality(E)
  <2>1. D \cap E = E
    BY <1>2
  <2>2. Cardinality(D \ E) = Cardinality(D) - Cardinality(D \cap E)
    BY <1>3, FS_Difference
  <2> QED
    BY <2>1, <2>2
<1>6. Purged(t) = Cardinality(D) - Cardinality(E)
  BY <1>1, <1>4 DEF Purged, StoreInv, LeasesOK
<1> QED
  BY <1>1, <1>2, <1>3, <1>4, <1>5, <1>6

\* What a charge does to the records.
LEMMA ChargedRecords ==
  ASSUME StoreInv, NEW req \in BudgetCharge, NEW lim \in LimitSets, ~Known(req.id),
         ChargeLimits(req, lim)
  PROVE  /\ ~Fits(req, lim) => idem' = idem
         /\ Fits(req, lim) =>
              /\ DOMAIN idem' = DOMAIN idem \cup {req.id}
              /\ idem'[req.id].req = req /\ idem'[req.id].at = now
              /\ idem'[req.id].callsUsed = calls'[req.task]
              /\ \A id \in DOMAIN idem : idem'[id] = idem[id]
         /\ req.id \notin DOMAIN idem /\ now' = now
BY DEF ChargeLimits, Known

\* Every limit object of the store keeps its type.
LEMMA ChargedObjects ==
  ASSUME StoreInv, NEW req \in BudgetCharge, NEW lim \in LimitSets, ~Known(req.id),
         ChargeLimits(req, lim)
  PROVE  ObjectsOK'
<1> DEFINE t == req.task
<1>0. ObjectsOK /\ t \in Tasks /\ req.callN \in Nat /\ req.tokens \in Nat
  BY ChargeFields DEF StoreInv
<1>1. /\ calls' = calls \/ calls' = [calls EXCEPT ![t] = @ + req.callN]
      /\ tokens' = tokens \/ tokens' = [tokens EXCEPT ![t] = @ + req.tokens]
      /\ \/ semCount' = semCount
         \/ semCount' = [semCount EXCEPT ![t] = Purged(t) + (IF Fits(req, lim) THEN 1 ELSE 0)]
      /\ now' = now
  BY DEF ChargeLimits
<1>2. calls' \in [Tasks -> Nat] /\ tokens' \in [Tasks -> Nat] /\ semCount' \in [Tasks -> Nat]
      /\ now' \in 0 .. MaxTime
  BY <1>0, <1>1, PurgedLeases DEF ObjectsOK
<1>3. DOMAIN rate' = Tasks /\ \A s \in Tasks : RateOK(rate'[s])
  <2>1. rate' = rate \/ (lim.rate # None /\ rate' = [rate EXCEPT ![t] = RateCharged(req, lim).object])
    BY DEF ChargeLimits
  <2>2. lim.rate # None => RateOK(RateCharged(req, lim).object)
    BY <1>0, RateChargedType
  <2> QED
    BY <1>0, <2>1, <2>2 DEF ObjectsOK
<1>4. DOMAIN loop' = Tasks /\ \A s \in Tasks : LoopOK(loop'[s])
  <2>1. loop' = loop \/ (lim.maxIdentical # None
                           /\ loop' = [loop EXCEPT ![t] = LoopCharged(req, lim).object])
    BY DEF ChargeLimits
  <2> QED
    BY <1>0, <2>1, LoopChargedType DEF ObjectsOK
<1>5. DOMAIN risk' = Tasks /\ \A s \in Tasks : RiskOK(risk'[s])
  <2>1. risk' = risk \/ (lim.maxRisk # None
                           /\ risk' = [risk EXCEPT ![t] = RiskCharged(req, lim).object])
    BY DEF ChargeLimits, RiskSet
  <2>2. lim.maxRisk # None => RiskOK(RiskCharged(req, lim).object)
    BY <1>0, RiskChargedType
  <2> QED
    BY <1>0, <2>1, <2>2 DEF ObjectsOK
<1>6. DOMAIN leases' = Tasks
  BY <1>0 DEF ChargeLimits, ObjectsOK
<1> QED
  BY <1>2, <1>3, <1>4, <1>5, <1>6 DEF ObjectsOK

\* A lease is taken for what is granted, and what expired is dropped.
LEMMA ChargedLeases ==
  ASSUME StoreInv, NEW req \in BudgetCharge, NEW lim \in LimitSets, ~Known(req.id),
         ChargeLimits(req, lim)
  PROVE  LeasesOK'
<1> DEFINE t == req.task
<1>0. t \in Tasks /\ now \in Nat /\ lim.leaseTtl \in Nat
      /\ DOMAIN leases = Tasks /\ semCount \in [Tasks -> Nat]
  BY ChargeFields, LimitTypes DEF StoreInv, ObjectsOK
<1>1. \A s \in Tasks : GrantsOf(s) \subseteq GrantsOf(s)'
  BY ChargedRecords DEF GrantsOf
<1> SUFFICES ASSUME NEW s \in Tasks
             PROVE  /\ \A lease \in DOMAIN leases'[s] : leases'[s][lease] \in Nat
                    /\ DOMAIN leases'[s] \subseteq GrantsOf(s)'
                    /\ semCount'[s] = Cardinality(DOMAIN leases'[s])
  BY DEF LeasesOK
<1>2. /\ \A lease \in DOMAIN leases[s] : leases[s][lease] \in Nat
      /\ DOMAIN leases[s] \subseteq GrantsOf(s) /\ semCount[s] = Cardinality(DOMAIN leases[s])
  BY DEF StoreInv, LeasesOK
<1>3. CASE UNCHANGED <<leases, semCount>> \/ s # t
  <2>1. leases'[s] = leases[s] /\ semCount'[s] = semCount[s]
    BY <1>0, <1>3 DEF ChargeLimits
  <2> QED
    BY <1>1, <1>2, <2>1
<1>4. CASE s = t /\ ~UNCHANGED <<leases, semCount>>
  <2>1. leases'[t] = LeasesAfter(req, lim)
        /\ semCount'[t] = Purged(t) + (IF Fits(req, lim) THEN 1 ELSE 0)
    BY <1>0, <1>4 DEF ChargeLimits
  <2>2. PICK U, p : U = DOMAIN Unexpired(t) /\ p = Purged(t)
    OBVIOUS
  <2>3. U \subseteq DOMAIN leases[t] /\ IsFiniteSet(U) /\ p = Cardinality(U) /\ p \in Nat
        /\ \A lease \in U : Unexpired(t)[lease] = leases[t][lease]
    BY <1>0, <2>2, PurgedLeases DEF Unexpired
  <2>4. CASE ~Fits(req, lim)
    <3>1. leases'[t] = Unexpired(t) /\ semCount'[t] = p
      BY <2>1, <2>2, <2>3, <2>4 DEF LeasesAfter
    <3> QED
      BY <1>1, <1>2, <1>4, <2>2, <2>3, <3>1
  <2>5. CASE Fits(req, lim)
    <3>1. /\ DOMAIN leases'[t] = U \cup {req.id}
          /\ \A lease \in U \cup {req.id} :
               leases'[t][lease] = IF lease = req.id THEN now + lim.leaseTtl ELSE leases[t][lease]
      BY <2>1, <2>2, <2>5 DEF LeasesAfter
    <3>2. req.id \notin U
      BY <1>2, <1>4, <2>3, ChargedRecords DEF GrantsOf
    <3>3. Cardinality(U \cup {req.id}) = p + 1
      BY <2>3, <3>2, FS_AddElement
    <3>4. req.id \in GrantsOf(t)'
      BY <2>5, ChargedRecords DEF GrantsOf
    <3>5. \A lease \in DOMAIN leases'[t] : leases'[t][lease] \in Nat
      BY <1>0, <1>2, <1>4, <2>3, <3>1
    <3> QED
      BY <1>1, <1>2, <1>4, <2>1, <2>2, <2>3, <2>5, <3>1, <3>3, <3>4, <3>5
  <2> QED
    BY <2>4, <2>5
<1> QED
  BY <1>3, <1>4

\* The records of a charge that was granted are those of a charge.
LEMMA ChargedRecordsOK ==
  ASSUME StoreInv, NEW req \in BudgetCharge, NEW lim \in LimitSets, ~Known(req.id),
         ChargeLimits(req, lim)
  PROVE  RecordsOK'
<1>1. RecordsOK /\ now' = now /\ now \in 0 .. MaxTime /\ now <= now /\ req.id \in Ids
      /\ req.task \in Tasks
  <2>1. now' = now
    BY ChargedRecords
  <2>2. RecordsOK /\ now \in 0 .. MaxTime
    BY DEF StoreInv, ObjectsOK
  <2> QED
    BY <2>1, <2>2, ChargeFields, TimeAssumption
<1>2. CASE ~Fits(req, lim)
  <2>1. idem' = idem
    BY <1>2, ChargedRecords
  <2> QED
    BY <1>1, <2>1 DEF RecordsOK
<1>3. CASE Fits(req, lim)
  <2>1. PICK D, E, id : D = DOMAIN idem /\ E = DOMAIN idem' /\ id = req.id
    OBVIOUS
  <2>2. /\ E = D \cup {id} /\ idem'[id].req = req /\ idem'[id].at = now
        /\ idem'[id].callsUsed = calls'[req.task] /\ \A i \in D : idem'[i] = idem[i]
    BY <1>3, <2>1, ChargedRecords
  <2>3. IsFiniteSet(E)
    <3>1. IsFiniteSet(D)
      BY <1>1, <2>1 DEF RecordsOK
    <3>2. IsFiniteSet(D \cup {id})
      BY <3>1, FS_AddElement
    <3> QED
      BY <2>2, <3>2
  <2>4. calls'[req.task] \in Nat
    BY <1>1, ChargedObjects DEF ObjectsOK
  <2>5. E \subseteq Ids
    BY <1>1, <2>1, <2>2 DEF RecordsOK
  <2>6. ASSUME NEW i \in E
        PROVE  /\ idem'[i].req \in BudgetCharge /\ idem'[i].req.id = i
               /\ idem'[i].at \in 0 .. MaxTime /\ idem'[i].at <= now /\ idem'[i].callsUsed \in Nat
    <3>1. CASE i = id
      BY <1>1, <2>1, <2>2, <2>4, <3>1
    <3>2. CASE i # id
      <4>1. i \in D /\ idem'[i] = idem[i]
        BY <2>2, <2>6, <3>2
      <4> QED
        BY <1>1, <2>1, <4>1 DEF RecordsOK
    <3> QED
      BY <3>1, <3>2
  <2> QED
    BY <1>1, <2>1, <2>3, <2>5, <2>6 DEF RecordsOK
<1> QED
  BY <1>2, <1>3

\* What a release leaves.
LEMMA ReleasedLeases ==
  ASSUME StoreInv, NEW t \in Tasks, NEW lease, ReleaseConcurrency(t, lease)
  PROVE  StoreInv'
<1>1. /\ UNCHANGED <<idem, calls, tokens, rate, loop, risk, now>>
      /\ semCount' = semCount \/ semCount' = [semCount EXCEPT ![t] = IF @ > 0 THEN @ - 1 ELSE 0]
      /\ leases' = leases \/ leases' = [leases EXCEPT ![t] =
                               [l \in DOMAIN leases[t] \ {lease} |-> leases[t][l]]]
  BY DEF ReleaseConcurrency
<1>2. ObjectsOK'
  BY <1>1 DEF StoreInv, ObjectsOK
<1>3. RecordsOK'
  BY <1>1 DEF StoreInv, RecordsOK
<1>4. LeasesOK'
  <2>0. DOMAIN leases = Tasks /\ semCount \in [Tasks -> Nat]
    BY DEF StoreInv, ObjectsOK
  <2>1. \A s \in Tasks : GrantsOf(s)' = GrantsOf(s)
    BY <1>1 DEF GrantsOf
  <2> SUFFICES ASSUME NEW s \in Tasks
               PROVE  /\ \A l \in DOMAIN leases'[s] : leases'[s][l] \in Nat
                      /\ DOMAIN leases'[s] \subseteq GrantsOf(s)
                      /\ semCount'[s] = Cardinality(DOMAIN leases'[s])
    BY <2>1 DEF LeasesOK
  <2>2. /\ \A l \in DOMAIN leases[s] : leases[s][l] \in Nat
        /\ DOMAIN leases[s] \subseteq GrantsOf(s) /\ semCount[s] = Cardinality(DOMAIN leases[s])
    BY DEF StoreInv, LeasesOK
  <2>3. CASE s # t \/ lease \notin DOMAIN leases[t]
    <3>1. leases'[s] = leases[s] /\ semCount'[s] = semCount[s]
      BY <2>0, <2>3 DEF ReleaseConcurrency
    <3> QED
      BY <2>2, <3>1
  <2>4. CASE s = t /\ lease \in DOMAIN leases[t]
    <3>1. PICK D : D = DOMAIN leases[t]
      OBVIOUS
    <3>2. IsFiniteSet(D) /\ Cardinality(D) \in Nat /\ lease \in D
      BY <2>4, <3>1, PurgedLeases
    <3>3. /\ DOMAIN leases'[t] = D \ {lease}
          /\ \A l \in D \ {lease} : leases'[t][l] = leases[t][l]
          /\ semCount'[t] = IF semCount[t] > 0 THEN semCount[t] - 1 ELSE 0
      BY <2>0, <2>4, <3>1 DEF ReleaseConcurrency
    <3>4. Cardinality(D \ {lease}) = Cardinality(D) - 1
      BY <3>2, FS_RemoveElement
    <3>5. IsFiniteSet(D \ {lease}) /\ Cardinality(D \ {lease}) \in Nat
      <4>1. D \ {lease} \subseteq D
        OBVIOUS
      <4> QED
        BY <3>2, <4>1, FS_Subset, FS_CardinalityType
    <3> QED
      BY <2>2, <2>4, <3>1, <3>2, <3>3, <3>4, <3>5
  <2> QED
    BY <2>3, <2>4
<1> QED
  BY <1>2, <1>3, <1>4 DEF StoreInv

LEMMA StoreStart == ASSUME StoreInit PROVE StoreInv
<1>1. ObjectsOK
  <2>1. RateOK(NoRate) /\ LoopOK(NoLoop) /\ RiskOK(NoRisk)
    BY DEF RateOK, LoopOK, RiskOK, NoRate, NoLoop, NoRisk
  <2> QED
    BY <2>1, TimeAssumption DEF StoreInit, ObjectsOK
<1>2. DOMAIN idem = {} /\ \A t \in Tasks : DOMAIN leases[t] = {} /\ semCount[t] = 0
  BY DEF StoreInit
<1>3. IsFiniteSet({}) /\ Cardinality({}) = 0
  BY FS_EmptySet
<1>4. RecordsOK
  BY <1>2, <1>3 DEF RecordsOK
<1>5. LeasesOK
  BY <1>2, <1>3 DEF LeasesOK
<1> QED
  BY <1>1, <1>4, <1>5 DEF StoreInv

LEMMA StoreNext == ASSUME StoreInv, StoreStep PROVE StoreInv'
<1>1. ASSUME NEW req \in BudgetCharge, NEW lim \in LimitSets, Charge(req, lim) PROVE StoreInv'
  <2>1. CASE Known(req.id)
    <3>1. UNCHANGED storeVars
      BY <1>1, <2>1 DEF Charge
    <3> QED
      BY <3>1 DEF storeVars, perTask, StoreInv, ObjectsOK, RecordsOK, LeasesOK, GrantsOf
  <2>2. CASE ~Known(req.id)
    <3>1. ChargeLimits(req, lim)
      BY <1>1, <2>2 DEF Charge
    <3> QED
      BY <2>2, <3>1, ChargedObjects, ChargedRecordsOK, ChargedLeases DEF StoreInv
  <2> QED
    BY <2>1, <2>2
<1>2. ASSUME NEW t \in Tasks, NEW lease, ReleaseConcurrency(t, lease) PROVE StoreInv'
  BY <1>2, ReleasedLeases
<1>3. CASE Tick
  <2>1. now' = now + 1 /\ now < MaxTime /\ UNCHANGED <<idem, perTask>>
    BY <1>3 DEF Tick
  <2>2. now \in 0 .. MaxTime
    BY DEF StoreInv, ObjectsOK
  <2>3. now' \in 0 .. MaxTime /\ now <= now'
    BY <2>1, <2>2, TimeAssumption
  <2>4. ObjectsOK'
    BY <2>1, <2>3 DEF perTask, StoreInv, ObjectsOK
  <2>5. RecordsOK'
    BY <2>1, <2>2, <2>3 DEF StoreInv, RecordsOK
  <2>6. LeasesOK'
    BY <2>1 DEF perTask, StoreInv, LeasesOK, GrantsOf
  <2> QED
    BY <2>4, <2>5, <2>6 DEF StoreInv
<1>4. CASE UNCHANGED storeVars
  BY <1>4 DEF storeVars, perTask, StoreInv, ObjectsOK, RecordsOK, LeasesOK, GrantsOf
<1> QED
  BY <1>1, <1>2, <1>3, <1>4 DEF StoreStep

-----------------------------------------------------------------------------
(* The quotas of the workers.                                              *)

LEMMA QuotaTypesKept == ASSUME QuotaTypes, StoreInv, [Next]_vars PROVE QuotaTypes'
<1> USE QuotasAssumption
<1>0. StoreInv'
  BY StoreSteps, StoreNext
<1>1. ASSUME NEW q \in Quotas, ChargeCall(q) PROVE QuotaTypes'
  <2>1. CallsReported(CallCharge(q)) \in Nat
    <3>1. CallCharge(q) \in BudgetCharge
      BY <1>1, QuotaCharges DEF ChargeCall
    <3>2. calls'[CallCharge(q).task] \in Nat
      BY <1>0, <3>1, ChargeFields DEF StoreInv, ObjectsOK
    <3> QED
      BY <3>2 DEF CallsReported, Known, StoreInv, RecordsOK
  <2>2. seq[q] + 1 \in 0 .. MaxSeq
    BY <1>1 DEF ChargeCall, QuotaTypes
  <2> QED
    BY <1>1, <2>1, <2>2 DEF ChargeCall, QuotaTypes
<1>2. ASSUME NEW q \in Quotas, NEW n \in TokenCharges, ChargeTokens(q, n) PROVE QuotaTypes'
  <2>1. seq[q] + 1 \in 0 .. MaxSeq /\ n \in Nat
    BY <1>2 DEF ChargeTokens, QuotaTypes
  <2> QED
    BY <1>2, <2>1 DEF ChargeTokens, QuotaTypes
<1>3. ASSUME UNCHANGED quotaVars PROVE QuotaTypes'
  BY <1>3 DEF quotaVars, QuotaTypes
<1> QED
  BY <1>1, <1>2, <1>3 DEF Next, DirectCharge, Release, Time, vars

LEMMA QuotaStart == ASSUME Init PROVE QuotaTypes
BY QuotasAssumption DEF Init, QuotaTypes

\* The states of the store and of the quotas are of their types, and the books
\* of leases are right.
LEMMA TypesHold == Spec => [](StoreInv /\ QuotaTypes)
<1>1. Init => StoreInv /\ QuotaTypes
  BY StoreStart, QuotaStart DEF Init
<1>2. StoreInv /\ QuotaTypes /\ [Next]_vars => (StoreInv /\ QuotaTypes)'
  BY StoreSteps, StoreNext, QuotaTypesKept
<1> QED
  BY <1>1, <1>2, PTL DEF Spec

\* Every variable of the store and of the quotas stays in its type: what the
\* store keeps for a task is what MemoryBackend.charge can have put there.
THEOREM StoreTyped == Spec => []TypeOK
<1>1. StoreInv /\ QuotaTypes => TypeOK
  <2> SUFFICES ASSUME StoreInv, QuotaTypes PROVE TypeOK
    OBVIOUS
  <2>1. \A t \in Tasks : DOMAIN leases[t] \subseteq DOMAIN idem
    BY DEF StoreInv, LeasesOK, GrantsOf
  <2>2. StoreTypeOK
    BY <2>1 DEF StoreInv, ObjectsOK, RecordsOK, LeasesOK, StoreTypeOK, RateOK, LoopOK, RiskOK
  <2> QED
    BY <2>2 DEF QuotaTypes, TypeOK
<1> QED
  BY <1>1, TypesHold, PTL

\* No refusal, expiry or release loses a concurrency slot of a task or gives
\* one away: leases belong to granted charges and are as many as the store's
\* semaphore counts (MemoryBackend.charge and release_concurrency).
THEOREM LeasesSafe == Spec => []LeasesAccounted
<1>1. StoreInv => LeasesAccounted
  BY DEF StoreInv, LeasesOK, LeasesAccounted
<1> QED
  BY <1>1, TypesHold, PTL

-----------------------------------------------------------------------------
(* Budgets                                                                  *)

\* What granted charges carried can be added up.
LEMMA GrantsSummable ==
  ASSUME StoreInv, NEW t
  PROVE  /\ IsFiniteSet(GrantsOf(t))
         /\ Summable(CallsOf, GrantsOf(t)) /\ Summable(RiskOf, GrantsOf(t))
         /\ Summable(TokensOf, GrantsOf(t))
<1>1. IsFiniteSet(GrantsOf(t))
  BY FS_Subset DEF StoreInv, RecordsOK, GrantsOf
<1>2. ASSUME NEW id \in GrantsOf(t)
      PROVE  CallsOf[id] \in Nat /\ RiskOf[id] \in Nat /\ TokensOf[id] \in Nat
  <2>1. id \in DOMAIN idem /\ idem[id].req \in BudgetCharge
    BY DEF StoreInv, RecordsOK, GrantsOf
  <2> QED
    BY <2>1, ChargeFields DEF CallsOf, RiskOf, TokensOf
<1> QED
  BY <1>1, <1>2 DEF Summable

\* A charge that is granted adds what it carries to the grants of its task, and
\* a charge that is not adds nothing.
LEMMA ChargedSums ==
  ASSUME StoreInv, NEW req \in BudgetCharge, NEW lim \in LimitSets, ~Known(req.id),
         ChargeLimits(req, lim), NEW s \in Tasks
  PROVE  /\ s # req.task \/ ~Fits(req, lim) =>
              /\ GrantsOf(s)' = GrantsOf(s)
              /\ SumOf(CallsOf, GrantsOf(s))' = SumOf(CallsOf, GrantsOf(s))
              /\ SumOf(RiskOf, GrantsOf(s))' = SumOf(RiskOf, GrantsOf(s))
              /\ SumOf(TokensOf, GrantsOf(s))' = SumOf(TokensOf, GrantsOf(s))
         /\ s = req.task /\ Fits(req, lim) =>
              /\ GrantsOf(s)' = GrantsOf(s) \cup {req.id}
              /\ SumOf(CallsOf, GrantsOf(s))' = SumOf(CallsOf, GrantsOf(s)) + req.callN
              /\ SumOf(RiskOf, GrantsOf(s))' = SumOf(RiskOf, GrantsOf(s)) + req.risk
              /\ SumOf(TokensOf, GrantsOf(s))' = SumOf(TokensOf, GrantsOf(s)) + req.tokens
<1>0. PICK G, H, x, c, d, r, u, k, l :
        /\ G = GrantsOf(s) /\ H = GrantsOf(s)' /\ x = req.id
        /\ c = CallsOf /\ d = CallsOf' /\ r = RiskOf /\ u = RiskOf'
        /\ k = TokensOf /\ l = TokensOf'
  OBVIOUS
<1>1. Summable(c, G) /\ Summable(r, G) /\ Summable(k, G)
  BY <1>0, GrantsSummable
<1>2. x \notin G /\ G \subseteq DOMAIN idem
  BY <1>0, ChargedRecords DEF GrantsOf
<1>3. \A y \in G : d[y] = c[y] /\ u[y] = r[y] /\ l[y] = k[y]
  BY <1>0, <1>2, ChargedRecords DEF CallsOf, RiskOf, TokensOf
<1>4. ASSUME s # req.task \/ ~Fits(req, lim)
      PROVE  /\ H = G /\ SumOf(d, H) = SumOf(c, G) /\ SumOf(u, H) = SumOf(r, G)
             /\ SumOf(l, H) = SumOf(k, G)
  <2>1. H = G
    <3>1. CASE ~Fits(req, lim)
      BY <1>0, <3>1, ChargedRecords DEF GrantsOf
    <3>2. CASE s # req.task /\ Fits(req, lim)
      <4>1. /\ DOMAIN idem' = DOMAIN idem \cup {x} /\ idem'[x].req.task # s
            /\ \A id \in DOMAIN idem : idem'[id] = idem[id]
        BY <1>0, <3>2, ChargedRecords
      <4>2. x \notin DOMAIN idem
        BY <1>0, ChargedRecords
      <4> QED
        BY <1>0, <4>1, <4>2 DEF GrantsOf
    <3> QED
      BY <1>4, <3>1, <3>2
  <2>2. SumOf(d, G) = SumOf(c, G) /\ SumOf(u, G) = SumOf(r, G) /\ SumOf(l, G) = SumOf(k, G)
    BY <1>3, SumSame
  <2> QED
    BY <2>1, <2>2
<1>5. ASSUME s = req.task, Fits(req, lim)
      PROVE  /\ H = G \cup {x} /\ SumOf(d, H) = SumOf(c, G) + req.callN
             /\ SumOf(u, H) = SumOf(r, G) + req.risk /\ SumOf(l, H) = SumOf(k, G) + req.tokens
  <2>1. H = G \cup {x}
    BY <1>0, <1>5, ChargedRecords, ZenonT(30) DEF GrantsOf
  <2>2. d[x] = req.callN /\ u[x] = req.risk /\ l[x] = req.tokens
    BY <1>0, <1>5, ChargedRecords DEF CallsOf, RiskOf, TokensOf
  <2>3. d[x] \in Nat /\ u[x] \in Nat /\ l[x] \in Nat
    BY <2>2, ChargeFields
  <2>4. ASSUME NEW f, NEW g, Summable(f, G), g[x] \in Nat, \A y \in G : g[y] = f[y]
        PROVE  SumOf(g, H) = SumOf(f, G) + g[x]
    BY <1>2, <2>1, <2>4, SumGrow
  <2>5. SumOf(d, H) = SumOf(c, G) + d[x]
    <3>1. \A y \in G : d[y] = c[y]
      BY <1>3
    <3> QED
      BY <1>1, <2>3, <2>4, <3>1
  <2>6. SumOf(u, H) = SumOf(r, G) + u[x]
    <3>1. \A y \in G : u[y] = r[y]
      BY <1>3
    <3> QED
      BY <1>1, <2>3, <2>4, <3>1
  <2>7. SumOf(l, H) = SumOf(k, G) + l[x]
    <3>1. \A y \in G : l[y] = k[y]
      BY <1>3
    <3> QED
      BY <1>1, <2>3, <2>4, <3>1
  <2> QED
    BY <2>1, <2>2, <2>5, <2>6, <2>7
<1> QED
  BY <1>0, <1>4, <1>5

\* All callers charge with the same budgets, and these are set.
SameBudgets(r, k) == \A lim \in LimitSets : lim.maxRisk = r /\ lim.maxTokens = k

\* The risk object of a task is the one of its first charge of risk, and what
\* the books say covers what was granted.
BooksInv(r, k) ==
  \A t \in Tasks :
    /\ risk[t].max \in {None, r} /\ (risk[t].max = None => risk[t].spent = 0)
    /\ SumOf(RiskOf, GrantsOf(t)) <= risk[t].spent /\ risk[t].spent <= r
    /\ SumOf(TokensOf, GrantsOf(t)) = tokens[t] /\ tokens[t] <= k

LEMMA BooksStart ==
  ASSUME StoreInit, NEW r \in Nat, NEW k \in Nat PROVE BooksInv(r, k)
<1> SUFFICES ASSUME NEW t \in Tasks
             PROVE  /\ risk[t].max \in {None, r} /\ (risk[t].max = None => risk[t].spent = 0)
                    /\ SumOf(RiskOf, GrantsOf(t)) <= risk[t].spent /\ risk[t].spent <= r
                    /\ SumOf(TokensOf, GrantsOf(t)) = tokens[t] /\ tokens[t] <= k
  BY DEF BooksInv
<1>1. risk[t] = NoRisk /\ tokens[t] = 0 /\ DOMAIN idem = {}
  BY DEF StoreInit
<1>2. GrantsOf(t) = {}
  BY <1>1 DEF GrantsOf
<1>3. SumOf(RiskOf, {}) = 0 /\ SumOf(TokensOf, {}) = 0
  BY SumEmpty
<1> QED
  BY <1>1, <1>2, <1>3 DEF NoRisk

LEMMA ChargedBooks ==
  ASSUME StoreInv, NEW r \in Nat, NEW k \in Nat, SameBudgets(r, k), BooksInv(r, k),
         NEW req \in BudgetCharge, NEW lim \in LimitSets, ~Known(req.id), ChargeLimits(req, lim)
  PROVE  BooksInv(r, k)'
<1> DEFINE t == req.task
<1>0. /\ t \in Tasks /\ req.risk \in Nat /\ req.tokens \in Nat
      /\ lim.maxRisk = r /\ lim.maxTokens = k /\ r # None /\ k # None
  BY ChargeFields DEF SameBudgets, None
<1>1. \A s \in Tasks : /\ risk[s].max \in {None, r} /\ (risk[s].max = None => risk[s].spent = 0)
                       /\ SumOf(RiskOf, GrantsOf(s)) <= risk[s].spent /\ risk[s].spent <= r
                       /\ SumOf(TokensOf, GrantsOf(s)) = tokens[s] /\ tokens[s] <= k
                       /\ risk[s].spent \in Nat /\ tokens[s] \in Nat
                       /\ SumOf(RiskOf, GrantsOf(s)) \in Nat
  BY GrantsSummable, SumType DEF BooksInv, StoreInv, ObjectsOK, RiskOK
<1>2. DOMAIN risk = Tasks /\ tokens \in [Tasks -> Nat]
  BY DEF StoreInv, ObjectsOK
<1> SUFFICES ASSUME NEW s \in Tasks
             PROVE  /\ risk'[s].max \in {None, r} /\ (risk'[s].max = None => risk'[s].spent = 0)
                    /\ SumOf(RiskOf, GrantsOf(s))' <= risk'[s].spent /\ risk'[s].spent <= r
                    /\ SumOf(TokensOf, GrantsOf(s))' = tokens'[s] /\ tokens'[s] <= k
  BY DEF BooksInv
<1>3. CASE s # t
  <2>1. risk'[s] = risk[s] /\ tokens'[s] = tokens[s]
    BY <1>2, <1>3 DEF ChargeLimits
  <2> QED
    BY <1>1, <1>3, <2>1, ChargedSums
<1>4. CASE s = t
  <2> DEFINE kept == IF risk[t].max = lim.maxRisk THEN risk[t]
                     ELSE [max |-> lim.maxRisk, spent |-> 0]
             after == RiskCharged(req, lim)
  <2>1. /\ kept.max = r /\ kept.spent = risk[t].spent
        /\ after.object.max = r /\ after.fits = (risk[t].spent + req.risk <= r)
        /\ after.object.spent = IF after.fits THEN risk[t].spent + req.risk ELSE risk[t].spent
    <3>1. /\ kept.max = lim.maxRisk
          /\ after.object.max = lim.maxRisk
          /\ after.fits = (kept.spent + req.risk <= kept.max)
          /\ after.object.spent = IF after.fits THEN kept.spent + req.risk ELSE kept.spent
      BY <1>0, RiskChargedType DEF StoreInv
    <3>2. kept.spent = risk[t].spent
      BY <1>0, <1>1
    <3> QED
      BY <1>0, <3>1, <3>2
  <2> HIDE DEF kept
  <2>2. /\ risk'[t].max \in {None, r} /\ (risk'[t].max = None => risk'[t].spent = 0)
        /\ risk'[t].spent >= risk[t].spent /\ risk'[t].spent <= r
        /\ (Fits(req, lim) => risk'[t].spent = risk[t].spent + req.risk)
    <3>1. CASE risk' = risk /\ ~(Fits(req, lim) /\ req.risk > 0)
      BY <1>0, <1>1, <3>1
    <3>2. CASE risk' = [risk EXCEPT ![t] = after.object]
      <4>1. risk'[t] = after.object
        BY <1>0, <1>2, <3>2
      <4>2. Fits(req, lim) /\ req.risk > 0 => after.fits
        BY <1>0 DEF Fits, RiskFits, RiskSet
      <4> HIDE DEF after
      <4>3. after.fits \in BOOLEAN
        BY <2>1
      <4>4. risk[t].spent \in Nat /\ risk[t].spent <= r
        BY <1>0, <1>1
      <4>5. CASE req.risk = 0
        <5>1. after.object.spent = risk[t].spent
          BY <2>1, <4>3, <4>4, <4>5
        <5> QED
          BY <1>0, <2>1, <4>1, <4>4, <4>5, <5>1
      <4>6. CASE req.risk > 0
        <5>1. CASE after.fits
          <6>1. after.object.spent = risk[t].spent + req.risk /\ risk[t].spent + req.risk <= r
            BY <2>1, <5>1
          <6> QED
            BY <1>0, <2>1, <4>1, <4>4, <4>6, <6>1
        <5>2. CASE ~after.fits
          <6>1. after.object.spent = risk[t].spent /\ ~Fits(req, lim)
            BY <2>1, <4>2, <4>6, <5>2
          <6> QED
            BY <1>0, <2>1, <4>1, <4>4, <4>6, <6>1
        <5> QED
          BY <5>1, <5>2
      <4> QED
        BY <1>0, <4>5, <4>6
    <3>3. \/ risk' = risk /\ ~(Fits(req, lim) /\ req.risk > 0)
          \/ risk' = [risk EXCEPT ![t] = after.object]
      BY <1>0 DEF ChargeLimits, Fits, RiskSet
    <3> QED
      BY <3>1, <3>2, <3>3
  <2>3. /\ Fits(req, lim) => tokens'[t] = tokens[t] + req.tokens /\ tokens[t] + req.tokens <= k
        /\ ~Fits(req, lim) => tokens'[t] = tokens[t]
    <3>1. CASE Fits(req, lim) /\ req.tokens > 0
      <4>1. Affordable(tokens[t], req.tokens, k)
        BY <1>0, <3>1 DEF Fits, TokensFit, TokensSet
      <4>2. tokens' = [tokens EXCEPT ![t] = @ + req.tokens]
        BY <1>0, <3>1 DEF ChargeLimits, TokensSet
      <4> QED
        BY <1>0, <1>2, <3>1, <4>1, <4>2 DEF Affordable
    <3>2. CASE ~(Fits(req, lim) /\ req.tokens > 0)
      <4>1. tokens' = tokens
        BY <3>2 DEF ChargeLimits, TokensSet
      <4> QED
        BY <1>0, <1>1, <3>2, <4>1
    <3> QED
      BY <3>1, <3>2
  <2>4. CASE Fits(req, lim)
    <3>1. /\ SumOf(RiskOf, GrantsOf(s))' = SumOf(RiskOf, GrantsOf(s)) + req.risk
          /\ SumOf(TokensOf, GrantsOf(s))' = SumOf(TokensOf, GrantsOf(s)) + req.tokens
      BY <1>4, <2>4, ChargedSums
    <3> QED
      BY <1>0, <1>1, <1>4, <2>2, <2>3, <2>4, <3>1
  <2>5. CASE ~Fits(req, lim)
    <3>1. /\ SumOf(RiskOf, GrantsOf(s))' = SumOf(RiskOf, GrantsOf(s))
          /\ SumOf(TokensOf, GrantsOf(s))' = SumOf(TokensOf, GrantsOf(s))
      BY <2>5, ChargedSums
    <3>2. risk'[t].spent \in Int
      <4>1. ObjectsOK'
        BY ChargedObjects
      <4> QED
        BY <1>0, <4>1 DEF ObjectsOK, RiskOK
    <3> QED
      BY <1>0, <1>1, <1>4, <2>2, <2>3, <2>5, <3>1, <3>2
  <2> QED
    BY <2>4, <2>5
<1> QED
  BY <1>3, <1>4

LEMMA BooksNext ==
  ASSUME StoreInv, NEW r \in Nat, NEW k \in Nat, SameBudgets(r, k), BooksInv(r, k), StoreStep
  PROVE  BooksInv(r, k)'
<1>1. ASSUME NEW req \in BudgetCharge, NEW lim \in LimitSets, Charge(req, lim), ~Known(req.id)
      PROVE  BooksInv(r, k)'
  BY <1>1, ChargedBooks DEF Charge
<1>2. CASE UNCHANGED <<idem, risk, tokens>>
  <2>1. RiskOf' = RiskOf /\ TokensOf' = TokensOf /\ \A t \in Tasks : GrantsOf(t)' = GrantsOf(t)
    BY <1>2 DEF RiskOf, TokensOf, GrantsOf
  <2> QED
    BY <1>2, <2>1 DEF BooksInv
<1>3. \/ \E req \in BudgetCharge, lim \in LimitSets : Charge(req, lim) /\ ~Known(req.id)
      \/ UNCHANGED <<idem, risk, tokens>>
  BY DEF StoreStep, Charge, ReleaseConcurrency, Tick, storeVars, perTask
<1> QED
  BY <1>1, <1>2, <1>3

\* When the callers of a task charge with the same budgets of risk and tokens,
\* everything granted is on the task's books, once, and the books never exceed
\* the budgets, whatever was refused, retried or released in between
\* (MemoryBackend.charge; callers with different risk budgets replace each
\* other's risk object, so the hypothesis is needed).
THEOREM BooksSafe ==
  ASSUME NEW r \in Nat, NEW k \in Nat, SameBudgets(r, k)
  PROVE  Spec => []GrantsBooked
<1>1. Init => BooksInv(r, k)
  BY BooksStart DEF Init
<1>2. StoreInv /\ QuotaTypes /\ BooksInv(r, k) /\ [Next]_vars => BooksInv(r, k)'
  BY StoreSteps, BooksNext
<1>3. BooksInv(r, k) => GrantsBooked
  BY DEF BooksInv, GrantsBooked, SameBudgets
<1> QED
  BY <1>1, <1>2, <1>3, TypesHold, PTL DEF Spec

-----------------------------------------------------------------------------
(* What the quotas believe they spent                                      *)

QuotaId(q, kind, n) == [run |-> q.run, kind |-> kind, n |-> n]

\* Each block has a run of its own (RunContext draws a fresh id), and what is
\* charged directly has an id that no quota makes.
OwnIds ==
  /\ \A p \in Quotas, q \in Quotas : p.run = q.run => p = q
  /\ \A req \in Direct, q \in Quotas :
       \A kind, n : req.id # QuotaId(q, kind, n)

\* No id that a quota has not used yet is known to the store.
FreshInv ==
  \A q \in Quotas : \A kind : \A n \in Nat :
    QuotaId(q, kind, n) \in DOMAIN idem => n <= seq[q]

LEMMA NextIdFresh ==
  ASSUME QuotaTypes, FreshInv, NEW q \in Quotas, NEW n
  PROVE  ~Known(CallCharge(q).id) /\ ~Known(TokenCharge(q, n).id)
<1>1. seq[q] \in Nat /\ seq[q] + 1 \in Nat
  BY QuotasAssumption DEF QuotaTypes
<1>2. ~(seq[q] + 1 <= seq[q])
  BY <1>1
<1>3. QuotaId(q, "call", seq[q] + 1) \notin DOMAIN idem
      /\ QuotaId(q, "tok", seq[q] + 1) \notin DOMAIN idem
  BY <1>1, <1>2 DEF FreshInv
<1> QED
  BY <1>3 DEF Known, CallCharge, TokenCharge, RequestId, QuotaId

\* A charge adds its id at most.
LEMMA ChargedIds ==
  ASSUME NEW req, NEW lim, Charge(req, lim)
  PROVE  DOMAIN idem' \subseteq DOMAIN idem \cup {req.id}
BY DEF Charge, ChargeLimits, storeVars

LEMMA FreshNext ==
  ASSUME StoreInv, QuotaTypes, OwnIds, FreshInv, [Next]_vars PROVE FreshInv'
<1>0. \A q \in Quotas : seq[q] \in Nat
  BY QuotasAssumption DEF QuotaTypes
<1>1. ASSUME NEW p \in Quotas, NEW word, seq' = [seq EXCEPT ![p] = @ + 1],
             DOMAIN idem' \subseteq DOMAIN idem \cup {QuotaId(p, word, seq[p] + 1)}
      PROVE  FreshInv'
  <2> SUFFICES ASSUME NEW q \in Quotas, NEW kind, NEW n \in Nat,
                      QuotaId(q, kind, n) \in DOMAIN idem'
               PROVE  n <= seq'[q]
    BY DEF FreshInv, QuotaId
  <2>1. seq[q] <= seq'[q] /\ seq'[q] \in Nat /\ seq'[p] = seq[p] + 1
    BY <1>0, <1>1 DEF QuotaTypes
  <2>2. CASE QuotaId(q, kind, n) \in DOMAIN idem
    <3>1. n <= seq[q]
      BY <2>2 DEF FreshInv
    <3> QED
      BY <1>0, <2>1, <3>1
  <2>3. CASE QuotaId(q, kind, n) = QuotaId(p, word, seq[p] + 1)
    <3>1. q.run = p.run /\ n = seq[p] + 1
      BY <2>3 DEF QuotaId
    <3>2. q = p
      BY <3>1 DEF OwnIds
    <3> QED
      BY <2>1, <3>1, <3>2
  <2> QED
    BY <1>1, <2>2, <2>3
<1>2. ASSUME NEW q \in Quotas, ChargeCall(q) PROVE FreshInv'
  <2>1. CallCharge(q).id = QuotaId(q, "call", seq[q] + 1)
    BY DEF CallCharge, RequestId, QuotaId
  <2>2. DOMAIN idem' \subseteq DOMAIN idem \cup {CallCharge(q).id}
    BY <1>2, ChargedIds DEF ChargeCall
  <2>3. seq' = [seq EXCEPT ![q] = @ + 1]
    BY <1>2 DEF ChargeCall
  <2> QED
    BY <1>1, <2>1, <2>2, <2>3
<1>3. ASSUME NEW q \in Quotas, NEW n \in TokenCharges, ChargeTokens(q, n) PROVE FreshInv'
  <2>1. TokenCharge(q, n).id = QuotaId(q, "tok", seq[q] + 1)
    BY DEF TokenCharge, RequestId, QuotaId
  <2>2. DOMAIN idem' \subseteq DOMAIN idem \cup {TokenCharge(q, n).id}
    BY <1>3, ChargedIds DEF ChargeTokens
  <2>3. seq' = [seq EXCEPT ![q] = @ + 1]
    BY <1>3 DEF ChargeTokens
  <2> QED
    BY <1>1, <2>1, <2>2, <2>3
<1>4. ASSUME NEW req \in Direct, DirectCharge(req) PROVE FreshInv'
  <2>1. DOMAIN idem' \subseteq DOMAIN idem \cup {req.id} /\ seq' = seq
    BY <1>4, ChargedIds DEF DirectCharge, quotaVars
  <2> QED
    BY <2>1 DEF FreshInv, OwnIds, QuotaId
<1>5. ASSUME UNCHANGED <<idem, seq>> PROVE FreshInv'
  BY <1>5 DEF FreshInv, QuotaId
<1>6. ASSUME NEW req \in Direct, Release(req.task, req.id) PROVE FreshInv'
  BY <1>5, <1>6 DEF Release, ReleaseConcurrency, quotaVars
<1>7. CASE Time \/ UNCHANGED vars
  BY <1>5, <1>7 DEF Time, Tick, quotaVars, vars, storeVars
<1> QED
  BY <1>2, <1>3, <1>4, <1>6, <1>7 DEF Next

\* No step gives calls or tokens back.
LEMMA BooksGrow ==
  ASSUME StoreInv, StoreStep, NEW t \in Tasks
  PROVE  /\ calls[t] \in Nat /\ calls'[t] \in Nat /\ calls[t] <= calls'[t]
         /\ tokens[t] \in Nat /\ tokens'[t] \in Nat /\ tokens[t] <= tokens'[t]
<1>1. calls \in [Tasks -> Nat] /\ tokens \in [Tasks -> Nat]
  BY DEF StoreInv, ObjectsOK
<1>2. ASSUME NEW req \in BudgetCharge, NEW lim \in LimitSets, ChargeLimits(req, lim)
      PROVE  /\ calls'[t] \in Nat /\ calls[t] <= calls'[t]
             /\ tokens'[t] \in Nat /\ tokens[t] <= tokens'[t]
  <2>1. /\ calls' = calls \/ calls' = [calls EXCEPT ![req.task] = @ + req.callN]
        /\ tokens' = tokens \/ tokens' = [tokens EXCEPT ![req.task] = @ + req.tokens]
    BY <1>2 DEF ChargeLimits
  <2> QED
    BY <1>1, <2>1, ChargeFields
<1>3. CASE UNCHANGED <<calls, tokens>>
  BY <1>1, <1>3
<1>4. \/ \E req \in BudgetCharge, lim \in LimitSets : ChargeLimits(req, lim)
      \/ UNCHANGED <<calls, tokens>>
  BY DEF StoreStep, Charge, ReleaseConcurrency, Tick, storeVars, perTask
<1> QED
  BY <1>1, <1>2, <1>3, <1>4

\* The calls of every quota are limited; so are their tokens.
CallsLimited == \A q \in Quotas : q.limits.maxCalls # None
TokensLimited == \A q \in Quotas : q.limits.maxTokens # None

\* What the quotas used, after one of them used n more.
Raised(used, q, n) == [used EXCEPT ![q] = @ + n]

\* One quota raises what it used by n, and the account of its task by n too.
LEMMA OneMoreUsed ==
  ASSUME NEW S, IsFiniteSet(S), NEW used \in [Quotas -> Nat], NEW q \in Quotas, NEW n \in Nat,
         S \subseteq Quotas
  PROVE  /\ SumOf(used, S) \in Nat
         /\ SumOf(Raised(used, q, n), S)
              = IF q \in S THEN SumOf(used, S) + n ELSE SumOf(used, S)
<1>0. PICK more : more = Raised(used, q, n)
  OBVIOUS
<1>1. more = [used EXCEPT ![q] = @ + n]
  BY <1>0 DEF Raised
<1>2. Summable(used, S)
  BY DEF Summable
<1>3. SumOf(used, S) \in Nat
  BY <1>2, SumType
<1>4. \A y \in S : y # q => more[y] = used[y]
  BY <1>1
<1>5. CASE q \in S
  <2>1. more[q] = used[q] + n
    BY <1>1
  <2>2. SumOf(more, S) = SumOf(used, S) + n
    BY <1>2, <1>4, <1>5, <2>1, SumRaise
  <2> QED
    BY <1>0, <1>3, <1>5, <2>2
<1>6. CASE q \notin S
  <2>1. \A y \in S : more[y] = used[y]
    BY <1>4, <1>6
  <2>2. SumOf(more, S) = SumOf(used, S)
    BY <2>1, SumSame
  <2> QED
    BY <1>0, <1>3, <1>6, <2>2
<1> QED
  BY <1>5, <1>6

\* Every step keeps the calls of the quotas on the account.
LEMMA CallsNext ==
  ASSUME StoreInv, QuotaTypes, FreshInv, CallsLimited, EveryCallCharged, [Next]_vars
  PROVE  EveryCallCharged'
<1> DEFINE Charging(t) == {q \in Quotas : q.task = t /\ q.chargeCalls}
<1>0. /\ passed \in [Quotas -> Nat] /\ \A t \in Tasks : IsFiniteSet(Charging(t))
      /\ calls \in [Tasks -> Nat]
  BY QuotasAssumption, FS_Subset DEF QuotaTypes, StoreInv, ObjectsOK
<1>1. \A t \in Tasks : /\ calls[t] \in Nat /\ calls'[t] \in Nat /\ calls[t] <= calls'[t]
                       /\ SumOf(passed, Charging(t)) <= calls[t]
  BY StoreSteps, BooksGrow DEF EveryCallCharged, LetThrough
<1> SUFFICES ASSUME NEW t \in Tasks PROVE SumOf(passed', Charging(t)) <= calls'[t]
  BY DEF EveryCallCharged, LetThrough
<1>2. SumOf(passed, Charging(t)) \in Nat
  <2>1. Summable(passed, Charging(t))
    BY <1>0 DEF Summable
  <2> QED
    BY <2>1, SumType
<1>3. CASE passed' = passed
  BY <1>1, <1>2, <1>3
<1>4. ASSUME NEW q \in Quotas, ChargeCall(q), passed' # passed
      PROVE  SumOf(passed', Charging(t)) <= calls'[t]
  <2>1. PICK S, used : S = Charging(t) /\ used = passed
    OBVIOUS
  <2>2. passed' = [used EXCEPT ![q] = @ + 1] /\ Succeeds(CallCharge(q), q.limits)
    BY <1>4, <2>1 DEF ChargeCall
  <2>3. ~Known(CallCharge(q).id)
    BY NextIdFresh
  <2>4. ChargeLimits(CallCharge(q), q.limits) /\ Fits(CallCharge(q), q.limits)
    BY <1>4, <2>2, <2>3 DEF ChargeCall, Charge, Succeeds
  <2>5. calls' = [calls EXCEPT ![q.task] = @ + 1]
    <3>1. /\ CallsFit(CallCharge(q), q.limits) /\ q.limits.maxCalls # None
          /\ CallCharge(q).task = q.task /\ CallCharge(q).callN = 1
      BY <2>4 DEF Fits, CallsLimited, CallCharge
    <3> QED
      BY <2>4, <3>1 DEF ChargeLimits
  <2>6. /\ SumOf(passed', S) = IF q \in S THEN SumOf(used, S) + 1 ELSE SumOf(used, S)
    <3>1. IsFiniteSet(S) /\ S \subseteq Quotas /\ used \in [Quotas -> Nat] /\ 1 \in Nat
      BY <1>0, <2>1
    <3>2. SumOf(Raised(used, q, 1), S)
            = IF q \in S THEN SumOf(used, S) + 1 ELSE SumOf(used, S)
      BY <3>1, OneMoreUsed
    <3> QED
      BY <2>2, <3>2 DEF Raised
  <2>7. CASE q \in S
    <3>1. q.task = t
      BY <2>1, <2>7
    <3>2. calls'[t] = calls[t] + 1
      BY <1>0, <2>5, <3>1
    <3> QED
      BY <1>1, <1>2, <2>1, <2>6, <2>7, <3>2
  <2>8. CASE q \notin S
    BY <1>1, <1>2, <2>1, <2>6, <2>8
  <2> QED
    BY <2>7, <2>8
<1>5. passed' # passed => \E q \in Quotas : ChargeCall(q)
  BY DEF Next, ChargeTokens, DirectCharge, Release, Time, quotaVars, vars
<1> QED
  BY <1>3, <1>4, <1>5

LEMMA TokensNext ==
  ASSUME StoreInv, QuotaTypes, FreshInv, TokensLimited, EveryTokenCharged, [Next]_vars
  PROVE  EveryTokenCharged'
<1> DEFINE Of(t) == {q \in Quotas : q.task = t}
<1>0. /\ tokensUsed \in [Quotas -> Nat] /\ \A t \in Tasks : IsFiniteSet(Of(t))
      /\ tokens \in [Tasks -> Nat] /\ TokenCharges \subseteq Nat \ {0}
  BY QuotasAssumption, FS_Subset DEF QuotaTypes, StoreInv, ObjectsOK
<1>1. \A t \in Tasks : /\ tokens[t] \in Nat /\ tokens'[t] \in Nat /\ tokens[t] <= tokens'[t]
                       /\ SumOf(tokensUsed, Of(t)) <= tokens[t]
  BY StoreSteps, BooksGrow DEF EveryTokenCharged
<1> SUFFICES ASSUME NEW t \in Tasks PROVE SumOf(tokensUsed', Of(t)) <= tokens'[t]
  BY DEF EveryTokenCharged
<1>2. SumOf(tokensUsed, Of(t)) \in Nat
  <2>1. Summable(tokensUsed, Of(t))
    BY <1>0 DEF Summable
  <2> QED
    BY <2>1, SumType
<1>3. CASE tokensUsed' = tokensUsed
  BY <1>1, <1>2, <1>3
<1>4. ASSUME NEW q \in Quotas, NEW n \in TokenCharges, ChargeTokens(q, n),
             tokensUsed' # tokensUsed
      PROVE  SumOf(tokensUsed', Of(t)) <= tokens'[t]
  <2>1. PICK S, used : S = Of(t) /\ used = tokensUsed
    OBVIOUS
  <2>2. tokensUsed' = [used EXCEPT ![q] = @ + n] /\ Succeeds(TokenCharge(q, n), q.limits)
    BY <1>4, <2>1 DEF ChargeTokens
  <2>3. ~Known(TokenCharge(q, n).id)
    BY NextIdFresh
  <2>4. ChargeLimits(TokenCharge(q, n), q.limits) /\ Fits(TokenCharge(q, n), q.limits)
    BY <1>4, <2>2, <2>3 DEF ChargeTokens, Charge, Succeeds
  <2>5. tokens' = [tokens EXCEPT ![q.task] = @ + n]
    <3>1. /\ TokensSet(TokenCharge(q, n), q.limits)
          /\ TokenCharge(q, n).task = q.task /\ TokenCharge(q, n).tokens = n
      BY <1>0 DEF TokensLimited, TokensSet, TokenCharge
    <3> QED
      BY <2>4, <3>1 DEF ChargeLimits
  <2>6. n \in Nat
    BY <1>0
  <2>7. SumOf(tokensUsed', S) = IF q \in S THEN SumOf(used, S) + n ELSE SumOf(used, S)
    <3>1. IsFiniteSet(S) /\ S \subseteq Quotas /\ used \in [Quotas -> Nat]
      BY <1>0, <2>1
    <3>2. SumOf(Raised(used, q, n), S)
            = IF q \in S THEN SumOf(used, S) + n ELSE SumOf(used, S)
      BY <2>6, <3>1, OneMoreUsed
    <3> QED
      BY <2>2, <3>2 DEF Raised
  <2>8. CASE q \in S
    <3>1. q.task = t
      BY <2>1, <2>8
    <3>2. tokens'[t] = tokens[t] + n
      BY <1>0, <2>5, <3>1
    <3> QED
      BY <1>1, <1>2, <2>1, <2>6, <2>7, <2>8, <3>2
  <2>9. CASE q \notin S
    BY <1>1, <1>2, <2>1, <2>7, <2>9
  <2> QED
    BY <2>8, <2>9
<1>5. tokensUsed' # tokensUsed => \E q \in Quotas, n \in TokenCharges : ChargeTokens(q, n)
  BY DEF Next, ChargeCall, DirectCharge, Release, Time, quotaVars, vars
<1> QED
  BY <1>3, <1>4, <1>5

LEMMA NothingUsedYet == ASSUME Init PROVE FreshInv /\ EveryCallCharged /\ EveryTokenCharged
<1>1. /\ DOMAIN idem = {} /\ passed = [q \in Quotas |-> 0] /\ tokensUsed = [q \in Quotas |-> 0]
      /\ calls = [t \in Tasks |-> 0] /\ tokens = [t \in Tasks |-> 0]
  BY DEF Init, StoreInit
<1>2. FreshInv
  BY <1>1 DEF FreshInv
<1>3. ASSUME NEW S, S \subseteq Quotas PROVE SumOf([q \in Quotas |-> 0], S) = 0
  <2>1. PICK f : f = [q \in Quotas |-> 0]
    OBVIOUS
  <2>2. UnitsOf(f, S) = {}
    <3>1. \A x \in S : {x} \X (1 .. f[x]) = {}
      BY <1>3, <2>1
    <3> QED
      BY <3>1 DEF UnitsOf
  <2> QED
    BY <2>1, <2>2, FS_EmptySet DEF SumOf
<1>4. EveryCallCharged
  <2> SUFFICES ASSUME NEW t \in Tasks PROVE LetThrough(t) <= calls[t]
    BY DEF EveryCallCharged
  <2>1. LetThrough(t) = 0
    BY <1>1, <1>3 DEF LetThrough
  <2> QED
    BY <1>1, <2>1
<1>5. EveryTokenCharged
  <2> SUFFICES ASSUME NEW t \in Tasks
               PROVE  SumOf(tokensUsed, {q \in Quotas : q.task = t}) <= tokens[t]
    BY DEF EveryTokenCharged
  <2>1. SumOf(tokensUsed, {q \in Quotas : q.task = t}) = 0
    BY <1>1, <1>3
  <2> QED
    BY <1>1, <2>1
<1> QED
  BY <1>2, <1>4, <1>5

\* With a run of its own for every block, the calls that the workers of a task
\* get through are all on the account of the task: together they never get
\* more than its budget.  (Without it they do: two blocks of one RunContext.)
THEOREM CallsSafe == ASSUME OwnIds, CallsLimited PROVE Spec => []EveryCallCharged
<1>1. Init => FreshInv /\ EveryCallCharged
  BY NothingUsedYet
<1>2. StoreInv /\ QuotaTypes /\ FreshInv /\ EveryCallCharged /\ [Next]_vars
        => FreshInv' /\ EveryCallCharged'
  BY FreshNext, CallsNext
<1> QED
  BY <1>1, <1>2, TypesHold, PTL DEF Spec

\* Likewise no quota believes it spent tokens that the task's account lacks.
THEOREM TokensSafe == ASSUME OwnIds, TokensLimited PROVE Spec => []EveryTokenCharged
<1>1. Init => FreshInv /\ EveryTokenCharged
  BY NothingUsedYet
<1>2. StoreInv /\ QuotaTypes /\ FreshInv /\ EveryTokenCharged /\ [Next]_vars
        => FreshInv' /\ EveryTokenCharged'
  BY FreshNext, TokensNext
<1> QED
  BY <1>1, <1>2, TypesHold, PTL DEF Spec

-----------------------------------------------------------------------------
(* The contract of a shared budget                                         *)

\* Everyone charges with the same limits, of calls and of slots at least.
OneLimit ==
  /\ LimitSets = {DirectLimits}
  /\ DirectLimits.maxCalls # None /\ DirectLimits.maxConcurrent # None

\* The grants of the contract are the records of the store.
GrantedAs == [id \in DOMAIN idem |-> [task |-> idem[id].req.task, n |-> idem[id].req.callN]]
HeldBy == [t \in Tasks |-> DOMAIN leases[t]]

LEMMA ContractCounts ==
  /\ \A S : Contract!Cardinality(S) = Cardinality(S)
  /\ \A f, S : Contract!SumOf(f, S) = SumOf(f, S)
<1>1. \A S : Contract!Cardinality(S) = Cardinality(S)
  BY DEF Cardinality, Contract!Cardinality
<1>2. \A f, S : Contract!UnitsOf(f, S) = UnitsOf(f, S)
  BY DEF UnitsOf, Contract!UnitsOf
<1> QED
  BY <1>1, <1>2 DEF SumOf, Contract!SumOf

LEMMA SpentIsBooked == \A t : Contract!Spent(t) = SumOf(CallsOf, GrantsOf(t))
<1> SUFFICES ASSUME NEW t PROVE Contract!Spent(t) = SumOf(CallsOf, GrantsOf(t))
  OBVIOUS
<1>1. PICK g : g = GrantedAs
  OBVIOUS
<1>2. [id \in DOMAIN g |-> g[id].n] = CallsOf
  BY <1>1 DEF GrantedAs, CallsOf
<1>3. Contract!GrantsOf(t) = GrantsOf(t)
  BY DEF Contract!GrantsOf, GrantsOf
<1>4. Contract!Spent(t) = Contract!SumOf([id \in DOMAIN g |-> g[id].n], Contract!GrantsOf(t))
  BY <1>1 DEF Contract!Spent, GrantedAs
<1> QED
  BY <1>2, <1>3, <1>4, ContractCounts

\* Granted calls are on the account, which is within the cap.
SpentInv ==
  \A t \in Tasks : SumOf(CallsOf, GrantsOf(t)) <= calls[t]

LEMMA SpentStart == ASSUME StoreInit PROVE SpentInv
<1> SUFFICES ASSUME NEW t \in Tasks PROVE SumOf(CallsOf, GrantsOf(t)) <= calls[t]
  BY DEF SpentInv
<1>1. calls[t] = 0 /\ GrantsOf(t) = {}
  BY DEF StoreInit, GrantsOf
<1> QED
  BY <1>1, SumEmpty

LEMMA SpentNext ==
  ASSUME StoreInv, OneLimit, SpentInv, StoreStep PROVE SpentInv'
<1>0. \A t \in Tasks : SumOf(CallsOf, GrantsOf(t)) \in Nat /\ SumOf(CallsOf, GrantsOf(t)) <= calls[t]
  BY GrantsSummable, SumType DEF SpentInv
<1>1. ASSUME NEW req \in BudgetCharge, NEW lim \in LimitSets, ChargeLimits(req, lim), ~Known(req.id)
      PROVE  SpentInv'
  <2> SUFFICES ASSUME NEW t \in Tasks
               PROVE  SumOf(CallsOf, GrantsOf(t))' <= calls'[t]
    BY DEF SpentInv
  <2>1. calls[t] \in Nat /\ calls'[t] \in Nat /\ calls[t] <= calls'[t]
    <3>1. StoreStep
      BY <1>1 DEF StoreStep, Charge
    <3> QED
      BY <3>1, BooksGrow
  <2>2. CASE t # req.task \/ ~Fits(req, lim)
    <3>1. SumOf(CallsOf, GrantsOf(t))' = SumOf(CallsOf, GrantsOf(t))
      BY <1>1, <2>2, ChargedSums
    <3> QED
      BY <1>0, <2>1, <3>1
  <2>3. CASE t = req.task /\ Fits(req, lim)
    <3>1. SumOf(CallsOf, GrantsOf(t))' = SumOf(CallsOf, GrantsOf(t)) + req.callN
      BY <1>1, <2>3, ChargedSums
    <3>2. calls'[t] = calls[t] + req.callN
      <4>1. calls' = [calls EXCEPT ![t] = @ + req.callN]
        BY <1>1, <2>3 DEF ChargeLimits, Fits, OneLimit
      <4> QED
        BY <4>1 DEF StoreInv, ObjectsOK
    <3> QED
      BY <1>0, <2>1, <3>1, <3>2, ChargeFields
  <2> QED
    BY <2>2, <2>3
<1>2. CASE UNCHANGED <<idem, calls>>
  <2>1. CallsOf' = CallsOf /\ \A t \in Tasks : GrantsOf(t)' = GrantsOf(t)
    BY <1>2 DEF CallsOf, GrantsOf
  <2> QED
    BY <1>2, <2>1 DEF SpentInv
<1>3. \/ \E req \in BudgetCharge, lim \in LimitSets : ChargeLimits(req, lim) /\ ~Known(req.id)
      \/ UNCHANGED <<idem, calls>>
  BY DEF StoreStep, Charge, ReleaseConcurrency, Tick, storeVars, perTask
<1> QED
  BY <1>1, <1>2, <1>3

\* Initially nothing is granted and no slot is held.
LEMMA ContractInit == ASSUME StoreInit PROVE Contract!Init
<1>1. DOMAIN idem = {} /\ leases = [t \in Tasks |-> <<>>]
  BY DEF StoreInit
<1>2. [id \in {} |-> [task |-> idem[id].req.task, n |-> idem[id].req.callN]] = <<>>
  OBVIOUS
<1>3. [t \in Tasks |-> DOMAIN leases[t]] = [t \in Tasks |-> {}]
  BY <1>1
<1> QED
  BY <1>1, <1>2, <1>3 DEF Contract!Init

\* A charge that is granted is a grant of the contract: the leases that expired
\* lapse as it happens.
LEMMA ChargeGrants ==
  ASSUME StoreInv, OneLimit, SpentInv, NEW req \in BudgetCharge, NEW lim \in LimitSets,
         ChargeLimits(req, lim), ~Known(req.id), Fits(req, lim)
  PROVE  Contract!Next
<1> DEFINE t == req.task
<1>0. /\ t \in Tasks /\ req.id \in Ids /\ req.callN \in Nat /\ lim = DirectLimits
      /\ lim.maxCalls \in Nat /\ lim.maxConcurrent \in Nat
  BY ChargeFields, LimitTypes DEF OneLimit
<1>1. PICK booked \in Nat : booked = SumOf(CallsOf, GrantsOf(t)) /\ booked <= calls[t]
  BY <1>0, GrantsSummable, SumType DEF SpentInv
<1>2. calls[t] \in Nat /\ calls[t] + req.callN <= lim.maxCalls
  BY <1>0 DEF Fits, CallsFit, Affordable, OneLimit, StoreInv, ObjectsOK
<1>3. Contract!Spent(t) + req.callN <= DirectLimits.maxCalls /\ req.callN \in 0 .. DirectLimits.maxCalls
  BY <1>0, <1>1, <1>2, SpentIsBooked
<1>4. req.id \notin DOMAIN GrantedAs
  BY DEF GrantedAs, Known
<1>5. GrantedAs' = [i \in DOMAIN GrantedAs \cup {req.id} |->
                      IF i = req.id THEN [task |-> t, n |-> req.callN] ELSE GrantedAs[i]]
  <2>1. /\ DOMAIN idem' = DOMAIN idem \cup {req.id} /\ idem'[req.id].req = req
        /\ \A id \in DOMAIN idem : idem'[id] = idem[id]
    BY ChargedRecords
  <2>2. DOMAIN GrantedAs = DOMAIN idem
    BY DEF GrantedAs
  <2>3. GrantedAs' = [id \in DOMAIN idem' |-> [task |-> idem'[id].req.task, n |-> idem'[id].req.callN]]
    BY DEF GrantedAs
  <2>4. \A i \in DOMAIN idem' :
          [task |-> idem'[i].req.task, n |-> idem'[i].req.callN]
            = IF i = req.id THEN [task |-> t, n |-> req.callN] ELSE GrantedAs[i]
    BY <2>1, <2>2 DEF GrantedAs
  <2> QED
    BY <2>1, <2>2, <2>3, <2>4
<1>6. PICK keep : keep = DOMAIN Unexpired(t)
  OBVIOUS
<1>7. keep \in SUBSET HeldBy[t] /\ Cardinality(keep) < DirectLimits.maxConcurrent
  <2>1. keep \subseteq DOMAIN leases[t] /\ Purged(t) = Cardinality(keep)
    BY <1>0, <1>6, PurgedLeases
  <2>2. Purged(t) < lim.maxConcurrent
    BY <1>0 DEF Fits, LeaseFits, OneLimit
  <2> QED
    BY <1>0, <2>1, <2>2 DEF HeldBy
<1>8. HeldBy' = [HeldBy EXCEPT ![t] = keep \cup {req.id}]
  <2>1. leases' = [leases EXCEPT ![t] = LeasesAfter(req, lim)]
    BY <1>0 DEF ChargeLimits, Fits, OneLimit
  <2>2. DOMAIN LeasesAfter(req, lim) = keep \cup {req.id}
    BY <1>6 DEF LeasesAfter
  <2>3. DOMAIN leases = Tasks
    BY DEF StoreInv, ObjectsOK
  <2> QED
    BY <1>0, <2>1, <2>2, <2>3 DEF HeldBy
<1>9. Contract!Grant(req.id, t, req.callN)
  <2>1. Contract!Cardinality(keep) < DirectLimits.maxConcurrent
    BY <1>7, ContractCounts
  <2> QED
    BY <1>3, <1>4, <1>5, <1>7, <1>8, <2>1 DEF Contract!Grant, GrantedAs, HeldBy
<1> QED
  BY <1>0, <1>3, <1>9 DEF Contract!Next

\* Leases that go away, by a release or because they expired, are slots given back.
LEMMA LeasesGivenBack ==
  ASSUME NEW t \in Tasks, DOMAIN leases = Tasks, idem' = idem, NEW left,
         leases' = [leases EXCEPT ![t] = left], DOMAIN left \subseteq DOMAIN leases[t]
  PROVE  Contract!Next
<1>1. GrantedAs' = GrantedAs
  BY DEF GrantedAs
<1>2. HeldBy' = [HeldBy EXCEPT ![t] = DOMAIN left] /\ DOMAIN left \in SUBSET HeldBy[t]
  BY DEF HeldBy
<1>3. Contract!GiveBack(t)
  BY <1>1, <1>2 DEF Contract!GiveBack, GrantedAs, HeldBy
<1> QED
  BY <1>3 DEF Contract!Next

LEMMA ContractStep ==
  ASSUME StoreInv, OneLimit, SpentInv, StoreStep
  PROVE  Contract!Next \/ UNCHANGED Contract!vars
<1>0. DOMAIN leases = Tasks
  BY DEF StoreInv, ObjectsOK
<1>1. ASSUME UNCHANGED <<idem, leases>> PROVE UNCHANGED Contract!vars
  BY <1>1 DEF Contract!vars
<1>2. ASSUME NEW req \in BudgetCharge, NEW lim \in LimitSets, ChargeLimits(req, lim), ~Known(req.id)
      PROVE  Contract!Next \/ UNCHANGED Contract!vars
  <2>1. CASE Fits(req, lim)
    BY <1>2, <2>1, ChargeGrants
  <2>2. CASE ~Fits(req, lim)
    <3>1. idem' = idem
      BY <1>2, <2>2, ChargedRecords
    <3>2. leases' = leases \/ leases' = [leases EXCEPT ![req.task] = Unexpired(req.task)]
      BY <1>2, <2>2 DEF ChargeLimits, LeasesAfter
    <3>3. req.task \in Tasks /\ DOMAIN Unexpired(req.task) \subseteq DOMAIN leases[req.task]
      BY ChargeFields, PurgedLeases
    <3> QED
      BY <1>0, <1>1, <3>1, <3>2, <3>3, LeasesGivenBack
  <2> QED
    BY <2>1, <2>2
<1>3. ASSUME NEW t \in Tasks, NEW lease, ReleaseConcurrency(t, lease)
      PROVE  Contract!Next \/ UNCHANGED Contract!vars
  <2>1. idem' = idem
        /\ (leases' = leases \/ leases' = [leases EXCEPT ![t] =
                                  [l \in DOMAIN leases[t] \ {lease} |-> leases[t][l]]])
    BY <1>3 DEF ReleaseConcurrency
  <2>2. DOMAIN [l \in DOMAIN leases[t] \ {lease} |-> leases[t][l]] \subseteq DOMAIN leases[t]
    OBVIOUS
  <2> QED
    BY <1>0, <1>1, <2>1, <2>2, LeasesGivenBack
<1>4. \/ \E req \in BudgetCharge, lim \in LimitSets : ChargeLimits(req, lim) /\ ~Known(req.id)
      \/ \E t \in Tasks : \E lease : ReleaseConcurrency(t, lease)
      \/ UNCHANGED <<idem, leases>>
  BY DEF StoreStep, Charge, Tick, storeVars, perTask
<1> QED
  BY <1>1, <1>2, <1>3, <1>4

\* The store implements the contract of a shared budget (class BudgetBackend):
\* for callers that charge with the same limits, each id is granted once, what
\* is granted never exceeds the cap on calls, and never more grants than the
\* slots of the task hold one, whatever is refused, retried, released or
\* expires, and whoever asks.
THEOREM KeepsContract == ASSUME OneLimit PROVE Spec => ContractKept
<1>1. Init => SpentInv /\ Contract!Init
  BY SpentStart, ContractInit DEF Init
<1>2. StoreInv /\ QuotaTypes /\ SpentInv /\ [Next]_vars => SpentInv'
  BY StoreSteps, SpentNext
<1>3. StoreInv /\ QuotaTypes /\ SpentInv /\ [Next]_vars => [Contract!Next]_(Contract!vars)
  BY StoreSteps, ContractStep
<1> QED
  BY <1>1, <1>2, <1>3, TypesHold, PTL DEF Spec, ContractKept, Contract!Spec

-----------------------------------------------------------------------------
(* The rate of grants                                                      *)

\* The same time recorded n times more.
LEMMA LaterRepeated ==
  ASSUME NEW old \in Seq(Nat), NEW h \in Int, NEW x \in Nat, NEW n \in Nat
  PROVE  LET longer == old \o [i \in 1 .. n |-> x]
         IN  /\ longer \in Seq(Nat) /\ Len(longer) = Len(old) + n
             /\ Cardinality(Later(longer, h))
                  = Cardinality(Later(old, h)) + IF x > h THEN n ELSE 0
<1> DEFINE more   == [i \in 1 .. n |-> x]
           longer == old \o more
<1>1. more \in Seq(Nat) /\ Len(more) = n /\ Len(old) \in Nat /\ DOMAIN old = 1 .. Len(old)
  BY LenProperties
<1>2. /\ longer \in Seq(Nat) /\ Len(longer) = Len(old) + n
      /\ \A i \in 1 .. Len(old) + n : longer[i] = IF i <= Len(old) THEN old[i]
                                                   ELSE more[i - Len(old)]
  BY <1>1, ConcatProperties
<1>3. DOMAIN longer = 1 .. (Len(old) + n)
  BY <1>2, LenProperties
<1>4. \A i \in 1 .. Len(old) + n : longer[i] = IF i <= Len(old) THEN old[i] ELSE x
  BY <1>1, <1>2
<1> HIDE DEF longer, more
<1>5. PICK a, b, S, T : /\ a = Len(old) /\ b = a + n /\ S = Later(old, h)
                        /\ T = Later(longer, h)
  OBVIOUS
<1>6. a \in Nat /\ b \in Nat /\ S \subseteq 1 .. a /\ IsFiniteSet(S) /\ Cardinality(S) \in Nat
  <2>1. /\ Later(old, h) \subseteq 1 .. Len(old) /\ IsFiniteSet(Later(old, h))
        /\ Cardinality(Later(old, h)) \in Nat
    BY LaterFinite
  <2>2. Len(old) \in Nat /\ Len(old) + n \in Nat
    BY <1>1
  <2> QED
    BY <1>5, <2>1, <2>2
<1>7. CASE x > h
  <2>1. PICK U : U = (a + 1) .. b
    OBVIOUS
  <2>2. IsFiniteSet(U) /\ Cardinality(U) = n
    <3>1. PICK lo \in Int, hi \in Int : lo = a + 1 /\ hi = b
      BY <1>6
    <3>2. IsFiniteSet(lo .. hi) /\ Cardinality(lo .. hi) = IF lo > hi THEN 0 ELSE hi - lo + 1
      BY FS_Interval
    <3>3. (IF lo > hi THEN 0 ELSE hi - lo + 1) = n
      BY <1>5, <1>6, <3>1
    <3> QED
      BY <2>1, <3>1, <3>2, <3>3
  <2>3. S \cap U = {}
    BY <1>6, <2>1
  <2>4. ASSUME NEW i PROVE i \in T <=> i \in S \/ i \in U
    BY <1>1, <1>3, <1>4, <1>5, <1>6, <1>7, <2>1 DEF Later
  <2>5. T = S \cup U
    BY <2>4
  <2>6. Cardinality(S \cup U) = Cardinality(S) + Cardinality(U) - Cardinality(S \cap U)
    BY <1>6, <2>2, FS_Union
  <2>7. Cardinality(S \cup U) = Cardinality(S) + n
    <3>1. Cardinality({}) = 0
      BY FS_EmptySet
    <3>2. Cardinality(S \cap U) = 0
      BY <2>3, <3>1
    <3> QED
      BY <1>6, <2>2, <2>6, <3>2
  <2> QED
    BY <1>2, <1>5, <1>7, <2>5, <2>7 DEF longer, more
<1>8. CASE ~(x > h)
  <2>1. ASSUME NEW i PROVE i \in T <=> i \in S
    BY <1>1, <1>3, <1>4, <1>5, <1>6, <1>8 DEF Later
  <2>2. T = S
    BY <2>1
  <2> QED
    BY <1>2, <1>5, <1>6, <1>8, <2>2 DEF longer, more
<1> QED
  BY <1>7, <1>8

\* Every caller charges with the same rate limit.
SameRate(p, w) == \A lim \in LimitSets : lim.rate = p /\ lim.window = w

GrantsAfter(t, h) == {id \in GrantsOf(t) : idem[id].at > h}
GrantsIn(t, from, end) == {id \in GrantsOf(t) : from < idem[id].at /\ idem[id].at <= end}

\* The window that is open holds a timestamp for every call it granted, and the
\* windows that are closed were as good when they closed.
RateObjects(p, w) ==
  \A t \in Tasks :
    /\ \/ rate[t].limit = p /\ rate[t].window = w
       \/ rate[t].limit = None /\ rate[t].times = <<>>
    /\ Len(rate[t].times) <= p

OpenWindow(w) ==
  \A t \in Tasks : \A h \in Int :
    h >= now - w => SumOf(CallsOf, GrantsAfter(t, h)) <= Cardinality(Later(rate[t].times, h))

ClosedWindows(p, w) ==
  \A t \in Tasks : \A end \in 0 .. MaxTime :
    end < now => SumOf(CallsOf, GrantsIn(t, end - w, end)) <= p

RateInv(p, w) == RateObjects(p, w) /\ OpenWindow(w) /\ ClosedWindows(p, w)

\* Grants that are some of the store's can be added up.
LEMMA SomeGrants ==
  ASSUME StoreInv, NEW A, A \subseteq DOMAIN idem
  PROVE  Summable(CallsOf, A) /\ SumOf(CallsOf, A) \in Nat
<1>1. IsFiniteSet(A)
  BY FS_Subset DEF StoreInv, RecordsOK
<1>2. ASSUME NEW id \in A PROVE CallsOf[id] \in Nat
  <2>1. id \in DOMAIN idem /\ idem[id].req \in BudgetCharge
    BY DEF StoreInv, RecordsOK
  <2> QED
    BY <2>1, ChargeFields DEF CallsOf
<1> QED
  BY <1>1, <1>2, SumType DEF Summable

\* What a charge does to the sum of some grants, and of some and its own.
LEMMA ChargedSome ==
  ASSUME StoreInv, NEW req \in BudgetCharge, NEW lim \in LimitSets, ~Known(req.id),
         ChargeLimits(req, lim), NEW A, A \subseteq DOMAIN idem
  PROVE  /\ SumOf(CallsOf', A) = SumOf(CallsOf, A)
         /\ Fits(req, lim) => SumOf(CallsOf', A \cup {req.id}) = SumOf(CallsOf, A) + req.callN
<1>1. PICK f, g, x : f = CallsOf /\ g = CallsOf' /\ x = req.id
  OBVIOUS
<1>2. \A y \in A : g[y] = f[y]
  BY <1>1, ChargedRecords DEF CallsOf
<1>3. SumOf(g, A) = SumOf(f, A)
  BY <1>2, SumSame
<1>4. ASSUME Fits(req, lim) PROVE SumOf(g, A \cup {x}) = SumOf(f, A) + req.callN
  <2>1. g[x] = req.callN /\ g[x] \in Nat
    BY <1>1, <1>4, ChargedRecords, ChargeFields DEF CallsOf
  <2>2. PICK B : B = A \cup {x}
    OBVIOUS
  <2>3. x \notin A
    BY <1>1, ChargedRecords
  <2>4. Summable(f, A)
    BY <1>1, SomeGrants
  <2>5. SumOf(g, B) = SumOf(f, A) + g[x]
    <3>1. Summable(g, A)
      BY <1>2, <2>4 DEF Summable
    <3>2. SumOf(g, A \cup {x}) = SumOf(g, A) + g[x]
      BY <2>1, <2>3, <3>1, SumAdd
    <3> QED
      BY <1>3, <2>2, <3>2
  <2> QED
    BY <2>1, <2>2, <2>5
<1> QED
  BY <1>1, <1>3, <1>4

LEMMA RateStart == ASSUME StoreInit, NEW p \in Nat, NEW w \in Nat PROVE RateInv(p, w)
<1>0. PICK none : none = <<>>
  OBVIOUS
<1>1. DOMAIN idem = {} /\ \A t \in Tasks : rate[t].limit = None /\ rate[t].times = none
  BY <1>0 DEF StoreInit, NoRate
<1>2. \A t, h : GrantsAfter(t, h) = {}
  BY <1>1 DEF GrantsAfter, GrantsOf
<1>3. \A h \in Int : Later(none, h) = {}
  <2>1. DOMAIN none = {}
    BY <1>0
  <2> QED
    BY <2>1 DEF Later
<1>4. SumOf(CallsOf, {}) = 0 /\ Cardinality({}) = 0 /\ Len(none) = 0
  BY <1>0, SumEmpty, FS_EmptySet
<1>5. now = 0
  BY DEF StoreInit
<1>6. RateObjects(p, w)
  <2>1. ASSUME NEW t \in Tasks PROVE Len(rate[t].times) <= p
    <3>1. Len(rate[t].times) = Len(none)
      BY <1>1
    <3> QED
      BY <1>4, <3>1
  <2>2. \A t \in Tasks : rate[t].limit = None /\ rate[t].times = <<>>
    BY <1>0, <1>1
  <2> QED
    BY <2>1, <2>2 DEF RateObjects
<1>7. OpenWindow(w)
  <2> SUFFICES ASSUME NEW t \in Tasks, NEW h \in Int
               PROVE  SumOf(CallsOf, GrantsAfter(t, h)) <= Cardinality(Later(rate[t].times, h))
    BY DEF OpenWindow
  <2>1. SumOf(CallsOf, GrantsAfter(t, h)) = 0
    BY <1>2, <1>4
  <2>2. Cardinality(Later(rate[t].times, h)) = 0
    BY <1>1, <1>3, <1>4
  <2> QED
    BY <2>1, <2>2
<1>8. ClosedWindows(p, w)
  BY <1>5 DEF ClosedWindows
<1> QED
  BY <1>6, <1>7, <1>8 DEF RateInv

\* What the rate limit of a task becomes of a charge that reaches it.
LEMMA ChargedRate ==
  ASSUME StoreInv, NEW p \in Nat, NEW w \in Nat, SameRate(p, w), p # None, RateObjects(p, w),
         NEW req \in BudgetCharge, NEW lim \in LimitSets
  PROVE  LET after == RateCharged(req, lim).object
             old   == rate[req.task].times
         IN  /\ after.limit = p /\ after.window = w /\ after.times \in Seq(Nat)
             /\ Len(after.times) <= p
             /\ \A h \in Int : h >= now - w =>
                  Cardinality(Later(old, h))
                    + (IF RateCharged(req, lim).fits /\ now > h THEN req.callN ELSE 0)
                  <= Cardinality(Later(after.times, h))
<1> DEFINE r    == RateOf(req.task, lim)
           live == IF req.callN = 0 THEN r.times ELSE DropExpired(r.times, now - r.window)
           room == IF Len(live) < r.limit THEN r.limit - Len(live) ELSE 0
           n    == Min({req.callN, room})
           old  == rate[req.task].times
           after == RateCharged(req, lim).object
<1>0. req.task \in Tasks /\ req.callN \in Nat /\ lim.rate = p /\ lim.window = w /\ lim.rate # None
      /\ now \in Nat
  BY ChargeFields, TimeAssumption DEF SameRate, StoreInv, ObjectsOK
<1>1. r.times = old /\ r.limit = p /\ r.window = w /\ Len(old) <= p
  <2>1. CASE rate[req.task].limit = p
    BY <1>0, <2>1 DEF RateOf, RateObjects, None
  <2>2. CASE rate[req.task].limit # p
    BY <1>0, <2>2 DEF RateOf, RateObjects
  <2> QED
    BY <2>1, <2>2
<1>2. /\ RateOK(r) /\ live \in Seq(0 .. MaxTime) /\ Len(live) \in Nat /\ Len(live) <= Len(r.times)
      /\ room \in Nat /\ n \in Nat /\ n <= room /\ (n = req.callN \/ n = room)
      /\ after = [limit |-> r.limit, window |-> r.window, times |-> live \o [i \in 1 .. n |-> now]]
      /\ RateCharged(req, lim).fits = (req.callN <= room) /\ n <= req.callN
  BY <1>0, RateChargedType DEF StoreInv
<1>3. live = IF req.callN = 0 THEN old ELSE DropExpired(old, now - w)
  BY <1>1
<1>4. room = IF Len(live) < p THEN p - Len(live) ELSE 0
  BY <1>1
<1> HIDE DEF live, room, n, after
<1>5. old \in Seq(Nat) /\ live \in Seq(Nat)
  <2>1. old \in Seq(0 .. MaxTime)
    BY <1>0 DEF StoreInv, ObjectsOK, RateOK
  <2> QED
    BY <1>2, <2>1, TimeAssumption
<1> HIDE DEF r, old
<1>6. after.limit = p /\ after.window = w /\ after.times = live \o [i \in 1 .. n |-> now]
  BY <1>1, <1>2
<1>7. Len(live) <= p
  <2>1. Len(live) <= Len(old) /\ Len(old) \in Nat
    BY <1>1, <1>2, <1>5, LenProperties
  <2> QED
    BY <1>1, <1>2, <2>1
<1>8. RateCharged(req, lim).fits => n = req.callN
  <2>1. RateCharged(req, lim).fits => req.callN <= room
    BY <1>2
  <2>2. req.callN \in Nat /\ n \in Nat /\ room \in Nat /\ n <= req.callN
        /\ (n = req.callN \/ n = room)
    BY <1>0, <1>2
  <2> QED
    BY <2>1, <2>2
<1>9. after.times \in Seq(Nat) /\ Len(after.times) = Len(live) + n
      /\ \A h \in Int : Cardinality(Later(after.times, h))
                          = Cardinality(Later(live, h)) + IF now > h THEN n ELSE 0
  <2>1. PICK lv, m, at : lv = live /\ m = n /\ at = now
    OBVIOUS
  <2>2. lv \in Seq(Nat) /\ m \in Nat /\ at \in Nat
    BY <1>0, <1>2, <1>5, <2>1
  <2>3. PICK longer : longer = lv \o [i \in 1 .. m |-> at]
    OBVIOUS
  <2>4. longer \in Seq(Nat) /\ Len(longer) = Len(lv) + m
        /\ \A h \in Int : Cardinality(Later(longer, h))
                            = Cardinality(Later(lv, h)) + IF at > h THEN m ELSE 0
    <3>1. \A h \in Int : longer \in Seq(Nat) /\ Len(longer) = Len(lv) + m
                         /\ Cardinality(Later(longer, h))
                              = Cardinality(Later(lv, h)) + IF at > h THEN m ELSE 0
      BY <2>2, <2>3, LaterRepeated
    <3>2. 0 \in Int
      OBVIOUS
    <3> QED
      BY <3>1, <3>2
  <2>5. after.times = longer
    BY <1>6, <2>1, <2>3
  <2> QED
    BY <2>1, <2>4, <2>5
<1>10. Len(after.times) <= p
  BY <1>2, <1>4, <1>7, <1>9
<1>11. ASSUME NEW h \in Int, h >= now - w
       PROVE  Cardinality(Later(old, h)) <= Cardinality(Later(live, h))
  <2>1. Cardinality(Later(old, h)) \in Nat
    BY <1>5, LaterFinite
  <2>2. CASE req.callN = 0
    BY <1>3, <2>1, <2>2
  <2>3. CASE req.callN # 0
    <3>1. PICK horizon \in Int : horizon = now - w
      BY <1>0
    <3>2. Cardinality(Later(old, h)) <= Cardinality(Later(DropExpired(old, horizon), h))
      BY <1>5, <1>11, <3>1, LaterDrop
    <3> QED
      BY <1>3, <2>3, <3>1, <3>2
  <2> QED
    BY <2>2, <2>3
<1>12. ASSUME NEW h \in Int, h >= now - w
       PROVE  Cardinality(Later(old, h))
                + (IF RateCharged(req, lim).fits /\ now > h THEN req.callN ELSE 0)
              <= Cardinality(Later(after.times, h))
  <2>1. Cardinality(Later(old, h)) \in Nat /\ Cardinality(Later(live, h)) \in Nat
    BY <1>5, LaterFinite
  <2>2. Cardinality(Later(after.times, h))
          = Cardinality(Later(live, h)) + IF now > h THEN n ELSE 0
    BY <1>9
  <2>3. Cardinality(Later(old, h)) <= Cardinality(Later(live, h))
    BY <1>11, <1>12
  <2>4. CASE RateCharged(req, lim).fits /\ now > h
    BY <1>0, <1>8, <2>1, <2>2, <2>3, <2>4
  <2>5. CASE ~(RateCharged(req, lim).fits /\ now > h)
    BY <1>2, <2>1, <2>2, <2>3, <2>5
  <2> QED
    BY <2>4, <2>5
<1> QED
  BY <1>6, <1>9, <1>10, <1>12 DEF old, after

LEMMA ChargedWindows ==
  ASSUME StoreInv, NEW p \in Nat, NEW w \in Nat, SameRate(p, w), p # None, RateInv(p, w),
         NEW req \in BudgetCharge, NEW lim \in LimitSets, ~Known(req.id), ChargeLimits(req, lim)
  PROVE  RateInv(p, w)'
<1>0. /\ RateObjects(p, w) /\ OpenWindow(w) /\ ClosedWindows(p, w) /\ DOMAIN rate = Tasks
      /\ now' = now /\ now \in Nat /\ req.task \in Tasks /\ req.callN \in Nat /\ lim.rate # None
      /\ req.id \notin DOMAIN idem
  <2>1. now' = now /\ req.id \notin DOMAIN idem
    BY ChargedRecords
  <2>2. DOMAIN rate = Tasks /\ now \in Nat
    BY TimeAssumption DEF StoreInv, ObjectsOK
  <2> QED
    BY <2>1, <2>2, ChargeFields DEF RateInv, SameRate
<1>1. PICK after, fits : /\ after = RateCharged(req, lim).object
                         /\ fits = RateCharged(req, lim).fits
  OBVIOUS
<1>2. /\ after.limit = p /\ after.window = w /\ Len(after.times) <= p /\ after.times \in Seq(Nat)
      /\ \A h \in Int : h >= now - w =>
           Cardinality(Later(rate[req.task].times, h))
             + (IF fits /\ now > h THEN req.callN ELSE 0)
           <= Cardinality(Later(after.times, h))
  BY <1>0, <1>1, ChargedRate
<1>3. /\ rate' = rate \/ rate' = [rate EXCEPT ![req.task] = after]
      /\ Fits(req, lim) => rate' = [rate EXCEPT ![req.task] = after] /\ fits
  BY <1>0, <1>1 DEF ChargeLimits, Fits, RateFits
<1>4. RateObjects(p, w)'
  BY <1>0, <1>2, <1>3 DEF RateObjects
<1>5. OpenWindow(w)'
  <2> SUFFICES ASSUME NEW t \in Tasks, NEW h \in Int, h >= now - w
               PROVE  SumOf(CallsOf', GrantsAfter(t, h)') <= Cardinality(Later(rate'[t].times, h))
    BY <1>0 DEF OpenWindow
  <2>1. PICK A, B : A = GrantsAfter(t, h) /\ B = GrantsAfter(t, h)'
    OBVIOUS
  <2>2. A \subseteq DOMAIN idem
    BY <2>1 DEF GrantsAfter, GrantsOf
  <2>3. SumOf(CallsOf, A) \in Nat /\ SumOf(CallsOf', A) = SumOf(CallsOf, A)
    BY <2>2, SomeGrants, ChargedSome
  <2>4. /\ SumOf(CallsOf, A) <= Cardinality(Later(rate[t].times, h))
        /\ Cardinality(Later(rate[t].times, h)) \in Nat
    <3>1. rate[t].times \in Seq(Nat)
      BY TimeAssumption DEF StoreInv, ObjectsOK, RateOK
    <3> QED
      BY <1>0, <2>1, <3>1, LaterFinite DEF OpenWindow
  <2>5. Cardinality(Later(after.times, h)) \in Nat
    BY <1>2, LaterFinite
  <2>6. Cardinality(Later(rate[t].times, h)) <= Cardinality(Later(rate'[t].times, h))
    <3>1. CASE rate'[t] = rate[t]
      BY <2>4, <3>1
    <3>2. CASE rate'[t] = after /\ t = req.task
      BY <1>0, <1>2, <2>4, <2>5, <3>2, SMTT(30)
    <3> QED
      BY <1>0, <1>3, <3>1, <3>2
  <2>7. Cardinality(Later(rate'[t].times, h)) \in Nat
    BY <1>0, <1>3, <2>4, <2>5
  <2>8. CASE B = A
    BY <2>1, <2>3, <2>4, <2>6, <2>7, <2>8
  <2>9. CASE B = A \cup {req.id} /\ Fits(req, lim) /\ t = req.task /\ now > h
    <3>1. SumOf(CallsOf', B) = SumOf(CallsOf, A) + req.callN
      BY <2>2, <2>9, ChargedSome
    <3>2. rate'[t] = after /\ fits
      BY <1>0, <1>3, <2>9
    <3>3. Cardinality(Later(rate[t].times, h)) + req.callN <= Cardinality(Later(after.times, h))
      BY <1>2, <2>9, <3>2
    <3> QED
      BY <1>0, <2>1, <2>3, <2>4, <2>5, <3>1, <3>2, <3>3
  <2>10. B = A \/ (B = A \cup {req.id} /\ Fits(req, lim) /\ t = req.task /\ now > h)
    <3>1. CASE ~Fits(req, lim)
      BY <2>1, <3>1, ChargedRecords DEF GrantsAfter, GrantsOf
    <3>2. CASE Fits(req, lim)
      <4>1. /\ DOMAIN idem' = DOMAIN idem \cup {req.id}
            /\ idem'[req.id].req.task = req.task /\ idem'[req.id].at = now
            /\ \A id \in DOMAIN idem : idem'[id] = idem[id]
        BY <3>2, ChargedRecords
      <4>2. CASE t = req.task /\ now > h
        <5>1. B = A \cup {req.id}
          BY <1>0, <2>1, <4>1, <4>2 DEF GrantsAfter, GrantsOf
        <5> QED
          BY <3>2, <4>2, <5>1
      <4>3. CASE ~(t = req.task /\ now > h)
        BY <1>0, <2>1, <4>1, <4>3 DEF GrantsAfter, GrantsOf
      <4> QED
        BY <4>2, <4>3
    <3> QED
      BY <3>1, <3>2
  <2> QED
    BY <2>8, <2>9, <2>10
<1>6. ClosedWindows(p, w)'
  <2> SUFFICES ASSUME NEW t \in Tasks, NEW end \in 0 .. MaxTime, end < now
               PROVE  SumOf(CallsOf', GrantsIn(t, end - w, end)') <= p
    BY <1>0 DEF ClosedWindows
  <2>1. PICK A, B : A = GrantsIn(t, end - w, end) /\ B = GrantsIn(t, end - w, end)'
    OBVIOUS
  <2>2. A \subseteq DOMAIN idem
    BY <2>1 DEF GrantsIn, GrantsOf
  <2>3. B = A
    <3>1. CASE ~Fits(req, lim)
      BY <2>1, <3>1, ChargedRecords DEF GrantsIn, GrantsOf
    <3>2. CASE Fits(req, lim)
      <4>1. /\ DOMAIN idem' = DOMAIN idem \cup {req.id} /\ idem'[req.id].at = now
            /\ \A id \in DOMAIN idem : idem'[id] = idem[id]
        BY <3>2, ChargedRecords
      <4>2. ~(now <= end)
        BY <1>0, TimeAssumption
      <4> QED
        BY <1>0, <2>1, <4>1, <4>2 DEF GrantsIn, GrantsOf
    <3> QED
      BY <3>1, <3>2
  <2>4. SumOf(CallsOf', A) = SumOf(CallsOf, A)
    BY <2>2, ChargedSome
  <2>5. SumOf(CallsOf, A) <= p
    BY <1>0, <2>1 DEF ClosedWindows
  <2> QED
    BY <2>1, <2>3, <2>4, <2>5
<1> QED
  BY <1>4, <1>5, <1>6 DEF RateInv

\* The window that ends now holds no more than the limit.
LEMMA WindowNow ==
  ASSUME StoreInv, NEW p \in Nat, NEW w \in Nat, RateInv(p, w), NEW t \in Tasks, NEW h \in Int,
         h >= now - w
  PROVE  SumOf(CallsOf, GrantsAfter(t, h)) \in Nat /\ SumOf(CallsOf, GrantsAfter(t, h)) <= p
<1>1. rate[t].times \in Seq(Nat)
  BY TimeAssumption DEF StoreInv, ObjectsOK, RateOK
<1>2. /\ SumOf(CallsOf, GrantsAfter(t, h)) <= Cardinality(Later(rate[t].times, h))
      /\ Len(rate[t].times) <= p
  BY DEF RateInv, RateObjects, OpenWindow
<1>3. /\ Cardinality(Later(rate[t].times, h)) \in Nat /\ Len(rate[t].times) \in Nat
      /\ Cardinality(Later(rate[t].times, h)) <= Len(rate[t].times)
  BY <1>1, LaterFinite, LenProperties
<1>4. GrantsAfter(t, h) \subseteq DOMAIN idem
  BY DEF GrantsAfter, GrantsOf
<1>5. SumOf(CallsOf, GrantsAfter(t, h)) \in Nat
  BY <1>4, SomeGrants
<1> QED
  BY <1>2, <1>3, <1>5

\* Every window, closed or not, is within the limit.
LEMMA EveryWindow ==
  ASSUME StoreInv, NEW p \in Nat, NEW w \in Nat, RateInv(p, w), NEW t \in Tasks,
         NEW end \in 0 .. MaxTime
  PROVE  SumOf(CallsOf, GrantsIn(t, end - w, end)) <= p
<1>0. now \in Nat /\ end \in Nat /\ end - w \in Int
  BY TimeAssumption DEF StoreInv, ObjectsOK
<1>1. CASE end < now
  BY <1>1 DEF RateInv, ClosedWindows
<1>2. CASE end >= now
  <2>1. PICK h \in Int : h = end - w
    BY <1>0
  <2>2. \A id \in DOMAIN idem : idem[id].at \in Nat /\ idem[id].at <= end
    <3>1. \A id \in DOMAIN idem : idem[id].at \in Nat /\ idem[id].at <= now
      BY TimeAssumption DEF StoreInv, RecordsOK
    <3> QED
      BY <1>0, <1>2, <3>1
  <2>3. GrantsIn(t, h, end) = GrantsAfter(t, h)
    BY <1>0, <2>1, <2>2 DEF GrantsIn, GrantsAfter, GrantsOf
  <2>4. h >= now - w
    BY <1>0, <1>2, <2>1
  <2> QED
    BY <2>1, <2>3, <2>4, WindowNow
<1> QED
  BY <1>0, <1>1, <1>2

LEMMA RateNext ==
  ASSUME StoreInv, NEW p \in Nat, NEW w \in Nat, SameRate(p, w), p # None, RateInv(p, w), StoreStep
  PROVE  RateInv(p, w)'
<1>1. ASSUME NEW req \in BudgetCharge, NEW lim \in LimitSets, Charge(req, lim), ~Known(req.id)
      PROVE  RateInv(p, w)'
  BY <1>1, ChargedWindows DEF Charge
<1>2. CASE UNCHANGED <<idem, rate, now>>
  <2>1. /\ CallsOf' = CallsOf /\ \A t, h : GrantsAfter(t, h)' = GrantsAfter(t, h)
        /\ \A t, a, b : GrantsIn(t, a, b)' = GrantsIn(t, a, b)
    BY <1>2 DEF CallsOf, GrantsAfter, GrantsIn, GrantsOf
  <2>2. RateObjects(p, w)'
    BY <1>2 DEF RateInv, RateObjects
  <2>3. OpenWindow(w)'
    BY <1>2, <2>1 DEF RateInv, OpenWindow
  <2>4. ClosedWindows(p, w)'
    BY <1>2, <2>1 DEF RateInv, ClosedWindows
  <2> QED
    BY <2>2, <2>3, <2>4 DEF RateInv
<1>3. CASE Tick
  <2>1. now' = now + 1 /\ UNCHANGED <<idem, rate>> /\ now \in Nat
    BY <1>3, TimeAssumption DEF Tick, perTask, StoreInv, ObjectsOK
  <2>2. /\ CallsOf' = CallsOf /\ \A t, h : GrantsAfter(t, h)' = GrantsAfter(t, h)
        /\ \A t, a, b : GrantsIn(t, a, b)' = GrantsIn(t, a, b)
    BY <2>1 DEF CallsOf, GrantsAfter, GrantsIn, GrantsOf
  <2>3. RateObjects(p, w)'
    BY <2>1 DEF RateInv, RateObjects
  <2>4. OpenWindow(w)'
    <3>1. \A h \in Int : h >= now' - w => h >= now - w
      BY <2>1
    <3> QED
      BY <2>1, <2>2, <3>1 DEF RateInv, OpenWindow
  <2>5. ClosedWindows(p, w)'
    <3>1. \A t \in Tasks : \A end \in 0 .. MaxTime :
            SumOf(CallsOf, GrantsIn(t, end - w, end)) <= p
      BY EveryWindow
    <3> QED
      BY <2>2, <3>1 DEF ClosedWindows
  <2> QED
    BY <2>3, <2>4, <2>5 DEF RateInv
<1>4. \/ \E req \in BudgetCharge, lim \in LimitSets : Charge(req, lim) /\ ~Known(req.id)
      \/ Tick \/ UNCHANGED <<idem, rate, now>>
  BY DEF StoreStep, Charge, ReleaseConcurrency, storeVars, perTask
<1> QED
  BY <1>1, <1>2, <1>3, <1>4

\* When the callers of a task charge with the same rate limit, no window of it
\* sees more granted calls than the limit, wherever the window starts: a refused
\* or a retried charge, and one that fills the window in part, included.
THEOREM GrantRateSafe ==
  ASSUME NEW p \in Nat, NEW w \in Nat, SameRate(p, w)
  PROVE  Spec => []GrantsWithinRate
<1>0. p # None
  BY DEF None
<1>1. Init => RateInv(p, w)
  BY RateStart DEF Init
<1>2. StoreInv /\ QuotaTypes /\ RateInv(p, w) /\ [Next]_vars => RateInv(p, w)'
  BY <1>0, StoreSteps, RateNext
<1>3. StoreInv /\ RateInv(p, w) => GrantsWithinRate
  <2> SUFFICES ASSUME StoreInv, RateInv(p, w), NEW t \in Tasks, NEW lim \in LimitSets,
                      NEW end \in 0 .. MaxTime, lim.rate # None
               PROVE  SumOf(CallsOf, {id \in GrantsOf(t) : end - lim.window < idem[id].at
                                                           /\ idem[id].at <= end}) <= lim.rate
    BY DEF GrantsWithinRate
  <2>1. lim.rate = p /\ lim.window = w
    BY DEF SameRate
  <2> QED
    BY <2>1, EveryWindow DEF GrantsIn
<1> QED
  BY <1>1, <1>2, <1>3, TypesHold, PTL DEF Spec
=============================================================================
