---------------------------- MODULE EnginesProofs ----------------------------
(***************************************************************************)
(* Theorems about Engines: an envelope is accepted once, a request is      *)
(* booked once, the accounts are exact, the grants within the limits and   *)
(* the tables typed, whatever database the stores have, for any number of  *)
(* callers, tasks, charges, nonces and times.                              *)
(***************************************************************************)
EXTENDS Engines, Lemmas

-----------------------------------------------------------------------------
(* What a step leaves alone                                                *)

Outside == {"idle", "called", "looked", "read"}
Stages == Outside \cup {"spending", "met", "expired"}

\* A worker that charges has nothing to do with nonces, and its clock is not
\* ahead.
LEMMA ChargingFrame ==
  ASSUME NEW w \in Workers, Charging(w), at \in [Workers -> Stages], stamp \in [Workers -> Nat],
         now \in Nat
  PROVE  /\ engine' = engine /\ now' = now
         /\ at' \in [Workers -> Stages] /\ stamp' \in [Workers -> Nat]
         /\ at[w] \in Outside /\ at'[w] \in Outside
         /\ \A v \in Workers \ {w} : at'[v] = at[v] /\ stamp'[v] = stamp[v]
         /\ stamp'[w] \in {0, now, stamp[w]}
<1>1. CASE \E j \in Jobs : BeginCharge(w, j)
  BY <1>1 DEF BeginCharge, Outside, Stages
<1>2. CASE Script(w)
  BY <1>2 DEF Script, Return, Outside, Stages
<1>3. CASE LookUp(w)
  BY <1>3 DEF LookUp, Return, Stage, Outside, Stages
<1>4. CASE ReadRow(w)
  BY <1>4 DEF ReadRow, Stage, Outside, Stages
<1>5. CASE Commit(w)
  BY <1>5 DEF Commit, Return, Outside, Stages
<1>6. CASE RollBack(w)
  BY <1>6 DEF RollBack, Return, Outside, Stages, InTransaction
<1> QED
  BY <1>1, <1>2, <1>3, <1>4, <1>5, <1>6 DEF Charging

-----------------------------------------------------------------------------
(* Nonces                                                                  *)

\* The largest of two numbers.
LEMMA MaxOfTwo ==
  ASSUME NEW a \in Int, NEW b \in Int
  PROVE  Max({a, b}) \in Int /\ Max({a, b}) >= a /\ Max({a, b}) >= b
<1>1. \E x \in {a, b} : \A y \in {a, b} : x >= y
  OBVIOUS
<1> QED
  BY <1>1 DEF Max

\* The time to live that Redis is given reaches the end of the window, although
\* it is counted in whole seconds (int(expires_at - now) + 1).
LEMMA TtlReaches ==
  ASSUME NEW n \in Nonces, NEW ts \in Nat
  PROVE  Ttl(n, ts) \in Int /\ ts + Ttl(n, ts) > ExpiresAt[n]
<1> DEFINE d == ExpiresAt[n] - ts
           q == d \div Second
           m == Max({1, q + 1})
<1>1. Second \in Nat \ {0} /\ d \in Int /\ q \in Int
  BY EnginesAssumption
<1>2. Second * q <= d /\ d < Second * q + Second
  BY <1>1
<1> HIDE DEF q
<1>3. m \in Int /\ m >= q + 1
  BY <1>1, MaxOfTwo
<1> HIDE DEF m
<1>4. Second * m \in Int /\ Second * m >= Second * (q + 1)
  BY <1>1, <1>3
<1>5. Second * (q + 1) = Second * q + Second
  BY <1>1
<1>6. Second * m > d
  BY <1>1, <1>2, <1>4, <1>5
<1>7. Ttl(n, ts) = Second * m
  BY DEF Ttl, m, q
<1> QED
  BY <1>4, <1>6, <1>7, EnginesAssumption

\* A record is made to last until its envelope's window ends.
LEMMA UntilReaches ==
  ASSUME NEW n \in Nonces, NEW ts \in Nat, now \in Nat, ts <= now
  PROVE  Until(n, ts) \in Int /\ Until(n, ts) >= ExpiresAt[n]
BY TtlReaches, EnginesAssumption DEF Until

\* A nonce whose envelope may still be accepted is on record.
OnRecord(n) == n \in DOMAIN nonces \/ now >= ExpiresAt[n]

NonceTypes ==
  /\ engine \in Engines /\ now \in Nat /\ at \in [Workers -> Stages] /\ stamp \in [Workers -> Nat]
  /\ spending \in [Workers -> {NoNonce} \cup Nonces]
  /\ accepted \in [Nonces -> Nat]

NonceInv ==
  /\ NonceTypes
  /\ \A n \in DOMAIN nonces : n \in Nonces /\ nonces[n] \in Int /\ nonces[n] >= ExpiresAt[n]
  /\ \A n \in Nonces : accepted[n] = 0 \/ (accepted[n] = 1 /\ OnRecord(n))
  /\ \A w \in Workers :
       /\ stamp[w] <= now
       /\ at[w] \notin Outside => spending[w] \in Nonces
       /\ at[w] = "met" => engine = "dynamo" /\ OnRecord(spending[w])
       /\ at[w] = "expired" => now >= ExpiresAt[spending[w]]

\* What a store still has when it looks: every record that is live.
LEMMA KeptRecords ==
  ASSUME NonceInv, NEW ts \in Nat, ts <= now, NEW kept \in Kept(ts)
  PROVE  /\ \A n \in DOMAIN kept : n \in DOMAIN nonces /\ kept[n] = nonces[n]
         /\ \A n \in Nonces : OnRecord(n) => n \in DOMAIN kept \/ now >= ExpiresAt[n]
         /\ engine = "dynamo" => kept = nonces
<1>1. ASSUME NEW time \in Nat, time <= now
      PROVE  /\ \A n \in DOMAIN After(nonces, time) :
                  n \in DOMAIN nonces /\ After(nonces, time)[n] = nonces[n]
             /\ \A n \in Nonces : OnRecord(n) =>
                  n \in DOMAIN After(nonces, time) \/ now >= ExpiresAt[n]
  BY <1>1, EnginesAssumption DEF After, OnRecord, NonceInv, NonceTypes
<1>2. kept \in {After(nonces, now), After(nonces, ts), nonces}
  BY EnginesAssumption DEF Kept, SqlEngines, BudgetEngines, NonceEngines, NonceInv, NonceTypes
<1>3. engine = "dynamo" => kept = nonces
  BY DEF Kept, SqlEngines, BudgetEngines
<1> QED
  BY <1>1, <1>2, <1>3 DEF NonceInv, NonceTypes, OnRecord

RecordsOK == \A n \in DOMAIN nonces : n \in Nonces /\ nonces[n] \in Int /\ nonces[n] >= ExpiresAt[n]

\* An answer is in order if no record of a live envelope was lost for it, and
\* if a yes was given where there was no record and left one.
LEMMA AnsweredNext ==
  ASSUME NonceInv, NEW w \in Workers, at[w] \notin Outside,
         NEW fresh \in BOOLEAN, Answered(w, fresh), RecordsOK',
         \A n \in Nonces : OnRecord(n) => OnRecord(n)',
         fresh => ~OnRecord(spending[w]) \/ now >= ExpiresAt[spending[w]],
         fresh => spending[w] \in DOMAIN nonces' \/ now' >= ExpiresAt[spending[w]]
  PROVE  NonceInv'
<1> DEFINE n == spending[w]
<1>1. n \in Nonces /\ accepted[n] \in Nat
  BY DEF NonceInv, NonceTypes
<1>2. engine' = engine /\ now' = now /\ at' = [at EXCEPT ![w] = "idle"]
      /\ stamp' = [stamp EXCEPT ![w] = 0] /\ spending' = [spending EXCEPT ![w] = NoNonce]
  BY DEF Answered, Unspent
<1>3. NonceTypes'
  BY <1>1, <1>2 DEF NonceInv, NonceTypes, Answered, Outside, Stages
<1>4. ASSUME NEW k \in Nonces
      PROVE  accepted'[k] = 0 \/ (accepted'[k] = 1 /\ OnRecord(k)')
  <2>1. accepted[k] = 0 \/ (accepted[k] = 1 /\ OnRecord(k))
    BY DEF NonceInv
  <2>2. CASE accepted'[k] = accepted[k]
    BY <2>1, <2>2
  <2>3. CASE fresh /\ now < ExpiresAt[n] /\ k = n
    <3>1. accepted'[n] = accepted[n] + 1
      BY <1>1, <2>3 DEF Answered, NonceInv, NonceTypes
    <3>2. ~OnRecord(n)
      BY <1>1, <2>3, EnginesAssumption DEF NonceInv, NonceTypes
    <3>3. OnRecord(k)'
      BY <2>3, <1>2 DEF OnRecord
    <3> QED
      BY <2>1, <2>3, <3>1, <3>2, <3>3
  <2> QED
    BY <2>2, <2>3, <1>1 DEF Answered, NonceInv, NonceTypes
<1>5. ASSUME NEW v \in Workers
      PROVE  /\ stamp'[v] <= now'
             /\ at'[v] \notin Outside => spending'[v] \in Nonces
             /\ at'[v] = "met" => engine' = "dynamo" /\ OnRecord(spending[v])'
             /\ at'[v] = "met" => spending'[v] = spending[v]
             /\ at'[v] = "expired" => now' >= ExpiresAt[spending'[v]]
  <2>1. CASE v = w
    BY <1>2, <2>1 DEF NonceInv, NonceTypes, Outside
  <2>2. CASE v # w
    BY <1>2, <2>2 DEF NonceInv, NonceTypes, Outside, OnRecord
  <2> QED
    BY <2>1, <2>2
<1> QED
  BY <1>3, <1>4, <1>5 DEF NonceInv, RecordsOK, OnRecord

\* Storing a nonce, or answering that it is there (spend).
LEMMA PutNext ==
  ASSUME NonceInv, NEW w \in Workers, Put(w)
  PROVE  NonceInv'
<1> DEFINE n == spending[w]
           ts == stamp[w]
<1>1. at[w] = "spending" /\ n \in Nonces /\ ts \in Nat /\ ts <= now /\ now \in Nat
  BY DEF Put, NonceInv, NonceTypes, Outside
<1>2. CASE Overdue(w)
  <2>1. UNCHANGED nonces /\ Answered(w, TRUE) /\ now >= ExpiresAt[n] /\ now' = now
    BY <1>1, <1>2, EnginesAssumption DEF Put, Overdue, Answered, Unspent
  <2> QED
    BY <1>1, <2>1, AnsweredNext DEF NonceInv, RecordsOK, OnRecord, Outside
<1>3. CASE ~Overdue(w)
  <2>1. PICK kept \in Kept(ts) :
          IF n \notin DOMAIN kept
          THEN nonces' = With(kept, n, Until(n, ts)) /\ Answered(w, TRUE)
          ELSE /\ nonces' = kept
               /\ IF engine = "dynamo"
                  THEN /\ at' = [at EXCEPT ![w] = "met"]
                       /\ UNCHANGED <<stamp, spending, spends, accepted>> /\ Unspent
                  ELSE Answered(w, FALSE)
    BY <1>3 DEF Put
  <2>2. /\ \A k \in DOMAIN kept : k \in DOMAIN nonces /\ kept[k] = nonces[k]
        /\ \A k \in Nonces : OnRecord(k) => k \in DOMAIN kept \/ now >= ExpiresAt[k]
        /\ engine = "dynamo" => kept = nonces
    BY <1>1, KeptRecords
  <2>3. now' = now
    BY <2>1 DEF Answered, Unspent
  <2>4. CASE n \notin DOMAIN kept
    <3>1. nonces' = With(kept, n, Until(n, ts)) /\ Answered(w, TRUE)
      BY <2>1, <2>4
    <3>2. DOMAIN nonces' = DOMAIN kept \cup {n} /\ nonces'[n] = Until(n, ts)
          /\ \A k \in DOMAIN kept : nonces'[k] = kept[k]
      BY <2>4, <3>1 DEF With
    <3>3. RecordsOK'
      BY <1>1, <2>2, <3>2, UntilReaches DEF RecordsOK, NonceInv
    <3>4. \A k \in Nonces : OnRecord(k) => OnRecord(k)'
      BY <2>2, <2>3, <3>2 DEF OnRecord
    <3>5. ~OnRecord(n) \/ now >= ExpiresAt[n]
      BY <1>1, <2>2, <2>4
    <3>6. n \in DOMAIN nonces'
      BY <3>2
    <3> QED
      BY <1>1, <3>1, <3>3, <3>4, <3>5, <3>6, AnsweredNext DEF Outside
  <2>5. CASE n \in DOMAIN kept
    <3>1. nonces' = kept
      BY <2>1, <2>5
    <3>2. RecordsOK'
      BY <2>2, <3>1 DEF RecordsOK, NonceInv
    <3>3. \A k \in Nonces : OnRecord(k) => OnRecord(k)'
      BY <2>2, <2>3, <3>1 DEF OnRecord
    <3>4. CASE engine = "dynamo"
      <4>1. /\ at' = [at EXCEPT ![w] = "met"]
            /\ UNCHANGED <<stamp, spending, accepted, engine>> /\ nonces' = nonces
        BY <2>1, <2>2, <2>5, <3>4 DEF Unspent
      <4>2. OnRecord(n)
        BY <2>2, <2>5 DEF OnRecord
      <4>3. \A v \in Workers : at'[v] = IF v = w THEN "met" ELSE at[v]
        BY <4>1 DEF NonceInv, NonceTypes
      <4>4. at' \in [Workers -> Stages]
        BY <4>1 DEF NonceInv, NonceTypes, Stages
      <4> QED
        BY <1>1, <2>3, <3>4, <4>1, <4>2, <4>3, <4>4 DEF NonceInv, NonceTypes, OnRecord, Outside
    <3>5. CASE engine # "dynamo"
      BY <1>1, <2>1, <2>5, <3>2, <3>3, <3>5, AnsweredNext DEF Outside
    <3> QED
      BY <3>4, <3>5
  <2> QED
    BY <2>4, <2>5
<1> QED
  BY <1>2, <1>3

\* The second look of the DynamoDB store.
LEMMA InspectNext ==
  ASSUME NonceInv, NEW w \in Workers, Inspect(w)
  PROVE  NonceInv'
<1> DEFINE n == spending[w]
<1>1. at[w] = "met" /\ n \in Nonces /\ OnRecord(n) /\ now' = now /\ now \in Nat /\ nonces' = nonces
  BY DEF Inspect, Answered, Unspent, NonceInv, NonceTypes, Outside
<1>2. CASE n \notin DOMAIN nonces
  <2>1. Answered(w, TRUE) /\ now >= ExpiresAt[n]
    BY <1>1, <1>2 DEF Inspect, OnRecord
  <2> QED
    BY <1>1, <2>1, AnsweredNext DEF NonceInv, RecordsOK, OnRecord, Outside
<1>3. CASE n \in DOMAIN nonces /\ nonces[n] <= now
  <2>1. /\ at' = [at EXCEPT ![w] = "expired"]
        /\ UNCHANGED <<stamp, spending, accepted, engine>>
    BY <1>3 DEF Inspect, Unspent
  <2>2. now >= ExpiresAt[n]
    BY <1>1, <1>3, EnginesAssumption DEF NonceInv
  <2>3. \A v \in Workers : at'[v] = IF v = w THEN "expired" ELSE at[v]
    BY <2>1 DEF NonceInv, NonceTypes
  <2>4. at' \in [Workers -> Stages]
    BY <2>1 DEF NonceInv, NonceTypes, Stages
  <2> QED
    BY <1>1, <2>1, <2>2, <2>3, <2>4 DEF NonceInv, NonceTypes, OnRecord, Outside
<1>4. CASE n \in DOMAIN nonces /\ ~(nonces[n] <= now)
  <2>1. Answered(w, FALSE)
    BY <1>4 DEF Inspect
  <2> QED
    BY <1>1, <2>1, AnsweredNext DEF NonceInv, RecordsOK, OnRecord, Outside
<1> QED
  BY <1>2, <1>3, <1>4

\* Its second put, over a record that has expired: the nonce is dead by then.
LEMMA OverwriteNext ==
  ASSUME NonceInv, NEW w \in Workers, Overwrite(w)
  PROVE  NonceInv'
<1> DEFINE n == spending[w]
<1>1. /\ at[w] = "expired" /\ n \in Nonces /\ now >= ExpiresAt[n] /\ now' = now /\ now \in Nat
      /\ nonces' = With(nonces, n, ExpiresAt[n]) /\ Answered(w, TRUE)
  BY DEF Overwrite, Answered, Unspent, NonceInv, NonceTypes, Outside
<1>2. DOMAIN nonces' = DOMAIN nonces \cup {n} /\ nonces'[n] = ExpiresAt[n]
      /\ \A k \in DOMAIN nonces \ {n} : nonces'[k] = nonces[k]
  BY <1>1 DEF With
<1>3. RecordsOK'
  BY <1>1, <1>2, EnginesAssumption DEF RecordsOK, NonceInv
<1>4. \A k \in Nonces : OnRecord(k) => OnRecord(k)'
  BY <1>1, <1>2 DEF OnRecord
<1> QED
  BY <1>1, <1>2, <1>3, <1>4, AnsweredNext DEF Outside

\* A spend that fails, before or after it has stored the nonce.
LEMMA SpendFailsNext ==
  ASSUME NonceInv, NEW w \in Workers, SpendFails(w)
  PROVE  NonceInv'
<1> DEFINE n == spending[w]
           ts == stamp[w]
<1>1. at[w] \notin Outside /\ n \in Nonces /\ ts \in Nat /\ ts <= now
      /\ now' = now /\ now \in Nat /\ Answered(w, FALSE)
  BY DEF SpendFails, Answered, Unspent, NonceInv, NonceTypes, Outside
<1>2. CASE nonces' = nonces
  BY <1>1, <1>2, AnsweredNext DEF NonceInv, RecordsOK, OnRecord
<1>3. ASSUME NEW until \in {Until(n, ts), ExpiresAt[n]}, nonces' = With(nonces, n, until)
      PROVE  NonceInv'
  <2>1. DOMAIN nonces' = DOMAIN nonces \cup {n} /\ nonces'[n] = until
        /\ \A k \in DOMAIN nonces \ {n} : nonces'[k] = nonces[k]
    BY <1>3 DEF With
  <2>2. until \in Int /\ until >= ExpiresAt[n]
    BY <1>1, <1>3, UntilReaches, EnginesAssumption
  <2>3. RecordsOK'
    BY <1>1, <2>1, <2>2 DEF RecordsOK, NonceInv
  <2>4. \A k \in Nonces : OnRecord(k) => OnRecord(k)'
    BY <1>1, <2>1 DEF OnRecord
  <2> QED
    BY <1>1, <2>3, <2>4, AnsweredNext
<1> QED
  BY <1>2, <1>3 DEF SpendFails

\* Every step keeps the invariant.
LEMMA NonceNext == NonceInv /\ [Next]_vars => NonceInv'
<1> SUFFICES ASSUME NonceInv, [Next]_vars PROVE NonceInv'
  OBVIOUS
<1>1. CASE \E w \in Workers : Charging(w) /\ UNCHANGED nonceVars
  <2>1. PICK w \in Workers : Charging(w) /\ UNCHANGED nonceVars
    BY <1>1
  <2>2. /\ engine' = engine /\ now' = now
        /\ at' \in [Workers -> Stages] /\ stamp' \in [Workers -> Nat]
        /\ at[w] \in Outside /\ at'[w] \in Outside
        /\ \A v \in Workers \ {w} : at'[v] = at[v] /\ stamp'[v] = stamp[v]
        /\ stamp'[w] \in {0, now, stamp[w]}
    BY <2>1, ChargingFrame DEF NonceInv, NonceTypes
  <2>3. \A v \in Workers : stamp'[v] <= now /\ (at'[v] \notin Outside => at'[v] = at[v])
    BY <2>2 DEF NonceInv, NonceTypes
  <2> QED
    BY <2>1, <2>2, <2>3 DEF NonceInv, NonceTypes, OnRecord, nonceVars, Outside
<1>2. CASE \E w \in Workers : Spending(w)
  <2>1. PICK w \in Workers : Spending(w)
    BY <1>2
  <2>2. ASSUME NEW n \in Nonces, BeginSpend(w, n) PROVE NonceInv'
    <3>1. UNCHANGED <<engine, now, nonces, accepted>>
      BY <2>2 DEF BeginSpend, Unspent
    <3>2. NonceTypes'
      BY <2>2, <3>1 DEF BeginSpend, NonceInv, NonceTypes, Stages
    <3>3. \A v \in Workers :
            IF v = w THEN at'[v] = "spending" /\ stamp'[v] = now /\ spending'[v] = n
            ELSE at'[v] = at[v] /\ stamp'[v] = stamp[v] /\ spending'[v] = spending[v]
      BY <2>2 DEF BeginSpend, NonceInv, NonceTypes
    <3> QED
      BY <3>1, <3>2, <3>3 DEF NonceInv, NonceTypes, OnRecord
  <2> QED
    BY <2>1, <2>2, PutNext, InspectNext, OverwriteNext, SpendFailsNext DEF Spending
<1>3. CASE Releasing /\ UNCHANGED nonceVars
  BY <1>3 DEF Releasing, Release, nonceVars, NonceInv, NonceTypes, OnRecord
<1>4. CASE \E n \in Nonces : Expire(n)
  <2>1. PICK n \in Nonces : Expire(n)
    BY <1>4
  <2>2. DOMAIN nonces' = DOMAIN nonces \ {n} /\ now >= ExpiresAt[n] /\ now' = now
        /\ \A k \in DOMAIN nonces' : nonces'[k] = nonces[k]
    BY <2>1, EnginesAssumption DEF Expire, tableVars, NonceInv, NonceTypes
  <2>3. UNCHANGED <<engine, now, at, stamp, spending, accepted>>
    BY <2>1 DEF Expire, tableVars
  <2>4. \A k \in Nonces : OnRecord(k) => OnRecord(k)'
    BY <2>2 DEF OnRecord
  <2> QED
    BY <2>2, <2>3, <2>4 DEF NonceInv, NonceTypes, OnRecord, Outside
<1>5. CASE Tick
  <2>1. \A k \in Nonces : OnRecord(k) => OnRecord(k)'
    BY <1>5, EnginesAssumption DEF Tick, nonceVars, NonceInv, NonceTypes, OnRecord
  <2>2. now' \in Nat /\ \A w \in Workers : stamp[w] <= now'
    BY <1>5 DEF Tick, NonceInv, NonceTypes
  <2>3. \A w \in Workers : at[w] = "expired" => now' >= ExpiresAt[spending[w]]
    BY <1>5, EnginesAssumption DEF Tick, NonceInv, NonceTypes, Outside
  <2> QED
    BY <1>5, <2>1, <2>2, <2>3 DEF Tick, nonceVars, NonceInv, NonceTypes, OnRecord, Outside
<1>6. CASE UNCHANGED vars
  BY <1>6 DEF vars, tableVars, nonceVars, NonceInv, NonceTypes, OnRecord
<1> QED
  BY <1>1, <1>2, <1>3, <1>4, <1>5, <1>6 DEF Next

\* An envelope is accepted once in its window by the agents that share a store,
\* for any store, number of agents and nonces, windows and clock
\* (NonceStore.spend).
THEOREM NonceSafe == Spec => []NonceSpentOnce
<1>1. Init => NonceInv
  BY EnginesAssumption DEF Init, TablesInit, NoncesInit, NonceInv, NonceTypes, Outside, Stages
<1>2. NonceInv => NonceSpentOnce
  BY DEF NonceInv, NonceTypes, NonceSpentOnce
<1> QED
  BY <1>1, <1>2, NonceNext, PTL DEF Spec

-----------------------------------------------------------------------------
(* Requests                                                                *)

IsSeq(s) == \E S : s \in Seq(S)

\* A sequence with one element more.
LEMMA AppendOne ==
  ASSUME NEW s, IsSeq(s), NEW x
  PROVE  /\ IsSeq(Append(s, x)) /\ DOMAIN Append(s, x) = DOMAIN s \cup {Len(s) + 1}
         /\ DOMAIN s = 1..Len(s) /\ Len(s) \in Nat
         /\ Append(s, x)[Len(s) + 1] = x
         /\ \A i \in DOMAIN s : Append(s, x)[i] = s[i]
<1>1. PICK S : s \in Seq(S)
  BY DEF IsSeq
<1> DEFINE T == S \cup {x}
<1>2. s \in Seq(T) /\ x \in T
  BY <1>1, SeqMonotonic
<1> HIDE DEF T
<1>3. Append(s, x) \in Seq(T) /\ Len(Append(s, x)) = Len(s) + 1 /\ Len(s) \in Nat
      /\ Append(s, x)[Len(s) + 1] = x
      /\ \A i \in 1..Len(s) : Append(s, x)[i] = s[i]
  BY <1>2, AppendProperties, LenProperties
<1>4. DOMAIN s = 1..Len(s) /\ DOMAIN Append(s, x) = 1..(Len(s) + 1)
  BY <1>2, <1>3, LenProperties
<1> QED
  BY <1>3, <1>4 DEF IsSeq

\* The record of a request that was booked: SQL keeps it, Redis for a time.
OnFile(g) ==
  /\ g.at \in Nat /\ g.at <= now
  /\ IdemKey(g.req) \in DOMAIN idem
  /\ engine = "redis" => idem[IdemKey(g.req)].until >= g.at + IdemTtl

RequestInv ==
  /\ engine \in Engines /\ now \in Nat /\ at \in [Workers -> Stages] /\ IsSeq(grants)
  /\ engine = "redis" => \A key \in DOMAIN idem : idem[key].until \in Int
  /\ \A i \in DOMAIN grants : OnFile(grants[i])
  /\ \A w \in Workers : InTransaction(w) => engine \in SqlEngines
  /\ RequestsBookedOnce

\* Booking a request that is not on file, or no longer.
LEMMA BookingNext ==
  ASSUME RequestInv, NEW req, NEW record,
         engine' = engine, now' = now, at' \in [Workers -> Stages],
         \A w \in Workers : InTransaction(w)' => engine \in SqlEngines,
         grants' = Append(grants, [req |-> req, at |-> now]),
         idem' = With(idem, IdemKey(req), record),
         engine = "redis" => record.until = now + IdemTtl,
         IdemKey(req) \in DOMAIN idem => engine = "redis" /\ idem[IdemKey(req)].until <= now
  PROVE  RequestInv'
<1> DEFINE g == [req |-> req, at |-> now]
<1>0. PICK k : k = Len(grants) + 1
  OBVIOUS
<1>1. /\ IsSeq(grants)' /\ DOMAIN grants' = DOMAIN grants \cup {k}
      /\ DOMAIN grants = 1..Len(grants) /\ Len(grants) \in Nat
      /\ grants'[k] = g /\ \A i \in DOMAIN grants : grants'[i] = grants[i]
  BY <1>0, AppendOne DEF RequestInv
<1>2. /\ DOMAIN idem' = DOMAIN idem \cup {IdemKey(req)} /\ idem'[IdemKey(req)] = record
      /\ \A key \in DOMAIN idem \ {IdemKey(req)} : idem'[key] = idem[key]
  BY DEF With
<1>3. IdemTtl \in Nat /\ now \in Nat
  BY EnginesAssumption DEF RequestInv
<1>4. g.req = req /\ g.at = now
  OBVIOUS
<1> HIDE DEF g
<1>5. OnFile(grants[k])'
  <2>1. IdemKey(grants[k].req)' = IdemKey(req)
    BY <1>1, <1>4 DEF IdemKey
  <2> QED
    BY <1>1, <1>2, <1>3, <1>4, <2>1 DEF OnFile
<1>6. ASSUME NEW i \in DOMAIN grants PROVE OnFile(grants[i])'
  <2>1. OnFile(grants[i]) /\ grants'[i] = grants[i]
    BY <1>1 DEF RequestInv
  <2>2. IdemKey(grants[i].req)' = IdemKey(grants[i].req)
    BY <2>1 DEF IdemKey
  <2>3. engine = "redis" => idem'[IdemKey(grants[i].req)].until >= grants[i].at + IdemTtl
    BY <1>2, <1>3, <2>1 DEF OnFile
  <2> QED
    BY <1>2, <2>1, <2>2, <2>3 DEF OnFile
\* What was booked under the same key was on file, and its record has lapsed.
<1>7. ASSUME NEW i \in DOMAIN grants, IdemKey(grants[i].req) = IdemKey(req)
      PROVE  engine = "redis" /\ now - grants[i].at >= IdemTtl
  BY <1>3, <1>7 DEF RequestInv, OnFile
<1>8. RequestsBookedOnce'
  <2> SUFFICES ASSUME NEW i \in DOMAIN grants', NEW j \in DOMAIN grants', i < j,
                      (IdemKey(grants[i].req) = IdemKey(grants[j].req))'
               PROVE  engine' = "redis" /\ grants'[j].at - grants'[i].at >= IdemTtl
    BY DEF RequestsBookedOnce
  <2>1. i \in DOMAIN grants
    BY <1>0, <1>1
  <2>2. CASE j = k
    <3>1. IdemKey(grants[i].req) = IdemKey(req)
      BY <1>1, <1>4, <2>1, <2>2 DEF IdemKey
    <3> QED
      BY <1>1, <1>4, <1>7, <2>1, <2>2, <3>1
  <2>3. CASE j \in DOMAIN grants
    <3>1. IdemKey(grants[i].req) = IdemKey(grants[j].req)
      BY <1>1, <2>1, <2>3 DEF IdemKey
    <3> QED
      BY <1>1, <2>1, <2>3, <3>1 DEF RequestInv, RequestsBookedOnce
  <2> QED
    BY <1>1, <2>2, <2>3
<1>9. engine' = "redis" => \A key \in DOMAIN idem' : idem'[key].until \in Int
  BY <1>2, <1>3 DEF RequestInv
<1>10. \A i \in DOMAIN grants' : OnFile(grants[i])'
  BY <1>1, <1>5, <1>6
<1> QED
  BY <1>1, <1>3, <1>8, <1>9, <1>10 DEF RequestInv

\* A step that books nothing.
LEMMA NothingBooked ==
  ASSUME RequestInv, UNCHANGED <<engine, grants, idem>>, now' \in Nat, now' >= now,
         at' \in [Workers -> Stages], \A w \in Workers : InTransaction(w)' => engine \in SqlEngines
  PROVE  RequestInv'
<1>1. \A i \in DOMAIN grants : OnFile(grants[i]) => OnFile(grants[i])'
  BY DEF OnFile, RequestInv, IdemKey
<1>2. RequestsBookedOnce'
  BY DEF RequestsBookedOnce, RequestInv, IdemKey
<1> QED
  BY <1>1, <1>2 DEF RequestInv

\* Every step keeps the invariant.
LEMMA RequestNext == RequestInv /\ [Next]_vars => RequestInv'
<1> SUFFICES ASSUME RequestInv, [Next]_vars PROVE RequestInv'
  OBVIOUS
<1>0. now \in Nat /\ at \in [Workers -> Stages]
  BY DEF RequestInv
<1>1. ASSUME NEW w \in Workers, Charging(w) PROVE RequestInv'
  <2>1. ASSUME at' \in [Workers -> Stages], now' = now, engine' = engine,
               \A v \in Workers \ {w} : at'[v] = at[v],
               InTransaction(w)' => InTransaction(w) \/ engine \in SqlEngines
        PROVE  \A v \in Workers : InTransaction(v)' => engine \in SqlEngines
    BY <2>1 DEF RequestInv, InTransaction
  <2>2. CASE \E j \in Jobs : BeginCharge(w, j)
    BY <1>0, <2>1, <2>2, NothingBooked DEF BeginCharge, InTransaction, Stages, Outside, tables
  <2>3. CASE LookUp(w)
    BY <1>0, <2>1, <2>3, NothingBooked DEF LookUp, Return, Stage, InTransaction, Stages, Outside, tables
  <2>4. CASE ReadRow(w)
    BY <1>0, <2>1, <2>4, NothingBooked DEF ReadRow, Stage, InTransaction, Stages, Outside, tables
  <2>5. CASE RollBack(w)
    BY <1>0, <2>1, <2>5, NothingBooked DEF RollBack, Return, InTransaction, Stages, Outside, tables
  <2>6. CASE Script(w)
    <3> DEFINE req == job[w].req
    <3>1. /\ engine = "redis" /\ engine' = engine /\ now' = now /\ at' = [at EXCEPT ![w] = "idle"]
          /\ \/ UNCHANGED tables
             \/ ~Recorded(req) /\ Apply(req, job[w].lim, stamp[w], NewLease)
      BY <2>6 DEF Script, Return
    <3>2. at' \in [Workers -> Stages] /\ \A v \in Workers : InTransaction(v)' => engine \in SqlEngines
      BY <1>0, <2>1, <3>1 DEF InTransaction, Stages, Outside
    <3>3. CASE UNCHANGED <<budgets, idem, grants>> \/ UNCHANGED tables
      BY <1>0, <3>1, <3>2, <3>3, NothingBooked DEF tables
    <3>4. CASE ~Recorded(req) /\ idem' = With(idem, IdemKey(req), [lease |-> NewLease, until |-> now + IdemTtl])
               /\ grants' = Append(grants, [req |-> req, at |-> now])
      <4> DEFINE record == [lease |-> NewLease, until |-> now + IdemTtl]
      <4>1. record.until = now + IdemTtl
        OBVIOUS
      <4>2. IdemKey(req) \in DOMAIN idem => idem[IdemKey(req)].until <= now
        BY <1>0, <3>1, <3>4 DEF Recorded, RequestInv
      <4> QED
        BY <3>1, <3>2, <3>4, <4>1, <4>2, BookingNext
    <3> QED
      BY <3>1, <3>3, <3>4 DEF Apply
  <2>7. CASE Commit(w)
    <3> DEFINE req == job[w].req
               record == [lease |-> IF job[w].lim.maxConcurrent = None THEN None ELSE NewLease,
                          until |-> None]
    <3>1. /\ engine' = engine /\ now' = now /\ at' = [at EXCEPT ![w] = "idle"] /\ at[w] = "read"
          /\ idem' = With(idem, IdemKey(req), record)
          /\ grants' = Append(grants, [req |-> req, at |-> now]) /\ IdemKey(req) \notin DOMAIN idem
      BY <2>7 DEF Commit, Return, KeysFree
    <3>2. at' \in [Workers -> Stages] /\ \A v \in Workers : InTransaction(v)' => engine \in SqlEngines
      BY <1>0, <2>1, <3>1 DEF InTransaction, Stages, Outside
    <3>3. engine # "redis"
      BY <3>1 DEF RequestInv, InTransaction, SqlEngines
    <3> QED
      BY <3>1, <3>2, <3>3, BookingNext
  <2> QED
    BY <1>1, <2>2, <2>3, <2>4, <2>5, <2>6, <2>7 DEF Charging
<1>2. ASSUME NEW w \in Workers, Spending(w) PROVE RequestInv'
  <2>1. UNCHANGED <<engine, grants, idem, now>> /\ at' \in [Workers -> Stages]
        /\ \A v \in Workers : at'[v] = at[v] \/ at'[v] \in {"idle", "spending", "met", "expired"}
    BY <1>0, <1>2 DEF Spending, BeginSpend, Put, Inspect, Overwrite, SpendFails, Answered, Unspent, tables,
                      Stages, Outside
  <2>2. \A v \in Workers : InTransaction(v)' => engine \in SqlEngines
    BY <2>1 DEF RequestInv, InTransaction
  <2> QED
    BY <1>0, <2>1, <2>2, NothingBooked
<1>3. ASSUME Releasing \/ (\E n \in Nonces : Expire(n)) \/ Tick \/ UNCHANGED vars PROVE RequestInv'
  <2>1. UNCHANGED <<engine, grants, idem, at>> /\ (now' = now \/ now' = now + 1)
    BY <1>3 DEF Releasing, Release, Expire, Tick, vars, tableVars, tables
  <2>2. \A v \in Workers : InTransaction(v)' => engine \in SqlEngines
    BY <2>1 DEF RequestInv, InTransaction
  <2> QED
    BY <1>0, <2>1, <2>2, NothingBooked
<1> QED
  BY <1>1, <1>2, <1>3 DEF Next

\* A request is booked once by the processes that share a store (charge() of
\* RedisBudgetBackend and SqlBudgetBackend), for any database, limits, callers
\* and interleaving, also where MySQL loses updates of the sums.
THEOREM RequestsSafe == Spec => []RequestsBookedOnce
<1>1. Init => RequestInv
  <2> SUFFICES ASSUME Init PROVE RequestInv
    OBVIOUS
  <2>1. engine \in Engines /\ now = 0 /\ at = [w \in Workers |-> "idle"] /\ grants = <<>>
    BY DEF Init, TablesInit
  <2>2. IsSeq(grants) /\ DOMAIN grants = {}
    BY <2>1, EmptySeq DEF IsSeq
  <2>3. DOMAIN idem = {}
    BY DEF Init, TablesInit
  <2> QED
    BY <2>1, <2>2, <2>3 DEF RequestInv, RequestsBookedOnce, InTransaction, Stages, Outside
<1>2. RequestInv => RequestsBookedOnce
  BY DEF RequestInv
<1> QED
  BY <1>1, <1>2, RequestNext, PTL DEF Spec

-----------------------------------------------------------------------------
(* Accounts                                                                *)

Row == [calls : Nat, tokens : Nat, risk : Nat, stored : BOOLEAN]

\* A row is what the grants of its task add up to.
Exact(t) ==
  /\ budgets[t].calls = SumOf(CallsOf, GrantsOf(t))
  /\ budgets[t].risk = SumOf(RiskOf, GrantsOf(t))
  /\ engine # "redis" => budgets[t].tokens = SumOf(TokensOf, GrantsOf(t))

\* A transaction that has read the row of its task still has the row that is
\* stored: the others wait for the lock, or meet its primary key.
Current(w) ==
  (at[w] = "read" /\ view[w].row.stored) => view[w].row = budgets[job[w].req.task]

\* SQLite lets one transaction in, PostgreSQL one to a row that exists.
Apart(v, w) ==
  /\ engine = "sqlite" => ~(InTransaction(v) /\ InTransaction(w))
  /\ engine = "postgres" =>
       ~(/\ at[v] = "read" /\ at[w] = "read" /\ job[v].req.task = job[w].req.task
         /\ view[v].row.stored /\ view[w].row.stored)

AccountTypes ==
  /\ engine \in Engines /\ at \in [Workers -> Stages] /\ job \in [Workers -> Jobs]
  /\ IsSeq(grants) /\ \A i \in DOMAIN grants : grants[i].req \in BudgetCharge
  /\ DOMAIN budgets = Tasks /\ DOMAIN rates = Tasks /\ DOMAIN leases = Tasks
  /\ \A w \in Workers : InTransaction(w) => engine \in SqlEngines

\* The rows, where transactions lose no update.
RowInv ==
  /\ \A t \in Tasks :
       /\ budgets[t] \in Row /\ Exact(t)
       /\ ~budgets[t].stored => budgets[t] = NoRow
  /\ DOMAIN view = Workers
  /\ \A w \in Workers :
       /\ \E r \in Row : view[w] = [NoRows EXCEPT !.row = r]
       /\ ~view[w].row.stored => view[w].row = NoRow
       /\ Current(w)
       /\ \A v \in Workers \ {w} : Apart(v, w)

\* What a refused charge leaves in the SQL tables: nothing.
EntriesOf(t) ==
  /\ \A e \in DOMAIN rates[t] : \E i \in GrantsOf(t) : grants[i].req.id = e[1]
  /\ \A l \in DOMAIN leases[t] : \E key \in DOMAIN idem : idem[key].lease = l

AccountInv ==
  /\ AccountTypes
  /\ engine # "mysql" => RowInv
  /\ engine \in SqlEngines => \A t \in Tasks : EntriesOf(t)

\* What a charge that is booked adds to the sums.
LEMMA SumsAdd ==
  ASSUME IsFiniteSet(DOMAIN grants), \A i \in DOMAIN grants : grants[i].req \in BudgetCharge,
         NEW k, k \notin DOMAIN grants, DOMAIN grants' = DOMAIN grants \cup {k},
         \A i \in DOMAIN grants : grants'[i] = grants[i],
         NEW req \in BudgetCharge, grants'[k].req = req, NEW t
  PROVE  IF req.task = t
         THEN /\ SumOf(CallsOf, GrantsOf(t))' = SumOf(CallsOf, GrantsOf(t)) + req.callN
              /\ SumOf(RiskOf, GrantsOf(t))' = SumOf(RiskOf, GrantsOf(t)) + req.risk
              /\ SumOf(TokensOf, GrantsOf(t))' = SumOf(TokensOf, GrantsOf(t)) + req.tokens
         ELSE /\ SumOf(CallsOf, GrantsOf(t))' = SumOf(CallsOf, GrantsOf(t))
              /\ SumOf(RiskOf, GrantsOf(t))' = SumOf(RiskOf, GrantsOf(t))
              /\ SumOf(TokensOf, GrantsOf(t))' = SumOf(TokensOf, GrantsOf(t))
<1>1. PICK S, T, f, h, u, p, q, r :
        /\ S = GrantsOf(t) /\ T = GrantsOf(t)'
        /\ f = CallsOf /\ h = CallsOf' /\ u = RiskOf /\ p = RiskOf' /\ q = TokensOf /\ r = TokensOf'
  OBVIOUS
<1>2. k \notin S /\ IsFiniteSet(S) /\ S \subseteq DOMAIN grants
  BY <1>1, FS_Subset DEF GrantsOf
<1>3. T = IF req.task = t THEN S \cup {k} ELSE S
  BY <1>1 DEF GrantsOf
<1>4. /\ \A i \in S : f[i] = grants[i].req.callN /\ u[i] = grants[i].req.risk /\ q[i] = grants[i].req.tokens
      /\ \A i \in S : f[i] \in Nat /\ u[i] \in Nat /\ q[i] \in Nat
  BY <1>1, <1>2 DEF CallsOf, RiskOf, TokensOf, BudgetCharge
<1>5. /\ \A i \in S : h[i] = f[i] /\ p[i] = u[i] /\ r[i] = q[i]
      /\ h[k] = req.callN /\ p[k] = req.risk /\ r[k] = req.tokens
      /\ h[k] \in Nat /\ p[k] \in Nat /\ r[k] \in Nat
  BY <1>1, <1>2, <1>4 DEF CallsOf, RiskOf, TokensOf, BudgetCharge
<1>6. Summable(f, S) /\ Summable(u, S) /\ Summable(q, S)
  BY <1>2, <1>4 DEF Summable
<1>7. CASE req.task = t
  <2>1. SumOf(h, T) = SumOf(f, S) + h[k]
    <3>1. Summable(f, S) /\ k \notin S /\ T = S \cup {k} /\ h[k] \in Nat
      BY <1>2, <1>3, <1>5, <1>6, <1>7
    <3>2. \A y \in S : h[y] = f[y]
      BY <1>5
    <3> QED
      BY <3>1, <3>2, SumGrow
  <2>2. SumOf(p, T) = SumOf(u, S) + p[k]
    <3>1. Summable(u, S) /\ k \notin S /\ T = S \cup {k} /\ p[k] \in Nat
      BY <1>2, <1>3, <1>5, <1>6, <1>7
    <3>2. \A y \in S : p[y] = u[y]
      BY <1>5
    <3> QED
      BY <3>1, <3>2, SumGrow
  <2>3. SumOf(r, T) = SumOf(q, S) + r[k]
    <3>1. Summable(q, S) /\ k \notin S /\ T = S \cup {k} /\ r[k] \in Nat
      BY <1>2, <1>3, <1>5, <1>6, <1>7
    <3>2. \A y \in S : r[y] = q[y]
      BY <1>5
    <3> QED
      BY <3>1, <3>2, SumGrow
  <2> QED
    BY <1>1, <1>3, <1>5, <1>7, <2>1, <2>2, <2>3
<1>8. CASE req.task # t
  <2>1. SumOf(h, S) = SumOf(f, S) /\ SumOf(p, S) = SumOf(u, S) /\ SumOf(r, S) = SumOf(q, S)
    BY <1>5, SumSame
  <2> QED
    BY <1>1, <1>3, <1>8, <2>1
<1> QED
  BY <1>7, <1>8

\* The same for a charge that is appended to the grants.
LEMMA GrantsAdd ==
  ASSUME AccountTypes, NEW req \in BudgetCharge, NEW time, NEW t,
         grants' = Append(grants, [req |-> req, at |-> time])
  PROVE  /\ IsSeq(grants') /\ \A i \in DOMAIN grants' : grants'[i].req \in BudgetCharge
         /\ \A i \in DOMAIN grants : i \in DOMAIN grants' /\ grants'[i] = grants[i]
         /\ \E i \in DOMAIN grants' : grants'[i].req = req
         /\ IF req.task = t
            THEN /\ SumOf(CallsOf, GrantsOf(t))' = SumOf(CallsOf, GrantsOf(t)) + req.callN
                 /\ SumOf(RiskOf, GrantsOf(t))' = SumOf(RiskOf, GrantsOf(t)) + req.risk
                 /\ SumOf(TokensOf, GrantsOf(t))' = SumOf(TokensOf, GrantsOf(t)) + req.tokens
            ELSE /\ SumOf(CallsOf, GrantsOf(t))' = SumOf(CallsOf, GrantsOf(t))
                 /\ SumOf(RiskOf, GrantsOf(t))' = SumOf(RiskOf, GrantsOf(t))
                 /\ SumOf(TokensOf, GrantsOf(t))' = SumOf(TokensOf, GrantsOf(t))
<1> DEFINE g == [req |-> req, at |-> time]
<1>0. PICK k : k = Len(grants) + 1
  OBVIOUS
<1>1. /\ IsSeq(grants') /\ DOMAIN grants' = DOMAIN grants \cup {k}
      /\ DOMAIN grants = 1..Len(grants) /\ Len(grants) \in Nat
      /\ grants'[k] = g /\ \A i \in DOMAIN grants : grants'[i] = grants[i]
  BY <1>0, AppendOne DEF AccountTypes
<1>2. g.req = req
  OBVIOUS
<1> HIDE DEF g
<1>3. k \notin DOMAIN grants
  BY <1>0, <1>1
<1>4. IsFiniteSet(DOMAIN grants)
  <2>1. PICK n \in Nat : n = Len(grants)
    BY <1>1
  <2>2. n \in Int /\ 1 \in Int
    BY <2>1
  <2>3. IsFiniteSet(1 .. n)
    BY <2>2, FS_Interval
  <2> QED
    BY <1>1, <2>1, <2>3
<1>5. grants'[k].req = req
  BY <1>1, <1>2
<1>6. \A i \in DOMAIN grants : grants[i].req \in BudgetCharge
  BY DEF AccountTypes
<1>7. IF req.task = t
      THEN /\ SumOf(CallsOf, GrantsOf(t))' = SumOf(CallsOf, GrantsOf(t)) + req.callN
           /\ SumOf(RiskOf, GrantsOf(t))' = SumOf(RiskOf, GrantsOf(t)) + req.risk
           /\ SumOf(TokensOf, GrantsOf(t))' = SumOf(TokensOf, GrantsOf(t)) + req.tokens
      ELSE /\ SumOf(CallsOf, GrantsOf(t))' = SumOf(CallsOf, GrantsOf(t))
           /\ SumOf(RiskOf, GrantsOf(t))' = SumOf(RiskOf, GrantsOf(t))
           /\ SumOf(TokensOf, GrantsOf(t))' = SumOf(TokensOf, GrantsOf(t))
  BY <1>1, <1>3, <1>4, <1>5, <1>6, SumsAdd
<1> QED
  BY <1>1, <1>5, <1>6, <1>7

\* Sums depend on the grants only.
LEMMA ExactSame ==
  ASSUME NEW t, UNCHANGED <<engine, grants, budgets>>, Exact(t)
  PROVE  Exact(t)'
BY DEF Exact, CallsOf, RiskOf, TokensOf, GrantsOf

\* A step that books nothing and reads nothing.
LEMMA AccountFrame ==
  ASSUME AccountInv, UNCHANGED <<engine, budgets, rates, idem, grants>>,
         at' \in [Workers -> Stages], job' \in [Workers -> Jobs],
         DOMAIN leases' = Tasks, \A t \in Tasks : DOMAIN leases'[t] \subseteq DOMAIN leases[t],
         \A w \in Workers : InTransaction(w)' => InTransaction(w),
         \A w \in Workers : at'[w] = "read" => at[w] = "read" /\ job'[w] = job[w],
         engine # "mysql" =>
           /\ DOMAIN view' = Workers
           /\ \A w \in Workers : view'[w] = view[w] \/ (view'[w] = NoRows /\ at'[w] # "read")
  PROVE  AccountInv'
<1>1. AccountTypes'
  BY DEF AccountInv, AccountTypes
<1>2. ASSUME engine # "mysql" PROVE RowInv'
  <2>1. \A t \in Tasks : Exact(t)'
    BY <1>2, ExactSame DEF AccountInv, RowInv
  <2>2. ASSUME NEW w \in Workers
        PROVE  /\ \E r \in Row : view'[w] = [NoRows EXCEPT !.row = r]
               /\ ~view'[w].row.stored => view'[w].row = NoRow
               /\ Current(w)'
    <3>1. NoRow \in Row /\ NoRows.row = NoRow
      BY DEF NoRow, NoRows, Row
    <3>2. NoRows = [NoRows EXCEPT !.row = NoRow]
      BY DEF NoRows
    <3> QED
      BY <1>2, <3>1, <3>2 DEF AccountInv, RowInv, Current
  <2>3. ASSUME NEW w \in Workers, NEW v \in Workers \ {w} PROVE Apart(v, w)'
    BY <1>2 DEF AccountInv, RowInv, Apart
  <2> QED
    BY <1>2, <2>1, <2>2, <2>3 DEF AccountInv, RowInv
<1>3. engine \in SqlEngines => \A t \in Tasks : EntriesOf(t)'
  BY DEF AccountInv, EntriesOf, GrantsOf
<1> QED
  BY <1>1, <1>2, <1>3 DEF AccountInv

\* The rows after a charge on the row that is stored.
LEMMA RowsBooked ==
  ASSUME AccountInv, engine # "mysql", engine' = engine, NEW req \in BudgetCharge, NEW time,
         grants' = Append(grants, [req |-> req, at |-> time]),
         budgets' = [budgets EXCEPT ![req.task] = Charged(budgets[req.task], req)]
  PROVE  \A t \in Tasks :
           /\ budgets'[t] \in Row /\ Exact(t)'
           /\ ~budgets'[t].stored => budgets'[t] = NoRow
<1> SUFFICES ASSUME NEW t \in Tasks
             PROVE  /\ budgets'[t] \in Row /\ Exact(t)'
                    /\ ~budgets'[t].stored => budgets'[t] = NoRow
  OBVIOUS
<1>1. budgets[t] \in Row /\ Exact(t) /\ (~budgets[t].stored => budgets[t] = NoRow)
  BY DEF AccountInv, RowInv
<1>2. IF req.task = t
      THEN /\ SumOf(CallsOf, GrantsOf(t))' = SumOf(CallsOf, GrantsOf(t)) + req.callN
           /\ SumOf(RiskOf, GrantsOf(t))' = SumOf(RiskOf, GrantsOf(t)) + req.risk
           /\ SumOf(TokensOf, GrantsOf(t))' = SumOf(TokensOf, GrantsOf(t)) + req.tokens
      ELSE /\ SumOf(CallsOf, GrantsOf(t))' = SumOf(CallsOf, GrantsOf(t))
           /\ SumOf(RiskOf, GrantsOf(t))' = SumOf(RiskOf, GrantsOf(t))
           /\ SumOf(TokensOf, GrantsOf(t))' = SumOf(TokensOf, GrantsOf(t))
  BY GrantsAdd DEF AccountInv
<1>3. req.callN \in Nat /\ req.risk \in Nat /\ req.tokens \in Nat /\ req.task \in Tasks
  BY DEF BudgetCharge
<1>4. budgets'[t] = IF req.task = t THEN Charged(budgets[t], req) ELSE budgets[t]
  BY DEF AccountInv, AccountTypes
<1>5. budgets'[t] \in Row /\ (~budgets'[t].stored => budgets'[t] = NoRow)
  BY <1>1, <1>3, <1>4, SMTT(30) DEF Charged, Row
<1>6. Exact(t)'
  BY <1>1, <1>2, <1>3, <1>4 DEF Charged, Exact
<1> QED
  BY <1>5, <1>6

\* A charge through SQL: what the transaction decided on is still stored.
LEMMA CommitNext == ASSUME AccountInv, NEW w \in Workers, Commit(w) PROVE AccountInv'
<1> DEFINE req == job[w].req
           t == job[w].req.task
           record == [lease |-> IF job[w].lim.maxConcurrent = None THEN None ELSE NewLease,
                      until |-> None]
<1>1. /\ at[w] = "read" /\ KeysFree(w) /\ UNCHANGED <<engine, now>>
      /\ budgets' = [budgets EXCEPT ![t] = Charged(view[w].row, req)]
      /\ grants' = Append(grants, [req |-> req, at |-> now])
      /\ idem' = With(idem, IdemKey(req), record)
      /\ at' = [at EXCEPT ![w] = "idle"] /\ job' = [job EXCEPT ![w] = NoJob]
      /\ view' = [view EXCEPT ![w] = NoRows]
  BY DEF Commit, Return
<1>2. req \in BudgetCharge /\ t \in Tasks
  BY EnginesAssumption DEF AccountInv, AccountTypes, BudgetCharge
<1>3. engine \in SqlEngines
  BY <1>1 DEF AccountInv, AccountTypes, InTransaction
<1>4. AccountTypes'
  <2>1. IsSeq(grants') /\ \A i \in DOMAIN grants' : grants'[i].req \in BudgetCharge
    BY <1>1, <1>2, GrantsAdd DEF AccountInv
  <2>2. at' \in [Workers -> Stages] /\ job' \in [Workers -> Jobs]
    BY <1>1, EnginesAssumption DEF AccountInv, AccountTypes, NoJob, Stages, Outside
  <2>3. DOMAIN rates' = Tasks /\ DOMAIN leases' = Tasks
    BY DEF Commit, AccountInv, AccountTypes
  <2> QED
    BY <1>1, <1>3, <2>1, <2>2, <2>3 DEF AccountInv, AccountTypes, InTransaction
<1>5. ASSUME engine # "mysql" PROVE RowInv'
  <2>1. view[w].row = budgets[t]
    BY <1>1, <1>2, <1>5 DEF AccountInv, RowInv, Current, KeysFree
  <2>2. \A s \in Tasks :
          /\ budgets'[s] \in Row /\ Exact(s)'
          /\ ~budgets'[s].stored => budgets'[s] = NoRow
    BY <1>1, <1>2, <1>5, <2>1, RowsBooked
  <2>3. \A s \in Tasks \ {t} : budgets'[s] = budgets[s]
    BY <1>1 DEF AccountInv, AccountTypes
  <2>4. NoRow \in Row /\ NoRows.row = NoRow /\ NoRows = [NoRows EXCEPT !.row = NoRow]
    <3>1. NoRow \in Row /\ NoRows.row = NoRow
      BY DEF NoRow, NoRows, Row
    <3>2. NoRows = [NoRows EXCEPT !.row = NoRow]
      BY DEF NoRows
    <3> QED
      BY <3>1, <3>2
  <2>5. \A v \in Workers \ {w} : at'[v] = at[v] /\ job'[v] = job[v] /\ view'[v] = view[v]
    BY <1>1, <1>5 DEF AccountInv, AccountTypes, RowInv
  <2>6. at'[w] = "idle" /\ view'[w] = NoRows
    BY <1>1, <1>5 DEF AccountInv, AccountTypes, RowInv
  <2>7. ASSUME NEW v \in Workers PROVE Current(v)'
    <3>1. CASE v = w
      BY <2>6, <3>1 DEF Current
    <3>2. CASE v # w
      <4>1. ASSUME at[v] = "read", view[v].row.stored, job[v].req.task = t PROVE FALSE
        <5>1. view[v].row = budgets[t]
          BY <1>5, <4>1 DEF AccountInv, RowInv, Current
        <5>2. view[w].row.stored
          BY <2>1, <4>1, <5>1
        <5>3. engine = "sqlite" \/ engine = "postgres"
          BY <1>3, <1>5 DEF SqlEngines, BudgetEngines
        <5> QED
          BY <1>1, <1>5, <3>2, <4>1, <5>2, <5>3 DEF AccountInv, RowInv, Apart, InTransaction
      <4>2. job[v].req.task \in Tasks
        BY EnginesAssumption DEF AccountInv, AccountTypes, BudgetCharge
      <4>3. Current(v) /\ at'[v] = at[v] /\ job'[v] = job[v] /\ view'[v] = view[v]
        BY <1>5, <2>5, <3>2 DEF AccountInv, RowInv
      <4> QED
        BY <2>3, <4>1, <4>2, <4>3 DEF Current
    <3> QED
      BY <3>1, <3>2
  <2>8. ASSUME NEW v \in Workers, NEW u \in Workers \ {v} PROVE Apart(v, u)'
    BY <1>1, <1>5, <2>5, <2>6 DEF AccountInv, RowInv, Apart, InTransaction
  <2>9. ASSUME NEW v \in Workers
        PROVE  /\ \E r \in Row : view'[v] = [NoRows EXCEPT !.row = r]
               /\ ~view'[v].row.stored => view'[v].row = NoRow
    BY <1>5, <2>4, <2>5, <2>6 DEF AccountInv, RowInv
  <2>10. DOMAIN view' = Workers
    BY <1>1, <1>5 DEF AccountInv, RowInv
  <2> QED
    BY <2>2, <2>7, <2>8, <2>9, <2>10 DEF RowInv, Apart
<1>6. \A s \in Tasks : EntriesOf(s)'
  <2> SUFFICES ASSUME NEW s \in Tasks PROVE EntriesOf(s)'
    OBVIOUS
  <2>1. EntriesOf(s)
    BY <1>3 DEF AccountInv
  <2>2. \A i \in DOMAIN grants : i \in DOMAIN grants' /\ grants'[i] = grants[i]
    BY <1>1, <1>2, GrantsAdd DEF AccountInv
  <2>3. \E i \in DOMAIN grants' : grants'[i].req = req
    BY <1>1, <1>2, GrantsAdd DEF AccountInv
  <2>4. ASSUME NEW e \in DOMAIN rates'[s]
        PROVE  e \in DOMAIN rates[s] \/ (s = t /\ e[1] = req.id)
    BY <2>4 DEF Commit, AccountInv, AccountTypes, Updated, InWindow, After, Entries
  <2>5. ASSUME NEW l \in DOMAIN leases'[s]
        PROVE  l \in DOMAIN leases[s] \/ (l = NewLease /\ job[w].lim.maxConcurrent # None)
    BY <2>5 DEF Commit, AccountInv, AccountTypes, With, After
  <2>6. /\ IdemKey(req) \in DOMAIN idem' /\ idem'[IdemKey(req)] = record
        /\ \A key \in DOMAIN idem : key \in DOMAIN idem' /\ idem'[key] = idem[key]
    BY <1>1 DEF With, KeysFree
  <2>7. \A e \in DOMAIN rates'[s] : \E i \in GrantsOf(s)' : grants'[i].req.id = e[1]
    BY <2>1, <2>2, <2>3, <2>4 DEF EntriesOf, GrantsOf
  <2>8. job[w].lim.maxConcurrent # None => record.lease = NewLease
    OBVIOUS
  <2> HIDE DEF record
  <2>9. \A l \in DOMAIN leases'[s] : \E key \in DOMAIN idem' : idem'[key].lease = l
    BY <2>1, <2>5, <2>6, <2>8 DEF EntriesOf
  <2> QED
    BY <2>7, <2>9 DEF EntriesOf
<1> QED
  BY <1>1, <1>4, <1>5, <1>6 DEF AccountInv

\* A charge through the script of Redis.
LEMMA ScriptNext == ASSUME AccountInv, NEW w \in Workers, Script(w) PROVE AccountInv'
<1> DEFINE req == job[w].req
           t == job[w].req.task
<1>1. /\ engine = "redis" /\ UNCHANGED <<engine, now>>
      /\ at' = [at EXCEPT ![w] = "idle"] /\ job' = [job EXCEPT ![w] = NoJob]
      /\ view' = [view EXCEPT ![w] = NoRows]
      /\ UNCHANGED tables \/ Apply(req, job[w].lim, stamp[w], NewLease)
  BY DEF Script, Return
<1>2. req \in BudgetCharge /\ t \in Tasks
  BY EnginesAssumption DEF AccountInv, AccountTypes, BudgetCharge
<1>3. at' \in [Workers -> Stages] /\ job' \in [Workers -> Jobs]
  BY <1>1, EnginesAssumption DEF AccountInv, AccountTypes, NoJob, Stages, Outside
<1>4. DOMAIN rates' = Tasks /\ DOMAIN leases' = Tasks
  BY <1>1 DEF tables, Apply, AccountInv, AccountTypes
<1>5. ASSUME NEW v \in Workers PROVE ~InTransaction(v)
  BY <1>1 DEF AccountInv, AccountTypes, SqlEngines
<1>6. ASSUME NEW v \in Workers PROVE ~InTransaction(v)' /\ at'[v] # "read"
  BY <1>1, <1>5 DEF InTransaction, AccountInv, AccountTypes
<1>7. NoRow \in Row /\ NoRows.row = NoRow
  BY DEF NoRow, NoRows, Row
<1>8. NoRows = [NoRows EXCEPT !.row = NoRow]
  BY DEF NoRows
<1>9. DOMAIN view' = Workers /\ \A v \in Workers :
        /\ \E r \in Row : view'[v] = [NoRows EXCEPT !.row = r]
        /\ ~view'[v].row.stored => view'[v].row = NoRow
  BY <1>1, <1>7, <1>8 DEF AccountInv, RowInv
<1>10. /\ \A v \in Workers : Current(v)'
       /\ \A v \in Workers : \A u \in Workers \ {v} : Apart(u, v)'
  BY <1>1, <1>6 DEF Current, Apart
<1>11. "redis" # "mysql" /\ "redis" \notin SqlEngines
  BY DEF SqlEngines
<1>12. CASE UNCHANGED <<budgets, grants>>
  <2>1. \A s \in Tasks : Exact(s)'
    BY <1>1, <1>11, <1>12, ExactSame DEF AccountInv, RowInv
  <2> QED
    BY <1>1, <1>3, <1>4, <1>6, <1>9, <1>10, <1>11, <1>12, <2>1 DEF AccountInv, AccountTypes, RowInv
<1>13. CASE /\ budgets' = [budgets EXCEPT ![t] = Charged(@, req)]
            /\ grants' = Append(grants, [req |-> req, at |-> now])
  <2>1. IsSeq(grants') /\ \A i \in DOMAIN grants' : grants'[i].req \in BudgetCharge
    BY <1>2, <1>13, GrantsAdd DEF AccountInv
  <2>2. DOMAIN budgets' = Tasks /\ budgets' = [budgets EXCEPT ![t] = Charged(budgets[t], req)]
    BY <1>13 DEF AccountInv, AccountTypes
  <2>3. \A s \in Tasks :
          /\ budgets'[s] \in Row /\ Exact(s)'
          /\ ~budgets'[s].stored => budgets'[s] = NoRow
    BY <1>1, <1>2, <1>11, <1>13, <2>2, RowsBooked
  <2> QED
    BY <1>1, <1>3, <1>4, <1>6, <1>9, <1>10, <1>11, <2>1, <2>2, <2>3
       DEF AccountInv, AccountTypes, RowInv
<1> QED
  BY <1>1, <1>12, <1>13 DEF Apply, tables

\* A transaction begins.
LEMMA LookUpNext == ASSUME AccountInv, NEW w \in Workers, LookUp(w) PROVE AccountInv'
<1>1. /\ engine \in SqlEngines /\ at[w] = "called" /\ UNCHANGED <<engine, tables, now>>
      /\ engine = "sqlite" => \A other \in Workers : ~InTransaction(other)
  BY DEF LookUp
<1>2. CASE Return(w)
  <2>1. /\ at' \in [Workers -> Stages] /\ job' \in [Workers -> Jobs]
        /\ \A v \in Workers : InTransaction(v)' => InTransaction(v)
        /\ \A v \in Workers : at'[v] = "read" => at[v] = "read" /\ job'[v] = job[v]
    BY <1>2, EnginesAssumption
       DEF Return, AccountInv, AccountTypes, NoJob, Stages, Outside, InTransaction
  <2>2. engine # "mysql" =>
           /\ DOMAIN view' = Workers
           /\ \A v \in Workers : view'[v] = view[v] \/ (view'[v] = NoRows /\ at'[v] # "read")
    BY <1>2 DEF Return, AccountInv, AccountTypes, RowInv
  <2>3. DOMAIN leases' = Tasks /\ \A t \in Tasks : DOMAIN leases'[t] \subseteq DOMAIN leases[t]
    BY <1>1 DEF tables, AccountInv, AccountTypes
  <2> QED
    BY <1>1, <2>1, <2>2, <2>3, AccountFrame DEF tables
<1>3. CASE /\ Stage(w, "looked")
           /\ view' = [view EXCEPT ![w] = IF engine = "mysql" THEN Rows(job[w].req.task) ELSE NoRows]
  <2>1. AccountTypes'
    BY <1>1, <1>3 DEF Stage, tables, AccountInv, AccountTypes, InTransaction, Stages, Outside
  <2>2. ASSUME engine # "mysql" PROVE RowInv'
    <3>1. \A t \in Tasks : Exact(t)'
      BY <1>1, <2>2, ExactSame DEF tables, AccountInv, RowInv
    <3>2. /\ view' = [view EXCEPT ![w] = NoRows] /\ job' = job
          /\ at' = [at EXCEPT ![w] = "looked"]
      BY <1>3, <2>2 DEF Stage
    <3>3. NoRow \in Row /\ NoRows.row = NoRow
      BY DEF NoRow, NoRows, Row
    <3>4. NoRows = [NoRows EXCEPT !.row = NoRow]
      BY DEF NoRows
    <3>5. DOMAIN view' = Workers /\ \A v \in Workers :
            /\ \E r \in Row : view'[v] = [NoRows EXCEPT !.row = r]
            /\ ~view'[v].row.stored => view'[v].row = NoRow
            /\ Current(v)'
      <4>1. RowInv /\ AccountTypes
        BY <2>2, <1>1 DEF AccountInv
      <4>2. DOMAIN view' = Workers
        BY <3>2, <4>1 DEF RowInv
      <4>3. view'[w] = NoRows /\ at'[w] = "looked"
        BY <3>2, <4>1 DEF RowInv, AccountTypes
      <4>4. ASSUME NEW v \in Workers
            PROVE  /\ \E r \in Row : view'[v] = [NoRows EXCEPT !.row = r]
                   /\ ~view'[v].row.stored => view'[v].row = NoRow
        <5>1. CASE v = w
          BY <3>3, <3>4, <4>3, <5>1
        <5>2. CASE v # w
          <6>1. view'[v] = view[v]
            BY <3>2, <4>1, <5>2 DEF RowInv
          <6> QED
            BY <4>1, <6>1 DEF RowInv
        <5> QED
          BY <5>1, <5>2
      <4>5. ASSUME NEW v \in Workers PROVE Current(v)'
        <5>1. CASE v = w
          BY <4>3, <5>1 DEF Current
        <5>2. CASE v # w
          <6>1. view'[v] = view[v] /\ at'[v] = at[v] /\ job' = job /\ budgets' = budgets
            BY <1>1, <3>2, <4>1, <5>2 DEF RowInv, AccountTypes, tables
          <6> QED
            BY <4>1, <6>1 DEF RowInv, Current
        <5> QED
          BY <5>1, <5>2
      <4> QED
        BY <4>2, <4>4, <4>5
    <3>6. ASSUME NEW v \in Workers, NEW u \in Workers \ {v} PROVE Apart(u, v)'
      BY <1>1, <2>2, <3>2 DEF AccountInv, AccountTypes, RowInv, Apart, InTransaction
    <3> QED
      BY <1>1, <2>2, <3>1, <3>5, <3>6 DEF AccountInv, RowInv, tables
  <2>3. \A t \in Tasks : EntriesOf(t)'
    BY <1>1 DEF AccountInv, EntriesOf, GrantsOf, tables
  <2> QED
    BY <1>1, <2>1, <2>2, <2>3 DEF AccountInv
<1> QED
  BY <1>2, <1>3 DEF LookUp

\* A transaction reads its task's row.
LEMMA ReadRowNext == ASSUME AccountInv, NEW w \in Workers, ReadRow(w) PROVE AccountInv'
<1> DEFINE t == job[w].req.task
<1>1. /\ at[w] = "looked" /\ UNCHANGED <<engine, tables, now, job>>
      /\ at' = [at EXCEPT ![w] = "read"]
      /\ engine = "postgres" /\ budgets[t].stored => RowFree(t)
      /\ engine # "mysql" => view' = [view EXCEPT ![w].row = budgets[t]]
  BY DEF ReadRow, Stage
<1>2. t \in Tasks
  BY EnginesAssumption DEF AccountInv, AccountTypes, BudgetCharge
<1>3. AccountTypes'
  BY <1>1 DEF tables, AccountInv, AccountTypes, InTransaction, Stages, Outside
<1>4. ASSUME engine # "mysql" PROVE RowInv'
  <2>1. \A s \in Tasks : Exact(s)'
    BY <1>1, <1>4, ExactSame DEF tables, AccountInv, RowInv
  <2>2. PICK r \in Row : view[w] = [NoRows EXCEPT !.row = r]
    BY <1>4 DEF AccountInv, RowInv
  <2>3. PICK q \in Row : q = budgets[t]
    BY <1>2, <1>4 DEF AccountInv, RowInv
  <2>4. view' = [view EXCEPT ![w] = [view[w] EXCEPT !.row = q]]
    BY <1>1, <1>4, <2>3
  <2>5. [view[w] EXCEPT !.row = q] = [NoRows EXCEPT !.row = q]
    BY <2>2 DEF NoRows
  <2>6. [NoRows EXCEPT !.row = q].row = q
    BY DEF NoRows
  <2>7. DOMAIN view' = Workers /\ view'[w] = [NoRows EXCEPT !.row = q] /\ view'[w].row = q
        /\ \A v \in Workers \ {w} : view'[v] = view[v]
    BY <1>4, <2>4, <2>5, <2>6 DEF AccountInv, RowInv
  <2>8. at'[w] = "read" /\ \A v \in Workers \ {w} : at'[v] = at[v]
    BY <1>1 DEF AccountInv, AccountTypes
  <2>9. ASSUME NEW v \in Workers
        PROVE  /\ \E p \in Row : view'[v] = [NoRows EXCEPT !.row = p]
               /\ ~view'[v].row.stored => view'[v].row = NoRow
               /\ Current(v)'
    <3>1. budgets'[t] = q /\ (~q.stored => q = NoRow)
      BY <1>1, <1>2, <1>4, <2>3 DEF AccountInv, RowInv, tables
    <3>2. CASE v = w
      BY <1>1, <2>7, <3>1, <3>2 DEF Current
    <3>3. CASE v # w
      <4>1. view'[v] = view[v] /\ at'[v] = at[v] /\ job'[v] = job[v] /\ budgets' = budgets
        BY <1>1, <2>7, <2>8, <3>3 DEF tables
      <4>2. /\ \E p \in Row : view[v] = [NoRows EXCEPT !.row = p]
            /\ ~view[v].row.stored => view[v].row = NoRow
            /\ Current(v)
        BY <1>4 DEF AccountInv, RowInv
      <4> QED
        BY <4>1, <4>2 DEF Current
    <3> QED
      BY <3>2, <3>3
  <2>10. ASSUME NEW v \in Workers \ {w} PROVE Apart(v, w)' /\ Apart(w, v)'
    <3>1. engine = "sqlite" => ~InTransaction(v)
      BY <1>1, <1>4 DEF AccountInv, RowInv, Apart, InTransaction
    <3>2. engine = "postgres" =>
            ~(at[v] = "read" /\ job[v].req.task = t /\ view[v].row.stored /\ q.stored)
      BY <1>1, <2>3 DEF RowFree
    <3> QED
      BY <1>1, <2>7, <2>8, <3>1, <3>2 DEF Apart, InTransaction
  <2>11. ASSUME NEW v \in Workers \ {w}, NEW u \in Workers \ {v, w} PROVE Apart(u, v)'
    BY <1>1, <1>4, <2>7, <2>8 DEF AccountInv, RowInv, Apart, InTransaction
  <2> QED
    BY <1>1, <1>4, <2>1, <2>7, <2>9, <2>10, <2>11 DEF AccountInv, RowInv, tables
<1>5. engine \in SqlEngines => \A s \in Tasks : EntriesOf(s)'
  BY <1>1 DEF AccountInv, EntriesOf, GrantsOf, tables
<1> QED
  BY <1>1, <1>3, <1>4, <1>5 DEF AccountInv

\* Every step keeps the accounts.
LEMMA AccountNext == AccountInv /\ [Next]_vars => AccountInv'
<1> SUFFICES ASSUME AccountInv, [Next]_vars PROVE AccountInv'
  OBVIOUS
<1>1. ASSUME NEW w \in Workers, (\E j \in Jobs : BeginCharge(w, j)) \/ RollBack(w)
      PROVE  AccountInv'
  <2>1. UNCHANGED <<engine, tables, now>>
    BY <1>1 DEF BeginCharge, RollBack
  <2>2. /\ at' \in [Workers -> Stages] /\ job' \in [Workers -> Jobs]
        /\ \A v \in Workers : InTransaction(v)' => InTransaction(v)
        /\ \A v \in Workers : at'[v] = "read" => at[v] = "read" /\ job'[v] = job[v]
    BY <1>1, EnginesAssumption DEF BeginCharge, RollBack, Return, AccountInv, AccountTypes, NoJob,
         Stages, Outside, InTransaction
  <2>3. engine # "mysql" =>
           /\ DOMAIN view' = Workers
           /\ \A v \in Workers : view'[v] = view[v] \/ (view'[v] = NoRows /\ at'[v] # "read")
    BY <1>1 DEF BeginCharge, RollBack, Return, AccountInv, AccountTypes, RowInv
  <2>4. DOMAIN leases' = Tasks /\ \A t \in Tasks : DOMAIN leases'[t] \subseteq DOMAIN leases[t]
    BY <2>1 DEF tables, AccountInv, AccountTypes
  <2> QED
    BY <2>1, <2>2, <2>3, <2>4, AccountFrame DEF tables
<1>2. ASSUME NEW w \in Workers, Spending(w) PROVE AccountInv'
  <2>1. UNCHANGED <<engine, tables, now, job, view>> /\ at' \in [Workers -> Stages]
        /\ \A v \in Workers : at'[v] = at[v] \/ at'[v] \in {"idle", "spending", "met", "expired"}
    BY <1>2 DEF Spending, BeginSpend, Put, Inspect, Overwrite, SpendFails, Answered, Unspent,
                AccountInv, AccountTypes, Stages, Outside
  <2>2. /\ \A v \in Workers : InTransaction(v)' => InTransaction(v)
        /\ \A v \in Workers : at'[v] = "read" => at[v] = "read"
    BY <2>1 DEF InTransaction
  <2>3. DOMAIN leases' = Tasks /\ \A t \in Tasks : DOMAIN leases'[t] \subseteq DOMAIN leases[t]
    BY <2>1 DEF tables, AccountInv, AccountTypes
  <2>4. job' \in [Workers -> Jobs] /\ (engine # "mysql" => DOMAIN view' = Workers)
    BY <2>1 DEF AccountInv, AccountTypes, RowInv
  <2> QED
    BY <2>1, <2>2, <2>3, <2>4, AccountFrame DEF tables
<1>3. ASSUME Releasing \/ (\E n \in Nonces : Expire(n)) \/ Tick \/ UNCHANGED vars
      PROVE  AccountInv'
  <2>1. UNCHANGED <<engine, budgets, rates, idem, grants, at, job, view>>
    BY <1>3 DEF Releasing, Release, Expire, Tick, vars, tableVars, tables
  <2>2. DOMAIN leases' = Tasks /\ \A t \in Tasks : DOMAIN leases'[t] \subseteq DOMAIN leases[t]
    <3>1. CASE Releasing
      <4>1. PICK t \in Tasks : \E l :
              leases' = [leases EXCEPT ![t] = [k \in DOMAIN leases[t] \ {l} |-> leases[t][k]]]
        BY <3>1 DEF Releasing, Release
      <4> QED
        BY <4>1 DEF AccountInv, AccountTypes
    <3>2. CASE ~Releasing
      BY <1>3, <3>2 DEF Expire, Tick, vars, tableVars, tables, AccountInv, AccountTypes
    <3> QED
      BY <3>1, <3>2
  <2>3. at' \in [Workers -> Stages] /\ job' \in [Workers -> Jobs]
        /\ (engine # "mysql" => DOMAIN view' = Workers)
        /\ \A v \in Workers : InTransaction(v)' => InTransaction(v)
    BY <2>1 DEF AccountInv, AccountTypes, RowInv, InTransaction
  <2> QED
    BY <2>1, <2>2, <2>3, AccountFrame
<1> QED
  BY <1>1, <1>2, <1>3, CommitNext, ScriptNext, LookUpNext, ReadRowNext DEF Next, Charging

\* The stores begin with exact accounts.
LEMMA AccountInit == Init => AccountInv
<1> SUFFICES ASSUME Init PROVE AccountInv
  OBVIOUS
<1>1. /\ engine \in Engines /\ grants = <<>> /\ at = [w \in Workers |-> "idle"]
      /\ job = [w \in Workers |-> NoJob] /\ view = [w \in Workers |-> NoRows]
      /\ budgets = [t \in Tasks |-> NoRow] /\ rates = [t \in Tasks |-> <<>>]
      /\ leases = [t \in Tasks |-> <<>>]
  BY DEF Init, TablesInit
<1>2. IsSeq(grants) /\ DOMAIN grants = {}
  BY <1>1, EmptySeq DEF IsSeq
<1>3. AccountTypes
  BY <1>1, <1>2, EnginesAssumption DEF AccountTypes, NoJob, InTransaction, Stages, Outside
<1>4. NoRow \in Row /\ NoRows.row = NoRow /\ ~NoRow.stored
      /\ NoRow.calls = 0 /\ NoRow.risk = 0 /\ NoRow.tokens = 0
  BY DEF NoRow, NoRows, Row
<1>5. NoRows = [NoRows EXCEPT !.row = NoRow]
  BY DEF NoRows
<1>6. ASSUME NEW t \in Tasks PROVE Exact(t)
  <2>1. GrantsOf(t) = {}
    BY <1>2 DEF GrantsOf
  <2>2. SumOf(CallsOf, GrantsOf(t)) = 0 /\ SumOf(RiskOf, GrantsOf(t)) = 0
        /\ SumOf(TokensOf, GrantsOf(t)) = 0
    BY <2>1, SumEmpty
  <2> QED
    BY <1>1, <1>4, <2>2 DEF Exact
<1>7. RowInv
  BY <1>1, <1>4, <1>5, <1>6 DEF RowInv, Current, Apart, InTransaction
<1>8. \A t \in Tasks : EntriesOf(t)
  <2>1. DOMAIN <<>> = {}
    OBVIOUS
  <2> QED
    BY <1>1, <2>1 DEF EntriesOf
<1> QED
  BY <1>3, <1>7, <1>8 DEF AccountInv

\* Every granted charge and nothing else is booked by processes that charge a
\* task at the same time (charge() of RedisBudgetBackend and SqlBudgetBackend),
\* for any number of tasks, charges, limits and callers, MySQL excepted.
THEOREM AccountsSafe == Spec => []AccountsExact
<1>1. AccountInv => AccountsExact
  BY DEF AccountInv, RowInv, Exact, EntriesOf, AccountsExact
<1> QED
  BY <1>1, AccountInit, AccountNext, PTL DEF Spec

-----------------------------------------------------------------------------
(* Limits                                                                  *)

\* The callers charge with the same budgets and slots.
Agreed ==
  \A l, m \in LimitSets :
    /\ l.maxCalls = m.maxCalls /\ l.maxRisk = m.maxRisk /\ l.maxTokens = m.maxTokens
    /\ l.maxConcurrent = m.maxConcurrent

\* A row and leases that keep to the limits.
RowWithin(row, lim) ==
  /\ lim.maxCalls # None => row.calls <= lim.maxCalls
  /\ lim.maxRisk # None => row.risk <= lim.maxRisk
  /\ engine # "redis" /\ lim.maxTokens # None => row.tokens <= lim.maxTokens

SlotsWithin(D, lim) ==
  lim.maxConcurrent # None => IsFiniteSet(D) /\ Cardinality(D) <= lim.maxConcurrent

LimitInv ==
  engine # "mysql" =>
    \A t \in Tasks, lim \in LimitSets :
      RowWithin(budgets[t], lim) /\ SlotsWithin(DOMAIN leases[t], lim)

LEMMA LimitTypes ==
  ASSUME NEW lim \in LimitSets
  PROVE  /\ lim.maxCalls \in Nat \cup {None} /\ lim.maxRisk \in Nat \cup {None}
         /\ lim.maxTokens \in Nat \cup {None} /\ lim.maxConcurrent \in Nat \cup {None}
BY LimitsAssumption DEF BudgetLimits

\* Fewer leases.
LEMMA FewerSlots ==
  ASSUME NEW lim \in LimitSets, NEW D, NEW E, E \subseteq D, SlotsWithin(D, lim)
  PROVE  SlotsWithin(E, lim)
<1> SUFFICES ASSUME lim.maxConcurrent # None
             PROVE  IsFiniteSet(E) /\ Cardinality(E) <= lim.maxConcurrent
  BY DEF SlotsWithin
<1>1. lim.maxConcurrent \in Nat /\ IsFiniteSet(D) /\ Cardinality(D) <= lim.maxConcurrent
  BY LimitTypes DEF SlotsWithin
<1>2. IsFiniteSet(E) /\ Cardinality(E) <= Cardinality(D) /\ Cardinality(D) \in Nat /\ Cardinality(E) \in Nat
  BY <1>1, FS_Subset, FS_CardinalityType
<1> QED
  BY <1>1, <1>2

\* One lease more where there was room.
LEMMA OneSlotMore ==
  ASSUME NEW lim \in LimitSets, NEW D, NEW E, E \subseteq D, SlotsWithin(D, lim), NEW l,
         lim.maxConcurrent # None => Cardinality(E) < lim.maxConcurrent
  PROVE  SlotsWithin(E \cup {l}, lim)
<1> SUFFICES ASSUME lim.maxConcurrent # None
             PROVE  IsFiniteSet(E \cup {l}) /\ Cardinality(E \cup {l}) <= lim.maxConcurrent
  BY DEF SlotsWithin
<1>1. lim.maxConcurrent \in Nat /\ IsFiniteSet(E)
  BY LimitTypes, FS_Subset DEF SlotsWithin
<1>2. Cardinality(E) \in Nat
  BY <1>1, FS_CardinalityType
<1>3. /\ IsFiniteSet(E \cup {l})
      /\ Cardinality(E \cup {l}) = IF l \in E THEN Cardinality(E) ELSE Cardinality(E) + 1
  BY <1>1, FS_AddElement
<1> QED
  BY <1>1, <1>2, <1>3

\* A charge that fits leaves the row within the limits.
LEMMA ChargedWithin ==
  ASSUME NEW row \in Row, NEW req \in BudgetCharge, NEW lim \in LimitSets, RowWithin(row, lim),
         CallsFit(row, req, lim), Fitting(row.risk, req.risk, lim.maxRisk),
         engine # "redis" => Fitting(row.tokens, req.tokens, lim.maxTokens)
  PROVE  RowWithin(Charged(row, req), lim)
<1>1. /\ row.calls \in Nat /\ row.risk \in Nat /\ row.tokens \in Nat
      /\ req.callN \in Nat /\ req.risk \in Nat /\ req.tokens \in Nat
  BY DEF Row, BudgetCharge
<1>2. /\ Charged(row, req).calls = row.calls + req.callN
      /\ Charged(row, req).risk = row.risk + req.risk
      /\ engine # "redis" => Charged(row, req).tokens = row.tokens + req.tokens
  BY DEF Charged
<1> QED
  BY <1>1, <1>2, LimitTypes DEF RowWithin, CallsFit, Fitting, Affordable

\* Limits that agree are kept alike.
LEMMA AgreedWithin ==
  ASSUME Agreed, NEW l \in LimitSets, NEW m \in LimitSets, NEW row, NEW D,
         RowWithin(row, l), SlotsWithin(D, l)
  PROVE  RowWithin(row, m) /\ SlotsWithin(D, m)
BY DEF Agreed, RowWithin, SlotsWithin

\* Every step keeps to the limits.
LEMMA LimitNext ==
  ASSUME Agreed, AccountInv, LimitInv, [Next]_vars
  PROVE  LimitInv'
<1>1. engine' = engine
  BY AccountNext DEF Next, vars, tableVars, Charging, BeginCharge, Script, LookUp, ReadRow, Commit,
     RollBack, Spending, BeginSpend, Put, Inspect, Overwrite, SpendFails, Answered, Unspent, Releasing,
     Release, Expire, Tick
<1> SUFFICES ASSUME engine # "mysql", NEW t \in Tasks, NEW lim \in LimitSets
             PROVE  RowWithin(budgets'[t], lim) /\ SlotsWithin(DOMAIN leases'[t], lim)
  BY <1>1 DEF LimitInv, RowWithin
<1>2. ASSUME NEW l \in LimitSets
      PROVE  /\ RowWithin(budgets[t], l) /\ SlotsWithin(DOMAIN leases[t], l)
             /\ budgets[t] \in Row
  BY DEF LimitInv, AccountInv, RowInv
<1>3. DOMAIN leases = Tasks /\ DOMAIN budgets = Tasks
  BY DEF AccountInv, AccountTypes
<1>4. CASE budgets' = budgets /\ DOMAIN leases'[t] \subseteq DOMAIN leases[t]
  BY <1>2, <1>4, FewerSlots
<1>5. ASSUME NEW w \in Workers, Script(w)
      PROVE  RowWithin(budgets'[t], lim) /\ SlotsWithin(DOMAIN leases'[t], lim)
  <2> DEFINE req == job[w].req
             ts == stamp[w]
  <2>1. PICK m \in LimitSets : m = job[w].lim
    BY EnginesAssumption DEF AccountInv, AccountTypes
  <2>2. req \in BudgetCharge
    BY EnginesAssumption DEF AccountInv, AccountTypes
  <2>3. CASE UNCHANGED tables
    BY <1>2, <2>3 DEF tables
  <2>4. CASE Apply(req, m, ts, NewLease)
    <3>1. RowWithin(budgets'[t], m)
      <4>1. CASE budgets' = budgets
        BY <1>2, <4>1
      <4>2. CASE budgets' # budgets
        <5>1. /\ budgets' = [budgets EXCEPT ![req.task] = Charged(budgets[req.task], req)]
              /\ CallsFit(budgets[req.task], req, m)
              /\ Fitting(budgets[req.task].risk, req.risk, m.maxRisk)
          BY <2>4, <4>2 DEF Apply
        <5>2. engine = "redis"
          BY <1>5 DEF Script
        <5> QED
          BY <1>2, <1>3, <2>2, <5>1, <5>2, ChargedWithin
      <4> QED
        BY <4>1, <4>2
    <3>2. SlotsWithin(DOMAIN leases'[t], m)
      <4> DEFINE live == After(leases[req.task], ts)
      <4>1. \/ leases' = leases
            \/ leases' = [leases EXCEPT ![req.task] = live]
            \/ /\ leases' = [leases EXCEPT ![req.task] = With(live, NewLease, ts + m.leaseTtl)]
               /\ m.maxConcurrent # None => Cardinality(DOMAIN live) < m.maxConcurrent
        BY <2>4 DEF Apply
      <4>2. DOMAIN live \subseteq DOMAIN leases[req.task]
        BY DEF After
      <4>3. \A x : DOMAIN With(live, NewLease, x) = DOMAIN live \cup {NewLease}
        BY DEF With
      <4> HIDE DEF live
      <4>4. CASE leases' = leases
        BY <1>2, <4>4
      <4>5. CASE leases' = [leases EXCEPT ![req.task] = live]
        <5>1. DOMAIN leases'[t] \subseteq DOMAIN leases[t]
          BY <1>3, <4>2, <4>5
        <5> QED
          BY <1>2, <5>1, FewerSlots
      <4>6. CASE /\ leases' = [leases EXCEPT ![req.task] = With(live, NewLease, ts + m.leaseTtl)]
                 /\ m.maxConcurrent # None => Cardinality(DOMAIN live) < m.maxConcurrent
        <5>1. CASE req.task # t
          BY <1>2, <1>3, <4>6, <5>1
        <5>2. CASE req.task = t
          <6>1. DOMAIN leases'[t] = DOMAIN live \cup {NewLease}
            BY <1>3, <4>3, <4>6, <5>2
          <6>2. SlotsWithin(DOMAIN live \cup {NewLease}, m)
            BY <1>2, <4>2, <4>6, <5>2, OneSlotMore
          <6> QED
            BY <6>1, <6>2
        <5> QED
          BY <5>1, <5>2
      <4> QED
        BY <4>1, <4>4, <4>5, <4>6
    <3> QED
      BY <2>1, <3>1, <3>2, AgreedWithin
  <2> QED
    BY <1>5, <2>1, <2>3, <2>4 DEF Script
<1>6. ASSUME NEW w \in Workers, Commit(w)
      PROVE  RowWithin(budgets'[t], lim) /\ SlotsWithin(DOMAIN leases'[t], lim)
  <2> DEFINE req == job[w].req
             ts == stamp[w]
             live == After(leases[req.task], ts)
  <2>1. PICK m \in LimitSets : m = job[w].lim
    BY EnginesAssumption DEF AccountInv, AccountTypes
  <2>2. req \in BudgetCharge /\ req.task \in Tasks
    BY EnginesAssumption DEF AccountInv, AccountTypes, BudgetCharge
  <2>3. view[w].row = budgets[req.task]
    <3>1. RowInv /\ at[w] = "read" /\ KeysFree(w)
      BY <1>6 DEF AccountInv, Commit
    <3>2. CASE view[w].row.stored
      BY <3>1, <3>2 DEF RowInv, Current
    <3>3. CASE ~view[w].row.stored
      BY <2>2, <3>1, <3>3 DEF RowInv, KeysFree
    <3> QED
      BY <3>2, <3>3
  <2>4. /\ Seen(w).row = view[w].row /\ Seen(w).leases = leases[req.task]
    BY DEF Seen, Rows
  <2>5. /\ CallsFit(budgets[req.task], req, m)
        /\ Fitting(budgets[req.task].tokens, req.tokens, m.maxTokens)
        /\ Fitting(budgets[req.task].risk, req.risk, m.maxRisk)
        /\ m.maxConcurrent # None => Cardinality(DOMAIN live) < m.maxConcurrent
    <3>1. Fits(Seen(w), req, m, ts)
      BY <1>6, <2>1 DEF Commit
    <3> QED
      BY <2>3, <2>4, <3>1 DEF Fits
  <2>6. /\ budgets' = [budgets EXCEPT ![req.task] = Charged(budgets[req.task], req)]
        /\ \/ leases' = leases
           \/ leases' = [leases EXCEPT ![req.task] = With(live, NewLease, ts + m.leaseTtl)]
    BY <1>6, <2>1, <2>3 DEF Commit
  <2>7. RowWithin(budgets'[t], m)
    BY <1>2, <1>3, <2>2, <2>5, <2>6, ChargedWithin
  <2>8. DOMAIN live \subseteq DOMAIN leases[req.task]
    BY DEF After
  <2>9. \A x : DOMAIN With(live, NewLease, x) = DOMAIN live \cup {NewLease}
    BY DEF With
  <2> HIDE DEF live
  <2>10. SlotsWithin(DOMAIN leases'[t], m)
    <3>1. CASE leases' = leases \/ req.task # t
      BY <1>2, <1>3, <2>6, <3>1
    <3>2. CASE req.task = t /\ leases' # leases
      <4>1. DOMAIN leases'[t] = DOMAIN live \cup {NewLease}
        BY <1>3, <2>6, <2>9, <3>2
      <4>2. SlotsWithin(DOMAIN live \cup {NewLease}, m)
        BY <1>2, <2>5, <2>8, <3>2, OneSlotMore
      <4> QED
        BY <4>1, <4>2
    <3> QED
      BY <3>1, <3>2
  <2> QED
    BY <2>7, <2>10, AgreedWithin
<1>7. ASSUME Releasing PROVE budgets' = budgets /\ DOMAIN leases'[t] \subseteq DOMAIN leases[t]
  <2>1. PICK s \in Tasks : \E l :
              leases' = [leases EXCEPT ![s] = [k \in DOMAIN leases[s] \ {l} |-> leases[s][k]]]
    BY <1>7 DEF Releasing, Release
  <2> QED
    BY <1>3, <1>7, <2>1 DEF Releasing, Release
<1>8. ASSUME NEW w \in Workers, \/ \E j \in Jobs : BeginCharge(w, j)
                                \/ LookUp(w) \/ ReadRow(w) \/ RollBack(w) \/ Spending(w)
      PROVE  UNCHANGED tables
  BY <1>8 DEF BeginCharge, LookUp, ReadRow, RollBack, Spending, BeginSpend, Put, Inspect, Overwrite,
              SpendFails, Answered, Unspent
<1>9. ASSUME Tick \/ (\E n \in Nonces : Expire(n)) \/ UNCHANGED vars PROVE UNCHANGED tables
  BY <1>9 DEF Tick, Expire, vars, tableVars
<1> QED
  BY <1>4, <1>5, <1>6, <1>7, <1>8, <1>9 DEF Next, Charging, tables

\* What is granted stays within the budgets, and the leases within the slots,
\* when callers charge a task with the same limits (charge() of
\* RedisBudgetBackend and SqlBudgetBackend), MySQL excepted.
THEOREM GrantsSafe == Agreed => (Spec => []GrantedWithinLimits)
<1> SUFFICES ASSUME Agreed PROVE Spec => []GrantedWithinLimits
  OBVIOUS
<1>1. Init => LimitInv
  <2> SUFFICES ASSUME Init, NEW t \in Tasks, NEW lim \in LimitSets
               PROVE  RowWithin(budgets[t], lim) /\ SlotsWithin(DOMAIN leases[t], lim)
    BY DEF LimitInv
  <2>1. budgets[t] = NoRow /\ leases[t] = <<>>
    BY DEF Init, TablesInit
  <2>2. DOMAIN leases[t] = {}
    BY <2>1
  <2>3. IsFiniteSet({}) /\ Cardinality({}) = 0
    BY FS_EmptySet
  <2> QED
    BY <2>1, <2>2, <2>3, LimitTypes DEF RowWithin, SlotsWithin, NoRow
<1>2. AccountInv /\ LimitInv => GrantedWithinLimits
  BY DEF LimitInv, AccountInv, RowInv, Exact, RowWithin, SlotsWithin, GrantedWithinLimits
<1>3. LimitInv /\ AccountInv /\ [Next]_vars => LimitInv'
  BY LimitNext
<1> QED
  BY <1>1, <1>2, <1>3, AccountInit, AccountNext, PTL DEF Spec

-----------------------------------------------------------------------------
(* Types                                                                   *)

\* There is always another lease id (uuid4).
LeasesNeverEnd == IsFiniteSet(Tasks) /\ ~IsFiniteSet(Leases)

RatesOK(entries) == DOMAIN entries \subseteq Ids \X Nat
LoopsOK(rows) ==
  /\ rows \in Seq(Signatures \X Nat)
  /\ \E lim \in LimitSets : engine = "redis" => Len(rows) <= lim.loopHistory
LeasesOK(held) == IsFiniteSet(DOMAIN held) /\ DOMAIN held \subseteq Leases

TablesOK ==
  /\ DOMAIN budgets = Tasks /\ DOMAIN rates = Tasks /\ DOMAIN loops = Tasks
  /\ DOMAIN leases = Tasks /\ IsFiniteSet(DOMAIN idem)
  /\ \A t \in Tasks : budgets[t] \in Row /\ RatesOK(rates[t]) /\ LoopsOK(loops[t])
                      /\ LeasesOK(leases[t])

CallersOK ==
  /\ engine \in Engines /\ now \in 0 .. MaxTime[engine]
  /\ at \in [Workers -> Stages] /\ job \in [Workers -> Jobs]
  /\ stamp \in [Workers -> 0 .. MaxTime[engine]]
  /\ DOMAIN view = Workers
  /\ \A w \in Workers :
       /\ "row" \in DOMAIN view[w] /\ view[w].row \in Row
       /\ view[w] # NoRows => InTransaction(w)

\* No table and no record has the lease that is drawn.
LEMMA NewLeaseIsNew ==
  ASSUME LeasesNeverEnd, TablesOK PROVE NewLease \in Leases
<1> DEFINE of == [t \in Tasks |-> DOMAIN leases[t]]
           recordOf == [key \in DOMAIN idem |-> idem[key].lease]
           inTables == UNION {of[t] : t \in Tasks}
           recorded == {recordOf[key] : key \in DOMAIN idem}
<1>1. IsFiniteSet(inTables)
  <2> DEFINE D == {of[t] : t \in Tasks}
  <2>1. \A S \in D : IsFiniteSet(S)
    BY DEF TablesOK, LeasesOK
  <2>2. IsFiniteSet(D)
    BY ImageFinite DEF LeasesNeverEnd
  <2> HIDE DEF D, of
  <2>3. IsFiniteSet(UNION D)
    BY <2>1, <2>2, FS_UNION
  <2> QED
    BY <2>3 DEF D
<1>2. IsFiniteSet(recorded)
  <2>1. PICK f, D : f = recordOf /\ D = DOMAIN idem
    OBVIOUS
  <2>2. IsFiniteSet({f[key] : key \in D})
    BY <2>1, ImageFinite DEF TablesOK
  <2> QED
    BY <2>1, <2>2
<1> HIDE DEF inTables, recorded
<1>3. IsFiniteSet(inTables \cup recorded)
  BY <1>1, <1>2, FS_Union
<1>4. ~(Leases \subseteq inTables \cup recorded)
  BY <1>3, FS_Subset DEF LeasesNeverEnd
<1>5. PICK l \in Leases : l \notin inTables /\ l \notin recorded
  BY <1>4
<1>6. /\ \A t \in Tasks : l \notin DOMAIN leases[t]
      /\ \A key \in DOMAIN idem : l # idem[key].lease
  BY <1>5 DEF inTables, recorded
<1> QED
  BY <1>6 DEF NewLease

\* What a charge writes in the tables of its task.
LEMMA Written ==
  ASSUME TablesOK, engine' = engine, NEW t \in Tasks, IsFiniteSet(DOMAIN idem'),
         budgets' = budgets \/ (\E r \in Row : budgets' = [budgets EXCEPT ![t] = r]),
         rates' = rates \/ (\E r : RatesOK(r) /\ rates' = [rates EXCEPT ![t] = r]),
         loops' = loops \/ (\E r : LoopsOK(r) /\ loops' = [loops EXCEPT ![t] = r]),
         leases' = leases \/ (\E r : LeasesOK(r) /\ leases' = [leases EXCEPT ![t] = r])
  PROVE  TablesOK'
<1>1. DOMAIN budgets' = Tasks /\ \A s \in Tasks : budgets'[s] \in Row
  BY DEF TablesOK
<1>2. DOMAIN rates' = Tasks /\ \A s \in Tasks : RatesOK(rates'[s])
  BY DEF TablesOK
<1>3. DOMAIN loops' = Tasks /\ \A s \in Tasks : LoopsOK(loops'[s])
  BY DEF TablesOK
<1>4. DOMAIN leases' = Tasks /\ \A s \in Tasks : LeasesOK(leases'[s])
  BY DEF TablesOK
<1>5. \A s \in Tasks : LoopsOK(loops[s])' <=> LoopsOK(loops'[s])
  BY DEF LoopsOK
<1>6. \A s \in Tasks : (RatesOK(rates[s])' <=> RatesOK(rates'[s]))
                       /\ (LeasesOK(leases[s])' <=> LeasesOK(leases'[s]))
  BY DEF RatesOK, LeasesOK
<1> QED
  BY <1>1, <1>2, <1>3, <1>4, <1>5, <1>6 DEF TablesOK

LEMMA ChargedType ==
  ASSUME NEW row \in Row, NEW req \in BudgetCharge PROVE Charged(row, req) \in Row
BY DEF Row, Charged, BudgetCharge

\* The rate entries of a charge beside those that are kept.
LEMMA EntriesType ==
  ASSUME NEW rows, RatesOK(rows), NEW req \in BudgetCharge, NEW ts, NEW time
  PROVE  RatesOK(After(rows, time)) /\ RatesOK(Updated(After(rows, time), Entries(req, ts)))
<1>1. req.id \in Ids /\ req.callN \in Nat
  BY DEF BudgetCharge
<1>2. {req.id} \X (1 .. req.callN) \subseteq Ids \X Nat
  BY <1>1
<1>3. DOMAIN Entries(req, ts) \subseteq Ids \X Nat
  BY <1>2 DEF Entries
<1>4. DOMAIN After(rows, time) \subseteq Ids \X Nat
  BY DEF After, RatesOK
<1>5. DOMAIN Updated(After(rows, time), Entries(req, ts)) \subseteq Ids \X Nat
  BY <1>3, <1>4 DEF Updated
<1> QED
  BY <1>4, <1>5 DEF RatesOK

\* The leases that are live, with and without a new one.
LEMMA LeasesType ==
  ASSUME NEW held, LeasesOK(held), NEW l \in Leases, NEW until, NEW ts
  PROVE  LeasesOK(After(held, ts)) /\ LeasesOK(With(After(held, ts), l, until))
<1>1. PICK D : D = DOMAIN After(held, ts)
  OBVIOUS
<1>2. D \subseteq DOMAIN held
  BY <1>1 DEF After
<1>3. IsFiniteSet(D) /\ D \subseteq Leases
  BY <1>2, FS_Subset DEF LeasesOK
<1>4. IsFiniteSet(D \cup {l})
  BY <1>3, FS_AddElement
<1>5. DOMAIN With(After(held, ts), l, until) = D \cup {l}
  BY <1>1 DEF With
<1> QED
  BY <1>1, <1>3, <1>4, <1>5 DEF LeasesOK

\* One loop entry in front; LTRIM keeps the newest.
LEMMA LoopsType ==
  ASSUME NEW rows \in Seq(Signatures \X Nat), NEW req \in BudgetCharge, NEW ts \in Nat
  PROVE  << <<req.sig, ts>> >> \o rows \in Seq(Signatures \X Nat)
BY DEF BudgetCharge

LEMMA PushedType ==
  ASSUME NEW t \in Tasks, LoopsOK(loops[t]), NEW req \in BudgetCharge, NEW ts \in Nat,
         NEW lim \in LimitSets
  PROVE  LoopsOK(LoopPushed(t, req, lim, ts))
<1>1. PICK longer : longer = << <<req.sig, ts>> >> \o loops[t]
  OBVIOUS
<1>2. longer \in Seq(Signatures \X Nat)
  BY <1>1, LoopsType DEF LoopsOK
<1>3. PICK h, n : h = lim.loopHistory /\ n = Len(longer)
  OBVIOUS
<1>4. h \in Nat /\ n \in Nat /\ \A i \in 1 .. n : longer[i] \in Signatures \X Nat
  BY <1>2, <1>3, LenProperties, LimitsAssumption DEF BudgetLimits
<1>5. PICK m : m = Min({n, h})
  OBVIOUS
<1>6. m \in {n, h} /\ m <= n /\ m <= h
  <2>1. \E x \in {n, h} : \A y \in {n, h} : x <= y
    BY <1>4
  <2> QED
    BY <1>4, <1>5, <2>1 DEF Min
<1>7. m \in Nat /\ \A i \in 1 .. m : longer[i] \in Signatures \X Nat
  BY <1>4, <1>6
<1>8. /\ SubSeq(longer, 1, m) \in Seq(Signatures \X Nat)
      /\ Len(SubSeq(longer, 1, m)) = IF 1 <= m THEN m - 1 + 1 ELSE 0
  BY <1>7, SubSeqProperties
<1>9. Len(SubSeq(longer, 1, m)) <= h
  BY <1>4, <1>6, <1>7, <1>8
<1>10. LoopPushed(t, req, lim, ts) = SubSeq(longer, 1, m)
  BY <1>1, <1>3, <1>5 DEF LoopPushed
<1> QED
  BY <1>3, <1>8, <1>9, <1>10 DEF LoopsOK

\* A record more.
LEMMA OneRecordMore ==
  ASSUME TablesOK, NEW key, NEW record, idem' = With(idem, key, record)
  PROVE  IsFiniteSet(DOMAIN idem')
<1>1. PICK D : D = DOMAIN idem
  OBVIOUS
<1>2. IsFiniteSet(D \cup {key})
  BY <1>1, FS_AddElement DEF TablesOK
<1> QED
  BY <1>1, <1>2 DEF With

\* A job's charge and limits.
LEMMA JobParts ==
  ASSUME CallersOK, NEW w \in Workers
  PROVE  /\ job[w].req \in BudgetCharge /\ job[w].req.task \in Tasks /\ job[w].lim \in LimitSets
         /\ stamp[w] \in Nat
BY EnginesAssumption DEF CallersOK, BudgetCharge

\* A charge through the script of Redis.
LEMMA ScriptTables ==
  ASSUME LeasesNeverEnd, TablesOK, CallersOK, NEW w \in Workers, Script(w)
  PROVE  TablesOK'
<1>1. PICK req, lim, ts, l : req = job[w].req /\ lim = job[w].lim /\ ts = stamp[w] /\ l = NewLease
  OBVIOUS
<1>2. PICK t : t = req.task
  OBVIOUS
<1>3. /\ req \in BudgetCharge /\ t \in Tasks /\ lim \in LimitSets /\ ts \in Nat /\ l \in Leases
  BY <1>1, <1>2, JobParts, NewLeaseIsNew
<1>4. engine' = engine /\ (UNCHANGED tables \/ Apply(req, lim, ts, l))
  BY <1>1 DEF Script
<1>5. CASE UNCHANGED tables
  BY <1>4, <1>5, <1>3, Written DEF tables, TablesOK
<1>6. CASE Apply(req, lim, ts, l)
  <2>1. RatesOK(rates[t]) /\ LoopsOK(loops[t]) /\ LeasesOK(leases[t]) /\ budgets[t] \in Row
    BY <1>3 DEF TablesOK
  <2>2. rates' = rates \/ (\E r : RatesOK(r) /\ rates' = [rates EXCEPT ![t] = r])
    <3>1. \/ rates' = rates
          \/ rates' = [rates EXCEPT ![t] = After(rates[t], ts - lim.window)]
          \/ rates' = [rates EXCEPT ![t] = Updated(After(rates[t], ts - lim.window), Entries(req, ts))]
      BY <1>2, <1>6 DEF Apply
    <3>2. /\ RatesOK(After(rates[t], ts - lim.window))
          /\ RatesOK(Updated(After(rates[t], ts - lim.window), Entries(req, ts)))
      BY <1>3, <2>1, EntriesType
    <3> QED
      BY <3>1, <3>2
  <2>3. loops' = loops \/ (\E r : LoopsOK(r) /\ loops' = [loops EXCEPT ![t] = r])
    <3>1. loops' = loops \/ loops' = [loops EXCEPT ![t] = LoopPushed(t, req, lim, ts)]
      BY <1>2, <1>6 DEF Apply
    <3>2. LoopsOK(LoopPushed(t, req, lim, ts))
      BY <1>3, <2>1, PushedType
    <3> QED
      BY <3>1, <3>2
  <2>4. leases' = leases \/ (\E r : LeasesOK(r) /\ leases' = [leases EXCEPT ![t] = r])
    <3>1. \/ leases' = leases
          \/ leases' = [leases EXCEPT ![t] = After(leases[t], ts)]
          \/ leases' = [leases EXCEPT ![t] = With(After(leases[t], ts), l, ts + lim.leaseTtl)]
      BY <1>2, <1>6 DEF Apply
    <3>2. /\ LeasesOK(After(leases[t], ts))
          /\ LeasesOK(With(After(leases[t], ts), l, ts + lim.leaseTtl))
      BY <1>3, <2>1, LeasesType
    <3> QED
      BY <3>1, <3>2
  <2>5. \/ UNCHANGED <<budgets, idem>>
        \/ /\ budgets' = [budgets EXCEPT ![t] = Charged(budgets[t], req)]
           /\ \E key, record : idem' = With(idem, key, record)
    BY <1>2, <1>6 DEF Apply
  <2>6. budgets' = budgets \/ (\E r \in Row : budgets' = [budgets EXCEPT ![t] = r])
    BY <1>3, <2>1, <2>5, ChargedType
  <2>7. IsFiniteSet(DOMAIN idem')
    BY <2>5, OneRecordMore DEF TablesOK
  <2> QED
    BY <1>3, <1>4, <2>2, <2>3, <2>4, <2>6, <2>7, Written
<1> QED
  BY <1>4, <1>5, <1>6

\* A transaction's writes.
LEMMA CommitTables ==
  ASSUME LeasesNeverEnd, AccountTypes, TablesOK, CallersOK, NEW w \in Workers, Commit(w)
  PROVE  TablesOK'
<1>1. PICK req, lim, ts, l : req = job[w].req /\ lim = job[w].lim /\ ts = stamp[w] /\ l = NewLease
  OBVIOUS
<1>2. PICK t : t = req.task
  OBVIOUS
<1>3. /\ req \in BudgetCharge /\ t \in Tasks /\ lim \in LimitSets /\ ts \in Nat /\ l \in Leases
  BY <1>1, <1>2, JobParts, NewLeaseIsNew
<1>4. RatesOK(rates[t]) /\ LoopsOK(loops[t]) /\ LeasesOK(leases[t]) /\ view[w].row \in Row
  BY <1>3 DEF TablesOK, CallersOK
<1>5. rates' = rates \/ (\E r : RatesOK(r) /\ rates' = [rates EXCEPT ![t] = r])
  <2>1. \/ rates' = rates
        \/ rates' = [rates EXCEPT ![t] =
                       Updated(After(rates[t], ts - lim.window - 1), Entries(req, ts))]
    BY <1>1, <1>2 DEF Commit, InWindow
  <2>2. RatesOK(Updated(After(rates[t], ts - lim.window - 1), Entries(req, ts)))
    BY <1>3, <1>4, EntriesType
  <2> QED
    BY <2>1, <2>2
<1>6. engine \in SqlEngines
  BY DEF Commit, AccountTypes, InTransaction
<1>7. loops' = loops \/ (\E r : LoopsOK(r) /\ loops' = [loops EXCEPT ![t] = r])
  <2>1. loops' = loops \/ loops' = [loops EXCEPT ![t] = << <<req.sig, ts>> >> \o loops[t]]
    BY <1>1, <1>2 DEF Commit
  <2>2. << <<req.sig, ts>> >> \o loops[t] \in Seq(Signatures \X Nat)
    BY <1>3, <1>4, LoopsType DEF LoopsOK
  <2>3. LoopsOK(<< <<req.sig, ts>> >> \o loops[t])
    BY <1>3, <1>6, <2>2 DEF LoopsOK, SqlEngines
  <2> QED
    BY <2>1, <2>3
<1>8. leases' = leases \/ (\E r : LeasesOK(r) /\ leases' = [leases EXCEPT ![t] = r])
  <2>1. \/ leases' = leases
        \/ leases' = [leases EXCEPT ![t] = With(After(leases[t], ts), l, ts + lim.leaseTtl)]
    BY <1>1, <1>2 DEF Commit
  <2>2. LeasesOK(With(After(leases[t], ts), l, ts + lim.leaseTtl))
    BY <1>3, <1>4, LeasesType
  <2> QED
    BY <2>1, <2>2
<1>9. /\ budgets' = [budgets EXCEPT ![t] = Charged(view[w].row, req)]
      /\ \E key, record : idem' = With(idem, key, record)
      /\ engine' = engine
  BY <1>1, <1>2 DEF Commit
<1>10. Charged(view[w].row, req) \in Row /\ IsFiniteSet(DOMAIN idem')
  BY <1>3, <1>4, <1>9, ChargedType, OneRecordMore
<1> QED
  BY <1>3, <1>5, <1>7, <1>8, <1>9, <1>10, Written

\* A lease is given back.
LEMMA ReleaseTables ==
  ASSUME TablesOK, NEW t \in Tasks, NEW key \in DOMAIN idem, Release(t, key)
  PROVE  TablesOK'
<1>1. PICK l, D : l = idem[key].lease /\ D = DOMAIN leases[t]
  OBVIOUS
<1>2. /\ leases' = [leases EXCEPT ![t] = [k \in D \ {l} |-> leases[t][k]]]
      /\ UNCHANGED <<engine, budgets, rates, loops, idem>>
  BY <1>1 DEF Release
<1>3. IsFiniteSet(D \ {l}) /\ D \subseteq Leases
  BY <1>1, FS_Subset DEF TablesOK, LeasesOK
<1>4. LeasesOK([k \in D \ {l} |-> leases[t][k]])
  BY <1>3 DEF LeasesOK
<1>5. IsFiniteSet(DOMAIN idem')
  BY <1>2 DEF TablesOK
<1> QED
  BY <1>2, <1>4, <1>5, Written

\* Who is served; the views of transactions.
LEMMA CallersNext ==
  ASSUME AccountTypes, TablesOK, CallersOK, NEW w \in Workers, Charging(w)
  PROVE  CallersOK'
<1>1. NoJob \in Jobs /\ NoRow \in Row /\ NoRows.row = NoRow /\ "row" \in DOMAIN NoRows
  BY EnginesAssumption DEF NoJob, NoRow, NoRows, Row
<1>2. now \in Nat /\ MaxTime[engine] \in Nat /\ 0 \in 0 .. MaxTime[engine]
  BY EnginesAssumption DEF CallersOK
<1>3. ASSUME Return(w), UNCHANGED <<engine, now>> PROVE CallersOK'
  <2>1. /\ at' \in [Workers -> Stages] /\ job' \in [Workers -> Jobs]
        /\ stamp' \in [Workers -> 0 .. MaxTime[engine]] /\ DOMAIN view' = Workers
    BY <1>1, <1>2, <1>3 DEF Return, CallersOK, Stages, Outside
  <2>2. ASSUME NEW v \in Workers
        PROVE  \/ view'[v] = NoRows
               \/ view'[v] = view[v] /\ at'[v] = at[v]
    BY <1>3 DEF Return, CallersOK
  <2> QED
    BY <1>1, <1>3, <2>1, <2>2 DEF CallersOK, InTransaction
<1>4. CASE \E j \in Jobs : BeginCharge(w, j)
  <2>1. PICK j \in Jobs : BeginCharge(w, j)
    BY <1>4
  <2>2. /\ at' \in [Workers -> Stages] /\ job' \in [Workers -> Jobs]
        /\ stamp' \in [Workers -> 0 .. MaxTime[engine]] /\ UNCHANGED <<engine, now, view>>
    BY <2>1 DEF BeginCharge, CallersOK, Stages, Outside
  <2>3. \A v \in Workers : InTransaction(v) => InTransaction(v)'
    BY <2>1 DEF BeginCharge, CallersOK, InTransaction
  <2> QED
    BY <2>2, <2>3 DEF CallersOK
<1>5. CASE Script(w)
  BY <1>3, <1>5 DEF Script
<1>6. CASE LookUp(w)
  <2>1. CASE Return(w)
    BY <1>3, <1>6, <2>1 DEF LookUp
  <2>2. CASE ~Return(w)
    <3>1. /\ Stage(w, "looked") /\ UNCHANGED <<engine, now>>
          /\ view' = [view EXCEPT ![w] = IF engine = "mysql" THEN Rows(job[w].req.task) ELSE NoRows]
      BY <1>6, <2>2 DEF LookUp
    <3>2. job[w].req.task \in Tasks
      BY JobParts
    <3>3. Rows(job[w].req.task).row \in Row /\ "row" \in DOMAIN Rows(job[w].req.task)
      BY <3>2 DEF Rows, TablesOK
    <3>4. /\ at' \in [Workers -> Stages] /\ job' \in [Workers -> Jobs]
          /\ stamp' \in [Workers -> 0 .. MaxTime[engine]] /\ DOMAIN view' = Workers
      BY <3>1 DEF Stage, CallersOK, Stages, Outside
    <3>5. ASSUME NEW v \in Workers
          PROVE  IF v = w THEN /\ InTransaction(v)'
                               /\ view'[v] = NoRows \/ view'[v] = Rows(job[w].req.task)
                 ELSE view'[v] = view[v] /\ at'[v] = at[v]
      BY <3>1 DEF Stage, CallersOK, InTransaction
    <3> QED
      BY <1>1, <3>1, <3>3, <3>4, <3>5 DEF CallersOK, InTransaction
  <2> QED
    BY <2>1, <2>2
<1>7. CASE ReadRow(w)
  <2>1. /\ Stage(w, "read") /\ UNCHANGED <<engine, now>>
        /\ view' = IF engine = "mysql" THEN view
                   ELSE [view EXCEPT ![w].row = budgets[job[w].req.task]]
    BY <1>7 DEF ReadRow
  <2>2. budgets[job[w].req.task] \in Row
    BY JobParts DEF TablesOK
  <2>3. /\ at' \in [Workers -> Stages] /\ job' \in [Workers -> Jobs]
        /\ stamp' \in [Workers -> 0 .. MaxTime[engine]] /\ DOMAIN view' = Workers
    BY <2>1 DEF Stage, CallersOK, Stages, Outside
  <2>4. ASSUME NEW v \in Workers
        PROVE  /\ IF v = w THEN InTransaction(v)' ELSE at'[v] = at[v] /\ view'[v] = view[v]
               /\ "row" \in DOMAIN view'[v] /\ view'[v].row \in Row
    BY <2>1, <2>2 DEF Stage, CallersOK, InTransaction
  <2> QED
    BY <2>1, <2>3, <2>4 DEF CallersOK, InTransaction
<1>8. CASE Commit(w)
  BY <1>3, <1>8 DEF Commit
<1>9. CASE RollBack(w)
  BY <1>3, <1>9 DEF RollBack
<1> QED
  BY <1>4, <1>5, <1>6, <1>7, <1>8, <1>9 DEF Charging

\* A caller that spends a nonce is in no transaction.
LEMMA SpendersNext ==
  ASSUME CallersOK, NEW w \in Workers, Spending(w) PROVE CallersOK'
<1>1. UNCHANGED <<engine, now, job, view>>
  BY DEF Spending, BeginSpend, Put, Inspect, Overwrite, SpendFails, Answered, Unspent
<1>2. now \in 0 .. MaxTime[engine] /\ 0 \in 0 .. MaxTime[engine]
  BY EnginesAssumption DEF CallersOK
<1>3. /\ \E stage \in {"idle", "spending", "met", "expired"} : at' = [at EXCEPT ![w] = stage]
      /\ stamp' = stamp \/ (\E ts \in {0, now} : stamp' = [stamp EXCEPT ![w] = ts])
      /\ at[w] \in {"idle", "spending", "met", "expired"}
  BY DEF Spending, BeginSpend, Put, Inspect, Overwrite, SpendFails, Answered
<1>4. at' \in [Workers -> Stages] /\ stamp' \in [Workers -> 0 .. MaxTime[engine]]
  <2>1. {"idle", "spending", "met", "expired"} \subseteq Stages
    BY DEF Stages, Outside
  <2>2. at' \in [Workers -> Stages]
    BY <1>3, <2>1 DEF CallersOK
  <2>3. stamp' \in [Workers -> 0 .. MaxTime[engine]]
    BY <1>2, <1>3 DEF CallersOK
  <2> QED
    BY <2>2, <2>3
<1>5. \A v \in Workers : InTransaction(v) => InTransaction(v)'
  BY <1>3 DEF CallersOK, InTransaction
<1> QED
  BY <1>1, <1>4, <1>5 DEF CallersOK

\* Every step keeps the types.
LEMMA TablesNext ==
  ASSUME LeasesNeverEnd, AccountTypes, TablesOK, CallersOK, [Next]_vars
  PROVE  TablesOK' /\ CallersOK'
<1>1. ASSUME UNCHANGED <<engine, tables>> PROVE TablesOK'
  BY <1>1 DEF tables, TablesOK, RatesOK, LoopsOK, LeasesOK
<1>2. ASSUME NEW w \in Workers, Charging(w) PROVE TablesOK'
  <2>1. CASE Script(w) \/ Commit(w)
    BY <2>1, ScriptTables, CommitTables
  <2>2. CASE ~(Script(w) \/ Commit(w))
    BY <1>1, <1>2, <2>2 DEF Charging, BeginCharge, LookUp, ReadRow, RollBack
  <2> QED
    BY <2>1, <2>2
<1>3. ASSUME NEW w \in Workers, Spending(w) PROVE TablesOK'
  BY <1>1, <1>3 DEF Spending, BeginSpend, Put, Inspect, Overwrite, SpendFails, Answered, Unspent
<1>4. CASE Releasing
  <2>1. TablesOK'
    BY <1>4, ReleaseTables DEF Releasing
  <2>2. UNCHANGED <<engine, now, at, job, stamp, view>>
    BY <1>4 DEF Releasing, Release
  <2> QED
    BY <2>1, <2>2 DEF CallersOK, InTransaction
<1>5. CASE Tick
  <2>1. TablesOK'
    BY <1>1, <1>5 DEF Tick
  <2>2. now' \in 0 .. MaxTime[engine] /\ UNCHANGED <<engine, at, job, stamp, view>>
    BY <1>5, EnginesAssumption DEF Tick, CallersOK
  <2> QED
    BY <2>1, <2>2 DEF CallersOK, InTransaction
<1>6. CASE (\E n \in Nonces : Expire(n)) \/ UNCHANGED vars
  <2>1. UNCHANGED tableVars
    BY <1>6 DEF Expire, vars
  <2> QED
    BY <1>1, <2>1 DEF tableVars, CallersOK, InTransaction
<1> QED
  BY <1>2, <1>3, <1>4, <1>5, <1>6, CallersNext, SpendersNext DEF Next

LEMMA TablesStart == Init => TablesOK /\ CallersOK
<1> SUFFICES ASSUME Init PROVE TablesOK /\ CallersOK
  OBVIOUS
<1>1. NoJob \in Jobs /\ NoRow \in Row /\ NoRows.row = NoRow /\ "row" \in DOMAIN NoRows
  BY EnginesAssumption DEF NoJob, NoRow, NoRows, Row
<1>2. PICK lim : lim \in LimitSets
  BY EnginesAssumption
<1>3. lim.loopHistory \in Nat
  BY <1>2, LimitsAssumption DEF BudgetLimits
<1>4. DOMAIN <<>> = {} /\ <<>> \in Seq(Signatures \X Nat) /\ Len(<<>>) = 0
  BY EmptySeq
<1>5. IsFiniteSet({})
  BY FS_EmptySet
<1>6. RatesOK(<<>>) /\ LeasesOK(<<>>)
  BY <1>4, <1>5 DEF RatesOK, LeasesOK
<1>7. LoopsOK(<<>>)
  BY <1>2, <1>3, <1>4 DEF LoopsOK
<1>8. TablesOK
  BY <1>1, <1>4, <1>5, <1>6, <1>7 DEF Init, TablesInit, TablesOK
<1>9. engine \in Engines /\ 0 \in 0 .. MaxTime[engine]
  BY EnginesAssumption DEF Init, TablesInit
<1>10. CallersOK
  BY <1>1, <1>9 DEF Init, TablesInit, CallersOK, Stages, Outside
<1> QED
  BY <1>8, <1>10

\* Tables and records keep their types; Redis's lists stay short (LTRIM), and
\* a row that a caller has read belongs to its transaction: in Redis and in
\* the SQL databases, MySQL included (charge() and release_concurrency() of
\* RedisBudgetBackend and SqlBudgetBackend, spend() of the nonce stores).
THEOREM EnginesTyped ==
  ASSUME LeasesNeverEnd PROVE Spec => []TypeOK
<1>1. TablesOK /\ CallersOK /\ NonceInv => TypeOK
  <2> SUFFICES ASSUME TablesOK, CallersOK, NonceInv PROVE TypeOK
    OBVIOUS
  <2>1. NoNonce \in Nonces
    BY EnginesAssumption DEF NoNonce
  <2>2. DOMAIN nonces \subseteq Nonces /\ spending \in [Workers -> Nonces]
    BY <2>1 DEF NonceInv, NonceTypes
  <2> QED
    BY <2>2 DEF TablesOK, CallersOK, TypeOK, RatesOK, LoopsOK, LeasesOK, Row, Stages, Outside
<1>2. TablesOK /\ CallersOK /\ AccountInv /\ [Next]_vars => TablesOK' /\ CallersOK'
  BY TablesNext DEF AccountInv
<1>3. Init => NonceInv
  BY EnginesAssumption DEF Init, TablesInit, NoncesInit, NonceInv, NonceTypes, Outside, Stages
<1> QED
  BY <1>1, <1>2, <1>3, TablesStart, NonceNext, AccountInit, AccountNext, PTL DEF Spec
=============================================================================
