------------------------------- MODULE Engines ------------------------------
(***************************************************************************)
(* Callers in several processes share the budget store and the nonce store *)
(* of one database: BudgetTables, RedisBudget, SqlBudget and NonceStores   *)
(* together.                                                               *)
(***************************************************************************)
EXTENDS NonceStores, Sums

vars == <<tableVars, nonceVars>>

ASSUME EnginesAssumption ==
  /\ Jobs # {} /\ \A j \in Jobs : j.req \in BudgetCharge /\ j.lim \in LimitSets
  /\ Engines \subseteq NonceEngines /\ Nonces # {}
  /\ IdemTtl \in Nat \ {0} /\ Second \in Nat \ {0}
  /\ MaxTime \in [Engines -> Nat] /\ MaxSpends \in [Engines -> Nat] /\ ExpiresAt \in [Nonces -> Nat]

Init == TablesInit /\ NoncesInit

Charging(w) ==
  \/ \E j \in Jobs : BeginCharge(w, j)
  \/ Script(w) \/ LookUp(w) \/ ReadRow(w) \/ Commit(w) \/ RollBack(w)

Spending(w) ==
  \/ \E n \in Nonces : BeginSpend(w, n)
  \/ Put(w) \/ Inspect(w) \/ Overwrite(w) \/ SpendFails(w)

Releasing == \E t \in Tasks : \E key \in DOMAIN idem : Release(t, key)

Tick ==
  /\ now < MaxTime[engine]
  /\ now' = now + 1
  /\ UNCHANGED <<engine, tables, at, job, stamp, view, nonceVars>>

Next ==
  \/ \E w \in Workers : Charging(w) /\ UNCHANGED nonceVars
  \/ \E w \in Workers : Spending(w)
  \/ Releasing /\ UNCHANGED nonceVars
  \/ \E n \in Nonces : Expire(n)
  \/ Tick

Spec == Init /\ [][Next]_vars
-----------------------------------------------------------------------------
\* Tables hold what their columns hold, and Redis's lists and sets no more
\* entries than the limits keep; who has read a row of a task is in its
\* transaction.
TypeOK ==
  /\ engine \in Engines /\ now \in 0 .. MaxTime[engine]
  /\ \A t \in Tasks :
       /\ budgets[t] \in [calls : Nat, tokens : Nat, risk : Nat, stored : BOOLEAN]
       /\ DOMAIN rates[t] \subseteq Ids \X Nat
       /\ DOMAIN leases[t] \subseteq Leases
       /\ \E lim \in LimitSets : engine = "redis" => Len(loops[t]) <= lim.loopHistory
  /\ at \in [Workers -> {"idle", "called", "looked", "read", "spending", "met", "expired"}]
  /\ job \in [Workers -> Jobs] /\ stamp \in [Workers -> 0 .. MaxTime[engine]]
  /\ \A w \in Workers : view[w] # NoRows => InTransaction(w)
  /\ DOMAIN nonces \subseteq Nonces /\ spending \in [Workers -> Nonces]

GrantsOf(t) == {i \in DOMAIN grants : grants[i].req.task = t}

\* What the grants carried.
CallsOf == [i \in DOMAIN grants |-> grants[i].req.callN]
RiskOf == [i \in DOMAIN grants |-> grants[i].req.risk]
TokensOf == [i \in DOMAIN grants |-> grants[i].req.tokens]

\* A request is booked once, by whichever process, however its retries and
\* transactions overlap; in Redis, once as long as its record lasts.
RequestsBookedOnce ==
  \A i, j \in DOMAIN grants :
    (i < j /\ IdemKey(grants[i].req) = IdemKey(grants[j].req))
      => engine = "redis" /\ grants[j].at - grants[i].at >= IdemTtl

\* "Atomic budget charging": processes that charge one task at the same time,
\* with retries and transactions that fail, book every granted charge and
\* nothing else; a refused SQL charge leaves no rate entry and no lease.
\* Excepted is MySQL, where two transactions that read the same row write over
\* each other's sum.
AccountsExact ==
  \A t \in Tasks :
    /\ engine # "mysql" =>
         /\ budgets[t].calls = SumOf(CallsOf, GrantsOf(t))
         /\ budgets[t].risk = SumOf(RiskOf, GrantsOf(t))
    /\ engine \in SqlEngines =>
         /\ \A e \in DOMAIN rates[t] : \E i \in GrantsOf(t) : grants[i].req.id = e[1]
         /\ \A l \in DOMAIN leases[t] : \E key \in DOMAIN idem : idem[key].lease = l

\* What is granted stays within the budgets, and no more leases are out than
\* there are slots, whichever processes charge and however old the time is
\* that they read before; MySQL is excepted again.
GrantedWithinLimits ==
  \A t \in Tasks, lim \in LimitSets :
    LET within(f, max) == max # None => SumOf(f, GrantsOf(t)) <= max IN
    engine # "mysql" =>
      /\ within(CallsOf, lim.maxCalls)
      /\ within(RiskOf, lim.maxRisk)
      /\ engine # "redis" => within(TokensOf, lim.maxTokens)
      /\ lim.maxConcurrent # None => Cardinality(DOMAIN leases[t]) <= lim.maxConcurrent

\* Whatever store agents share, an envelope is accepted once before its window
\* ends: no record expires early, and of callers that come at the same time
\* one makes it (spend).
NonceSpentOnce == \A n \in Nonces : accepted[n] <= 1
=============================================================================
