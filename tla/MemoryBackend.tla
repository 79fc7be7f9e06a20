---------------------------- MODULE MemoryBackend ---------------------------
(***************************************************************************)
(* The in-process budget store, distributed/backends/__init__.py, class    *)
(* MemoryBackend.  Gateways and workers charge it for tasks; each charge   *)
(* runs the limits of its caller one after the other under the store's     *)
(* lock, so it is one step here.  The order of the limits matters, because *)
(* a limit that refuses leaves behind what the earlier ones recorded.      *)
(***************************************************************************)
EXTENDS BudgetRecords, Limits, Sums, FiniteSetsExt

CONSTANT MaxTime      \* bound: the last value of the clock

ASSUME TimeAssumption == MaxTime \in Nat

VARIABLES idem,    \* request id -> the charge that was granted under it
          calls, tokens,  \* per task: Quota.calls_used, Quota.tokens_used
          rate, loop, risk, \* per task: the RateLimit, LoopGuard, RiskBudget
          leases,  \* per task: lease -> when it expires
          semCount,  \* per task: leases counted as taken
          now      \* time.monotonic()

perTask == <<calls, tokens, rate, loop, risk, leases, semCount>>
storeVars == <<idem, perTask, now>>

\* The objects of a task that has not met the limit yet.
NoRate == [limit |-> None, window |-> 1, times |-> <<>>]
NoLoop == [max |-> None, history |-> 1, recent |-> <<>>]
NoRisk == [max |-> None, spent |-> 0]

StoreInit ==
  /\ idem = <<>>
  /\ calls = [t \in Tasks |-> 0] /\ tokens = [t \in Tasks |-> 0]
  /\ rate = [t \in Tasks |-> NoRate]
  /\ loop = [t \in Tasks |-> NoLoop]
  /\ risk = [t \in Tasks |-> NoRisk]
  /\ leases = [t \in Tasks |-> <<>>] /\ semCount = [t \in Tasks |-> 0]
  /\ now = 0
-----------------------------------------------------------------------------
(* What each limit of lim says to the charge req.                          *)

CallsFit(req, lim) ==
  lim.maxCalls = None \/ Affordable(calls[req.task], req.callN, lim.maxCalls)

\* Mutant: the rate object is renewed by every charge.
RateAlwaysRenewed(t, lim) ==
  [limit |-> lim.rate, window |-> lim.window, times |-> <<>>]

\* The object of the last charge is kept unless its limit was another one.
RateOf(t, lim) ==
  IF rate[t].limit = lim.rate THEN rate[t]
  ELSE [limit |-> lim.rate, window |-> lim.window, times |-> <<>>]

\* One timestamp per call, as long as the window has room.
RateCharged(req, lim) ==
  LET r    == RateOf(req.task, lim)
      live == IF req.callN = 0 THEN r.times ELSE DropExpired(r.times, now - r.window)
      room == IF Len(live) < r.limit THEN r.limit - Len(live) ELSE 0
  IN  [object |-> [r EXCEPT !.times =
                     live \o [i \in 1 .. Min({req.callN, room}) |-> now]],
       fits   |-> req.callN <= room]

LoopCharged(req, lim) ==
  LET kept == IF loop[req.task].max = lim.maxIdentical THEN loop[req.task]
              ELSE [max |-> lim.maxIdentical, history |-> lim.loopHistory,
                    recent |-> <<>>]
      longer == Remember(kept.recent, req.sig, kept.history)
  IN  [object |-> [kept EXCEPT !.recent = longer],
       fits   |-> Occurrences(longer, req.sig) <= kept.max]

Expired(t) == {lease \in DOMAIN leases[t] : leases[t][lease] <= now}
Unexpired(t) == [lease \in DOMAIN leases[t] \ Expired(t) |-> leases[t][lease]]

\* The count after the expired leases gave theirs back: max(0, count - 1) each.
Purged(t) ==
  LET gone == Cardinality(Expired(t))
  IN  IF semCount[t] >= gone THEN semCount[t] - gone ELSE 0

RiskCharged(req, lim) ==
  LET kept == IF risk[req.task].max = lim.maxRisk THEN risk[req.task]
              ELSE [max |-> lim.maxRisk, spent |-> 0]
      fits == Affordable(kept.spent, req.risk, kept.max)
  IN  [object |-> IF fits THEN [kept EXCEPT !.spent = @ + req.risk] ELSE kept,
       fits   |-> fits]

RateFits(req, lim) == lim.rate = None \/ RateCharged(req, lim).fits
LoopFits(req, lim) == lim.maxIdentical = None \/ LoopCharged(req, lim).fits
LeaseFitsOneMore(req, lim) ==
  lim.maxConcurrent = None \/ Purged(req.task) <= lim.maxConcurrent
LeaseFits(req, lim) == lim.maxConcurrent = None \/ Purged(req.task) < lim.maxConcurrent
RiskSet(req, lim) == lim.maxRisk # None /\ req.risk > 0
RiskFits(req, lim) == RiskSet(req, lim) => RiskCharged(req, lim).fits
TokensSet(req, lim) == lim.maxTokens # None /\ req.tokens > 0
TokensFit(req, lim) ==
  TokensSet(req, lim) => Affordable(tokens[req.task], req.tokens, lim.maxTokens)

\* The charge passes every limit.
Fits(req, lim) ==
  /\ CallsFit(req, lim) /\ RateFits(req, lim) /\ LoopFits(req, lim)
  /\ LeaseFits(req, lim) /\ RiskFits(req, lim) /\ TokensFit(req, lim)
-----------------------------------------------------------------------------
(* MemoryBackend.charge of a request id it has not granted: the limits in  *)
(* the code's order; `atX` says that the charge reaches limit X.           *)

\* The leases a charge leaves: its own is added last, and taken back when the
\* risk budget or the token quota refuses.  Mutant: it stays.
LeasesAfterKeeping(req, lim) ==
  [lease \in DOMAIN Unexpired(req.task) \cup {req.id} |->
     IF lease = req.id THEN now + lim.leaseTtl ELSE leases[req.task][lease]]

LeasesAfter(req, lim) ==
  IF Fits(req, lim)
  THEN [lease \in DOMAIN Unexpired(req.task) \cup {req.id} |->
          IF lease = req.id THEN now + lim.leaseTtl ELSE leases[req.task][lease]]
  ELSE Unexpired(req.task)

ChargeLimits(req, lim) ==
  LET t       == req.task
      atRate  == CallsFit(req, lim)
      atLoop  == atRate /\ RateFits(req, lim)
      atLease == atLoop /\ LoopFits(req, lim)
      atRisk  == atLease /\ LeaseFits(req, lim)
      granted == Fits(req, lim)
  IN
  /\ calls' = IF atRate /\ lim.maxCalls # None
              THEN [calls EXCEPT ![t] = @ + req.callN] ELSE calls
  /\ rate' = IF atRate /\ lim.rate # None
             THEN [rate EXCEPT ![t] = RateCharged(req, lim).object] ELSE rate
  /\ loop' = IF atLoop /\ lim.maxIdentical # None
             THEN [loop EXCEPT ![t] = LoopCharged(req, lim).object] ELSE loop
  /\ IF atLease /\ lim.maxConcurrent # None
     THEN /\ leases' = [leases EXCEPT ![t] = LeasesAfter(req, lim)]
          /\ semCount' = [semCount EXCEPT ![t] =
                            Purged(t) + (IF granted THEN 1 ELSE 0)]
     ELSE UNCHANGED <<leases, semCount>>
  /\ risk' = IF atRisk /\ RiskSet(req, lim)
             THEN [risk EXCEPT ![t] = RiskCharged(req, lim).object] ELSE risk
  /\ tokens' = IF granted /\ TokensSet(req, lim)
               THEN [tokens EXCEPT ![t] = @ + req.tokens] ELSE tokens
  /\ idem' = IF granted
             THEN [id \in DOMAIN idem \cup {req.id} |->
                     IF id = req.id
                     THEN [req |-> req, at |-> now, callsUsed |-> calls'[t]]
                     ELSE idem[id]]
             ELSE idem
  /\ UNCHANGED now

\* Mutant: ids are forgotten.
NeverKnown(id) == FALSE

\* A granted id is known for ever: charging it again returns the same result.
Known(id) == id \in DOMAIN idem

Charge(req, lim) ==
  IF Known(req.id) THEN UNCHANGED storeVars ELSE ChargeLimits(req, lim)

\* Does the caller of Charge get a result, rather than an exception?
Succeeds(req, lim) == Known(req.id) \/ Fits(req, lim)

\* Mutant: the count goes down for a lease that is already gone.
ReleaseUnchecked(t, lease) ==
  /\ leases' = [leases EXCEPT ![t] =
                  [l \in DOMAIN leases[t] \ {lease} |-> leases[t][l]]]
  /\ semCount' = [semCount EXCEPT ![t] = @ - 1]
  /\ UNCHANGED <<idem, calls, tokens, rate, loop, risk, now>>

\* MemoryBackend.release_concurrency.
ReleaseConcurrency(t, lease) ==
  /\ IF lease \in DOMAIN leases[t]
     THEN /\ leases' = [leases EXCEPT ![t] =
                          [l \in DOMAIN leases[t] \ {lease} |-> leases[t][l]]]
          /\ semCount' = [semCount EXCEPT ![t] = IF @ > 0 THEN @ - 1 ELSE 0]
     ELSE UNCHANGED <<leases, semCount>>
  /\ UNCHANGED <<idem, calls, tokens, rate, loop, risk, now>>

Tick ==
  /\ now < MaxTime
  /\ now' = now + 1
  /\ UNCHANGED <<idem, perTask>>
-----------------------------------------------------------------------------
(* Properties of the store.                                                *)

StoreTypeOK ==
  /\ DOMAIN idem \subseteq Ids
  /\ \A id \in DOMAIN idem :
       /\ idem[id].req \in BudgetCharge /\ idem[id].req.id = id
       /\ idem[id].at \in 0 .. MaxTime /\ idem[id].callsUsed \in Nat
  /\ calls \in [Tasks -> Nat] /\ tokens \in [Tasks -> Nat]
  /\ semCount \in [Tasks -> Nat] /\ now \in 0 .. MaxTime
  /\ \A t \in Tasks :
       /\ rate[t].limit \in Nat \cup {None} /\ rate[t].window \in Nat \ {0}
       /\ rate[t].times \in Seq(0 .. MaxTime)
       /\ loop[t].max \in Nat \cup {None} /\ loop[t].history \in Nat \ {0}
       /\ loop[t].recent \in Seq(Signatures)
       /\ risk[t].max \in Nat \cup {None} /\ risk[t].spent \in Nat
       /\ DOMAIN leases[t] \subseteq Ids
       /\ \A lease \in DOMAIN leases[t] : leases[t][lease] \in Nat

\* The granted charges of a task, and what they carried.
GrantsOf(t) == {id \in DOMAIN idem : idem[id].req.task = t}

CallsOf == [id \in DOMAIN idem |-> idem[id].req.callN]
RiskOf == [id \in DOMAIN idem |-> idem[id].req.risk]
TokensOf == [id \in DOMAIN idem |-> idem[id].req.tokens]

\* A lease is held for a granted charge of its task only, and the number of
\* leases is the number counted: no refusal after the lease was taken (risk,
\* tokens), no expiry and no release loses or leaks a slot.
LeasesAccounted ==
  \A t \in Tasks :
    /\ DOMAIN leases[t] \subseteq GrantsOf(t)
    /\ semCount[t] = Cardinality(DOMAIN leases[t])

\* What granted charges carried is booked, once however often they are retried:
\* tokens exactly, because nothing can refuse a charge after them, risk at
\* least.  So neither budget is overdrawn, whatever was refused in between (for
\* a task whose callers all charge with the same budgets).
GrantsBooked ==
  \A t \in Tasks :
    /\ SumOf(RiskOf, GrantsOf(t)) <= risk[t].spent
    /\ SumOf(TokensOf, GrantsOf(t)) = tokens[t]
    /\ \A lim \in LimitSets :
         /\ lim.maxRisk # None => risk[t].spent <= lim.maxRisk
         /\ lim.maxTokens # None => tokens[t] <= lim.maxTokens

\* No window of the rate limit sees more granted calls than the limit.
GrantsWithinRate ==
  \A t \in Tasks, lim \in LimitSets, end \in 0 .. MaxTime :
    LET within == {id \in GrantsOf(t) : end - lim.window < idem[id].at /\ idem[id].at <= end}
    IN  lim.rate # None => SumOf(CallsOf, within) <= lim.rate
=============================================================================
