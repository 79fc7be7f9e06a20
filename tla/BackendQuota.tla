---------------------------- MODULE BackendQuota ----------------------------
(***************************************************************************)
(* Workers that share a task's budget through one store.  Each safely(...) *)
(* block with a backend has a BackendQuota (distributed/backends/          *)
(* __init__.py), which numbers its charges and makes their request ids     *)
(* from the RunContext of the block.  Besides them the gateway, or a       *)
(* worker without a block, charges the store with an id of its own, and    *)
(* charges again when the answer was lost.                                 *)
(* A quota charges under its own lock and the store under its lock, and    *)
(* nothing else is read in between, so a charge is one step.               *)
(***************************************************************************)
EXTENDS MemoryBackend

CONSTANTS Quotas,     \* the BackendQuotas: [name, task, run, agent, limits, chargeCalls]
          Direct,     \* the BudgetCharges sent straight to the store
          DirectLimits, \* the limits they are sent with
          TokenCharges, \* what a model call may cost, in tokens
          MaxSeq      \* bound: charges per quota

ASSUME QuotasAssumption ==
  /\ IsFiniteSet(Quotas) /\ MaxSeq \in Nat
  /\ \A q \in Quotas :
       /\ q.task \in Tasks /\ q.limits \in LimitSets /\ q.chargeCalls \in BOOLEAN
       /\ <<"call", q.agent>> \in Signatures /\ <<"tokens", q.agent>> \in Signatures
       /\ \A kind \in {"call", "tok"}, n \in 1 .. MaxSeq :
            [run |-> q.run, kind |-> kind, n |-> n] \in Ids
  /\ Direct \subseteq BudgetCharge /\ DirectLimits \in LimitSets
  /\ TokenCharges \subseteq Nat \ {0}

VARIABLES seq,        \* per quota: _seq
          callsUsed,  \* per quota: calls_used, the store's count at its last charge
          tokensUsed, \* per quota: tokens_used, what it charged itself
          passed      \* history: per quota, how often charge_call let a call through

quotaVars == <<seq, callsUsed, tokensUsed, passed>>
vars == <<storeVars, quotaVars>>

Init ==
  /\ StoreInit
  /\ seq = [q \in Quotas |-> 0]
  /\ callsUsed = [q \in Quotas |-> 0] /\ tokensUsed = [q \in Quotas |-> 0]
  /\ passed = [q \in Quotas |-> 0]

\* Mutant: the number of the charge is not part of its id.
IdWithoutNumber(q, kind) == [run |-> q.run, kind |-> kind, n |-> 1]

\* f"{request_id}:{kind}:{seq}", for the charge being made.
RequestId(q, kind) == [run |-> q.run, kind |-> kind, n |-> seq[q] + 1]

CallCharge(q) ==
  [task |-> q.task, id |-> RequestId(q, "call"), sig |-> <<"call", q.agent>>,
   callN |-> 1, risk |-> 0, tokens |-> 0]

\* Mutant: the tokens do not reach the store.
TokenChargeEmpty(q, n) ==
  [task |-> q.task, id |-> RequestId(q, "tok"), sig |-> <<"tokens", q.agent>>,
   callN |-> 0, risk |-> 0, tokens |-> 0]

TokenCharge(q, n) ==
  [task |-> q.task, id |-> RequestId(q, "tok"), sig |-> <<"tokens", q.agent>>,
   callN |-> 0, risk |-> 0, tokens |-> n]

\* ChargeResult.calls_used: the count when the id was granted.
CallsReported(req) ==
  IF Known(req.id) THEN idem[req.id].callsUsed ELSE calls'[req.task]

\* BackendQuota.charge_call.  The lease of the result is dropped.  The block of
\* an envelope has chargeCalls false, its charge_call returns at once: the call
\* was charged when the envelope was minted.
ChargeCall(q) ==
  /\ q.chargeCalls
  /\ seq[q] < MaxSeq
  /\ seq' = [seq EXCEPT ![q] = @ + 1]
  /\ Charge(CallCharge(q), q.limits)
  /\ IF Succeeds(CallCharge(q), q.limits)
     THEN /\ callsUsed' = [callsUsed EXCEPT ![q] = CallsReported(CallCharge(q))]
          /\ passed' = [passed EXCEPT ![q] = @ + 1]
     ELSE UNCHANGED <<callsUsed, passed>>
  /\ UNCHANGED tokensUsed

\* BackendQuota.charge_tokens.
ChargeTokens(q, n) ==
  /\ seq[q] < MaxSeq
  /\ seq' = [seq EXCEPT ![q] = @ + 1]
  /\ Charge(TokenCharge(q, n), q.limits)
  /\ tokensUsed' = IF Succeeds(TokenCharge(q, n), q.limits)
                   THEN [tokensUsed EXCEPT ![q] = @ + n] ELSE tokensUsed
  /\ UNCHANGED <<callsUsed, passed>>

DirectCharge(req) == Charge(req, DirectLimits) /\ UNCHANGED quotaVars

Release(t, lease) == ReleaseConcurrency(t, lease) /\ UNCHANGED quotaVars

Time == Tick /\ UNCHANGED quotaVars

Next ==
  \/ \E q \in Quotas : ChargeCall(q)
  \/ \E q \in Quotas, n \in TokenCharges : ChargeTokens(q, n)
  \/ \E req \in Direct : DirectCharge(req)
  \/ \E req \in Direct : Release(req.task, req.id)
  \/ Time

Spec == Init /\ [][Next]_vars
-----------------------------------------------------------------------------
TypeOK ==
  /\ StoreTypeOK
  /\ seq \in [Quotas -> 0 .. MaxSeq]
  /\ callsUsed \in [Quotas -> Nat] /\ tokensUsed \in [Quotas -> Nat]
  /\ passed \in [Quotas -> Nat]

\* Every call that a quota lets through was charged to the task's budget, so
\* the workers of a task together get through at most the calls of its budget
\* (DISTRIBUTED.md: "With calls=3, the 4th parallel call anywhere raises").
LetThrough(t) == SumOf(passed, {q \in Quotas : q.task = t /\ q.chargeCalls})

EveryCallCharged == \A t \in Tasks : LetThrough(t) <= calls[t]

\* Tokens that the quotas of a task believe they spent are on its account.
EveryTokenCharged ==
  \A t \in Tasks : SumOf(tokensUsed, {q \in Quotas : q.task = t}) <= tokens[t]
-----------------------------------------------------------------------------
(* The store keeps the contract of a shared budget: what it granted is what *)
(* its idempotency records say, and unexpired or not, the leases it counts  *)
(* are the slots taken.                                                     *)

Contract ==
  INSTANCE SharedBudget WITH
    MaxCalls <- DirectLimits.maxCalls,
    MaxConcurrent <- DirectLimits.maxConcurrent,
    granted <- [id \in DOMAIN idem |->
                  [task |-> idem[id].req.task, n |-> idem[id].req.callN]],
    holders <- [t \in Tasks |-> DOMAIN leases[t]]

ContractKept == Contract!Spec
=============================================================================
