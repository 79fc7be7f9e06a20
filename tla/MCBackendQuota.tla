--------------------------- MODULE MCBackendQuota ---------------------------
(* Small instances of BackendQuota: one task, two or three workers.         *)
EXTENDS BackendQuota

CONSTANT t1

\* Every limit of the store at once, each small enough to be met.
AllLimits ==
  [maxCalls |-> 3, maxTokens |-> 3, rate |-> 2, window |-> 2,
   maxIdentical |-> 2, loopHistory |-> 4,
   maxConcurrent |-> 2, leaseTtl |-> 1, maxRisk |-> 2]

\* A call limit and a concurrency limit only.
CallsAndSlots ==
  [AllLimits EXCEPT !.maxTokens = None, !.rate = None,
                    !.maxIdentical = None, !.maxConcurrent = 1, !.maxRisk = None]

\* Nothing but the call limit.
CallsOnly == [CallsAndSlots EXCEPT !.maxConcurrent = None]

Worker(name, run, limits, charges) ==
  [name |-> name, task |-> t1, run |-> run, agent |-> name, limits |-> limits,
   chargeCalls |-> charges]

\* One worker in a plain block, one in a block under an envelope.
TwoWorkers ==
  {Worker("a", "r1", AllLimits, TRUE), Worker("b", "r2", AllLimits, FALSE)}

\* Two blocks given the same RunContext: safely(backend=store, run=ctx) twice.
OneRun ==
  {Worker("a", "r1", CallsOnly, TRUE), Worker("b", "r1", CallsOnly, TRUE)}

NoWorkers == {}

WorkerIds == [run : {"r1", "r2"}, kind : {"call", "tok"}, n : 1 .. MaxSeq]
Minted(id, n, cost, used) ==
  [task |-> t1, id |-> [run |-> "m", kind |-> "mint", n |-> id],
   sig |-> <<"mint", "m">>, callN |-> n, risk |-> cost, tokens |-> used]
Mints == {Minted(1, 2, 2, 0), Minted(2, 1, 1, 1)}
AllIds == WorkerIds \cup {req.id : req \in Direct}
AllSignatures == {"call", "tokens", "mint"} \X {"a", "b", "m"}

OneTask == {t1}
EveryLimit == {AllLimits}
EveryLimitValue == AllLimits
SlotLimits == {CallsAndSlots}
SlotLimitsValue == CallsAndSlots
CallLimits == {CallsOnly}
CallLimitsValue == CallsOnly
=============================================================================
