----------------------------- MODULE MCGateway ------------------------------
(* A gateway of two threads, one task, two agents that verify.              *)
EXTENDS Gateway

CONSTANTS t1, w1, w2, v1, v2

TwoWorkers == {w1, w2}
OneProcess == [w \in TwoWorkers |-> "gateway"]
OneTask == {t1}
AllIds == {"m1", "m2", "k"}
AllSignatures == {"tool", "tokens"}

\* Two calls, one slot, one token, and every other limit small enough to be met.
TaskLimits ==
  [maxCalls |-> 2, maxTokens |-> 1, rate |-> 2, window |-> 1,
   maxIdentical |-> 2, loopHistory |-> 3,
   maxConcurrent |-> 1, leaseTtl |-> 2, maxRisk |-> None]
EveryLimit == {TaskLimits}

Charged(id) ==
  [req |-> [task |-> t1, id |-> id, sig |-> "tool", callN |-> 1, risk |-> 0, tokens |-> 0],
   lim |-> TaskLimits]
Tokens ==
  [req |-> [task |-> t1, id |-> "k", sig |-> "tokens", callN |-> 0, risk |-> 0, tokens |-> 1],
   lim |-> TaskLimits]
TokenCharge == {Tokens}
AllCharges == {Charged("m1"), Charged("m2"), Tokens}
LeasePool == 1 .. 6

Symmetry == Permutations({w1, w2}) \cup Permutations({v1, v2})
=============================================================================
