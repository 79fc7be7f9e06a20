------------------------------ MODULE MCEngines -----------------------------
(* Two callers in two processes, one task, one envelope.                    *)
EXTENDS Engines

CONSTANTS t1

AllIds == {"a", "b", "c"}
AllSignatures == {"tool", "other"}

\* Together the requests need more calls, tokens and risk than there is, and
\* some orders of them more slots or repetitions.
TaskLimits ==
  [maxCalls |-> 3, maxTokens |-> 3, rate |-> 3, window |-> 1,
   maxIdentical |-> 1, loopHistory |-> 2,
   maxConcurrent |-> 2, leaseTtl |-> 1, maxRisk |-> 2]
EveryLimit == {TaskLimits}

Charge(id, sig, n, risk, tokens) ==
  [req |-> [task |-> t1, id |-> id, sig |-> sig, callN |-> n, risk |-> risk, tokens |-> tokens],
   lim |-> TaskLimits]
MCJobs ==
  {Charge("a", "tool", 2, 2, 2), Charge("b", "other", 1, 1, 1), Charge("c", "tool", 1, 0, 1)}

MCLeases == 1 .. 7
MCExpiresAt == [n \in {"n"} |-> 3]

\* The largest instance has the shorter time; PostgreSQL and MySQL spend nonces as SQLite does.
MCMaxSpends == [e \in NonceEngines |-> IF e \in {"postgres", "mysql"} THEN 0 ELSE 2]
MCMaxTime == [e \in NonceEngines |-> IF e = "redis" THEN 2 ELSE 3]
Symmetry == Permutations(Workers)
=============================================================================
