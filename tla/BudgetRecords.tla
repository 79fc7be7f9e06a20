---------------------------- MODULE BudgetRecords ---------------------------
(***************************************************************************)
(* What callers and budget stores exchange (distributed/backends/          *)
(* __init__.py): a charge, and the limits it is to be charged against.     *)
(***************************************************************************)
EXTENDS Integers

CONSTANTS Tasks,      \* task ids (with their org: the store's state key)
          Ids,        \* request ids
          Signatures,
          LimitSets   \* the BudgetLimits callers charge with

\* A limit that is not set (Optional[int] = None).
None == -1

BudgetLimits ==
  [maxCalls : Nat \cup {None}, maxTokens : Nat \cup {None},
   rate : (Nat \ {0}) \cup {None}, window : Nat \ {0},
   maxIdentical : (Nat \ {0}) \cup {None}, loopHistory : Nat \ {0},
   maxConcurrent : Nat \cup {None}, leaseTtl : Nat \ {0},
   maxRisk : Nat \cup {None}]

BudgetCharge ==
  [task : Tasks, id : Ids, sig : Signatures, callN : Nat, risk : Nat, tokens : Nat]

\* RateLimit and LoopGuard accept no other values.
ASSUME LimitsAssumption ==
  /\ LimitSets \subseteq BudgetLimits
  /\ \A lim \in LimitSets : lim.loopHistory > lim.maxIdentical
=============================================================================
