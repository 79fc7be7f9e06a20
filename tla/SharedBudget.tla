---------------------------- MODULE SharedBudget ----------------------------
(***************************************************************************)
(* What the workers of a task rely on when they share one budget through a *)
(* BudgetBackend (distributed/backends/__init__.py, class BudgetBackend):  *)
(* a charge is granted at most once per request id, grants never add up to *)
(* more calls than the cap, and never more of them hold a concurrency slot *)
(* than there are slots.  How a store decides, and what a refused charge   *)
(* leaves behind, is not part of this contract.                            *)
(***************************************************************************)
EXTENDS Sums

CONSTANTS Tasks,   \* task ids, each with the org it belongs to
          Ids,     \* request ids, the idempotency keys
          MaxCalls, MaxConcurrent

VARIABLES granted, \* what each granted request was granted: id -> [task, n]
          holders  \* task -> the requests that hold one of its slots

vars == <<granted, holders>>

GrantsOf(t) == {id \in DOMAIN granted : granted[id].task = t}

\* Calls granted to task t so far.
Spent(t) == SumOf([id \in DOMAIN granted |-> granted[id].n], GrantsOf(t))

Init ==
  /\ granted = <<>>
  /\ holders = [t \in Tasks |-> {}]

\* A request is granted its calls and a slot; slots may lapse on the way.
Grant(id, t, n) ==
  /\ id \notin DOMAIN granted
  /\ Spent(t) + n <= MaxCalls
  /\ granted' = [i \in DOMAIN granted \cup {id} |->
                   IF i = id THEN [task |-> t, n |-> n] ELSE granted[i]]
  /\ \E keep \in SUBSET holders[t] :
       /\ Cardinality(keep) < MaxConcurrent
       /\ holders' = [holders EXCEPT ![t] = keep \cup {id}]

\* Slots are released, or their leases expire.
GiveBack(t) ==
  /\ \E keep \in SUBSET holders[t] : holders' = [holders EXCEPT ![t] = keep]
  /\ UNCHANGED granted

Next ==
  \E t \in Tasks :
    \/ \E id \in Ids, n \in 0 .. MaxCalls : Grant(id, t, n)
    \/ GiveBack(t)

Spec == Init /\ [][Next]_vars
=============================================================================
