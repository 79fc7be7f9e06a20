---------------------------- MODULE MCToolPipeline ----------------------------
(* Instances of ToolPipeline for TLC: two tools and the policies of the     *)
(* runs.  "write" is the risky tool, "read" the cacheable one.             *)
EXTENDS ToolPipeline, TLC

MCTools == {"read", "write"}
MCRisk == [x \in MCTools |-> IF x = "write" THEN 2 ELSE 1]
OneTool == {"read"}
OneRisk == [x \in OneTool |-> 1]

\* A block that allows every tool and has no limits, gates or guards.
Plain ==
  [enforce |-> TRUE, allow |-> Tools, quotas |-> <<>>, rates |-> <<>>,
   deadlines |-> <<>>, risks |-> <<>>, loops |-> <<>>, slots |-> <<>>,
   gates |-> [x \in Tools |-> {}], guards |-> FALSE, memory |-> FALSE,
   timeout |-> "none"]

\* An outer block with a quota, a risk budget and a loop guard; a nested block
\* that adds a quota of its own, denies "write" and puts gates on "read"; the
\* outer block in monitor mode.
OuterBlock == [Plain EXCEPT !.quotas = <<"outer">>, !.risks = <<"danger">>, !.loops = <<"repeat">>]
NestedBlock ==
  [OuterBlock EXCEPT !.quotas = <<"outer", "inner">>, !.allow = {"read"},
                     !.gates = [x \in Tools |-> {"approval"}], !.memory = TRUE]
GatedBlock ==
  [OuterBlock EXCEPT !.gates = [x \in Tools |-> IF x = "write" THEN {"async"} ELSE {}],
                     !.guards = TRUE]
MonitorBlock == [OuterBlock EXCEPT !.enforce = FALSE]

\* Calls paced by the clock only.
PacedBlock == [Plain EXCEPT !.rates = <<"rate">>, !.deadlines = <<"deadline">>]
LimitPolicies == {OuterBlock, NestedBlock, GatedBlock, MonitorBlock, PacedBlock}

\* Blocks that share concurrency limits, acquired in one global order; hanging
\* bodies are cut off by a timer or left to a worker thread.  What two blocks may
\* read, and cache, one is forbidden and one has a gate on that always refuses.
SharedSlot ==
  [Plain EXCEPT !.allow = {"read"}, !.quotas = <<"outer">>, !.slots = <<"api">>, !.timeout = "abandon"]
BothSlots == [SharedSlot EXCEPT !.slots = <<"api", "db">>, !.timeout = "cancel"]
DbSlot ==
  [SharedSlot EXCEPT !.allow = {"write"}, !.quotas = <<"inner">>, !.slots = <<"db">>, !.timeout = "alarm"]
GatedSlot == [SharedSlot EXCEPT !.quotas = <<"inner">>, !.gates = [x \in Tools |-> {"async"}]]
SlotPolicies == {SharedSlot, BothSlots, DbSlot, GatedSlot}
ReadPolicies == {SharedSlot, BothSlots}

\* A nested block that names the concurrency limit of its outer block again.
RepeatedPolicies == {[SharedSlot EXCEPT !.slots = <<"api", "api">>]}

QuotaCaps == [outer |-> 3, inner |-> 1]
SlotQuotaCaps == [QuotaCaps EXCEPT !.outer = 2]
RiskCaps == [danger |-> 3]
LoopCaps == [repeat |-> 1]
LoopWindow == [repeat |-> 3]
SlotCaps == [api |-> 1, db |-> 1]
RateCaps == [rate |-> 2]
RateWindows == [rate |-> 2]
DeadlineCaps == [deadline |-> 2]

\* Bound: a behaviour either charges budgets or lets time pass under paced
\* calls of one tool; the code's rate limits and deadlines share no state with
\* its budgets.
BudgetsOrPace ==
  \/ /\ now = 0
     /\ \A r \in RateLimits : admitted[r] = <<>>
     /\ \A d \in Deadlines : clock[d] = NotStarted
  \/ /\ \A q \in Quotas : calls[q] = 0
     /\ \A t \in Threads : pc[t] = "idle" \/ (P(t) = PacedBlock /\ Tool(t) = "read")

Symmetry == Permutations(Threads)
=============================================================================
