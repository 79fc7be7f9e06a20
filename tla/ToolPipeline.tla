----------------------------- MODULE ToolPipeline -----------------------------
(***************************************************************************)
(* The enforcement pipeline around one guarded tool call                   *)
(* (core/pipeline.py, run_tool_call), run by several threads at once over  *)
(* limit objects they share: quotas, rate limits, deadlines, risk budgets, *)
(* loop guards, concurrency limits and the per-tool result cache.          *)
(*                                                                         *)
(* A step is what a thread does between two points where another thread    *)
(* may run: one locked section of one limit object, one operation on a     *)
(* shared dict or list, or a stretch of purely local work.  The policy of  *)
(* a call is read once, when the call begins, as the code does.            *)
(***************************************************************************)
EXTENDS Limits

CONSTANTS
  Threads,            \* threads (or tasks) making guarded calls
  MainThread,         \* the main thread, where only SIGALRM is delivered: at
                      \* most one of them
  Tools,              \* guarded tools; a tool stands for its capability too
  Args,               \* what the arguments of a call may be
  Risk,               \* [Tools -> Nat], the risk= weight of each tool
  Cacheable,          \* tools declared with cache=True
  Hangs,              \* tools whose body may never return on its own
  Nesting,            \* tools whose body makes guarded or metered calls of its own
  CacheMax,           \* _CACHE_MAX
  Quotas, MaxCalls,           \* shared Quota objects that set max_calls
  RateLimits, RateCap, Window,
  Deadlines, Seconds,
  RiskBudgets, MaxRisk,
  LoopGuards, MaxIdentical, History,
  ConcurrencyLimits, MaxConcurrent,
  Policies,           \* the policies that may be current when a call begins
  MaxTime,            \* bound on the clock
  MaxOrphans          \* bound on abandoned workers per policy

GateKinds == {"reasoning", "approval", "constitution", "preview", "async"}

\* A policy: each tuple lists the limits of the enclosing safety_context
\* blocks, outermost first.  gates[tool] are the kinds of gate that cover the
\* tool ("async": a gate with a coroutine hook over a synchronous tool).  A
\* timeout is kept by SIGALRM in the main thread, by asyncio.wait_for, or by a
\* worker thread that is abandoned.
Policy ==
  [enforce: BOOLEAN, allow: SUBSET Tools,
   quotas: Seq(Quotas), rates: Seq(RateLimits), deadlines: Seq(Deadlines),
   risks: Seq(RiskBudgets), loops: Seq(LoopGuards),
   slots: Seq(ConcurrencyLimits),
   gates: [Tools -> SUBSET GateKinds],
   guards: BOOLEAN, memory: BOOLEAN,
   timeout: {"none", "alarm", "cancel", "abandon"}]

ASSUME ToolAssumption ==
  /\ Risk \in [Tools -> Nat]
  /\ Cacheable \subseteq Tools
  /\ Hangs \subseteq Tools /\ Nesting \subseteq Tools
  /\ MainThread \subseteq Threads
  /\ CacheMax \in Nat \ {0}
  /\ IsFiniteSet(Threads)
  /\ Tools # {} /\ Args # {} /\ Policies # {}

\* The constructors reject non-positive rate limits, windows, deadlines,
\* loop bounds and concurrency caps.
ASSUME LimitAssumption ==
  /\ MaxCalls \in [Quotas -> Nat]
  /\ MaxRisk \in [RiskBudgets -> Nat]
  /\ RateCap \in [RateLimits -> Nat \ {0}]
  /\ Window \in [RateLimits -> Nat \ {0}]
  /\ Seconds \in [Deadlines -> Nat \ {0}]
  /\ MaxIdentical \in [LoopGuards -> Nat \ {0}]
  /\ History \in [LoopGuards -> Nat]
  /\ \A g \in LoopGuards : History[g] > MaxIdentical[g]
  /\ MaxConcurrent \in [ConcurrencyLimits -> Nat \ {0}]

ASSUME PolicyAssumption == Policies \subseteq Policy

ASSUME BoundAssumption ==
  /\ MaxTime \in Nat
  /\ MaxOrphans \in Nat

VARIABLES
  pc, at,       \* the stage each thread is in, and its position in the tuple
  call,         \* the call each thread is making
  stamp,        \* the clock value read for the limit being charged
  returned,     \* whether the body returned (otherwise it raised or timed out)
  victim,       \* the cache key a thread is evicting
  calls,        \* Quota.calls_used
  times,        \* RateLimit._times
  clock,        \* Deadline._start
  risk,         \* RiskBudget.risk_used
  recent,       \* LoopGuard._recent
  sem,          \* the value of ConcurrencyLimit._sync_sem
  cache, order, \* ToolCallSpec.cache (its keys) and cache_order
  disarmed,     \* threads whose last body has had its alarm switched off
  orphans,      \* abandoned worker threads still running, per policy
  now           \* time.monotonic()

\* History variables: what the limits are there to bound.
VARIABLES
  started,      \* bodies started under each quota
  exposure,     \* risk of the bodies started under each risk budget
  admitted,     \* times at which each rate limit let a call through, those that
                \* left the window dropped
  passed,       \* for each entry of recent, whether the guard let it pass
  begun         \* when the thread's call began

local == <<pc, at, call, stamp, returned, victim, begun>>
budgets == <<calls, risk>>
pacing == <<times, clock, admitted>>
loops == <<recent, passed>>
memo == <<cache, order>>
bodies == <<started, exposure, disarmed>>

shared == <<budgets, pacing, loops, memo, bodies, sem, orphans, now>>
vars == <<local, shared>>

Call == [policy: Policies, tool: Tools, arg: Args]

P(t) == call[t].policy
Tool(t) == call[t].tool
Sig(t) == <<call[t].tool, call[t].arg>>
InTuple(seq) == {seq[i] : i \in DOMAIN seq}

------------------------------------------------------------------------------
(* Types *)

Stages ==
  {"idle", "quota", "rate", "rateLock", "deadline", "deadlineLock", "require",
   "risk", "gates", "cache", "hit", "loop", "guards", "acquire", "body",
   "release", "put", "order", "evict", "drop", "finish"}

\* The locals of a thread that is in no call.
NoCall == CHOOSE c \in Call : TRUE
NoKey == CHOOSE a \in Args : TRUE

LocalTypeOK ==
  /\ pc \in [Threads -> Stages]
  /\ at \in [Threads -> Nat \ {0}]
  /\ call \in [Threads -> Call]
  /\ stamp \in [Threads -> Nat]
  /\ returned \in [Threads -> BOOLEAN]
  /\ victim \in [Threads -> Args]
  /\ begun \in [Threads -> Nat]

BudgetTypeOK ==
  /\ calls \in [Quotas -> Nat]
  /\ started \in [Quotas -> Nat]
  /\ risk \in [RiskBudgets -> Nat]
  /\ exposure \in [RiskBudgets -> Nat]

PaceTypeOK ==
  /\ times \in [RateLimits -> Seq(Nat)]
  /\ admitted \in [RateLimits -> Seq(Nat)]
  /\ clock \in [Deadlines -> Nat \cup {NotStarted}]
  /\ now \in Nat

OtherTypeOK ==
  /\ recent \in [LoopGuards -> Seq(Tools \X Args)]
  /\ passed \in [LoopGuards -> Seq(BOOLEAN)]
  /\ sem \in [ConcurrencyLimits -> Nat]
  /\ cache \in [Tools -> SUBSET Args]
  /\ order \in [Tools -> Seq(Args)]
  /\ disarmed \subseteq Threads
  /\ orphans \in [Policies -> Nat]

\* Every variable has its type: in particular no counter and no recorded time
\* leaves its range (run_tool_call and the limits it charges).
TypeOK == LocalTypeOK /\ BudgetTypeOK /\ PaceTypeOK /\ OtherTypeOK

Init ==
  /\ pc = [t \in Threads |-> "idle"]
  /\ at = [t \in Threads |-> 1]
  /\ call = [t \in Threads |-> NoCall]
  /\ stamp = [t \in Threads |-> 0]
  /\ returned = [t \in Threads |-> FALSE]
  /\ victim = [t \in Threads |-> NoKey]
  /\ calls = [q \in Quotas |-> 0]
  /\ times = [r \in RateLimits |-> <<>>]
  /\ clock = [d \in Deadlines |-> NotStarted]
  /\ risk = [b \in RiskBudgets |-> 0]
  /\ recent = [g \in LoopGuards |-> <<>>]
  /\ sem = MaxConcurrent
  /\ cache = [x \in Tools |-> {}]
  /\ order = [x \in Tools |-> <<>>]
  /\ disarmed = {}
  /\ orphans = [p \in Policies |-> 0]
  /\ now = 0
  /\ started = [q \in Quotas |-> 0]
  /\ exposure = [b \in RiskBudgets |-> 0]
  /\ admitted = [r \in RateLimits |-> <<>>]
  /\ passed = [g \in LoopGuards |-> <<>>]
  /\ begun = [t \in Threads |-> 0]

------------------------------------------------------------------------------
(* Moving through the checklist *)

In(t, stage) == pc[t] = stage

\* The tuple a stage works through, one locked section per item.
Items(t) ==
  CASE In(t, "quota") -> P(t).quotas
    [] In(t, "rate") -> P(t).rates
    [] In(t, "deadline") -> P(t).deadlines
    [] In(t, "risk") -> IF Risk[Tool(t)] > 0 THEN P(t).risks ELSE <<>>
    [] In(t, "loop") -> P(t).loops
    [] In(t, "acquire") -> P(t).slots
    [] OTHER -> <<>>

Item(t) == Items(t)[at[t]]
MoreItems(t) == at[t] <= Len(Items(t))

\* The stage that follows when the tuple is used up.
FollowedBy ==
  [quota |-> "rate", rate |-> "deadline", deadline |-> "require",
   risk |-> "gates", loop |-> "guards"]

Goto(t, stage) ==
  /\ pc' = [pc EXCEPT ![t] = stage]
  /\ at' = [at EXCEPT ![t] = 1]
  /\ UNCHANGED <<call, stamp, returned, victim, begun>>

NextItem(t) ==
  /\ at' = [at EXCEPT ![t] = @ + 1]
  /\ UNCHANGED <<pc, call, stamp, returned, victim, begun>>

\* The call returns to its caller or raises: the thread's locals are gone.
Leave(t) ==
  /\ pc' = [pc EXCEPT ![t] = "idle"]
  /\ at' = [at EXCEPT ![t] = 1]
  /\ call' = [call EXCEPT ![t] = NoCall]
  /\ stamp' = [stamp EXCEPT ![t] = 0]
  /\ returned' = [returned EXCEPT ![t] = FALSE]
  /\ victim' = [victim EXCEPT ![t] = NoKey]
  /\ begun' = [begun EXCEPT ![t] = 0]

StageDone(t) ==
  /\ pc[t] \in DOMAIN FollowedBy /\ ~MoreItems(t)
  /\ Goto(t, FollowedBy[pc[t]])
  /\ UNCHANGED shared

\* A thread begins a call of tool under the policy that is current for it.
\* In monitor mode the body runs at once, with nothing charged or held.
Begin(t, p, tool, arg) ==
  /\ In(t, "idle")
  /\ p.timeout = "alarm" => t \in MainThread
  /\ pc' = [pc EXCEPT ![t] = IF p.enforce THEN "quota" ELSE "body"]
  /\ call' = [call EXCEPT ![t] = [policy |-> p, tool |-> tool, arg |-> arg]]
  /\ begun' = [begun EXCEPT ![t] = now]
  /\ UNCHANGED <<at, stamp, returned, victim, shared>>

------------------------------------------------------------------------------
(* Step 2: Policy.charge_call.  A refusal keeps what was already charged.  *)

ChargeQuota(t) ==
  LET q == Item(t) IN
  /\ In(t, "quota") /\ MoreItems(t)
  /\ IF Affordable(calls[q], 1, MaxCalls[q])
     THEN NextItem(t) /\ calls' = [calls EXCEPT ![q] = @ + 1]
     ELSE Leave(t) /\ UNCHANGED calls            \* QuotaExceeded
  /\ UNCHANGED <<risk, pacing, loops, memo, bodies, sem, orphans, now>>

\* RateLimit.charge and Deadline.charge read the clock before taking the lock.
ReadClock(t) ==
  /\ pc[t] \in {"rate", "deadline"} /\ MoreItems(t)
  /\ pc' = [pc EXCEPT ![t] = IF In(t, "rate") THEN "rateLock" ELSE "deadlineLock"]
  /\ stamp' = [stamp EXCEPT ![t] = now]
  /\ UNCHANGED <<at, call, returned, victim, begun, shared>>

\* The entries after a time, in a history that never goes back in time.
Since(history, time) ==
  SubSeq(history, 1 + Cardinality({i \in DOMAIN history : history[i] <= time}), Len(history))

ChargeRateHorizon(t) ==              \* mutant: the window's start is recorded, not now
  LET r == P(t).rates[at[t]]
      live == DropExpired(times[r], stamp[t] - Window[r])
  IN
  /\ In(t, "rateLock")
  /\ IF Len(live) < RateCap[r]
     THEN /\ times' = [times EXCEPT ![r] = Append(live, stamp[t] - Window[r])]
          /\ admitted' = [admitted EXCEPT ![r] = Append(Since(@, now - Window[r]), now)]
          /\ pc' = [pc EXCEPT ![t] = "rate"]
          /\ at' = [at EXCEPT ![t] = @ + 1]
          /\ stamp' = [stamp EXCEPT ![t] = 0]
          /\ UNCHANGED <<call, returned, victim, begun>>
     ELSE times' = [times EXCEPT ![r] = live] /\ Leave(t) /\ UNCHANGED admitted
  /\ UNCHANGED <<clock, budgets, loops, memo, bodies, sem, orphans, now>>

ChargeRate(t) ==
  LET r == P(t).rates[at[t]]
      live == DropExpired(times[r], stamp[t] - Window[r])
  IN
  /\ In(t, "rateLock")
  /\ IF Len(live) < RateCap[r]
     THEN /\ times' = [times EXCEPT ![r] = Append(live, stamp[t])]
          /\ admitted' = [admitted EXCEPT ![r] = Append(Since(@, now - Window[r]), now)]
          /\ pc' = [pc EXCEPT ![t] = "rate"]
          /\ at' = [at EXCEPT ![t] = @ + 1]
          /\ stamp' = [stamp EXCEPT ![t] = 0]
          /\ UNCHANGED <<call, returned, victim, begun>>
     ELSE /\ times' = [times EXCEPT ![r] = live]
          /\ Leave(t)                            \* RateLimitExceeded
          /\ UNCHANGED admitted
  /\ UNCHANGED <<clock, budgets, loops, memo, bodies, sem, orphans, now>>

ChargeDeadline(t) ==
  LET d == P(t).deadlines[at[t]] IN
  /\ In(t, "deadlineLock")
  /\ IF InTime(clock[d], Seconds[d], stamp[t])
     THEN /\ clock' = [clock EXCEPT ![d] = IF @ = NotStarted THEN stamp[t] ELSE @]
          /\ pc' = [pc EXCEPT ![t] = "deadline"]
          /\ at' = [at EXCEPT ![t] = @ + 1]
          /\ stamp' = [stamp EXCEPT ![t] = 0]
          /\ UNCHANGED <<call, returned, victim, begun>>
     ELSE Leave(t) /\ UNCHANGED clock            \* DeadlineExceeded
  /\ UNCHANGED <<times, admitted, budgets, loops, memo, bodies, sem, orphans, now>>

------------------------------------------------------------------------------
(* Steps 3-9: memory, permission, risk, gates                              *)

RequireUnlessCached(t) ==            \* mutant: a cached call needs no permission
  /\ In(t, "require")
  /\ \/ P(t).memory /\ Leave(t)
     \/ Tool(t) \in P(t).allow /\ Goto(t, "risk")
     \/ Tool(t) \notin P(t).allow /\ call[t].arg \notin cache[Tool(t)] /\ Leave(t)
     \/ call[t].arg \in cache[Tool(t)] /\ Goto(t, "cache")
  /\ UNCHANGED shared

\* Policy.check_memory and Policy.require.  Heap growth is the program's, so a
\* policy with a memory limit may refuse any call.
Require(t) ==
  /\ In(t, "require")
  /\ \/ P(t).memory /\ Leave(t)                  \* MemoryBudgetExceeded
     \/ Tool(t) \in P(t).allow /\ Goto(t, "risk")
     \/ Tool(t) \notin P(t).allow /\ Leave(t)    \* PermissionDenied
  /\ UNCHANGED shared

ChargeRisk(t) ==
  LET b == Item(t) IN
  /\ In(t, "risk") /\ MoreItems(t)
  /\ IF Affordable(risk[b], Risk[Tool(t)], MaxRisk[b])
     THEN NextItem(t) /\ risk' = [risk EXCEPT ![b] = @ + Risk[Tool(t)]]
     ELSE Leave(t) /\ UNCHANGED risk             \* RiskBudgetExceeded
  /\ UNCHANGED <<calls, pacing, loops, memo, bodies, sem, orphans, now>>

\* The gates share no state, so consulting them is one step.  Any covering
\* gate may refuse; a coroutine hook over a synchronous tool always does
\* (RuntimeError).
ConsultGates(t) ==
  LET covering == P(t).gates[Tool(t)] IN
  /\ In(t, "gates")
  /\ \/ "async" \notin covering /\ Goto(t, "cache")
     \/ covering # {} /\ Leave(t)                 \* the gate's exception
  /\ UNCHANGED shared

------------------------------------------------------------------------------
(* Step 10: the cache.  The lookup and the read are two dict operations.   *)

LookUp(t) ==
  /\ In(t, "cache")
  /\ IF Tool(t) \in Cacheable /\ call[t].arg \in cache[Tool(t)]
     THEN Goto(t, "hit")
     ELSE Goto(t, "loop")
  /\ UNCHANGED shared

ReadCached(t) ==
  /\ In(t, "hit")
  /\ IF call[t].arg \in cache[Tool(t)]
     THEN Goto(t, "finish")
     ELSE Leave(t)                               \* KeyError
  /\ UNCHANGED shared

------------------------------------------------------------------------------
(* Steps 11-12: loop guards, then the input guards                         *)

RecordLoop(t) ==
  LET g == Item(t)
      longer == Remember(recent[g], Sig(t), History[g])
      fine == Occurrences(longer, Sig(t)) <= MaxIdentical[g]
  IN
  /\ In(t, "loop") /\ MoreItems(t)
  /\ recent' = [recent EXCEPT ![g] = longer]
  /\ passed' = [passed EXCEPT ![g] = Remember(@, fine, History[g])]
  /\ IF fine THEN NextItem(t) ELSE Leave(t)      \* LoopDetected
  /\ UNCHANGED <<budgets, pacing, memo, bodies, sem, orphans, now>>

GuardInputs(t) ==
  /\ In(t, "guards")
  /\ \/ Goto(t, "acquire")
     \/ P(t).guards /\ Leave(t)                  \* GuardViolation
  /\ UNCHANGED shared

------------------------------------------------------------------------------
(* Step 13: concurrency slots, the body, its timeout                       *)

AcquireWithoutWaiting(t) ==          \* mutant: a full limit does not block
  LET c == Item(t) IN
  /\ In(t, "acquire") /\ MoreItems(t)
  /\ sem' = [sem EXCEPT ![c] = IF @ > 0 THEN @ - 1 ELSE @]
  /\ NextItem(t)
  /\ UNCHANGED <<budgets, pacing, loops, memo, bodies, orphans, now>>

\* ConcurrencyLimit.hold_sync waits until a slot is free.
Acquire(t) ==
  LET c == Item(t) IN
  /\ In(t, "acquire") /\ MoreItems(t)
  /\ sem[c] > 0
  /\ sem' = [sem EXCEPT ![c] = @ - 1]
  /\ NextItem(t)
  /\ UNCHANGED <<budgets, pacing, loops, memo, bodies, orphans, now>>

StartBody(t) ==
  /\ In(t, "acquire") /\ ~MoreItems(t)
  /\ pc' = [pc EXCEPT ![t] = "body"]
  /\ started' = [q \in Quotas |->
       started[q] + IF q \in InTuple(P(t).quotas) THEN 1 ELSE 0]
  /\ exposure' = [b \in RiskBudgets |->
       exposure[b] + IF b \in InTuple(P(t).risks) THEN Risk[Tool(t)] ELSE 0]
  /\ disarmed' = disarmed \ {t}
  /\ UNCHANGED <<at, call, stamp, returned, victim, begun, budgets, pacing, loops,
                 memo, sem, orphans, now>>

EndBodyLeaking(t) ==                 \* mutant: no finally around the body
  /\ In(t, "body")
  /\ \/ /\ returned' = [returned EXCEPT ![t] = TRUE]
        /\ pc' = [pc EXCEPT ![t] = "release"]
        /\ UNCHANGED <<at, call, stamp, victim, begun>>
     \/ Leave(t)
  /\ UNCHANGED shared

\* The body returns, or raises an exception of its own.
EndBody(t) ==
  /\ In(t, "body")
  /\ \E ok \in BOOLEAN : returned' = [returned EXCEPT ![t] = ok]
  /\ pc' = [pc EXCEPT ![t] = "release"]
  /\ UNCHANGED <<at, call, stamp, victim, begun, shared>>

\* The body makes a guarded or metered call of its own and that call ends.  It
\* runs under the same timeout and, in the main thread, sets the process's one
\* alarm for itself and switches it off.  What it charges and holds is what a
\* call of another thread charges and holds.
NestedCall(t) ==
  /\ In(t, "body") /\ P(t).enforce /\ P(t).timeout = "alarm"
  /\ Tool(t) \in Nesting
  /\ disarmed' = disarmed \cup {t}
  /\ UNCHANGED <<local, started, exposure, budgets, pacing, loops, memo, sem, orphans, now>>

Timed(t) ==
  /\ In(t, "body") /\ P(t).enforce /\ P(t).timeout # "none"
  /\ P(t).timeout = "alarm" => t \notin disarmed

TimeOutLeaking(t) ==                 \* mutant: a timeout keeps the slots
  /\ Timed(t)
  /\ Leave(t)
  /\ UNCHANGED shared

\* call_with_timeout gives up on the body (TimeoutExceeded).  SIGALRM and
\* asyncio.wait_for stop it; a worker thread is left running (from MaxOrphans on
\* they are not told apart).
TimeOut(t) ==
  /\ Timed(t)
  /\ pc' = [pc EXCEPT ![t] = "release"]
  /\ orphans' = [orphans EXCEPT ![P(t)] =
       IF P(t).timeout = "abandon" /\ @ < MaxOrphans THEN @ + 1 ELSE @]
  /\ UNCHANGED <<at, call, stamp, returned, victim, begun, budgets, pacing, loops,
                 memo, bodies, sem, now>>

OrphanEnds(p) ==
  /\ orphans[p] > 0
  /\ orphans' = [orphans EXCEPT ![p] = @ - 1]
  /\ UNCHANGED <<local, budgets, pacing, loops, memo, bodies, sem, now>>

\* The ExitStack releases the slots in reverse order, however the body ended.
Release(t) ==
  LET c == P(t).slots[at[t] - 1] IN
  /\ In(t, "release") /\ at[t] > 1
  /\ sem' = [sem EXCEPT ![c] = @ + 1]
  /\ at' = [at EXCEPT ![t] = @ - 1]
  /\ UNCHANGED <<pc, call, stamp, returned, victim, begun, budgets, pacing, loops,
                 memo, bodies, orphans, now>>

\* All slots are back.  A result goes on to the cache and the output guards;
\* an exception, and any outcome in monitor mode, goes to the caller.
Released(t) ==
  /\ In(t, "release") /\ at[t] = 1
  /\ IF ~returned[t] \/ ~P(t).enforce THEN Leave(t)
     ELSE Goto(t, IF Tool(t) \in Cacheable THEN "put" ELSE "finish")
  /\ UNCHANGED shared

------------------------------------------------------------------------------
(* _cache_put, one dict or list operation at a time                        *)

PutResult(t) ==
  /\ In(t, "put")
  /\ cache' = [cache EXCEPT ![Tool(t)] = @ \cup {call[t].arg}]
  /\ Goto(t, "order")
  /\ UNCHANGED <<order, budgets, pacing, loops, bodies, sem, orphans, now>>

AppendOrder(t) ==
  /\ In(t, "order")
  /\ order' = [order EXCEPT ![Tool(t)] = Append(@, call[t].arg)]
  /\ Goto(t, "evict")
  /\ UNCHANGED <<cache, budgets, pacing, loops, bodies, sem, orphans, now>>

PopOldestLate(t) ==                  \* mutant: >= for > with the bound raised
  /\ In(t, "evict")
  /\ IF Len(order[Tool(t)]) >= CacheMax + 2
     THEN /\ victim' = [victim EXCEPT ![t] = Head(order[Tool(t)])]
          /\ order' = [order EXCEPT ![Tool(t)] = Tail(@)]
          /\ pc' = [pc EXCEPT ![t] = "drop"]
          /\ UNCHANGED <<at, call, stamp, returned, begun>>
     ELSE Goto(t, "finish") /\ UNCHANGED order
  /\ UNCHANGED <<cache, budgets, pacing, loops, bodies, sem, orphans, now>>

\* cache_order.pop(0) chooses the victim; the dict entry goes in a later step.
\* The length test and the pop are one step: a thread pops at most once after
\* its own append, so nothing it could miss in between changes the result.
PopOldest(t) ==
  /\ In(t, "evict")
  /\ IF Len(order[Tool(t)]) > CacheMax
     THEN /\ victim' = [victim EXCEPT ![t] = Head(order[Tool(t)])]
          /\ order' = [order EXCEPT ![Tool(t)] = Tail(@)]
          /\ pc' = [pc EXCEPT ![t] = "drop"]
          /\ UNCHANGED <<at, call, stamp, returned, begun>>
     ELSE Goto(t, "finish") /\ UNCHANGED order
  /\ UNCHANGED <<cache, budgets, pacing, loops, bodies, sem, orphans, now>>

DropVictim(t) ==
  /\ In(t, "drop")
  /\ cache' = [cache EXCEPT ![Tool(t)] = @ \ {victim[t]}]
  /\ pc' = [pc EXCEPT ![t] = "finish"]
  /\ victim' = [victim EXCEPT ![t] = NoKey]
  /\ UNCHANGED <<at, call, stamp, returned, begun, order, budgets, pacing, loops,
                 bodies, sem, orphans, now>>

\* Step 14: the output guards pass the result or raise GuardViolation; either
\* way the call is over.
Finish(t) ==
  /\ In(t, "finish")
  /\ Leave(t)
  /\ UNCHANGED shared

Tick ==
  /\ now < MaxTime
  /\ now' = now + 1
  /\ UNCHANGED <<local, budgets, pacing, loops, memo, bodies, sem, orphans>>

------------------------------------------------------------------------------

\* Everything a thread does inside a call, except that its body ends.
Step(t) ==
  \/ StageDone(t)
  \/ ChargeQuota(t) \/ ReadClock(t) \/ ChargeRate(t) \/ ChargeDeadline(t)
  \/ Require(t) \/ ChargeRisk(t) \/ ConsultGates(t)
  \/ LookUp(t) \/ ReadCached(t) \/ RecordLoop(t) \/ GuardInputs(t)
  \/ Acquire(t) \/ StartBody(t) \/ TimeOut(t) \/ Release(t) \/ Released(t)
  \/ PutResult(t) \/ AppendOrder(t) \/ PopOldest(t) \/ DropVictim(t)
  \/ Finish(t)

Next ==
  \/ \E t \in Threads :
       \/ \E p \in Policies, tool \in Tools, arg \in Args : Begin(t, p, tool, arg)
       \/ Step(t)
       \/ NestedCall(t) \/ EndBody(t)
  \/ \E p \in Policies : OrphanEnds(p)
  \/ Tick

Spec == Init /\ [][Next]_vars

\* Threads keep running and timers that are set fire; a body ends unless its tool
\* may hang.  Nothing makes a thread begin a call, or an abandoned worker end.
Fairness ==
  /\ \A t \in Threads : WF_vars(Step(t))
  /\ \A t \in Threads : WF_vars(Tool(t) \notin Hangs /\ EndBody(t))

FairSpec == Spec /\ Fairness

------------------------------------------------------------------------------
(* Properties *)

\* A thread in no call is at the start of whatever tuple comes next; the
\* inductive invariants of the proofs rest on it.
AtRest == \A t \in Threads : In(t, "idle") => at[t] = 1

\* Stages between the quota charge and the start of the body.
Charged == {"rate", "rateLock", "deadline", "deadlineLock", "require", "risk",
            "gates", "cache", "loop", "guards", "acquire"}

\* The quotas t's call has charged and not yet used for a body.
Paid(t) ==
  IF In(t, "quota") THEN {P(t).quotas[i] : i \in 1..(at[t] - 1)}
  ELSE IF pc[t] \in Charged THEN InTuple(P(t).quotas)
  ELSE {}

Payers(q) == {t \in Threads : q \in Paid(t)}

\* Every body started under a quota was paid for out of it, so that however the
\* threads interleave no more bodies start than max_calls allows: the bodies
\* started and the calls paid but not started never exceed calls_used, which
\* never exceeds the cap (Quota.charge_call, policy.charge_call).
QuotaCoversBodies ==
  \A q \in Quotas :
    /\ started[q] + Cardinality(Payers(q)) <= calls[q]
    /\ calls[q] <= MaxCalls[q]

\* The risk of every body that ever started under a risk budget is within the
\* budget's max_risk, and was charged before the body started
\* (RiskBudget.charge, policy.charge_risk).
RiskCoversBodies ==
  \A b \in RiskBudgets :
    /\ exposure[b] <= risk[b]
    /\ risk[b] <= MaxRisk[b]

\* Of the last History calls a loop guard has seen, at most max_identical with
\* the same signature were let through, whichever threads made them
\* (LoopGuard.record).
LoopBounded ==
  \A g \in LoopGuards : \A i \in DOMAIN recent[g] :
    Cardinality({j \in DOMAIN recent[g] :
                   recent[g][j] = recent[g][i] /\ passed[g][j]}) <= MaxIdentical[g]

AdmittedSince(r, time) == Cardinality({i \in DOMAIN admitted[r] : admitted[r][i] > time})

\* "Allow at most limit calls within any rolling window" (RateLimit), in the
\* time at which the calls are let through.  A thread may be delayed between
\* reading the clock and taking the lock, so each thread can have one late
\* admission on top; never more, however they interleave.
RateWindowWithDelays ==
  \A r \in RateLimits :
    AdmittedSince(r, now - Window[r]) <= RateCap[r] + Cardinality(Threads)

\* A call that begins more than the deadline's seconds after its clock started
\* never runs, however the threads that share the deadline raced to start the
\* clock (Deadline.charge).
LateCallsRefused ==
  \A t \in Threads : \A d \in Deadlines :
    In(t, "body") /\ P(t).enforce /\ d \in InTuple(P(t).deadlines)
    => clock[d] # NotStarted /\ begun[t] - clock[d] <= Seconds[d]

\* A call that runs, or returns a cached result, is one its policy allows and
\* whose gates can pass: neither the cache nor an interleaving gets a call past
\* the permission check or past a gate that must refuse (run_tool_call, steps 4-10).
OnlyAuthorised ==
  \A t \in Threads :
    pc[t] \in {"hit", "loop", "guards", "acquire", "put", "finish"}
      \/ (In(t, "body") /\ P(t).enforce)
    => Tool(t) \in P(t).allow /\ "async" \notin P(t).gates[Tool(t)]

\* The slots t holds: those before its position while it acquires, runs, releases.
Held(t) ==
  IF pc[t] \in {"acquire", "body", "release"} THEN 1..(at[t] - 1) ELSE {}

Units(c) == UNION {{t} \X {i \in Held(t) : P(t).slots[i] = c} : t \in Threads}

\* No exit path keeps or returns a slot too many: a concurrency limit's free
\* slots and the slots held by calls always add up to max_concurrent
\* (_hold_concurrency, ConcurrencyLimit.hold_sync).
SlotsBalanced ==
  \A c \in ConcurrencyLimits : sem[c] + Cardinality(Units(c)) = MaxConcurrent[c]

\* The calls whose caller is waiting for a body that runs under c.
Callers(c) == {t \in Threads : In(t, "body") /\ \E i \in Held(t) : P(t).slots[i] = c}

\* Callers waiting for a body under c are at most max_concurrent.
CallersWithinCap ==
  \A c \in ConcurrencyLimits : Cardinality(Callers(c)) <= MaxConcurrent[c]

\* A cached key can still be evicted: it is in cache_order, or the thread that
\* stored it is about to append it, or a thread is about to drop it (_cache_put).
CacheTracked ==
  \A x \in Tools : \A k \in cache[x] :
    \/ k \in InTuple(order[x])
    \/ \E t \in Threads : In(t, "order") /\ Tool(t) = x /\ call[t].arg = k
    \/ \E t \in Threads : In(t, "drop") /\ Tool(t) = x /\ victim[t] = k

\* Every entry can still be evicted, and the cache outgrows _CACHE_MAX by at
\* most one entry per thread that is in the middle of storing one (_cache_put).
CacheBounded ==
  /\ CacheTracked
  /\ \A x \in Tools :
       Cardinality(cache[x]) <=
         CacheMax + Cardinality({t \in Threads : Tool(t) = x /\ pc[t] \in {"order", "evict", "drop"}})

\* "a cached result short-circuits execution" (step 10): a call that found its
\* key in the cache goes on to the output guards with the cached result.
HitReturnsResult ==
  [][\A t \in Threads : In(t, "hit") => pc'[t] \in {"hit", "finish"}]_vars

\* A guarded call ends, whatever it runs under, when every tool that may hang
\* runs under a timeout and makes no guarded call of its own (call_with_timeout,
\* hold_sync): no refusal, exception or timeout leaves a slot behind that another
\* call waits for.
CallsEnd == \A t \in Threads : ~In(t, "idle") ~> In(t, "idle")
=============================================================================
