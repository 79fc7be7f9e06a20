-------------------------- MODULE ToolPipelineProofs --------------------------
(***************************************************************************)
(* Theorems about ToolPipeline, for every set of threads, tools, policies  *)
(* and limits that the assumptions of that module allow.                   *)
(***************************************************************************)
EXTENDS ToolPipeline, Lemmas

USE DEF NotStarted

------------------------------------------------------------------------------
(* Histories *)

\* The part of a history after a time is a history.
LEMMA SinceType ==
  ASSUME NEW seq \in Seq(Nat), NEW time \in Int
  PROVE  Since(seq, time) \in Seq(Nat)
<1> DEFINE old == {i \in DOMAIN seq : seq[i] <= time}
<1>1. IsFiniteSet(1..Len(seq)) /\ old \subseteq 1..Len(seq)
  <2>1. Len(seq) \in Int /\ DOMAIN seq = 1..Len(seq)
    BY LenProperties
  <2>2. IsFiniteSet(1..Len(seq))
    BY <2>1, FS_Interval
  <2> QED
    BY <2>1, <2>2
<1>2. Cardinality(old) \in Nat
  BY <1>1, FS_Subset, FS_CardinalityType
<1> HIDE DEF old
<1>3. SubSeq(seq, 1 + Cardinality(old), Len(seq)) \in Seq(Nat)
  BY <1>2, LenProperties, SubSeqProperties
<1> QED
  BY <1>3 DEF Since, old

------------------------------------------------------------------------------
(* Type correctness *)

LEMMA Defaults == NoCall \in Call /\ NoKey \in Args
<1>1. PICK p \in Policies, x \in Tools, a \in Args : TRUE
  BY ToolAssumption
<1>2. [policy |-> p, tool |-> x, arg |-> a] \in Call
  BY <1>1 DEF Call
<1> QED
  BY <1>1, <1>2 DEF NoCall, NoKey

\* The three ways in which a stage moves a thread keep its locals well-typed.
LEMMA MovesType ==
  ASSUME LocalTypeOK, NEW t \in Threads
  PROVE  /\ \A stage \in Stages : Goto(t, stage) => LocalTypeOK'
         /\ NextItem(t) => LocalTypeOK'
         /\ Leave(t) => LocalTypeOK'
<1>1. \A stage \in Stages : Goto(t, stage) => LocalTypeOK'
  BY DEF Goto, LocalTypeOK
<1>2. NextItem(t) => LocalTypeOK'
  BY DEF NextItem, LocalTypeOK
<1>3. "idle" \in Stages
  BY DEF Stages
<1>4. Leave(t) => LocalTypeOK'
  BY <1>3, Defaults DEF Leave, LocalTypeOK
<1> QED
  BY <1>1, <1>2, <1>4

\* The record of a call has the fields of its type.
LEMMA CallFields ==
  ASSUME LocalTypeOK, NEW t \in Threads
  PROVE  P(t) \in Policies /\ Tool(t) \in Tools /\ call[t].arg \in Args
BY DEF LocalTypeOK, Call, P, Tool

\* A step that only moves a thread keeps every type.
LEMMA UnsharedType ==
  ASSUME TypeOK, UNCHANGED shared
  PROVE  BudgetTypeOK' /\ PaceTypeOK' /\ OtherTypeOK'
BY DEF TypeOK, BudgetTypeOK, PaceTypeOK, OtherTypeOK, shared, budgets, pacing,
       loops, memo, bodies

LEMMA StageNames ==
  /\ \A s \in DOMAIN FollowedBy : FollowedBy[s] \in Stages
  /\ {"idle", "quota", "rate", "rateLock", "deadline", "deadlineLock", "require",
      "risk", "gates", "cache", "hit", "loop", "guards", "acquire", "body",
      "release", "put", "order", "evict", "drop", "finish"} = Stages
<1>1. DOMAIN FollowedBy = {"quota", "rate", "deadline", "risk", "loop"}
  BY DEF FollowedBy
<1>2. \A s \in DOMAIN FollowedBy : FollowedBy[s] \in Stages
  BY <1>1 DEF FollowedBy, Stages
<1> QED
  BY <1>2 DEF Stages

\* The charges of a call keep the types.
LEMMA ChargesType ==
  ASSUME TypeOK, NEW t \in Threads
  PROVE  /\ ChargeQuota(t) => TypeOK'
         /\ ReadClock(t) => TypeOK'
         /\ ChargeRate(t) => TypeOK'
         /\ ChargeDeadline(t) => TypeOK'
         /\ ChargeRisk(t) => TypeOK'
         /\ RecordLoop(t) => TypeOK'
<1> USE CallFields, MovesType DEF TypeOK
<1>1. ASSUME ChargeQuota(t) PROVE TypeOK'
  <2>1. LocalTypeOK'
    BY <1>1 DEF ChargeQuota
  <2>2. BudgetTypeOK'
    BY <1>1 DEF ChargeQuota, BudgetTypeOK, bodies
  <2>3. PaceTypeOK' /\ OtherTypeOK'
    BY <1>1 DEF ChargeQuota, PaceTypeOK, OtherTypeOK, pacing, loops, memo, bodies
  <2> QED
    BY <2>1, <2>2, <2>3
<1>2. ASSUME ReadClock(t) PROVE TypeOK'
  <2>1. LocalTypeOK'
    BY <1>2 DEF ReadClock, LocalTypeOK, PaceTypeOK, Stages
  <2>2. UNCHANGED shared
    BY <1>2 DEF ReadClock
  <2> QED
    BY <2>1, <2>2, UnsharedType
<1>3. ASSUME ChargeRate(t) PROVE TypeOK'
  <2> DEFINE r == P(t).rates[at[t]]
             live == DropExpired(times[r], stamp[t] - Window[r])
  <2>1. LocalTypeOK'
    <3>1. CASE Leave(t)
      BY <3>1
    <3>2. CASE /\ pc' = [pc EXCEPT ![t] = "rate"]
               /\ at' = [at EXCEPT ![t] = at[t] + 1]
               /\ stamp' = [stamp EXCEPT ![t] = 0]
               /\ UNCHANGED <<call, returned, victim, begun>>
      BY <3>2 DEF LocalTypeOK, Stages
    <3> QED
      BY <1>3, <3>1, <3>2 DEF ChargeRate
  <2>2. PaceTypeOK'
    <3>1. stamp[t] \in Nat /\ now \in Nat
      BY DEF LocalTypeOK, PaceTypeOK
    <3>2. ASSUME r \in RateLimits PROVE Append(live, stamp[t]) \in Seq(Nat) /\ live \in Seq(Nat)
      <4>1. times[r] \in Seq(Nat) /\ stamp[t] - Window[r] \in Int
        BY <3>1, <3>2, LimitAssumption DEF PaceTypeOK
      <4>2. live \in Seq(Nat)
        BY <4>1, DropExpiredType
      <4> QED
        BY <3>1, <4>2, AppendProperties
    <3>3. ASSUME r \in RateLimits
          PROVE  Append(Since(admitted[r], now - Window[r]), now) \in Seq(Nat)
      <4>1. admitted[r] \in Seq(Nat) /\ now - Window[r] \in Int
        BY <3>1, <3>3, LimitAssumption DEF PaceTypeOK
      <4>2. Since(admitted[r], now - Window[r]) \in Seq(Nat)
        BY <4>1, SinceType
      <4> QED
        BY <3>1, <4>2, AppendProperties
    <3> HIDE DEF live, r
    <3>4. times' \in [RateLimits -> Seq(Nat)]
      <4>1. \/ times' = [times EXCEPT ![r] = Append(live, stamp[t])]
            \/ times' = [times EXCEPT ![r] = live]
        BY <1>3 DEF ChargeRate, live, r
      <4> QED
        BY <4>1, <3>2 DEF PaceTypeOK
    <3>5. admitted' \in [RateLimits -> Seq(Nat)]
      <4>1. \/ admitted' = [admitted EXCEPT ![r] =
                 Append(Since(admitted[r], now - Window[r]), now)]
            \/ admitted' = admitted
        BY <1>3 DEF ChargeRate, r
      <4> QED
        BY <4>1, <3>3 DEF PaceTypeOK
    <3>6. UNCHANGED <<clock, now>>
      BY <1>3 DEF ChargeRate
    <3> QED
      BY <3>4, <3>5, <3>6 DEF PaceTypeOK
  <2>3. BudgetTypeOK' /\ OtherTypeOK'
    BY <1>3 DEF ChargeRate, BudgetTypeOK, OtherTypeOK, budgets, bodies, loops, memo
  <2> QED
    BY <2>1, <2>2, <2>3
<1>4. ASSUME ChargeDeadline(t) PROVE TypeOK'
  <2>1. LocalTypeOK'
    <3>1. CASE Leave(t)
      BY <3>1
    <3>2. CASE /\ pc' = [pc EXCEPT ![t] = "deadline"]
               /\ at' = [at EXCEPT ![t] = at[t] + 1]
               /\ stamp' = [stamp EXCEPT ![t] = 0]
               /\ UNCHANGED <<call, returned, victim, begun>>
      BY <3>2 DEF LocalTypeOK, Stages
    <3> QED
      BY <1>4, <3>1, <3>2 DEF ChargeDeadline
  <2>2. PaceTypeOK'
    <3> DEFINE d == P(t).deadlines[at[t]]
    <3>1. stamp[t] \in Nat
      BY DEF LocalTypeOK
    <3>2. \/ clock' = clock
          \/ clock' = [clock EXCEPT ![d] = stamp[t]]
      BY <1>4 DEF ChargeDeadline, PaceTypeOK
    <3>3. UNCHANGED <<times, admitted, now>>
      BY <1>4 DEF ChargeDeadline
    <3> HIDE DEF d
    <3> QED
      BY <3>1, <3>2, <3>3 DEF PaceTypeOK
  <2>3. BudgetTypeOK' /\ OtherTypeOK'
    BY <1>4 DEF ChargeDeadline, BudgetTypeOK, OtherTypeOK, budgets, bodies, loops, memo
  <2> QED
    BY <2>1, <2>2, <2>3
<1>5. ASSUME ChargeRisk(t) PROVE TypeOK'
  <2>1. LocalTypeOK'
    BY <1>5 DEF ChargeRisk
  <2>2. BudgetTypeOK'
    BY <1>5, ToolAssumption DEF ChargeRisk, BudgetTypeOK, bodies
  <2>3. PaceTypeOK' /\ OtherTypeOK'
    BY <1>5 DEF ChargeRisk, PaceTypeOK, OtherTypeOK, pacing, loops, memo, bodies
  <2> QED
    BY <2>1, <2>2, <2>3
<1>6. ASSUME RecordLoop(t) PROVE TypeOK'
  <2> DEFINE g == Item(t)
             longer == Remember(recent[g], Sig(t), History[g])
             fine == Occurrences(longer, Sig(t)) <= MaxIdentical[g]
  <2>1. LocalTypeOK'
    BY <1>6 DEF RecordLoop
  <2>2. Sig(t) \in Tools \X Args /\ fine \in BOOLEAN
    BY DEF Sig, Tool
  <2>3. g \in LoopGuards => longer \in Seq(Tools \X Args)
    BY <2>2, RememberType, LimitAssumption DEF OtherTypeOK
  <2>4. g \in LoopGuards => Remember(passed[g], fine, History[g]) \in Seq(BOOLEAN)
    BY <2>2, RememberType, LimitAssumption DEF OtherTypeOK
  <2> HIDE DEF g, longer, fine
  <2>5. /\ recent' = [recent EXCEPT ![g] = longer]
        /\ passed' = [passed EXCEPT ![g] = Remember(passed[g], fine, History[g])]
    BY <1>6 DEF RecordLoop, g, longer, fine
  <2>6. OtherTypeOK'
    <3>1. recent' \in [LoopGuards -> Seq(Tools \X Args)]
      BY <2>3, <2>5 DEF OtherTypeOK
    <3>2. passed' \in [LoopGuards -> Seq(BOOLEAN)]
      BY <2>4, <2>5 DEF OtherTypeOK
    <3> QED
      BY <1>6, <3>1, <3>2 DEF RecordLoop, OtherTypeOK, memo, bodies
  <2>7. BudgetTypeOK' /\ PaceTypeOK'
    BY <1>6 DEF RecordLoop, BudgetTypeOK, PaceTypeOK, budgets, bodies, pacing
  <2> QED
    BY <2>1, <2>6, <2>7
<1> QED
  BY <1>1, <1>2, <1>3, <1>4, <1>5, <1>6
\* The stages that move a thread without touching what is shared.
LEMMA DecisionsType ==
  ASSUME TypeOK, NEW t \in Threads
  PROVE  /\ StageDone(t) \/ Require(t) \/ ConsultGates(t) \/ LookUp(t)
              \/ ReadCached(t) \/ GuardInputs(t) \/ Released(t) \/ Finish(t)
              \/ EndBody(t) => TypeOK'
         /\ \A p \in Policies, tool \in Tools, arg \in Args :
              Begin(t, p, tool, arg) => TypeOK'
<1> USE MovesType, StageNames DEF TypeOK
<1>1. ASSUME StageDone(t) PROVE TypeOK'
  BY <1>1, UnsharedType DEF StageDone
<1>2. ASSUME Require(t) PROVE TypeOK'
  BY <1>2, UnsharedType DEF Require
<1>3. ASSUME ConsultGates(t) PROVE TypeOK'
  BY <1>3, UnsharedType DEF ConsultGates
<1>4. ASSUME LookUp(t) PROVE TypeOK'
  BY <1>4, UnsharedType DEF LookUp
<1>5. ASSUME ReadCached(t) PROVE TypeOK'
  BY <1>5, UnsharedType DEF ReadCached
<1>6. ASSUME GuardInputs(t) PROVE TypeOK'
  BY <1>6, UnsharedType DEF GuardInputs
<1>7. ASSUME Released(t) PROVE TypeOK'
  BY <1>7, UnsharedType DEF Released
<1>8. ASSUME Finish(t) PROVE TypeOK'
  BY <1>8, UnsharedType DEF Finish
<1>9. ASSUME EndBody(t) PROVE TypeOK'
  <2>1. LocalTypeOK'
    BY <1>9 DEF EndBody, LocalTypeOK
  <2> QED
    BY <1>9, <2>1, UnsharedType DEF EndBody
<1>10. ASSUME NEW p \in Policies, NEW tool \in Tools, NEW arg \in Args,
              Begin(t, p, tool, arg)
       PROVE  TypeOK'
  <2>1. [policy |-> p, tool |-> tool, arg |-> arg] \in Call
    BY DEF Call
  <2>2. LocalTypeOK'
    BY <1>10, <2>1 DEF Begin, LocalTypeOK, PaceTypeOK
  <2> QED
    BY <1>10, <2>2, UnsharedType DEF Begin
<1> QED
  BY <1>1, <1>2, <1>3, <1>4, <1>5, <1>6, <1>7, <1>8, <1>9, <1>10

\* A counter that is updated keeps its type.
LEMMA CounterType ==
  ASSUME NEW S, NEW f \in [S -> Nat], NEW c, NEW n, c \in S => n \in Nat
  PROVE  [f EXCEPT ![c] = n] \in [S -> Nat]
OBVIOUS

\* The slots, the body, the cache: what the rest of a call writes.
LEMMA RunningType ==
  ASSUME TypeOK, NEW t \in Threads
  PROVE  /\ Acquire(t) => TypeOK'
         /\ StartBody(t) => TypeOK'
         /\ TimeOut(t) => TypeOK'
         /\ Release(t) => TypeOK'
         /\ PutResult(t) => TypeOK'
         /\ AppendOrder(t) => TypeOK'
         /\ PopOldest(t) => TypeOK'
         /\ DropVictim(t) => TypeOK'
<1> USE CallFields, MovesType DEF TypeOK
<1>1. ASSUME Acquire(t) PROVE TypeOK'
  <2>1. LocalTypeOK'
    BY <1>1 DEF Acquire
  <2>2. sem' \in [ConcurrencyLimits -> Nat]
    <3> DEFINE c == Item(t)
    <3>1. sem[c] > 0 /\ sem' = [sem EXCEPT ![c] = sem[c] - 1]
      BY <1>1 DEF Acquire
    <3> HIDE DEF c
    <3>2. c \in ConcurrencyLimits => sem[c] - 1 \in Nat
      BY <3>1 DEF OtherTypeOK
    <3> QED
      BY <3>1, <3>2, CounterType DEF OtherTypeOK
  <2>3. OtherTypeOK'
    BY <1>1, <2>2 DEF Acquire, OtherTypeOK, loops, memo, bodies
  <2> QED
    BY <1>1, <2>1, <2>3 DEF Acquire, BudgetTypeOK, PaceTypeOK, budgets, bodies, pacing
<1>2. ASSUME StartBody(t) PROVE TypeOK'
  <2>1. LocalTypeOK'
    BY <1>2, StageNames DEF StartBody, LocalTypeOK
  <2>2. BudgetTypeOK'
    BY <1>2, ToolAssumption DEF StartBody, BudgetTypeOK, budgets
  <2> QED
    BY <1>2, <2>1, <2>2 DEF StartBody, PaceTypeOK, OtherTypeOK, pacing, loops, memo
<1>3. ASSUME TimeOut(t) PROVE TypeOK'
  <2>1. LocalTypeOK'
    BY <1>3, StageNames DEF TimeOut, Timed, LocalTypeOK
  <2>2. OtherTypeOK'
    BY <1>3 DEF TimeOut, Timed, OtherTypeOK, loops, memo, bodies
  <2> QED
    BY <1>3, <2>1, <2>2 DEF TimeOut, Timed, BudgetTypeOK, PaceTypeOK, budgets, bodies, pacing
<1>4. ASSUME Release(t) PROVE TypeOK'
  <2>1. LocalTypeOK'
    BY <1>4 DEF Release, LocalTypeOK
  <2>2. sem' \in [ConcurrencyLimits -> Nat]
    <3> DEFINE c == P(t).slots[at[t] - 1]
    <3>1. sem' = [sem EXCEPT ![c] = sem[c] + 1]
      BY <1>4 DEF Release
    <3> HIDE DEF c
    <3>2. c \in ConcurrencyLimits => sem[c] + 1 \in Nat
      BY DEF OtherTypeOK
    <3> QED
      BY <3>1, <3>2, CounterType DEF OtherTypeOK
  <2>3. OtherTypeOK'
    BY <1>4, <2>2 DEF Release, OtherTypeOK, loops, memo, bodies
  <2> QED
    BY <1>4, <2>1, <2>3 DEF Release, BudgetTypeOK, PaceTypeOK, budgets, bodies, pacing
<1>5. ASSUME PutResult(t) PROVE TypeOK'
  <2>1. LocalTypeOK'
    BY <1>5, StageNames DEF PutResult
  <2>2. OtherTypeOK'
    BY <1>5 DEF PutResult, OtherTypeOK, loops, bodies
  <2> QED
    BY <1>5, <2>1, <2>2 DEF PutResult, BudgetTypeOK, PaceTypeOK, budgets, bodies, pacing
<1>6. ASSUME AppendOrder(t) PROVE TypeOK'
  <2>1. LocalTypeOK'
    BY <1>6, StageNames DEF AppendOrder
  <2>2. Append(order[Tool(t)], call[t].arg) \in Seq(Args)
    BY AppendProperties DEF OtherTypeOK
  <2>3. OtherTypeOK'
    BY <1>6, <2>2 DEF AppendOrder, OtherTypeOK, loops, bodies
  <2> QED
    BY <1>6, <2>1, <2>3 DEF AppendOrder, BudgetTypeOK, PaceTypeOK, budgets, bodies, pacing
<1>7. ASSUME PopOldest(t) PROVE TypeOK'
  <2> DEFINE x == Tool(t)
  <2>1. Len(order[x]) > CacheMax => Head(order[x]) \in Args /\ Tail(order[x]) \in Seq(Args)
    <3>1. order[x] \in Seq(Args) /\ CacheMax \in Nat
      BY ToolAssumption DEF OtherTypeOK
    <3>2. Len(order[x]) > CacheMax => order[x] # <<>>
      BY <3>1
    <3> QED
      BY <3>1, <3>2, HeadTailProperties
  <2>2. LocalTypeOK' /\ order' \in [Tools -> Seq(Args)]
    <3>1. CASE Len(order[x]) > CacheMax
      <4>1. /\ pc' = [pc EXCEPT ![t] = "drop"]
            /\ victim' = [victim EXCEPT ![t] = Head(order[x])]
            /\ order' = [order EXCEPT ![x] = Tail(order[x])]
            /\ UNCHANGED <<at, call, stamp, returned, begun>>
        BY <1>7, <3>1 DEF PopOldest
      <4>2. LocalTypeOK'
        BY <2>1, <3>1, <4>1, StageNames DEF LocalTypeOK
      <4>3. order' \in [Tools -> Seq(Args)]
        BY <2>1, <3>1, <4>1 DEF OtherTypeOK
      <4> QED
        BY <4>2, <4>3
    <3>2. CASE ~(Len(order[x]) > CacheMax)
      BY <1>7, <3>2, StageNames DEF PopOldest, OtherTypeOK
    <3> QED
      BY <3>1, <3>2
  <2>3. OtherTypeOK'
    BY <1>7, <2>2 DEF PopOldest, OtherTypeOK, loops, bodies
  <2> QED
    BY <1>7, <2>2, <2>3 DEF PopOldest, BudgetTypeOK, PaceTypeOK, budgets, bodies, pacing
<1>8. ASSUME DropVictim(t) PROVE TypeOK'
  <2>1. LocalTypeOK'
    BY <1>8, StageNames, Defaults DEF DropVictim, LocalTypeOK
  <2>2. OtherTypeOK'
    BY <1>8 DEF DropVictim, OtherTypeOK, loops, bodies
  <2> QED
    BY <1>8, <2>1, <2>2 DEF DropVictim, BudgetTypeOK, PaceTypeOK, budgets, bodies, pacing
<1> QED
  BY <1>1, <1>2, <1>3, <1>4, <1>5, <1>6, <1>7, <1>8

\* Init has the types.
LEMMA InitType == Init => TypeOK
<1> SUFFICES ASSUME Init PROVE TypeOK
  OBVIOUS
<1>1. LocalTypeOK
  BY Defaults, StageNames DEF Init, LocalTypeOK
<1>2. BudgetTypeOK /\ PaceTypeOK
  BY DEF Init, BudgetTypeOK, PaceTypeOK
<1>3. OtherTypeOK
  BY LimitAssumption DEF Init, OtherTypeOK
<1> QED
  BY <1>1, <1>2, <1>3 DEF TypeOK

\* Every step keeps the types.
LEMMA NextType == TypeOK /\ [Next]_vars => TypeOK'
<1> SUFFICES ASSUME TypeOK, [Next]_vars PROVE TypeOK'
  OBVIOUS
<1>1. ASSUME NEW t \in Threads, Step(t) PROVE TypeOK'
  BY <1>1, ChargesType, DecisionsType, RunningType DEF Step
<1>2. ASSUME NEW t \in Threads, EndBody(t) PROVE TypeOK'
  BY <1>2, DecisionsType
<1>3. ASSUME NEW t \in Threads, NEW p \in Policies, NEW tool \in Tools, NEW arg \in Args,
             Begin(t, p, tool, arg)
      PROVE  TypeOK'
  BY <1>3, DecisionsType
<1>7. ASSUME NEW t \in Threads, NestedCall(t) PROVE TypeOK'
  <2>1. OtherTypeOK'
    BY <1>7 DEF NestedCall, TypeOK, OtherTypeOK, loops, memo
  <2> QED
    BY <1>7, <2>1 DEF NestedCall, TypeOK, LocalTypeOK, BudgetTypeOK, PaceTypeOK, local,
                      budgets, pacing
<1>4. ASSUME NEW p \in Policies, OrphanEnds(p) PROVE TypeOK'
  <2>1. OtherTypeOK'
    BY <1>4 DEF OrphanEnds, TypeOK, OtherTypeOK, loops, memo, bodies
  <2> QED
    BY <1>4, <2>1 DEF OrphanEnds, TypeOK, LocalTypeOK, BudgetTypeOK, PaceTypeOK, local,
                      budgets, bodies, pacing
<1>5. ASSUME Tick PROVE TypeOK'
  BY <1>5 DEF Tick, TypeOK, LocalTypeOK, BudgetTypeOK, PaceTypeOK, OtherTypeOK, local,
              budgets, bodies, pacing, loops, memo
<1>6. ASSUME UNCHANGED vars PROVE TypeOK'
  BY <1>6, UnsharedType DEF vars, local, TypeOK, LocalTypeOK
<1> QED
  BY <1>1, <1>2, <1>3, <1>7, <1>4, <1>5, <1>6 DEF Next

\* Every variable has its type in every reachable state (run_tool_call).
THEOREM TypeCorrect == Spec => []TypeOK
BY InitType, NextType, PTL DEF Spec

------------------------------------------------------------------------------
(* What a step of one thread leaves alone in the others *)

\* The three moves change the locals of their own thread only.
LEMMA MovesFrame ==
  ASSUME LocalTypeOK, NEW t \in Threads, NEW u \in Threads, u # t,
         NextItem(t) \/ Leave(t) \/ \E stage \in Stages : Goto(t, stage)
  PROVE  pc'[u] = pc[u] /\ at'[u] = at[u] /\ call'[u] = call[u]
BY DEF NextItem, Leave, Goto, LocalTypeOK

LEMMA ThreadFrame ==
  ASSUME LocalTypeOK, NEW t \in Threads, NEW u \in Threads, u # t,
         \/ Step(t) \/ EndBody(t)
         \/ \E p \in Policies, tool \in Tools, arg \in Args : Begin(t, p, tool, arg)
  PROVE  pc'[u] = pc[u] /\ at'[u] = at[u] /\ call'[u] = call[u]
<1> DEFINE Same == pc'[u] = pc[u] /\ at'[u] = at[u] /\ call'[u] = call[u]
<1> SUFFICES Same
  OBVIOUS
<1> USE StageNames, MovesFrame
<1>1. StageDone(t) \/ ChargeQuota(t) \/ Require(t) \/ ChargeRisk(t) => Same
  BY DEF StageDone, ChargeQuota, Require, ChargeRisk
<1>2. ReadClock(t) => Same
  BY DEF ReadClock, LocalTypeOK
<1>3. ChargeRate(t) => Same
  <2> SUFFICES ASSUME ChargeRate(t), ~Leave(t) PROVE Same
    OBVIOUS
  <2>1. /\ pc' = [pc EXCEPT ![t] = "rate"]
        /\ at' = [at EXCEPT ![t] = at[t] + 1]
        /\ UNCHANGED call
    BY DEF ChargeRate
  <2> QED
    BY <2>1 DEF LocalTypeOK
<1>4. ChargeDeadline(t) => Same
  <2> SUFFICES ASSUME ChargeDeadline(t), ~Leave(t) PROVE Same
    OBVIOUS
  <2>1. /\ pc' = [pc EXCEPT ![t] = "deadline"]
        /\ at' = [at EXCEPT ![t] = at[t] + 1]
        /\ UNCHANGED call
    BY DEF ChargeDeadline
  <2> QED
    BY <2>1 DEF LocalTypeOK
<1>5. ConsultGates(t) \/ LookUp(t) \/ ReadCached(t) \/ GuardInputs(t) => Same
  BY DEF ConsultGates, LookUp, ReadCached, GuardInputs
<1>6. RecordLoop(t) \/ Acquire(t) => Same
  BY DEF RecordLoop, Acquire
<1>7. StartBody(t) \/ TimeOut(t) \/ Release(t) \/ EndBody(t) => Same
  BY DEF StartBody, TimeOut, Timed, Release, EndBody, LocalTypeOK
<1>8. Released(t) \/ PutResult(t) \/ AppendOrder(t) \/ Finish(t) => Same
  BY DEF Released, PutResult, AppendOrder, Finish
<1>9. PopOldest(t) => Same
  <2>1. CASE \E stage \in Stages : Goto(t, stage)
    BY <2>1
  <2>2. CASE /\ pc' = [pc EXCEPT ![t] = "drop"]
             /\ UNCHANGED <<at, call>>
    BY <2>2 DEF LocalTypeOK
  <2> QED
    BY <2>1, <2>2 DEF PopOldest
<1>10. DropVictim(t) => Same
  BY DEF DropVictim, LocalTypeOK
<1>11. ASSUME NEW p \in Policies, NEW tool \in Tools, NEW arg \in Args, Begin(t, p, tool, arg)
       PROVE  Same
  BY <1>11 DEF Begin, LocalTypeOK
<1> QED
  BY <1>1, <1>2, <1>3, <1>4, <1>5, <1>6, <1>7, <1>8, <1>9, <1>10, <1>11 DEF Step

------------------------------------------------------------------------------
(* Quotas cover the bodies they admit *)

\* Where the three moves take their own thread.
LEMMA MovesOwn ==
  ASSUME LocalTypeOK, NEW t \in Threads
  PROVE  /\ \A stage \in Stages : Goto(t, stage) =>
              pc'[t] = stage /\ at'[t] = 1 /\ call'[t] = call[t]
         /\ NextItem(t) => pc'[t] = pc[t] /\ at'[t] = at[t] + 1 /\ call'[t] = call[t]
         /\ Leave(t) => pc'[t] = "idle" /\ at'[t] = 1
BY DEF Goto, NextItem, Leave, LocalTypeOK

\* What the stages after the one that charges the quotas do to a payment:
\* they keep it or give it up.
LEMMA PaymentKept ==
  ASSUME TypeOK, NEW t \in Threads
  PROVE  /\ pc[t] \in Charged /\ pc'[t] \in Charged /\ call'[t] = call[t]
              => Paid(t)' = Paid(t)
         /\ pc'[t] \notin Charged \cup {"quota"} => Paid(t)' = {}
         /\ pc[t] \notin Charged \cup {"quota"} => Paid(t) = {}
         /\ pc'[t] = "quota" /\ at'[t] = 1 => Paid(t)' = {}
<1>1. "quota" \notin Charged
  BY DEF Charged
<1>2. ASSUME pc[t] \in Charged, pc'[t] \in Charged, call'[t] = call[t]
      PROVE  Paid(t)' = Paid(t)
  BY <1>1, <1>2 DEF Paid, In, P
<1>3. ASSUME pc'[t] \notin Charged \cup {"quota"} PROVE Paid(t)' = {}
  BY <1>3 DEF Paid, In
<1>4. ASSUME pc[t] \notin Charged \cup {"quota"} PROVE Paid(t) = {}
  BY <1>4 DEF Paid, In
<1>5. ASSUME pc'[t] = "quota", at'[t] = 1 PROVE Paid(t)' = {}
  <2>1. Paid(t)' = {P(t)'.quotas[i] : i \in 1..(at'[t] - 1)}
    BY <1>5 DEF Paid, In
  <2>2. 1..(at'[t] - 1) = {}
    BY <1>5
  <2> QED
    BY <2>1, <2>2
<1> QED
  BY <1>2, <1>3, <1>4, <1>5

\* Every step of a thread but a quota charge and the start of its body keeps
\* the counters and adds no payment.
LEMMA QuietStep ==
  ASSUME TypeOK, AtRest, NEW t \in Threads,
         \/ Step(t) \/ EndBody(t)
         \/ \E p \in Policies, tool \in Tools, arg \in Args : Begin(t, p, tool, arg),
         ~ChargeQuota(t), ~StartBody(t)
  PROVE  Paid(t)' \subseteq Paid(t) /\ UNCHANGED <<calls, started>>
<1> DEFINE Quiet == Paid(t)' \subseteq Paid(t) /\ UNCHANGED <<calls, started>>
<1> SUFFICES Quiet
  OBVIOUS
<1> USE PaymentKept, MovesOwn, StageNames DEF TypeOK
<1>0. LocalTypeOK
  OBVIOUS
<1>1. StageDone(t) => Quiet
  <2> SUFFICES ASSUME StageDone(t) PROVE Quiet
    OBVIOUS
  <2>1. pc'[t] = FollowedBy[pc[t]] /\ call'[t] = call[t] /\ UNCHANGED <<calls, started>>
    BY DEF StageDone, shared, budgets, bodies
  <2>2. CASE pc[t] = "quota"
    <3>1. pc'[t] = "rate"
      BY <2>1, <2>2 DEF FollowedBy
    <3>2. Paid(t)' = InTuple(P(t).quotas)
      BY <2>1, <3>1 DEF Paid, In, P, Charged
    <3>3. Paid(t) = {P(t).quotas[i] : i \in 1..(at[t] - 1)}
      BY <2>2 DEF Paid, In
    <3>4. P(t).quotas \in Seq(Quotas) /\ at[t] > Len(P(t).quotas) /\ at[t] \in Nat
      <4>1. at[t] > Len(P(t).quotas) /\ at[t] \in Nat
        <5>1. Items(t) = P(t).quotas
          BY <2>2 DEF Items, In
        <5>2. P(t).quotas \in Seq(Quotas)
          BY CallFields, PolicyAssumption DEF Policy
        <5> QED
          BY <5>1, <5>2 DEF StageDone, MoreItems, LocalTypeOK
      <4> QED
        BY <4>1, CallFields, PolicyAssumption DEF Policy
    <3>5. \A i \in DOMAIN P(t).quotas : i \in 1..(at[t] - 1)
      BY <3>4
    <3> QED
      BY <2>1, <3>2, <3>3, <3>5 DEF InTuple
  <2>3. CASE pc[t] # "quota"
    <3>1. pc[t] \in {"rate", "deadline", "risk", "loop"}
      BY <2>3 DEF StageDone, FollowedBy
    <3>2. pc[t] \in Charged /\ pc'[t] \in Charged
      BY <2>1, <3>1 DEF FollowedBy, Charged
    <3> QED
      BY <2>1, <3>2
  <2> QED
    BY <2>2, <2>3
<1>2. ReadClock(t) => Quiet
  BY DEF ReadClock, LocalTypeOK, Charged, shared, budgets, bodies, In
<1>3. ChargeRate(t) => Quiet
  <2> SUFFICES ASSUME ChargeRate(t) PROVE Quiet
    OBVIOUS
  <2>1. UNCHANGED <<calls, started>> /\ pc[t] = "rateLock"
    BY DEF ChargeRate, budgets, bodies, In
  <2>2. CASE Leave(t)
    BY <2>1, <2>2 DEF Charged
  <2>3. CASE pc' = [pc EXCEPT ![t] = "rate"] /\ UNCHANGED call
    BY <2>1, <2>3 DEF Charged, LocalTypeOK
  <2> QED
    BY <2>2, <2>3 DEF ChargeRate
<1>4. ChargeDeadline(t) => Quiet
  <2> SUFFICES ASSUME ChargeDeadline(t) PROVE Quiet
    OBVIOUS
  <2>1. UNCHANGED <<calls, started>> /\ pc[t] = "deadlineLock"
    BY DEF ChargeDeadline, budgets, bodies, In
  <2>2. CASE Leave(t)
    BY <2>1, <2>2 DEF Charged
  <2>3. CASE pc' = [pc EXCEPT ![t] = "deadline"] /\ UNCHANGED call
    BY <2>1, <2>3 DEF Charged, LocalTypeOK
  <2> QED
    BY <2>2, <2>3 DEF ChargeDeadline
<1>5. Require(t) => Quiet
  BY DEF Require, Charged, shared, budgets, bodies, In
<1>6. ChargeRisk(t) => Quiet
  BY DEF ChargeRisk, Charged, bodies, In
<1>7. ConsultGates(t) => Quiet
  BY DEF ConsultGates, Charged, shared, budgets, bodies, In
<1>8. LookUp(t) => Quiet
  BY DEF LookUp, Charged, shared, budgets, bodies, In
<1>9. ReadCached(t) => Quiet
  BY DEF ReadCached, Charged, shared, budgets, bodies, In
<1>10. RecordLoop(t) => Quiet
  BY DEF RecordLoop, Charged, budgets, bodies, In
<1>11. GuardInputs(t) => Quiet
  BY DEF GuardInputs, Charged, shared, budgets, bodies, In
<1>12. Acquire(t) => Quiet
  BY DEF Acquire, Charged, budgets, bodies, In
<1>13. TimeOut(t) => Quiet
  BY DEF TimeOut, Timed, Charged, budgets, bodies, In, LocalTypeOK
<1>14. Release(t) => Quiet
  BY DEF Release, Charged, budgets, bodies, In, LocalTypeOK
<1>15. Released(t) => Quiet
  BY DEF Released, Charged, shared, budgets, bodies, In
<1>16. PutResult(t) => Quiet
  BY DEF PutResult, Charged, budgets, bodies, In
<1>17. AppendOrder(t) => Quiet
  BY DEF AppendOrder, Charged, budgets, bodies, In
<1>18. PopOldest(t) => Quiet
  <2> SUFFICES ASSUME PopOldest(t) PROVE Quiet
    OBVIOUS
  <2>1. UNCHANGED <<calls, started>> /\ pc[t] = "evict"
    BY DEF PopOldest, budgets, bodies, In
  <2>2. pc'[t] \in {"finish", "drop"}
    <3>1. CASE Goto(t, "finish")
      BY <3>1
    <3>2. CASE pc' = [pc EXCEPT ![t] = "drop"]
      BY <3>2 DEF LocalTypeOK
    <3> QED
      BY <3>1, <3>2 DEF PopOldest
  <2> QED
    BY <2>1, <2>2 DEF Charged
<1>19. DropVictim(t) => Quiet
  BY DEF DropVictim, Charged, budgets, bodies, In, LocalTypeOK
<1>20. Finish(t) => Quiet
  BY DEF Finish, Charged, shared, budgets, bodies, In
<1>21. EndBody(t) => Quiet
  BY DEF EndBody, Charged, shared, budgets, bodies, In, LocalTypeOK
<1>22. ASSUME NEW p \in Policies, NEW tool \in Tools, NEW arg \in Args, Begin(t, p, tool, arg)
       PROVE  Quiet
  <2>1. pc'[t] \in {"quota", "body"} /\ at'[t] = 1
    BY <1>22 DEF Begin, LocalTypeOK, AtRest
  <2> QED
    BY <1>22, <2>1 DEF Begin, Charged, shared, budgets, bodies
<1> QED
  BY <1>1, <1>2, <1>3, <1>4, <1>5, <1>6, <1>7, <1>8, <1>9, <1>10, <1>11, <1>12, <1>13,
     <1>14, <1>15, <1>16, <1>17, <1>18, <1>19, <1>20, <1>21, <1>22 DEF Step

\* No stage that follows another is "idle".
LEMMA FollowedByBusy == \A s \in DOMAIN FollowedBy : s # "idle" /\ FollowedBy[s] # "idle"
BY DEF FollowedBy

\* A thread comes to rest through Leave only.
LEMMA RestStep ==
  ASSUME LocalTypeOK, NEW t \in Threads,
         \/ Step(t) \/ EndBody(t)
         \/ \E p \in Policies, tool \in Tools, arg \in Args : Begin(t, p, tool, arg)
  PROVE  pc'[t] = "idle" => at'[t] = 1
<1> DEFINE Rest == pc'[t] = "idle" => at'[t] = 1
<1> SUFFICES Rest
  OBVIOUS
<1> USE MovesOwn, StageNames, FollowedByBusy
<1>1. StageDone(t) \/ ChargeQuota(t) \/ ReadClock(t) \/ ChargeRisk(t) => Rest
  BY DEF StageDone, ChargeQuota, ReadClock, ChargeRisk, In, LocalTypeOK
<1>2. ChargeRate(t) => Rest
  <2>1. CASE Leave(t)
    BY <2>1
  <2>2. CASE pc' = [pc EXCEPT ![t] = "rate"]
    BY <2>2 DEF LocalTypeOK
  <2> QED
    BY <2>1, <2>2 DEF ChargeRate
<1>3. ChargeDeadline(t) => Rest
  <2>1. CASE Leave(t)
    BY <2>1
  <2>2. CASE pc' = [pc EXCEPT ![t] = "deadline"]
    BY <2>2 DEF LocalTypeOK
  <2> QED
    BY <2>1, <2>2 DEF ChargeDeadline
<1>4. Require(t) \/ ConsultGates(t) \/ LookUp(t) \/ ReadCached(t) \/ GuardInputs(t) => Rest
  BY DEF Require, ConsultGates, LookUp, ReadCached, GuardInputs
<1>5. RecordLoop(t) \/ Acquire(t) => Rest
  BY DEF RecordLoop, Acquire, In
<1>6. StartBody(t) \/ TimeOut(t) \/ Release(t) \/ EndBody(t) => Rest
  BY DEF StartBody, TimeOut, Timed, Release, EndBody, LocalTypeOK, In
<1>7. Released(t) \/ PutResult(t) \/ AppendOrder(t) \/ Finish(t) => Rest
  BY DEF Released, PutResult, AppendOrder, Finish
<1>8. PopOldest(t) => Rest
  <2>1. CASE Goto(t, "finish")
    BY <2>1
  <2>2. CASE pc' = [pc EXCEPT ![t] = "drop"]
    BY <2>2 DEF LocalTypeOK
  <2> QED
    BY <2>1, <2>2 DEF PopOldest
<1>9. DropVictim(t) => Rest
  BY DEF DropVictim, LocalTypeOK
<1>10. ASSUME NEW p \in Policies, NEW tool \in Tools, NEW arg \in Args, Begin(t, p, tool, arg)
       PROVE  Rest
  BY <1>10 DEF Begin, LocalTypeOK
<1> QED
  BY <1>1, <1>2, <1>3, <1>4, <1>5, <1>6, <1>7, <1>8, <1>9, <1>10 DEF Step

\* A step of the system is a step of one thread, or one that no thread takes.
LEMMA NextCases ==
  ASSUME [Next]_vars
  PROVE  \/ \E t \in Threads :
              \/ Step(t) \/ EndBody(t)
              \/ \E p \in Policies, tool \in Tools, arg \in Args : Begin(t, p, tool, arg)
         \/ UNCHANGED <<local, budgets, pacing, loops, memo, started, exposure, sem>>
BY DEF Next, NestedCall, OrphanEnds, Tick, bodies, vars, shared

LEMMA RestNext ==
  ASSUME TypeOK, AtRest, [Next]_vars
  PROVE  AtRest'
<1>1. CASE UNCHANGED local
  BY <1>1 DEF local, AtRest, In
<1>2. ASSUME NEW t \in Threads,
             \/ Step(t) \/ EndBody(t)
             \/ \E p \in Policies, tool \in Tools, arg \in Args : Begin(t, p, tool, arg)
      PROVE  AtRest'
  <2> SUFFICES ASSUME NEW u \in Threads PROVE pc'[u] = "idle" => at'[u] = 1
    BY DEF AtRest, In
  <2>1. CASE u = t
    BY <1>2, <2>1, RestStep DEF TypeOK
  <2>2. CASE u # t
    BY <1>2, <2>2, ThreadFrame DEF TypeOK, AtRest, In
  <2> QED
    BY <2>1, <2>2
<1> QED
  BY <1>1, <1>2, NextCases

\* The calls that have paid for a body are finitely many.
LEMMA PayersFinite ==
  ASSUME NEW q
  PROVE  IsFiniteSet(Payers(q)) /\ Cardinality(Payers(q)) \in Nat
BY ToolAssumption, FS_Subset, FS_CardinalityType DEF Payers

\* Fewer payers, same counters: the quota still covers its bodies.
LEMMA FewerPayers ==
  ASSUME TypeOK, QuotaCoversBodies, UNCHANGED <<calls, started>>,
         \A q \in Quotas : Payers(q)' \subseteq Payers(q)
  PROVE  QuotaCoversBodies'
<1> SUFFICES ASSUME NEW q \in Quotas
             PROVE  /\ started[q] + Cardinality(Payers(q)') <= calls[q]
                    /\ calls[q] <= MaxCalls[q]
  BY DEF QuotaCoversBodies
<1>1. Cardinality(Payers(q)') <= Cardinality(Payers(q)) /\ Cardinality(Payers(q)') \in Nat
  BY PayersFinite, FS_Subset, FS_CardinalityType
<1> QED
  BY <1>1, PayersFinite DEF QuotaCoversBodies, TypeOK, BudgetTypeOK

\* The inductive invariant: a call at rest has paid nothing.
QuotaInv == TypeOK /\ AtRest /\ QuotaCoversBodies

LEMMA QuotaInit == Init => QuotaInv
<1> SUFFICES ASSUME Init PROVE QuotaInv
  OBVIOUS
<1>1. AtRest
  BY DEF Init, AtRest
<1>2. ASSUME NEW q \in Quotas
      PROVE  started[q] + Cardinality(Payers(q)) <= calls[q] /\ calls[q] <= MaxCalls[q]
  <2>1. Payers(q) = {}
    BY DEF Init, Payers, Paid, In, Charged
  <2> QED
    BY <2>1, FS_EmptySet, LimitAssumption DEF Init
<1> QED
  BY <1>1, <1>2, InitType DEF QuotaInv, QuotaCoversBodies

\* A quota charge adds one payer at most, and one call.
LEMMA ChargeQuotaStep ==
  ASSUME QuotaInv, NEW t \in Threads, ChargeQuota(t)
  PROVE  QuotaCoversBodies'
<1> DEFINE q0 == Item(t)
<1> USE DEF QuotaInv
<1>1. LocalTypeOK /\ BudgetTypeOK /\ UNCHANGED started /\ pc[t] = "quota"
  BY DEF TypeOK, ChargeQuota, bodies, In
<1>2. ASSUME NEW u \in Threads, u # t PROVE Paid(u)' = Paid(u)
  <2>1. pc'[u] = pc[u] /\ at'[u] = at[u] /\ call'[u] = call[u]
    BY <1>1, <1>2, ThreadFrame DEF Step
  <2> QED
    BY <2>1 DEF Paid, In, P
<1>3. CASE Leave(t)
  <2>1. UNCHANGED calls
    <3>1. pc'[t] = "idle"
      BY <1>1, <1>3, MovesOwn
    <3>2. ~NextItem(t)
      BY <1>1, <3>1, MovesOwn
    <3> QED
      BY <3>2 DEF ChargeQuota
  <2>2. Paid(t)' = {}
    <3>1. pc'[t] = "idle"
      BY <1>1, <1>3, MovesOwn
    <3> QED
      BY <3>1, PaymentKept DEF Charged
  <2>3. \A q \in Quotas : Payers(q)' \subseteq Payers(q)
    BY <1>2, <2>2 DEF Payers
  <2> QED
    BY <1>1, <2>1, <2>3, FewerPayers
<1>4. CASE NextItem(t) /\ Affordable(calls[q0], 1, MaxCalls[q0])
           /\ calls' = [calls EXCEPT ![q0] = calls[q0] + 1]
  <2>1. pc'[t] = "quota" /\ at'[t] = at[t] + 1 /\ call'[t] = call[t]
    BY <1>1, <1>4, MovesOwn
  <2>2. q0 = P(t).quotas[at[t]] /\ at[t] \in Nat \ {0}
    BY <1>1 DEF Item, Items, In, LocalTypeOK
  <2>3. Paid(t)' \subseteq Paid(t) \cup {q0}
    <3>1. Paid(t)' = {P(t).quotas[i] : i \in 1..at[t]}
      <4>1. Paid(t)' = {P(t).quotas[i] : i \in 1..((at[t] + 1) - 1)}
        BY <2>1 DEF Paid, In, P
      <4>2. (at[t] + 1) - 1 = at[t]
        BY <2>2
      <4> QED
        BY <4>1, <4>2
    <3>2. Paid(t) = {P(t).quotas[i] : i \in 1..(at[t] - 1)}
      BY <1>1 DEF Paid, In
    <3>3. 1..at[t] = (1..(at[t] - 1)) \cup {at[t]}
      BY <2>2
    <3> QED
      BY <2>2, <3>1, <3>2, <3>3
  <2> HIDE DEF q0
  <2> SUFFICES ASSUME NEW q \in Quotas
               PROVE  /\ started[q] + Cardinality(Payers(q)') <= calls'[q]
                      /\ calls'[q] <= MaxCalls[q]
    BY <1>1 DEF QuotaCoversBodies
  <2>4. calls[q] \in Nat /\ started[q] \in Nat /\ MaxCalls[q] \in Nat
        /\ Cardinality(Payers(q)) \in Nat /\ Cardinality(Payers(q)') \in Nat
    <3>1. Payers(q)' \subseteq Threads
      BY DEF Payers
    <3> QED
      BY <1>1, <3>1, PayersFinite, LimitAssumption, ToolAssumption, FS_Subset,
         FS_CardinalityType DEF BudgetTypeOK
  <2>5. CASE q = q0
    <3>1. Payers(q)' \subseteq Payers(q) \cup {t}
      BY <1>2 DEF Payers
    <3>2. Cardinality(Payers(q)') <= Cardinality(Payers(q)) + 1
      <4>1. /\ IsFiniteSet(Payers(q) \cup {t})
            /\ Cardinality(Payers(q) \cup {t}) \in Nat
            /\ Cardinality(Payers(q) \cup {t}) <= Cardinality(Payers(q)) + 1
        <5> DEFINE S == Payers(q)
        <5>1. IsFiniteSet(S) /\ Cardinality(S) \in Nat
          BY PayersFinite
        <5> HIDE DEF S
        <5>2. /\ IsFiniteSet(S \cup {t})
              /\ Cardinality(S \cup {t}) =
                   IF t \in S THEN Cardinality(S) ELSE Cardinality(S) + 1
          BY <5>1, FS_AddElement
        <5>3. /\ IsFiniteSet(S \cup {t})
              /\ Cardinality(S \cup {t}) \in Nat
              /\ Cardinality(S \cup {t}) <= Cardinality(S) + 1
          BY <5>1, <5>2
        <5> QED
          BY <5>3 DEF S
      <4>2. Cardinality(Payers(q)') <= Cardinality(Payers(q) \cup {t})
        BY <3>1, <4>1, FS_Subset
      <4> QED
        BY <2>4, <4>1, <4>2
    <3>3. calls'[q] = calls[q] + 1 /\ calls[q] + 1 <= MaxCalls[q]
      BY <1>1, <1>4, <2>5 DEF Affordable, BudgetTypeOK
    <3> QED
      BY <2>4, <3>2, <3>3 DEF QuotaCoversBodies
  <2>6. CASE q # q0
    <3>1. Payers(q)' \subseteq Payers(q)
      BY <1>2, <2>3, <2>6 DEF Payers
    <3>2. Cardinality(Payers(q)') <= Cardinality(Payers(q))
      BY <3>1, PayersFinite, FS_Subset
    <3>3. calls'[q] = calls[q]
      BY <1>1, <1>4, <2>6 DEF BudgetTypeOK
    <3> QED
      BY <2>4, <3>2, <3>3 DEF QuotaCoversBodies
  <2> QED
    BY <2>5, <2>6
<1> QED
  BY <1>3, <1>4 DEF ChargeQuota

\* The start of a body uses up one payment of each quota of the call.
LEMMA StartBodyStep ==
  ASSUME QuotaInv, NEW t \in Threads, StartBody(t)
  PROVE  QuotaCoversBodies'
<1> USE DEF QuotaInv
<1>1. /\ LocalTypeOK /\ BudgetTypeOK /\ UNCHANGED calls
      /\ pc[t] = "acquire" /\ pc'[t] = "body"
  BY DEF TypeOK, StartBody, budgets, In, LocalTypeOK
<1>2. ASSUME NEW u \in Threads, u # t PROVE Paid(u)' = Paid(u)
  <2>1. pc'[u] = pc[u] /\ at'[u] = at[u] /\ call'[u] = call[u]
    BY <1>1, <1>2, ThreadFrame DEF Step
  <2> QED
    BY <2>1 DEF Paid, In, P
<1>3. Paid(t)' = {} /\ Paid(t) = InTuple(P(t).quotas)
  BY <1>1 DEF Paid, In, Charged
<1> SUFFICES ASSUME NEW q \in Quotas
             PROVE  /\ started'[q] + Cardinality(Payers(q)') <= calls[q]
                    /\ calls[q] <= MaxCalls[q]
  BY <1>1 DEF QuotaCoversBodies
<1>4. Payers(q)' = Payers(q) \ {t}
  BY <1>2, <1>3 DEF Payers
<1>5. calls[q] \in Nat /\ started[q] \in Nat /\ Cardinality(Payers(q)) \in Nat
  BY <1>1, PayersFinite DEF BudgetTypeOK
<1>6. CASE q \in InTuple(P(t).quotas)
  <2>1. started'[q] = started[q] + 1
    BY <1>6 DEF StartBody
  <2>2. Cardinality(Payers(q)') = Cardinality(Payers(q)) - 1
    <3>1. t \in Payers(q)
      BY <1>3, <1>6 DEF Payers
    <3> QED
      BY <1>4, <3>1, PayersFinite, FS_RemoveElement
  <2> QED
    BY <1>5, <2>1, <2>2 DEF QuotaCoversBodies
<1>7. CASE q \notin InTuple(P(t).quotas)
  <2>1. started'[q] = started[q]
    BY <1>5, <1>7 DEF StartBody
  <2>2. Payers(q)' = Payers(q)
    BY <1>3, <1>4, <1>7 DEF Payers
  <2> QED
    BY <1>5, <2>1, <2>2 DEF QuotaCoversBodies
<1> QED
  BY <1>6, <1>7

LEMMA QuotaNext == QuotaInv /\ [Next]_vars => QuotaInv'
<1> SUFFICES ASSUME QuotaInv, [Next]_vars PROVE QuotaInv'
  OBVIOUS
<1> USE DEF QuotaInv
<1>1. TypeOK' /\ AtRest'
  BY NextType, RestNext
<1>2. ASSUME NEW t \in Threads,
             \/ Step(t) \/ EndBody(t)
             \/ \E p \in Policies, tool \in Tools, arg \in Args : Begin(t, p, tool, arg)
      PROVE  QuotaCoversBodies'
  <2>1. CASE ChargeQuota(t)
    BY <2>1, ChargeQuotaStep
  <2>2. CASE StartBody(t)
    BY <2>2, StartBodyStep
  <2>3. CASE ~ChargeQuota(t) /\ ~StartBody(t)
    <3>1. Paid(t)' \subseteq Paid(t) /\ UNCHANGED <<calls, started>>
      BY <1>2, <2>3, QuietStep
    <3>2. ASSUME NEW u \in Threads, u # t PROVE Paid(u)' = Paid(u)
      <4>1. pc'[u] = pc[u] /\ at'[u] = at[u] /\ call'[u] = call[u]
        BY <1>2, <3>2, ThreadFrame DEF TypeOK
      <4> QED
        BY <4>1 DEF Paid, In, P
    <3>3. \A q \in Quotas : Payers(q)' \subseteq Payers(q)
      BY <3>1, <3>2 DEF Payers
    <3> QED
      BY <3>1, <3>3, FewerPayers
  <2> QED
    BY <2>1, <2>2, <2>3
<1>3. CASE UNCHANGED <<local, budgets, pacing, loops, memo, started, exposure, sem>>
  <2>1. \A q \in Quotas : Payers(q)' = Payers(q)
    BY <1>3 DEF local, Payers, Paid, In, P
  <2> QED
    BY <1>1, <1>3, <2>1, FewerPayers DEF budgets, bodies
<1> QED
  BY <1>1, <1>2, <1>3, NextCases

\* However many threads share a quota and however they interleave, the bodies
\* started under it and the calls that have paid but not yet started one never
\* exceed what was charged, and that never exceeds the cap (Policy.charge_call).
THEOREM QuotaSafe == Spec => []QuotaCoversBodies
<1>1. Spec => []QuotaInv
  BY QuotaInit, QuotaNext, PTL DEF Spec
<1>2. QuotaInv => QuotaCoversBodies
  BY DEF QuotaInv
<1> QED
  BY <1>1, <1>2, PTL

-----------------------------------------------------------------------------
(* Concurrency slots (ConcurrencyLimit, _hold_concurrency): whichever way  *)
(* a call ends, the slots it took are free again.                          *)

\* The slot stages: where a thread may hold slots.
SlotStages == {"acquire", "body", "release"}

LEMMA HeldIff ==
  ASSUME NEW t \in Threads
  PROVE  /\ pc[t] \in SlotStages => Held(t) = 1..(at[t] - 1)
         /\ pc[t] \notin SlotStages => Held(t) = {}
BY DEF Held, SlotStages

\* One slot held by one thread.
Hold(t, c) == {i \in Held(t) : P(t).slots[i] = c}

LEMMA UnitsIff ==
  ASSUME NEW c, NEW t \in Threads, NEW i
  PROVE  <<t, i>> \in Units(c) <=> i \in Hold(t, c)
BY DEF Units, Hold

\* A thread that takes or gives back no slot.
LEMMA SlotQuietStep ==
  ASSUME TypeOK, AtRest, NEW t \in Threads,
         \/ Step(t) \/ EndBody(t)
         \/ \E p \in Policies, tool \in Tools, arg \in Args : Begin(t, p, tool, arg),
         ~Acquire(t), ~Release(t)
  PROVE  UNCHANGED sem /\ \A c \in ConcurrencyLimits : Hold(t, c)' = Hold(t, c)
<1> DEFINE Quiet == UNCHANGED sem /\ \A c \in ConcurrencyLimits : Hold(t, c)' = Hold(t, c)
<1> SUFFICES Quiet
  OBVIOUS
<1>a. LocalTypeOK
  BY DEF TypeOK
<1>b. ASSUME pc[t] \notin SlotStages, pc'[t] \notin SlotStages
      PROVE  \A c \in ConcurrencyLimits : Hold(t, c)' = Hold(t, c)
  <2>1. Held(t) = {} /\ Held(t)' = {}
    BY <1>b DEF Held, SlotStages
  <2> QED
    BY <2>1 DEF Hold
<1>c. ASSUME pc[t] \notin SlotStages, at'[t] = 1
      PROVE  \A c \in ConcurrencyLimits : Hold(t, c)' = Hold(t, c)
  <2>1. Held(t) = {} /\ Held(t)' = {}
    BY <1>c DEF Held, SlotStages
  <2> QED
    BY <2>1 DEF Hold
<1>d. ASSUME at[t] = 1, at'[t] = 1
      PROVE  \A c \in ConcurrencyLimits : Hold(t, c)' = Hold(t, c)
  <2>1. Held(t) = {} /\ Held(t)' = {}
    BY <1>d DEF Held
  <2> QED
    BY <2>1 DEF Hold
<1>e. ASSUME pc[t] \in SlotStages, pc'[t] \in SlotStages, at'[t] = at[t], call'[t] = call[t]
      PROVE  \A c \in ConcurrencyLimits : Hold(t, c)' = Hold(t, c)
  <2>1. Held(t)' = Held(t)
    BY <1>e DEF Held, SlotStages
  <2> QED
    BY <1>e, <2>1 DEF Hold, P
<1> USE <1>a, MovesOwn, StageNames
<1>1. StageDone(t) => Quiet
  <2> SUFFICES ASSUME StageDone(t) PROVE Quiet
    OBVIOUS
  <2>1. pc[t] \notin SlotStages
    BY DEF StageDone, FollowedBy, SlotStages
  <2> QED
    BY <1>c, <2>1 DEF StageDone, shared
<1>2. ChargeQuota(t) => Quiet
  BY <1>b DEF ChargeQuota, SlotStages, In
<1>3. ReadClock(t) => Quiet
  BY <1>b DEF ReadClock, SlotStages, shared, In, LocalTypeOK
<1>4. ChargeRate(t) => Quiet
  <2> SUFFICES ASSUME ChargeRate(t) PROVE Quiet
    OBVIOUS
  <2>1. UNCHANGED sem /\ pc[t] = "rateLock"
    BY DEF ChargeRate, In
  <2>2. CASE Leave(t)
    BY <1>c, <2>1, <2>2 DEF SlotStages
  <2>3. CASE pc' = [pc EXCEPT ![t] = "rate"]
    BY <1>b, <2>1, <2>3 DEF SlotStages, LocalTypeOK
  <2> QED
    BY <2>2, <2>3 DEF ChargeRate
<1>5. ChargeDeadline(t) => Quiet
  <2> SUFFICES ASSUME ChargeDeadline(t) PROVE Quiet
    OBVIOUS
  <2>1. UNCHANGED sem /\ pc[t] = "deadlineLock"
    BY DEF ChargeDeadline, In
  <2>2. CASE Leave(t)
    BY <1>c, <2>1, <2>2 DEF SlotStages
  <2>3. CASE pc' = [pc EXCEPT ![t] = "deadline"]
    BY <1>b, <2>1, <2>3 DEF SlotStages, LocalTypeOK
  <2> QED
    BY <2>2, <2>3 DEF ChargeDeadline
<1>6. Require(t) => Quiet
  BY <1>c DEF Require, SlotStages, shared, In
<1>7. ChargeRisk(t) => Quiet
  BY <1>b DEF ChargeRisk, SlotStages, In
<1>8. ConsultGates(t) => Quiet
  BY <1>c DEF ConsultGates, SlotStages, shared, In
<1>9. LookUp(t) \/ ReadCached(t) => Quiet
  BY <1>c DEF LookUp, ReadCached, SlotStages, shared, In
<1>10. RecordLoop(t) => Quiet
  BY <1>b DEF RecordLoop, SlotStages, In
<1>11. GuardInputs(t) => Quiet
  BY <1>c DEF GuardInputs, SlotStages, shared, In
<1>12. StartBody(t) => Quiet
  BY <1>e DEF StartBody, SlotStages, In, LocalTypeOK
<1>13. TimeOut(t) => Quiet
  BY <1>e DEF TimeOut, Timed, SlotStages, In, LocalTypeOK
<1>14. Released(t) => Quiet
  BY <1>d DEF Released, shared
<1>15. PutResult(t) \/ AppendOrder(t) => Quiet
  BY <1>c DEF PutResult, AppendOrder, SlotStages, In
<1>16. PopOldest(t) => Quiet
  <2> SUFFICES ASSUME PopOldest(t) PROVE Quiet
    OBVIOUS
  <2>1. UNCHANGED sem /\ pc[t] = "evict"
    BY DEF PopOldest, In
  <2>2. CASE Goto(t, "finish")
    BY <1>c, <2>1, <2>2 DEF SlotStages
  <2>3. CASE pc' = [pc EXCEPT ![t] = "drop"]
    BY <1>b, <2>1, <2>3 DEF SlotStages, LocalTypeOK
  <2> QED
    BY <2>2, <2>3 DEF PopOldest
<1>17. DropVictim(t) => Quiet
  BY <1>b DEF DropVictim, SlotStages, In, LocalTypeOK
<1>18. Finish(t) => Quiet
  BY <1>c DEF Finish, SlotStages, shared, In
<1>19. EndBody(t) => Quiet
  BY <1>e DEF EndBody, SlotStages, shared, In, LocalTypeOK
<1>20. ASSUME NEW p \in Policies, NEW tool \in Tools, NEW arg \in Args, Begin(t, p, tool, arg)
       PROVE  Quiet
  BY <1>d, <1>20 DEF Begin, AtRest, shared
<1> QED
  BY <1>1, <1>2, <1>3, <1>4, <1>5, <1>6, <1>7, <1>8, <1>9, <1>10, <1>11, <1>12, <1>13,
     <1>14, <1>15, <1>16, <1>17, <1>18, <1>19, <1>20 DEF Step

\* The units of a limit follow from what each thread holds.
LEMMA SameUnits ==
  ASSUME NEW c, \A t \in Threads : Hold(t, c)' = Hold(t, c)
  PROVE  Units(c)' = Units(c)
BY DEF Units, Hold

LEMMA OthersHold ==
  ASSUME LocalTypeOK, NEW t \in Threads, Step(t), NEW u \in Threads, u # t, NEW c
  PROVE  Hold(u, c)' = Hold(u, c)
<1>1. pc'[u] = pc[u] /\ at'[u] = at[u] /\ call'[u] = call[u]
  BY ThreadFrame
<1> QED
  BY <1>1 DEF Hold, Held, P

\* Acquire takes one unit of its limit and none of any other.
LEMMA AcquireUnits ==
  ASSUME TypeOK, NEW t \in Threads, Acquire(t), NEW c
  PROVE  /\ c = Item(t) => Units(c)' = Units(c) \cup {<<t, at[t]>>}
         /\ c # Item(t) => Units(c)' = Units(c)
         /\ <<t, at[t]>> \notin Units(c)
<1>1. LocalTypeOK /\ pc[t] = "acquire" /\ at[t] \in Nat \ {0}
  BY DEF TypeOK, Acquire, In, LocalTypeOK
<1>2. pc'[t] = "acquire" /\ at'[t] = at[t] + 1 /\ call'[t] = call[t]
  BY <1>1, MovesOwn DEF Acquire
<1>3. Item(t) = P(t).slots[at[t]]
  BY <1>1 DEF Item, Items, In
<1>4. Held(t) = 1..(at[t] - 1) /\ Held(t)' = 1..at[t]
  <2>1. Held(t)' = 1..((at[t] + 1) - 1)
    BY <1>2 DEF Held
  <2> QED
    BY <1>1, <2>1 DEF Held
<1>5. 1..at[t] = (1..(at[t] - 1)) \cup {at[t]} /\ at[t] \notin 1..(at[t] - 1)
  BY <1>1
<1>6. /\ c = Item(t) => Hold(t, c)' = Hold(t, c) \cup {at[t]}
      /\ c # Item(t) => Hold(t, c)' = Hold(t, c)
      /\ at[t] \notin Hold(t, c)
  BY <1>2, <1>3, <1>4, <1>5 DEF Hold, P
<1>7. \A u \in Threads : u # t => Hold(u, c)' = Hold(u, c)
  BY <1>1, OthersHold DEF Step
<1>8. /\ Units(c) = UNION {{u} \X Hold(u, c) : u \in Threads}
      /\ Units(c)' = UNION {{u} \X Hold(u, c)' : u \in Threads}
  BY DEF Units, Hold
<1> QED
  BY <1>6, <1>7, <1>8

\* Release gives back the unit taken last.
LEMMA ReleaseUnits ==
  ASSUME TypeOK, NEW t \in Threads, Release(t), NEW c
  PROVE  LET mine == P(t).slots[at[t] - 1]
         IN  /\ c = mine => Units(c)' = Units(c) \ {<<t, at[t] - 1>>}
             /\ c # mine => Units(c)' = Units(c)
             /\ c = mine => <<t, at[t] - 1>> \in Units(c)
<1> DEFINE mine == P(t).slots[at[t] - 1]
<1>1. /\ LocalTypeOK /\ pc[t] = "release" /\ at[t] \in Nat /\ at[t] > 1
      /\ pc'[t] = "release" /\ at'[t] = at[t] - 1 /\ call'[t] = call[t]
  BY DEF TypeOK, Release, In, LocalTypeOK
<1>2. Held(t) = 1..(at[t] - 1) /\ Held(t)' = 1..((at[t] - 1) - 1)
  BY <1>1 DEF Held
<1>3. 1..((at[t] - 1) - 1) = (1..(at[t] - 1)) \ {at[t] - 1} /\ at[t] - 1 \in 1..(at[t] - 1)
  BY <1>1
<1>4. /\ c = mine => Hold(t, c)' = Hold(t, c) \ {at[t] - 1}
      /\ c # mine => Hold(t, c)' = Hold(t, c)
      /\ c = mine => at[t] - 1 \in Hold(t, c)
  BY <1>1, <1>2, <1>3 DEF Hold, P
<1>5. \A u \in Threads : u # t => Hold(u, c)' = Hold(u, c)
  BY <1>1, OthersHold DEF Step
<1>6. /\ Units(c) = UNION {{u} \X Hold(u, c) : u \in Threads}
      /\ Units(c)' = UNION {{u} \X Hold(u, c)' : u \in Threads}
  BY DEF Units, Hold
<1> HIDE DEF mine
<1>7. /\ c = mine => Units(c)' = Units(c) \ {<<t, at[t] - 1>>}
      /\ c # mine => Units(c)' = Units(c)
      /\ c = mine => <<t, at[t] - 1>> \in Units(c)
  BY <1>4, <1>5, <1>6
<1> QED
  BY <1>7 DEF mine

------------------------------------------------------------------------------

\* The inductive invariant.  A call at rest holds nothing, and no limit is
\* held infinitely often.
SlotInv ==
  /\ TypeOK
  /\ AtRest
  /\ \A c \in ConcurrencyLimits : IsFiniteSet(Units(c))
  /\ SlotsBalanced

LEMMA SlotInit == Init => SlotInv
<1> SUFFICES ASSUME Init PROVE SlotInv
  OBVIOUS
<1>1. AtRest
  BY DEF Init, AtRest
<1>2. \A c : Units(c) = {}
  BY DEF Init, Units, Held
<1>3. \A c \in ConcurrencyLimits : sem[c] + 0 = MaxConcurrent[c]
  BY LimitAssumption DEF Init
<1> QED
  BY <1>1, <1>2, <1>3, InitType, FS_EmptySet DEF SlotInv, SlotsBalanced

LEMMA SlotNext == SlotInv /\ [Next]_vars => SlotInv'
<1> SUFFICES ASSUME SlotInv, [Next]_vars PROVE SlotInv'
  OBVIOUS
<1> DEFINE Good(c) == IsFiniteSet(Units(c)) /\ sem[c] + Cardinality(Units(c)) = MaxConcurrent[c]
<1>1. TypeOK' /\ AtRest'
  BY NextType, RestNext DEF SlotInv
<1> SUFFICES ASSUME NEW c \in ConcurrencyLimits PROVE Good(c)'
  BY <1>1 DEF SlotInv, SlotsBalanced
<1>2. /\ IsFiniteSet(Units(c)) /\ Cardinality(Units(c)) \in Nat
      /\ sem[c] + Cardinality(Units(c)) = MaxConcurrent[c]
      /\ sem \in [ConcurrencyLimits -> Nat]
  BY FS_CardinalityType DEF SlotInv, SlotsBalanced, TypeOK, OtherTypeOK
<1>3. ASSUME NEW t \in Threads,
             \/ Step(t) \/ EndBody(t)
             \/ \E p \in Policies, tool \in Tools, arg \in Args : Begin(t, p, tool, arg)
      PROVE  Good(c)'
  <2>1. CASE Acquire(t)
    <3> DEFINE c0 == Item(t)
    <3>1. sem' = [sem EXCEPT ![c0] = sem[c0] - 1]
      BY <2>1 DEF Acquire
    <3>2. /\ c = c0 => Units(c)' = Units(c) \cup {<<t, at[t]>>}
          /\ c # c0 => Units(c)' = Units(c)
          /\ <<t, at[t]>> \notin Units(c)
      BY <2>1, AcquireUnits DEF SlotInv
    <3> HIDE DEF c0
    <3>3. CASE c = c0
      <4>1. IsFiniteSet(Units(c)') /\ Cardinality(Units(c)') = Cardinality(Units(c)) + 1
        BY <1>2, <3>2, <3>3, FS_AddElement
      <4>2. sem'[c] = sem[c] - 1 /\ sem[c] \in Nat
        BY <1>2, <3>1, <3>3
      <4> QED
        BY <1>2, <4>1, <4>2
    <3>4. CASE c # c0
      BY <1>2, <3>1, <3>2, <3>4
    <3> QED
      BY <3>3, <3>4
  <2>2. CASE Release(t)
    <3> DEFINE c0 == P(t).slots[at[t] - 1]
    <3>1. sem' = [sem EXCEPT ![c0] = sem[c0] + 1]
      BY <2>2 DEF Release
    <3>2. /\ c = c0 => Units(c)' = Units(c) \ {<<t, at[t] - 1>>}
          /\ c # c0 => Units(c)' = Units(c)
          /\ c = c0 => <<t, at[t] - 1>> \in Units(c)
      BY <2>2, ReleaseUnits DEF SlotInv
    <3> HIDE DEF c0
    <3>3. CASE c = c0
      <4>1. IsFiniteSet(Units(c)') /\ Cardinality(Units(c)') = Cardinality(Units(c)) - 1
        <5> DEFINE S == Units(c)
                   x == <<t, at[t] - 1>>
        <5>1. IsFiniteSet(S) /\ Units(c)' = S \ {x} /\ x \in S
          BY <1>2, <3>2, <3>3
        <5> HIDE DEF S, x
        <5>2. IsFiniteSet(S \ {x}) /\ Cardinality(S \ {x}) = Cardinality(S) - 1
          BY <5>1, FS_RemoveElement
        <5> QED
          BY <5>1, <5>2 DEF S
      <4>2. sem'[c] = sem[c] + 1 /\ sem[c] \in Nat
        BY <1>2, <3>1, <3>3
      <4> QED
        BY <1>2, <4>1, <4>2
    <3>4. CASE c # c0
      BY <1>2, <3>1, <3>2, <3>4
    <3> QED
      BY <3>3, <3>4
  <2>3. CASE ~Acquire(t) /\ ~Release(t)
    <3>1. UNCHANGED sem /\ Hold(t, c)' = Hold(t, c)
      BY <1>3, <2>3, SlotQuietStep DEF SlotInv
    <3>2. ASSUME NEW u \in Threads, u # t PROVE Hold(u, c)' = Hold(u, c)
      <4>1. pc'[u] = pc[u] /\ at'[u] = at[u] /\ call'[u] = call[u]
        BY <1>3, <3>2, ThreadFrame DEF SlotInv, TypeOK
      <4> QED
        BY <4>1 DEF Hold, Held, P
    <3>3. Units(c)' = Units(c)
      BY <3>1, <3>2, SameUnits
    <3> QED
      BY <1>2, <3>1, <3>3
  <2> QED
    BY <2>1, <2>2, <2>3
<1>4. CASE UNCHANGED <<local, budgets, pacing, loops, memo, started, exposure, sem>>
  <2>1. Units(c)' = Units(c)
    BY <1>4 DEF local, Units, Held, P
  <2> QED
    BY <1>2, <1>4, <2>1
<1> QED
  BY <1>3, <1>4, NextCases

LEMMA SlotInvariant == Spec => []SlotInv
BY SlotInit, SlotNext, PTL DEF Spec

\* Free slots and held slots always add up to max_concurrent: no refusal,
\* exception, timeout or interleaving leaks or duplicates a slot
\* (_hold_concurrency, ConcurrencyLimit.hold_sync).
THEOREM SlotSafe == Spec => []SlotsBalanced
<1>1. SlotInv => SlotsBalanced
  BY DEF SlotInv
<1> QED
  BY <1>1, SlotInvariant, PTL

\* The callers that wait for a body under a limit never exceed max_concurrent:
\* each of them holds a unit of its own (ConcurrencyLimit.hold_sync).
THEOREM CallerSafe == Spec => []CallersWithinCap
<1>1. SlotInv => CallersWithinCap
  <2> SUFFICES ASSUME SlotInv, NEW c \in ConcurrencyLimits
               PROVE  Cardinality(Callers(c)) <= MaxConcurrent[c]
    BY DEF CallersWithinCap
  <2> DEFINE unit == [t \in Callers(c) |-> <<t, CHOOSE i \in Held(t) : P(t).slots[i] = c>>]
  <2>1. ASSUME NEW t \in Callers(c) PROVE unit[t] \in Units(c)
    <3>1. t \in Threads /\ \E i \in Held(t) : P(t).slots[i] = c
      BY DEF Callers
    <3>2. (CHOOSE i \in Held(t) : P(t).slots[i] = c) \in {i \in Held(t) : P(t).slots[i] = c}
      BY <3>1
    <3> QED
      BY <3>1, <3>2 DEF Units
  <2>2. unit \in Injection(Callers(c), Units(c))
    BY <2>1 DEF Injection, IsInjective
  <2>3. IsFiniteSet(Units(c)) /\ sem[c] + Cardinality(Units(c)) = MaxConcurrent[c] /\ sem[c] \in Nat
    BY DEF SlotInv, SlotsBalanced, TypeOK, OtherTypeOK
  <2>4. IsFiniteSet(Callers(c)) /\ Cardinality(Callers(c)) <= Cardinality(Units(c))
    BY <2>2, <2>3, FS_Injection
  <2>5. Cardinality(Units(c)) \in Nat /\ Cardinality(Callers(c)) \in Nat
    BY <2>3, <2>4, FS_CardinalityType
  <2> QED
    BY <2>3, <2>4, <2>5
<1> QED
  BY <1>1, SlotInvariant, PTL

-----------------------------------------------------------------------------
(* No call gets past the permission check or the gates by another way.     *)
(* The argument is about one thread at a time: a stage is entered from the *)
(* stages before it, or by a call in monitor mode, which is not enforced.  *)

\* The stages that lie behind the gates.
Cleared == {"cache", "hit", "loop", "guards", "acquire", "put", "order", "evict",
            "drop", "finish"}

\* The inductive invariant adds to OnlyAuthorised the stages between the
\* permission check and the gates, and those after the body.
Authorised(t) ==
  /\ pc[t] \in {"risk", "gates"} => Tool(t) \in P(t).allow
  /\ pc[t] \in Cleared \/ (pc[t] \in {"body", "release"} /\ P(t).enforce)
       => Tool(t) \in P(t).allow /\ "async" \notin P(t).gates[Tool(t)]

AuthorityInv == TypeOK /\ \A t \in Threads : Authorised(t)

LEMMA AuthorityInit == Init => AuthorityInv
BY InitType DEF Init, AuthorityInv, Authorised, Cleared

\* Where a thread's own step may take it: back to rest, or on with the same call
\* to a stage it is authorised for.
LEMMA AuthorityStep ==
  ASSUME TypeOK, NEW t \in Threads, Authorised(t),
         \/ Step(t) \/ EndBody(t)
         \/ \E p \in Policies, tool \in Tools, arg \in Args : Begin(t, p, tool, arg)
  PROVE  Authorised(t)'
<1> DEFINE Good == Authorised(t)'
           Before == {"idle", "quota", "rate", "rateLock", "deadline", "deadlineLock",
                      "require"}
<1> SUFFICES Good
  OBVIOUS
<1> USE MovesOwn, StageNames
<1>0. LocalTypeOK
  BY DEF TypeOK
<1>1. ASSUME pc'[t] \in Before PROVE Good
  BY <1>1 DEF Authorised, Cleared
<1>2. ASSUME call'[t] = call[t], pc[t] \in Cleared, pc'[t] \in Cleared \cup {"body"}
      PROVE  Good
  BY <1>2 DEF Authorised, Cleared, P, Tool
<1>3. ASSUME call'[t] = call[t], pc[t] \in {"risk", "gates"}, pc'[t] \in {"risk", "gates"}
      PROVE  Good
  BY <1>3 DEF Authorised, Cleared, P, Tool
<1>4. ASSUME call'[t] = call[t], pc[t] \in {"body", "release"}, pc'[t] = "release"
      PROVE  Good
  BY <1>4 DEF Authorised, Cleared, P, Tool
<1> HIDE DEF Good
<1>5. StageDone(t) => Good
  <2> SUFFICES ASSUME StageDone(t) PROVE Good
    OBVIOUS
  <2>1. pc'[t] = FollowedBy[pc[t]] /\ call'[t] = call[t]
    BY <1>0 DEF StageDone
  <2>2. pc[t] \in {"quota", "rate", "deadline", "risk", "loop"}
    BY DEF StageDone, FollowedBy
  <2> QED
    BY <2>1, <2>2, <1>1, <1>2, <1>3 DEF FollowedBy, Cleared
<1>6. ChargeQuota(t) => Good
  BY <1>0, <1>1 DEF ChargeQuota, In
<1>7. ReadClock(t) => Good
  BY <1>0, <1>1 DEF ReadClock, In, LocalTypeOK
<1>8. ChargeRate(t) => Good
  <2>1. CASE Leave(t)
    BY <2>1, <1>0, <1>1
  <2>2. CASE pc' = [pc EXCEPT ![t] = "rate"]
    BY <2>2, <1>0, <1>1 DEF LocalTypeOK
  <2> QED
    BY <2>1, <2>2 DEF ChargeRate
<1>9. ChargeDeadline(t) => Good
  <2>1. CASE Leave(t)
    BY <2>1, <1>0, <1>1
  <2>2. CASE pc' = [pc EXCEPT ![t] = "deadline"]
    BY <2>2, <1>0, <1>1 DEF LocalTypeOK
  <2> QED
    BY <2>1, <2>2 DEF ChargeDeadline
\* The permission check is the only way to the risk budgets ...
<1>10. Require(t) => Good
  <2> SUFFICES ASSUME Require(t) PROVE Good
    OBVIOUS
  <2>1. CASE Leave(t)
    BY <2>1, <1>0, <1>1
  <2>2. CASE Tool(t) \in P(t).allow /\ Goto(t, "risk")
    BY <2>2, <1>0 DEF Good, Authorised, Cleared, P, Tool
  <2> QED
    BY <2>1, <2>2 DEF Require
<1>11. ChargeRisk(t) => Good
  <2> SUFFICES ASSUME ChargeRisk(t) PROVE Good
    OBVIOUS
  <2>1. CASE Leave(t)
    BY <2>1, <1>0, <1>1
  <2>2. CASE NextItem(t)
    BY <2>2, <1>0, <1>3 DEF ChargeRisk, In
  <2> QED
    BY <2>1, <2>2 DEF ChargeRisk
\* ... and the gates are the only way on.
<1>12. ConsultGates(t) => Good
  <2> SUFFICES ASSUME ConsultGates(t) PROVE Good
    OBVIOUS
  <2>1. CASE Leave(t)
    BY <2>1, <1>0, <1>1
  <2>2. CASE "async" \notin P(t).gates[Tool(t)] /\ Goto(t, "cache")
    <3>1. Tool(t) \in P(t).allow
      BY DEF ConsultGates, In, Authorised
    <3> QED
      BY <2>2, <3>1, <1>0 DEF Good, Authorised, Cleared, P, Tool
  <2> QED
    BY <2>1, <2>2 DEF ConsultGates
<1>13. LookUp(t) => Good
  BY <1>0, <1>2 DEF LookUp, In, Cleared
<1>14. ReadCached(t) => Good
  BY <1>0, <1>1, <1>2 DEF ReadCached, In, Cleared
<1>15. RecordLoop(t) => Good
  BY <1>0, <1>1, <1>2 DEF RecordLoop, In, Cleared
<1>16. GuardInputs(t) => Good
  BY <1>0, <1>1, <1>2 DEF GuardInputs, In, Cleared
<1>17. Acquire(t) => Good
  BY <1>0, <1>2 DEF Acquire, In, Cleared
<1>18. StartBody(t) => Good
  BY <1>0, <1>2 DEF StartBody, In, Cleared, LocalTypeOK
<1>19. EndBody(t) \/ TimeOut(t) => Good
  BY <1>0, <1>4 DEF EndBody, TimeOut, Timed, In, LocalTypeOK
<1>20. Release(t) => Good
  BY <1>0, <1>4 DEF Release, In, LocalTypeOK
<1>21. Released(t) => Good
  <2> SUFFICES ASSUME Released(t) PROVE Good
    OBVIOUS
  <2>1. CASE Leave(t)
    BY <2>1, <1>0, <1>1
  <2>2. CASE ~Leave(t)
    <3>1. P(t).enforce /\ pc[t] = "release"
      BY <2>2 DEF Released, In
    <3>2. pc'[t] \in {"put", "finish"} /\ call'[t] = call[t]
      BY <2>2, <1>0 DEF Released
    <3> QED
      BY <3>1, <3>2 DEF Good, Authorised, Cleared, P, Tool
  <2> QED
    BY <2>1, <2>2
<1>22. PutResult(t) \/ AppendOrder(t) => Good
  BY <1>0, <1>2 DEF PutResult, AppendOrder, In, Cleared
<1>23. PopOldest(t) => Good
  <2>1. CASE Goto(t, "finish")
    BY <2>1, <1>0, <1>2 DEF PopOldest, In, Cleared
  <2>2. CASE pc' = [pc EXCEPT ![t] = "drop"] /\ UNCHANGED call
    BY <2>2, <1>0, <1>2 DEF PopOldest, In, Cleared, LocalTypeOK
  <2> QED
    BY <2>1, <2>2 DEF PopOldest
<1>24. DropVictim(t) => Good
  BY <1>0, <1>2 DEF DropVictim, In, Cleared, LocalTypeOK
<1>25. Finish(t) => Good
  BY <1>0, <1>1 DEF Finish
\* A call in monitor mode goes to its body at once, but is not enforced.
<1>26. ASSUME NEW p \in Policies, NEW tool \in Tools, NEW arg \in Args, Begin(t, p, tool, arg)
       PROVE  Good
  <2>1. pc'[t] = (IF p.enforce THEN "quota" ELSE "body") /\ call'[t].policy = p
    BY <1>26, <1>0 DEF Begin, LocalTypeOK
  <2>2. CASE p.enforce
    BY <2>1, <2>2, <1>1
  <2>3. CASE ~p.enforce
    BY <2>1, <2>3 DEF Good, Authorised, Cleared, P
  <2> QED
    BY <2>2, <2>3
<1> QED
  BY <1>5, <1>6, <1>7, <1>8, <1>9, <1>10, <1>11, <1>12, <1>13, <1>14, <1>15, <1>16,
     <1>17, <1>18, <1>19, <1>20, <1>21, <1>22, <1>23, <1>24, <1>25, <1>26 DEF Step

LEMMA AuthorityNext == AuthorityInv /\ [Next]_vars => AuthorityInv'
<1> SUFFICES ASSUME AuthorityInv, [Next]_vars PROVE AuthorityInv'
  OBVIOUS
<1>1. TypeOK /\ TypeOK'
  BY NextType DEF AuthorityInv
<1>2. CASE UNCHANGED local
  BY <1>1, <1>2 DEF local, AuthorityInv, Authorised, P, Tool
<1>3. ASSUME NEW t \in Threads,
             \/ Step(t) \/ EndBody(t)
             \/ \E p \in Policies, tool \in Tools, arg \in Args : Begin(t, p, tool, arg)
      PROVE  AuthorityInv'
  <2> SUFFICES ASSUME NEW u \in Threads PROVE Authorised(u)'
    BY <1>1 DEF AuthorityInv
  <2>1. Authorised(u) /\ Authorised(t)
    BY DEF AuthorityInv
  <2>2. CASE u = t
    BY <1>1, <1>3, <2>1, <2>2, AuthorityStep
  <2>3. CASE u # t
    <3>1. pc'[u] = pc[u] /\ call'[u] = call[u]
      BY <1>1, <1>3, <2>3, ThreadFrame DEF TypeOK
    <3> QED
      BY <2>1, <3>1 DEF Authorised, P, Tool
  <2> QED
    BY <2>2, <2>3
<1> QED
  BY <1>2, <1>3, NextCases

\* A call that runs enforced, or returns a cached result, is one its policy
\* allows and whose gates can pass (run_tool_call, steps 4-10), for any number
\* of threads, tools and policies.
THEOREM AuthoritySafe == Spec => []OnlyAuthorised
<1>1. AuthorityInv => OnlyAuthorised
  BY DEF AuthorityInv, Authorised, Cleared, OnlyAuthorised, In
<1> QED
  BY <1>1, AuthorityInit, AuthorityNext, PTL DEF Spec
=============================================================================
