----------------------------- MODULE LimitProofs -----------------------------
(***************************************************************************)
(* Theorems about the limits of the pipeline other than quotas and slots:  *)
(* deadlines, the result cache, risk budgets, loop guards and rate limits, *)
(* for every set of threads, tools, policies and limits.                   *)
(***************************************************************************)
EXTENDS ToolPipelineProofs

-----------------------------------------------------------------------------
(* How a thread moves                                                      *)

Begins(t) == \E p \in Policies, tool \in Tools, arg \in Args : Begin(t, p, tool, arg)

\* The steps from one stage to another of a call that goes on.
Edges ==
  {<<"rate", "rateLock">>, <<"rateLock", "rate">>, <<"deadline", "deadlineLock">>,
   <<"deadlineLock", "deadline">>, <<"require", "risk">>, <<"gates", "cache">>,
   <<"cache", "hit">>, <<"cache", "loop">>, <<"hit", "finish">>, <<"guards", "acquire">>,
   <<"acquire", "body">>, <<"body", "release">>, <<"release", "release">>,
   <<"release", "put">>, <<"release", "finish">>, <<"put", "order">>, <<"order", "evict">>,
   <<"evict", "finish">>, <<"evict", "drop">>, <<"drop", "finish">>,
   <<"quota", "quota">>, <<"risk", "risk">>, <<"loop", "loop">>, <<"acquire", "acquire">>}

\* A call begins, ends, works on or is through with a tuple of its policy.
Begun(t) ==
  /\ pc[t] = "idle" /\ pc'[t] = IF P(t)'.enforce THEN "quota" ELSE "body"
  /\ begun'[t] = now /\ at'[t] = at[t]
Ended(t) == pc'[t] = "idle" /\ at'[t] = 1 /\ begun'[t] = 0
Going(t) == call'[t] = call[t] /\ begun'[t] = begun[t] /\ <<pc[t], pc'[t]>> \in Edges
ThroughWith(t) ==
  /\ call'[t] = call[t] /\ begun'[t] = begun[t]
  /\ ~MoreItems(t) /\ pc[t] \in DOMAIN FollowedBy /\ pc'[t] = FollowedBy[pc[t]] /\ at'[t] = 1

\* The ways a step moves its thread.
LEMMA MovesWhole ==
  ASSUME LocalTypeOK, NEW t \in Threads
  PROVE  /\ \A stage \in Stages : Goto(t, stage) =>
              pc'[t] = stage /\ at'[t] = 1 /\ call'[t] = call[t] /\ begun'[t] = begun[t]
         /\ NextItem(t) =>
              pc'[t] = pc[t] /\ at'[t] = at[t] + 1 /\ call'[t] = call[t] /\ begun'[t] = begun[t]
         /\ Leave(t) => Ended(t)
BY DEF Goto, NextItem, Leave, LocalTypeOK, Ended

\* A thread's own step (run_tool_call).
LEMMA Flow ==
  ASSUME TypeOK, NEW t \in Threads, Step(t) \/ EndBody(t) \/ Begins(t)
  PROVE  Begun(t) \/ Ended(t) \/ Going(t) \/ ThroughWith(t)
<1> DEFINE Fine == Begun(t) \/ Ended(t) \/ Going(t) \/ ThroughWith(t)
<1> SUFFICES Fine
  OBVIOUS
<1>0. LocalTypeOK
  BY DEF TypeOK
<1> USE StageNames
<1>m. /\ \A stage \in Stages : Goto(t, stage) =>
           pc'[t] = stage /\ at'[t] = 1 /\ call'[t] = call[t] /\ begun'[t] = begun[t]
      /\ NextItem(t) =>
           pc'[t] = pc[t] /\ at'[t] = at[t] + 1 /\ call'[t] = call[t] /\ begun'[t] = begun[t]
      /\ Leave(t) => Ended(t)
  BY <1>0, MovesWhole
<1>l. Leave(t) => Fine
  BY <1>m
<1>g. Going(t) => Fine
  OBVIOUS
<1>1. StageDone(t) => Fine
  BY <1>m DEF StageDone, ThroughWith
<1> HIDE DEF Fine
<1>2. ChargeQuota(t) => Fine
  BY <1>l, <1>g, <1>m DEF ChargeQuota, In, Going, Edges
<1>3. ReadClock(t) => Fine
  BY <1>0, <1>g DEF ReadClock, In, Going, Edges, LocalTypeOK
<1>4. ChargeRate(t) => Fine
  <2>1. ChargeRate(t) => pc[t] = "rateLock" /\ (Leave(t) \/
          (pc' = [pc EXCEPT ![t] = "rate"] /\ UNCHANGED <<call, begun>>))
    BY DEF ChargeRate, In
  <2> QED
    BY <2>1, <1>0, <1>l, <1>g DEF Going, Edges, LocalTypeOK
<1>5. ChargeDeadline(t) => Fine
  <2>1. ChargeDeadline(t) => pc[t] = "deadlineLock" /\ (Leave(t) \/
          (pc' = [pc EXCEPT ![t] = "deadline"] /\ UNCHANGED <<call, begun>>))
    BY DEF ChargeDeadline, In
  <2> QED
    BY <2>1, <1>0, <1>l, <1>g DEF Going, Edges, LocalTypeOK
<1>6. Require(t) \/ ConsultGates(t) \/ LookUp(t) \/ ReadCached(t) \/ GuardInputs(t) => Fine
  BY <1>l, <1>g, <1>m DEF Require, ConsultGates, LookUp, ReadCached, GuardInputs, In, Going, Edges
<1>7. ChargeRisk(t) \/ Acquire(t) => Fine
  BY <1>l, <1>g, <1>m DEF ChargeRisk, Acquire, In, Going, Edges
<1>8. RecordLoop(t) => Fine
  BY <1>l, <1>g, <1>m DEF RecordLoop, In, Going, Edges
<1>9. StartBody(t) \/ TimeOut(t) \/ Release(t) \/ EndBody(t) => Fine
  BY <1>0, <1>g DEF StartBody, TimeOut, Timed, Release, EndBody, In, Going, Edges, LocalTypeOK
<1>10. Released(t) => Fine
  BY <1>l, <1>g, <1>m DEF Released, In, Going, Edges
<1>11. PutResult(t) \/ AppendOrder(t) \/ Finish(t) => Fine
  BY <1>l, <1>g, <1>m DEF PutResult, AppendOrder, Finish, In, Going, Edges
<1>12. PopOldest(t) => Fine
  <2>1. PopOldest(t) => pc[t] = "evict" /\ (Goto(t, "finish") \/
          (pc' = [pc EXCEPT ![t] = "drop"] /\ UNCHANGED <<call, begun>>))
    BY DEF PopOldest, In
  <2> QED
    BY <2>1, <1>0, <1>g, <1>m DEF Going, Edges, LocalTypeOK
<1>13. DropVictim(t) => Fine
  BY <1>0, <1>g DEF DropVictim, In, Going, Edges, LocalTypeOK
<1>14. Begins(t) => Fine
  BY <1>0 DEF Begins, Begin, In, Begun, P, LocalTypeOK, Fine
<1> QED
  BY <1>1, <1>2, <1>3, <1>4, <1>5, <1>6, <1>7, <1>8, <1>9, <1>10, <1>11, <1>12, <1>13, <1>14
  DEF Step, Fine

\* What a thread leaves alone in the others, besides what ThreadFrame names.
LEMMA LocalsFrame ==
  ASSUME LocalTypeOK, NEW t \in Threads, NEW u \in Threads, u # t, Step(t) \/ EndBody(t) \/ Begins(t)
  PROVE  begun'[u] = begun[u] /\ stamp'[u] = stamp[u] /\ victim'[u] = victim[u]
<1> DEFINE Same == begun'[u] = begun[u] /\ stamp'[u] = stamp[u] /\ victim'[u] = victim[u]
<1> SUFFICES Same
  OBVIOUS
<1>0. /\ \A stage : Goto(t, stage) => Same
      /\ NextItem(t) => Same
      /\ Leave(t) => Same
  BY DEF Goto, NextItem, Leave, LocalTypeOK
<1>1. StageDone(t) \/ ChargeQuota(t) \/ Require(t) \/ ChargeRisk(t) \/ ConsultGates(t)
        \/ LookUp(t) \/ ReadCached(t) \/ RecordLoop(t) \/ GuardInputs(t) \/ Acquire(t)
        \/ Released(t) \/ PutResult(t) \/ AppendOrder(t) \/ Finish(t) => Same
  BY <1>0 DEF StageDone, ChargeQuota, Require, ChargeRisk, ConsultGates, LookUp, ReadCached,
              RecordLoop, GuardInputs, Acquire, Released, PutResult, AppendOrder, Finish
<1>2. ReadClock(t) \/ StartBody(t) \/ TimeOut(t) \/ Release(t) \/ EndBody(t) \/ DropVictim(t) => Same
  BY DEF ReadClock, StartBody, TimeOut, Timed, Release, EndBody, DropVictim, LocalTypeOK
<1>3. ChargeRate(t) \/ ChargeDeadline(t) => Leave(t) \/
        (stamp' = [stamp EXCEPT ![t] = 0] /\ UNCHANGED <<begun, victim>>)
  BY DEF ChargeRate, ChargeDeadline
<1>4. PopOldest(t) => Goto(t, "finish") \/
        (victim' = [victim EXCEPT ![t] = Head(order[Tool(t)])] /\ UNCHANGED <<begun, stamp>>)
  BY DEF PopOldest
<1>5. Begins(t) => Same
  BY DEF Begins, Begin, LocalTypeOK
<1> QED
  BY <1>0, <1>1, <1>2, <1>3, <1>4, <1>5 DEF Step, LocalTypeOK

\* Which steps change what is shared.
LEMMA SharedFrame ==
  ASSUME NEW t \in Threads, Step(t) \/ EndBody(t) \/ Begins(t)
  PROVE  /\ ~ChargeDeadline(t) => UNCHANGED clock
         /\ ~ChargeRate(t) => UNCHANGED <<times, admitted>>
         /\ ~RecordLoop(t) => UNCHANGED loops
         /\ ~ChargeRisk(t) => UNCHANGED risk
         /\ ~StartBody(t) => UNCHANGED exposure
         /\ ~PutResult(t) /\ ~DropVictim(t) => UNCHANGED cache
         /\ ~AppendOrder(t) /\ ~PopOldest(t) => UNCHANGED order
         /\ now' = now
<1> USE DEF shared, budgets, pacing, loops, memo, bodies
<1>1. CASE StageDone(t) \/ Require(t) \/ ConsultGates(t) \/ LookUp(t) \/ ReadCached(t)
             \/ GuardInputs(t) \/ Released(t) \/ Finish(t) \/ EndBody(t) \/ ReadClock(t)
  BY <1>1 DEF StageDone, Require, ConsultGates, LookUp, ReadCached, GuardInputs, Released,
              Finish, EndBody, ReadClock
<1>2. CASE ChargeQuota(t) \/ ChargeRate(t) \/ ChargeDeadline(t)
  BY <1>2 DEF ChargeQuota, ChargeRate, ChargeDeadline
<1>3. CASE ChargeRisk(t) \/ RecordLoop(t) \/ Acquire(t)
  BY <1>3 DEF ChargeRisk, RecordLoop, Acquire
<1>4. CASE StartBody(t) \/ TimeOut(t) \/ Release(t)
  BY <1>4 DEF StartBody, TimeOut, Timed, Release
<1>5. CASE PutResult(t) \/ AppendOrder(t) \/ PopOldest(t) \/ DropVictim(t)
  BY <1>5 DEF PutResult, AppendOrder, PopOldest, DropVictim
<1>6. CASE Begins(t)
  BY <1>6 DEF Begins, Begin
<1> QED
  BY <1>1, <1>2, <1>3, <1>4, <1>5, <1>6 DEF Step

\* A step of the system, thread by thread.
LEMMA StepCases ==
  ASSUME [Next]_vars
  PROVE  \/ \E t \in Threads : Step(t) \/ EndBody(t) \/ Begins(t)
         \/ /\ UNCHANGED <<local, budgets, pacing, loops, memo, started, exposure, sem>>
            /\ now' = now \/ now' = now + 1
BY DEF Next, NestedCall, OrphanEnds, Tick, bodies, vars, shared, Begins

\* The stages in which one thing can happen, or it and the end of a tuple.
LEMMA StageSteps ==
  ASSUME NEW t \in Threads, Step(t) \/ EndBody(t) \/ Begins(t)
  PROVE  /\ pc[t] = "rateLock" => ChargeRate(t)
         /\ pc[t] = "deadlineLock" => ChargeDeadline(t)
         /\ pc[t] \in {"rate", "deadline"} => ReadClock(t) \/ StageDone(t)
         /\ pc[t] = "risk" => ChargeRisk(t) \/ StageDone(t)
         /\ pc[t] = "acquire" => Acquire(t) \/ StartBody(t)
         /\ pc[t] = "put" => PutResult(t)
         /\ pc[t] = "order" => AppendOrder(t)
         /\ pc[t] = "evict" => PopOldest(t)
         /\ pc[t] = "drop" => DropVictim(t)
<1> USE DEF In
<1>1. CASE StageDone(t)
  BY <1>1 DEF StageDone, FollowedBy
<1>2. CASE Require(t) \/ ConsultGates(t) \/ LookUp(t) \/ ReadCached(t)
             \/ GuardInputs(t) \/ Released(t) \/ Finish(t) \/ EndBody(t)
  BY <1>2 DEF Require, ConsultGates, LookUp, ReadCached, GuardInputs, Released, Finish, EndBody
<1>3. CASE ChargeQuota(t) \/ ChargeRate(t) \/ ChargeDeadline(t) \/ ReadClock(t)
  BY <1>3 DEF ChargeQuota, ChargeRate, ChargeDeadline, ReadClock
<1>4. CASE ChargeRisk(t) \/ RecordLoop(t) \/ Acquire(t)
  BY <1>4 DEF ChargeRisk, RecordLoop, Acquire
<1>5. CASE StartBody(t) \/ TimeOut(t) \/ Release(t)
  BY <1>5 DEF StartBody, TimeOut, Timed, Release
<1>6. CASE PutResult(t) \/ AppendOrder(t) \/ PopOldest(t) \/ DropVictim(t)
  BY <1>6 DEF PutResult, AppendOrder, PopOldest, DropVictim
<1>7. CASE Begins(t)
  BY <1>7 DEF Begins, Begin
<1> QED
  BY <1>1, <1>2, <1>3, <1>4, <1>5, <1>6, <1>7 DEF Step

\* A call goes on to its risk budgets from the permission check.
LEMMA RequireStep ==
  ASSUME NEW t \in Threads, Step(t) \/ EndBody(t) \/ Begins(t), pc[t] = "require"
  PROVE  Require(t)
<1> USE DEF In
<1>1. CASE StageDone(t) \/ ConsultGates(t) \/ LookUp(t) \/ ReadCached(t)
             \/ GuardInputs(t) \/ Released(t) \/ Finish(t) \/ EndBody(t)
  BY <1>1 DEF StageDone, FollowedBy, ConsultGates, LookUp, ReadCached, GuardInputs, Released,
              Finish, EndBody
<1>2. CASE ChargeQuota(t) \/ ChargeRate(t) \/ ChargeDeadline(t) \/ ReadClock(t)
             \/ ChargeRisk(t) \/ RecordLoop(t) \/ Acquire(t)
  BY <1>2 DEF ChargeQuota, ChargeRate, ChargeDeadline, ReadClock, ChargeRisk, RecordLoop, Acquire
<1>3. CASE StartBody(t) \/ TimeOut(t) \/ Release(t) \/ PutResult(t) \/ AppendOrder(t)
             \/ PopOldest(t) \/ DropVictim(t)
  BY <1>3 DEF StartBody, TimeOut, Timed, Release, PutResult, AppendOrder, PopOldest, DropVictim
<1>4. CASE Begins(t)
  BY <1>4 DEF Begins, Begin
<1> QED
  BY <1>1, <1>2, <1>3, <1>4 DEF Step

-----------------------------------------------------------------------------
(* Deadlines                                                               *)

\* The call of t began in time for d, whose clock runs.
InDeadline(t, d) == clock[d] # NotStarted /\ begun[t] - clock[d] <= Seconds[d]

\* The stages that lie behind the deadlines.
Behind == {"require", "risk", "gates", "cache", "hit", "loop", "guards", "acquire"}

\* The position of t's call behind its i-th deadline.
Past(t, i) ==
  \/ pc[t] \in {"deadline", "deadlineLock"} /\ i < at[t]
  \/ pc[t] \in Behind
  \/ pc[t] = "body" /\ P(t).enforce

OnTime(t) ==
  /\ begun[t] <= now
  /\ pc[t] = "deadlineLock" => begun[t] <= stamp[t]
  /\ \A i \in DOMAIN P(t).deadlines : Past(t, i) => InDeadline(t, P(t).deadlines[i])

DeadlineInv == TypeOK /\ \A t \in Threads : OnTime(t)

\* A clock that runs is never set again.
LEMMA ClockFixed ==
  ASSUME TypeOK, NEW t \in Threads, Step(t) \/ EndBody(t) \/ Begins(t),
         NEW d \in Deadlines, clock[d] # NotStarted
  PROVE  clock'[d] = clock[d]
<1>1. CASE ChargeDeadline(t)
  BY <1>1 DEF ChargeDeadline, TypeOK, PaceTypeOK
<1>2. CASE ~ChargeDeadline(t)
  BY <1>2, SharedFrame
<1> QED
  BY <1>1, <1>2

\* The deadlines a policy names are deadlines.
LEMMA DeadlinesOf ==
  ASSUME LocalTypeOK, NEW t \in Threads, NEW i \in DOMAIN P(t).deadlines
  PROVE  P(t).deadlines[i] \in Deadlines /\ i \in 1..Len(P(t).deadlines) /\ Len(P(t).deadlines) \in Nat
<1>1. P(t).deadlines \in Seq(Deadlines)
  BY CallFields, PolicyAssumption DEF Policy
<1> QED
  BY <1>1

\* A thread's own step keeps it in time.
LEMMA OnTimeStep ==
  ASSUME TypeOK, NEW t \in Threads, OnTime(t), Step(t) \/ EndBody(t) \/ Begins(t)
  PROVE  OnTime(t)'
<1>0. LocalTypeOK /\ PaceTypeOK /\ now' = now /\ now \in Nat /\ pc[t] \in Stages
      /\ begun[t] \in Nat /\ stamp[t] \in Nat /\ at[t] \in Nat \ {0}
  BY SharedFrame DEF TypeOK, LocalTypeOK, PaceTypeOK
<1>1. CASE Begun(t)
  <2>1. begun'[t] <= now' /\ pc'[t] \in {"quota", "body"} /\ (pc'[t] = "body" => ~P(t)'.enforce)
    BY <1>0, <1>1 DEF Begun
  <2>2. \A i : ~Past(t, i)'
    BY <2>1 DEF Past, Behind
  <2> QED
    BY <2>1, <2>2 DEF OnTime
<1>2. CASE Ended(t)
  BY <1>0, <1>2 DEF Ended, OnTime, Past, Behind
<1>3. ASSUME call'[t] = call[t], begun'[t] = begun[t],
             pc'[t] = "deadlineLock" => begun[t] <= stamp'[t],
             \A i \in DOMAIN P(t).deadlines :
               Past(t, i)' => Past(t, i) \/ InDeadline(t, P(t).deadlines[i])'
      PROVE  OnTime(t)'
  <2> SUFFICES ASSUME NEW i \in DOMAIN P(t)'.deadlines, Past(t, i)'
               PROVE  InDeadline(t, P(t).deadlines[i])'
    BY <1>0, <1>3 DEF OnTime
  <2>1. P(t)' = P(t) /\ i \in DOMAIN P(t).deadlines
    BY <1>3 DEF P
  <2>2. CASE Past(t, i)
    <3>1. InDeadline(t, P(t).deadlines[i])
      BY <2>1, <2>2 DEF OnTime
    <3> QED
      BY <1>0, <1>3, <2>1, <3>1, ClockFixed, DeadlinesOf DEF InDeadline
  <2> QED
    BY <1>3, <2>1, <2>2
<1>4. CASE ThroughWith(t)
  <2>1. ASSUME NEW i \in DOMAIN P(t).deadlines, Past(t, i)' PROVE Past(t, i)
    <3>1. i \in 1..Len(P(t).deadlines) /\ Len(P(t).deadlines) \in Nat
      BY <1>0, DeadlinesOf
    <3>2. CASE pc[t] = "deadline"
      <4>1. Items(t) = P(t).deadlines
        BY <3>2 DEF Items, In
      <4> QED
        BY <1>0, <1>4, <3>1, <3>2, <4>1 DEF ThroughWith, MoreItems, Past
    <3>3. CASE pc[t] = "rate"
      BY <1>4, <2>1, <3>1, <3>3 DEF ThroughWith, FollowedBy, Past, Behind
    <3>4. CASE pc[t] \in {"quota", "risk", "loop"}
      BY <1>4, <2>1, <3>4 DEF ThroughWith, FollowedBy, Past, Behind
    <3> QED
      BY <1>4, <3>2, <3>3, <3>4 DEF ThroughWith, FollowedBy
  <2>2. pc'[t] # "deadlineLock"
    BY <1>4 DEF ThroughWith, FollowedBy
  <2> QED
    BY <1>3, <1>4, <2>1, <2>2 DEF ThroughWith
<1>5. CASE Going(t)
  <2>1. CASE pc[t] = "deadline"
    <3>1. ReadClock(t)
      BY <1>5, <2>1, StageSteps DEF Going, Edges, StageDone, Goto, FollowedBy, LocalTypeOK, TypeOK
    <3>2. pc'[t] = "deadlineLock" /\ at'[t] = at[t] /\ stamp'[t] = now
      BY <1>0, <2>1, <3>1 DEF ReadClock, In, LocalTypeOK
    <3> QED
      BY <1>0, <1>3, <1>5, <2>1, <3>2 DEF Going, Past, Behind, OnTime
  <2>2. CASE pc[t] = "deadlineLock"
    <3> DEFINE d == P(t).deadlines[at[t]]
    <3>1. ChargeDeadline(t) /\ pc'[t] = "deadline"
      BY <1>5, <2>2, StageSteps DEF Going, Edges
    <3>2. ~Leave(t)
      BY <1>0, <3>1 DEF Leave, LocalTypeOK
    <3>3. InTime(clock[d], Seconds[d], stamp[t]) /\ at'[t] = at[t] + 1
          /\ clock' = [clock EXCEPT ![d] = IF @ = NotStarted THEN stamp[t] ELSE @]
      BY <1>0, <3>1, <3>2 DEF ChargeDeadline, LocalTypeOK
    <3>4. ASSUME NEW i \in DOMAIN P(t).deadlines, Past(t, i)', ~Past(t, i)
          PROVE  InDeadline(t, P(t).deadlines[i])'
      <4>1. i = at[t] /\ d \in Deadlines
        BY <1>0, <2>2, <3>1, <3>3, <3>4, DeadlinesOf DEF Past, Behind
      <4>2. clock[d] \in Nat \cup {NotStarted} /\ Seconds[d] \in Nat /\ begun[t] <= stamp[t]
        BY <1>0, <2>2, <4>1, LimitAssumption DEF PaceTypeOK, OnTime
      <4>3. clock'[d] = (IF clock[d] = NotStarted THEN stamp[t] ELSE clock[d])
        BY <1>0, <3>3, <4>1 DEF PaceTypeOK
      <4>4. clock'[d] # NotStarted /\ begun[t] - clock'[d] <= Seconds[d]
        BY <1>0, <3>3, <4>2, <4>3 DEF InTime, NotStarted
      <4> QED
        BY <1>5, <4>1, <4>4 DEF Going, InDeadline, P
    <3> QED
      BY <1>3, <1>5, <3>1, <3>4 DEF Going
  <2>3. CASE pc[t] \notin {"deadline", "deadlineLock"}
    <3>1. pc'[t] \notin {"deadline", "deadlineLock"}
      BY <1>5, <2>3 DEF Going, Edges
    <3>2. P(t)' = P(t)
      BY <1>5 DEF Going, P
    <3>3. pc'[t] \in Behind \cup {"body"} => pc[t] \in Behind
      BY <1>5, <2>3 DEF Going, Edges, Behind
    <3> QED
      BY <1>3, <1>5, <3>1, <3>2, <3>3 DEF Going, Past
  <2> QED
    BY <2>1, <2>2, <2>3
<1> QED
  BY <1>1, <1>2, <1>4, <1>5, Flow

\* Every step keeps the invariant.
LEMMA DeadlineNext == DeadlineInv /\ [Next]_vars => DeadlineInv'
<1> SUFFICES ASSUME DeadlineInv, [Next]_vars PROVE DeadlineInv'
  OBVIOUS
<1>1. TypeOK /\ TypeOK' /\ \A t \in Threads : OnTime(t)
  BY NextType DEF DeadlineInv
<1>2. CASE UNCHANGED <<local, budgets, pacing, loops, memo, started, exposure, sem>>
           /\ (now' = now \/ now' = now + 1)
  BY <1>1, <1>2 DEF local, pacing, DeadlineInv, OnTime, Past, InDeadline, P, TypeOK, LocalTypeOK,
                    PaceTypeOK
<1>3. ASSUME NEW t \in Threads, Step(t) \/ EndBody(t) \/ Begins(t)
      PROVE  DeadlineInv'
  <2> SUFFICES ASSUME NEW u \in Threads, u # t PROVE OnTime(u)'
    BY <1>1, <1>3, OnTimeStep DEF DeadlineInv
  <2>1. pc'[u] = pc[u] /\ at'[u] = at[u] /\ call'[u] = call[u] /\ now' = now
        /\ begun'[u] = begun[u] /\ stamp'[u] = stamp[u]
    BY <1>1, <1>3, ThreadFrame, LocalsFrame, SharedFrame DEF TypeOK, Begins
  <2>2. ASSUME NEW i \in DOMAIN P(u).deadlines, InDeadline(u, P(u).deadlines[i])
        PROVE  InDeadline(u, P(u).deadlines[i])'
    BY <1>1, <1>3, <2>1, <2>2, ClockFixed, DeadlinesOf DEF InDeadline, P, TypeOK
  <2>3. P(u)' = P(u) /\ \A i : Past(u, i)' = Past(u, i)
    BY <2>1 DEF P, Past
  <2> QED
    BY <1>1, <2>1, <2>2, <2>3 DEF OnTime
<1> QED
  BY <1>2, <1>3, StepCases

\* A call that begins later than a deadline allows does not run, for any
\* threads that share deadlines, however late they take the lock
\* (Deadline.charge).
THEOREM DeadlineSafe == Spec => []LateCallsRefused
<1>1. Init => DeadlineInv
  BY InitType DEF Init, DeadlineInv, OnTime, Past, Behind
<1>2. DeadlineInv => LateCallsRefused
  <2> SUFFICES ASSUME DeadlineInv, NEW t \in Threads, NEW d \in Deadlines,
                      In(t, "body"), P(t).enforce, d \in InTuple(P(t).deadlines)
               PROVE  clock[d] # NotStarted /\ begun[t] - clock[d] <= Seconds[d]
    BY DEF LateCallsRefused
  <2>1. PICK i \in DOMAIN P(t).deadlines : d = P(t).deadlines[i]
    BY DEF InTuple
  <2> QED
    BY <2>1 DEF DeadlineInv, OnTime, Past, In, InDeadline
<1> QED
  BY <1>1, <1>2, DeadlineNext, PTL DEF Spec

-----------------------------------------------------------------------------
(* The cache                                                               *)

\* Threads between storing a result and making room for it.
Evicting(x) == {t \in Threads : Tool(t) = x /\ pc[t] = "evict"}

\* A list of keys outgrows the bound by those who have yet to make room.
OrderBounded ==
  \A x \in Tools : Len(order[x]) <= CacheMax + Cardinality(Evicting(x))

CacheInv == TypeOK /\ CacheTracked /\ OrderBounded

\* What accounts for a cached key.
Listed(x, k) == k \in InTuple(order[x])
Storing(t, x, k) == pc[t] = "order" /\ Tool(t) = x /\ call[t].arg = k
Dropping(t, x, k) == pc[t] = "drop" /\ Tool(t) = x /\ victim[t] = k

\* CacheTracked, one key at a time.
LEMMA TrackedIff ==
  CacheTracked <=>
    \A x \in Tools : \A k \in cache[x] :
      Listed(x, k) \/ \E t \in Threads : Storing(t, x, k) \/ Dropping(t, x, k)
BY DEF CacheTracked, Listed, Storing, Dropping, In

\* A list of keys with one more at the end, and with the first gone.
LEMMA OrderAppended ==
  ASSUME NEW S, NEW seq \in Seq(S), NEW k \in S
  PROVE  /\ Len(Append(seq, k)) = Len(seq) + 1
         /\ InTuple(Append(seq, k)) = InTuple(seq) \cup {k}
<1>1. /\ Append(seq, k) \in Seq(S) /\ Len(Append(seq, k)) = Len(seq) + 1
      /\ Len(seq) \in Nat /\ DOMAIN seq = 1..Len(seq)
      /\ Append(seq, k)[Len(seq) + 1] = k
      /\ \A i \in 1..Len(seq) : Append(seq, k)[i] = seq[i]
  BY AppendProperties, LenProperties
<1>2. DOMAIN Append(seq, k) = 1..(Len(seq) + 1)
  BY <1>1, LenProperties
<1> HIDE DEF InTuple
<1>3. \A y : y \in InTuple(Append(seq, k)) <=> y \in InTuple(seq) \/ y = k
  <2> SUFFICES ASSUME NEW y
               PROVE  y \in InTuple(Append(seq, k)) <=> y \in InTuple(seq) \/ y = k
    OBVIOUS
  <2>1. y \in InTuple(Append(seq, k)) => y \in InTuple(seq) \/ y = k
    BY <1>1, <1>2 DEF InTuple
  <2>2. y \in InTuple(seq) => y \in InTuple(Append(seq, k))
    BY <1>1, <1>2 DEF InTuple
  <2>3. k \in InTuple(Append(seq, k))
    BY <1>1, <1>2 DEF InTuple
  <2> QED
    BY <2>1, <2>2, <2>3
<1> QED
  BY <1>1, <1>3

\* The list of keys without its oldest one.
LEMMA OrderPopped ==
  ASSUME NEW S, NEW seq \in Seq(S), Len(seq) > 0
  PROVE  /\ Len(Tail(seq)) = Len(seq) - 1 /\ Tail(seq) \in Seq(S) /\ Head(seq) \in S
         /\ InTuple(seq) \subseteq InTuple(Tail(seq)) \cup {Head(seq)}
<1>1. /\ seq # <<>> /\ Len(seq) \in Nat /\ DOMAIN seq = 1..Len(seq)
      /\ Head(seq) = seq[1] /\ Head(seq) \in S
      /\ Tail(seq) \in Seq(S) /\ Len(Tail(seq)) = Len(seq) - 1
      /\ \A i \in 1..Len(Tail(seq)) : Tail(seq)[i] = seq[i + 1]
  BY HeadTailProperties, LenProperties, EmptySeq
<1>2. DOMAIN Tail(seq) = 1..(Len(seq) - 1)
  BY <1>1, LenProperties
<1>3. ASSUME NEW i \in DOMAIN seq, i # 1 PROVE seq[i] \in InTuple(Tail(seq))
  <2>1. i - 1 \in DOMAIN Tail(seq) /\ Tail(seq)[i - 1] = seq[i]
    BY <1>1, <1>2, <1>3
  <2> QED
    BY <2>1 DEF InTuple
<1> QED
  BY <1>1, <1>3 DEF InTuple

\* What a thread stores or drops it goes on storing or dropping until it takes
\* the step that is for it.
LEMMA HandKept ==
  ASSUME TypeOK, NEW t \in Threads, Step(t) \/ EndBody(t) \/ Begins(t), NEW u \in Threads,
         NEW x, NEW k
  PROVE  /\ Storing(u, x, k) => Storing(u, x, k)' \/ (u = t /\ AppendOrder(t))
         /\ Dropping(u, x, k) => Dropping(u, x, k)' \/ (u = t /\ DropVictim(t))
<1>1. CASE u = t
  BY <1>1, StageSteps DEF Storing, Dropping
<1>2. CASE u # t
  BY <1>2, ThreadFrame, LocalsFrame DEF TypeOK, Begins, Storing, Dropping, Tool
<1> QED
  BY <1>1, <1>2

\* Every step keeps each entry on the list of keys, or in the hands of the thread that adds or drops it.
LEMMA TrackedNext ==
  ASSUME CacheInv, NEW t \in Threads, Step(t) \/ EndBody(t) \/ Begins(t)
  PROVE  CacheTracked'
<1> DEFINE x == Tool(t)
           k == call[t].arg
<1>0. /\ TypeOK /\ LocalTypeOK /\ x \in Tools /\ k \in Args
      /\ cache \in [Tools -> SUBSET Args] /\ order \in [Tools -> Seq(Args)]
  BY CallFields DEF CacheInv, TypeOK, OtherTypeOK
<1>k. CacheMax \in Nat
  BY ToolAssumption
<1> SUFFICES ASSUME NEW y \in Tools, NEW key \in cache'[y]
             PROVE  (Listed(y, key) \/ \E u \in Threads : Storing(u, y, key) \/ Dropping(u, y, key))'
  BY DEF CacheTracked, Listed, Storing, Dropping, In
<1>1. CASE PutResult(t)
  <2>1. /\ cache' = [cache EXCEPT ![x] = @ \cup {k}] /\ order' = order
        /\ pc'[t] = "order" /\ call'[t] = call[t]
    BY <1>1, <1>0, MovesOwn, StageNames DEF PutResult, memo
  <2>2. CASE key \in cache[y]
    <3>1. Listed(y, key) \/ \E u \in Threads : Storing(u, y, key) \/ Dropping(u, y, key)
      BY <2>2, TrackedIff DEF CacheInv
    <3>2. ~AppendOrder(t) /\ ~DropVictim(t)
      BY <1>1 DEF PutResult, AppendOrder, DropVictim, In
    <3> QED
      BY <1>0, <2>1, <3>1, <3>2, HandKept DEF Listed
  <2>3. CASE key \notin cache[y]
    BY <1>0, <2>1, <2>3 DEF Storing, Tool
  <2> QED
    BY <2>2, <2>3
<1>2. CASE AppendOrder(t)
  <2>1. /\ order' = [order EXCEPT ![x] = Append(@, k)] /\ cache' = cache
    BY <1>2 DEF AppendOrder, memo
  <2>2. \A z \in Tools : InTuple(order[z]) \subseteq InTuple(order'[z])
    BY <1>0, <2>1, OrderAppended
  <2>3. k \in InTuple(order'[x])
    BY <1>0, <2>1, OrderAppended
  <2>4. ~DropVictim(t)
    BY <1>2 DEF AppendOrder, DropVictim, In
  <2>5. Listed(y, key) \/ \E u \in Threads : Storing(u, y, key) \/ Dropping(u, y, key)
    BY <2>1, TrackedIff DEF CacheInv
  <2> QED
    BY <1>0, <2>2, <2>3, <2>4, <2>5, HandKept, SMTT(30) DEF Listed, Storing
<1>3. CASE PopOldest(t)
  <2>1. cache' = cache /\ pc[t] = "evict"
    BY <1>3 DEF PopOldest, memo, In
  <2>2. ~AppendOrder(t) /\ ~DropVictim(t)
    BY <2>1 DEF AppendOrder, DropVictim, In
  <2>3. Listed(y, key) \/ \E u \in Threads : Storing(u, y, key) \/ Dropping(u, y, key)
    BY <2>1, TrackedIff DEF CacheInv
  <2>4. CASE order' = order
    BY <1>0, <2>2, <2>3, <2>4, HandKept DEF Listed
  <2>5. CASE order' # order
    <3>1. /\ Len(order[x]) > CacheMax /\ victim' = [victim EXCEPT ![t] = Head(order[x])]
          /\ order' = [order EXCEPT ![x] = Tail(@)] /\ pc' = [pc EXCEPT ![t] = "drop"]
          /\ UNCHANGED call
      BY <1>3, <2>5 DEF PopOldest
    <3>2. order[x] \in Seq(Args) /\ Len(order[x]) > 0 /\ Len(order[x]) \in Nat
      BY <1>0, <1>k, <3>1
    <3>3. InTuple(order[x]) \subseteq InTuple(order'[x]) \cup {Head(order[x])}
      BY <1>0, <3>1, <3>2, OrderPopped
    <3>4. PICK oldest : oldest = Head(order[x])
      OBVIOUS
    <3>5. PICK tool : tool = x
      OBVIOUS
    <3>6. Dropping(t, tool, oldest)'
      BY <1>0, <3>1, <3>4, <3>5 DEF Dropping, Tool, LocalTypeOK
    <3>7. CASE Listed(y, key)
      <4>1. CASE y = tool
        <5>1. key \in InTuple(order'[y]) \/ key = oldest
          BY <3>3, <3>4, <3>5, <3>7, <4>1 DEF Listed
        <5> QED
          BY <3>6, <4>1, <5>1 DEF Listed
      <4>2. CASE y # tool
        BY <1>0, <3>1, <3>5, <3>7, <4>2 DEF Listed
      <4> QED
        BY <4>1, <4>2
    <3> QED
      BY <1>0, <2>2, <2>3, <3>7, HandKept
  <2> QED
    BY <2>4, <2>5
<1>4. CASE DropVictim(t)
  <2>1. /\ cache' = [cache EXCEPT ![x] = @ \ {victim[t]}] /\ order' = order
        /\ pc[t] = "drop"
    BY <1>4 DEF DropVictim, In
  <2>2. key \in cache[y] /\ ~Dropping(t, y, key)
    BY <1>0, <2>1 DEF Dropping
  <2>3. Listed(y, key) \/ \E u \in Threads : Storing(u, y, key) \/ Dropping(u, y, key)
    BY <2>2, TrackedIff DEF CacheInv
  <2>4. ~AppendOrder(t)
    BY <2>1 DEF AppendOrder, In
  <2> QED
    BY <1>0, <2>1, <2>2, <2>3, <2>4, HandKept DEF Listed
<1>5. CASE ~PutResult(t) /\ ~AppendOrder(t) /\ ~PopOldest(t) /\ ~DropVictim(t)
  <2>1. cache' = cache /\ order' = order
    BY <1>5, SharedFrame
  <2>2. Listed(y, key) \/ \E u \in Threads : Storing(u, y, key) \/ Dropping(u, y, key)
    BY <2>1, TrackedIff DEF CacheInv
  <2> QED
    BY <1>0, <1>5, <2>1, <2>2, HandKept DEF Listed
<1> QED
  BY <1>1, <1>2, <1>3, <1>4, <1>5

\* Only the step from appending a key to making room makes a thread one that has
\* yet to make room, and only making room ends that.
LEMMA EvictingStep ==
  ASSUME TypeOK, NEW t \in Threads, Step(t) \/ EndBody(t) \/ Begins(t), NEW x
  PROVE  /\ AppendOrder(t) /\ Tool(t) = x =>
              Evicting(x)' = Evicting(x) \cup {t} /\ t \notin Evicting(x)
         /\ PopOldest(t) /\ Tool(t) = x =>
              Evicting(x)' = Evicting(x) \ {t} /\ t \in Evicting(x)
         /\ (~AppendOrder(t) /\ ~PopOldest(t)) \/ Tool(t) # x =>
              Evicting(x)' = Evicting(x)
<1>0. LocalTypeOK
  BY DEF TypeOK
<1>1. \A u \in Threads : u # t => (u \in Evicting(x)' <=> u \in Evicting(x))
  BY <1>0, ThreadFrame DEF Evicting, Tool, Begins
<1>2. AppendOrder(t) => pc[t] = "order" /\ pc'[t] = "evict" /\ Tool(t)' = Tool(t)
  BY <1>0, MovesOwn, StageNames DEF AppendOrder, In, Tool
<1>3. PopOldest(t) => pc[t] = "evict" /\ pc'[t] # "evict"
  BY <1>0, MovesOwn, StageNames DEF PopOldest, In, LocalTypeOK
<1>4. ~AppendOrder(t) /\ ~PopOldest(t) => pc[t] # "evict" /\ pc'[t] # "evict"
  <2> SUFFICES ASSUME ~AppendOrder(t), ~PopOldest(t) PROVE pc[t] # "evict" /\ pc'[t] # "evict"
    OBVIOUS
  <2>1. pc[t] # "evict" /\ pc[t] # "order"
    BY StageSteps
  <2>2. CASE Going(t)
    BY <2>1, <2>2 DEF Going, Edges
  <2>3. CASE Begun(t) \/ Ended(t) \/ ThroughWith(t)
    BY <2>1, <2>3 DEF Begun, Ended, ThroughWith, FollowedBy
  <2> QED
    BY <2>1, <2>2, <2>3, Flow
<1>5. PopOldest(t) => Tool(t)' = Tool(t)
  BY <1>0, MovesOwn, StageNames DEF PopOldest, Tool
<1>6. Evicting(x) \subseteq Threads /\ Evicting(x)' \subseteq Threads
  BY DEF Evicting
<1>7. CASE AppendOrder(t)
  BY <1>1, <1>2, <1>6, <1>7 DEF Evicting, PopOldest, In
<1>8. CASE PopOldest(t)
  BY <1>1, <1>3, <1>5, <1>6, <1>8 DEF Evicting, AppendOrder, In
<1>9. CASE ~AppendOrder(t) /\ ~PopOldest(t)
  BY <1>1, <1>4, <1>6, <1>9 DEF Evicting
<1> QED
  BY <1>7, <1>8, <1>9

\* Every step keeps the list of keys within its bound.
LEMMA OrderNext ==
  ASSUME CacheInv, NEW t \in Threads, Step(t) \/ EndBody(t) \/ Begins(t)
  PROVE  OrderBounded'
<1>0. /\ TypeOK /\ Tool(t) \in Tools /\ call[t].arg \in Args
      /\ order \in [Tools -> Seq(Args)] /\ CacheMax \in Nat
  BY CallFields, ToolAssumption DEF CacheInv, TypeOK, OtherTypeOK
<1> SUFFICES ASSUME NEW x \in Tools
             PROVE  Len(order'[x]) <= CacheMax + Cardinality(Evicting(x)')
  BY DEF OrderBounded
<1>1. /\ order[x] \in Seq(Args) /\ Len(order[x]) \in Nat
      /\ IsFiniteSet(Evicting(x)) /\ Cardinality(Evicting(x)) \in Nat
      /\ Len(order[x]) <= CacheMax + Cardinality(Evicting(x))
  <2>1. IsFiniteSet(Evicting(x))
    BY ToolAssumption, FS_Subset DEF Evicting
  <2> QED
    BY <1>0, <2>1, FS_CardinalityType DEF CacheInv, OrderBounded
<1>2. CASE AppendOrder(t) /\ Tool(t) = x
  <2>1. order'[x] = Append(order[x], call[t].arg)
    BY <1>0, <1>2 DEF AppendOrder
  <2>2. Len(order'[x]) = Len(order[x]) + 1
    BY <1>0, <1>1, <2>1, OrderAppended
  <2>3. Evicting(x)' = Evicting(x) \cup {t} /\ t \notin Evicting(x)
    BY <1>0, <1>2, EvictingStep
  <2> DEFINE S == Evicting(x)
  <2>4. IsFiniteSet(S) /\ t \notin S /\ Evicting(x)' = S \cup {t}
    BY <1>1, <2>3
  <2> HIDE DEF S
  <2>5. Cardinality(S \cup {t}) = Cardinality(S) + 1
    BY <2>4, FS_AddElement
  <2>6. Cardinality(Evicting(x)') = Cardinality(Evicting(x)) + 1
    BY <2>4, <2>5 DEF S
  <2> QED
    BY <1>0, <1>1, <2>2, <2>6
<1>3. CASE PopOldest(t) /\ Tool(t) = x
  <2>1. Evicting(x)' = Evicting(x) \ {t} /\ t \in Evicting(x)
    BY <1>0, <1>3, EvictingStep
  <2> DEFINE S == Evicting(x)
  <2>2. IsFiniteSet(S) /\ t \in S /\ Evicting(x)' = S \ {t} /\ Cardinality(S) \in Nat
    BY <1>1, <2>1
  <2> HIDE DEF S
  <2>3. Cardinality(S \ {t}) = Cardinality(S) - 1 /\ Cardinality(S \ {t}) \in Nat
    BY <2>2, FS_RemoveElement, FS_CardinalityType
  <2>4. Cardinality(Evicting(x)') = Cardinality(Evicting(x)) - 1 /\ Cardinality(Evicting(x)') \in Nat
    BY <2>2, <2>3 DEF S
  <2>5. CASE Len(order[x]) > CacheMax
    <3>1. order'[x] = Tail(order[x])
      BY <1>0, <1>3, <2>5 DEF PopOldest
    <3>2. Len(order'[x]) = Len(order[x]) - 1
      BY <1>0, <1>1, <2>5, <3>1, OrderPopped
    <3> QED
      BY <1>0, <1>1, <2>4, <3>2
  <2>6. CASE Len(order[x]) <= CacheMax
    <3>1. order'[x] = order[x]
      BY <1>0, <1>1, <1>3, <2>6 DEF PopOldest
    <3> QED
      BY <1>0, <1>1, <2>4, <2>6, <3>1
  <2> QED
    BY <1>0, <1>1, <2>5, <2>6
<1>4. CASE (~AppendOrder(t) /\ ~PopOldest(t)) \/ Tool(t) # x
  <2>1. Evicting(x)' = Evicting(x)
    BY <1>0, <1>4, EvictingStep
  <2>2. order'[x] = order[x]
    BY <1>0, <1>4, SharedFrame DEF AppendOrder, PopOldest
  <2> QED
    BY <1>1, <2>1, <2>2
<1> QED
  BY <1>2, <1>3, <1>4

\* Every step keeps the invariant.
LEMMA CacheNext == CacheInv /\ [Next]_vars => CacheInv'
<1> SUFFICES ASSUME CacheInv, [Next]_vars PROVE CacheInv'
  OBVIOUS
<1>1. TypeOK'
  BY NextType DEF CacheInv
<1>2. ASSUME NEW t \in Threads, Step(t) \/ EndBody(t) \/ Begins(t) PROVE CacheInv'
  BY <1>1, <1>2, TrackedNext, OrderNext DEF CacheInv
<1>3. CASE UNCHANGED <<local, budgets, pacing, loops, memo, started, exposure, sem>>
  BY <1>1, <1>3 DEF CacheInv, CacheTracked, OrderBounded, Evicting, InTuple, In, Tool, local, memo
<1> QED
  BY <1>2, <1>3, StepCases DEF pacing

\* The caches start empty.
LEMMA CacheInit == Init => CacheInv
<1> SUFFICES ASSUME Init PROVE CacheInv
  OBVIOUS
<1>1. CacheTracked
  BY DEF Init, CacheTracked
<1>2. ASSUME NEW x \in Tools PROVE Len(order[x]) <= CacheMax + Cardinality(Evicting(x))
  <2>1. Evicting(x) = {}
    BY DEF Init, Evicting
  <2>2. Len(order[x]) = 0 /\ CacheMax \in Nat
    BY ToolAssumption DEF Init
  <2> QED
    BY <2>1, <2>2, FS_EmptySet
<1> QED
  BY <1>1, <1>2, InitType DEF CacheInv, OrderBounded

\* No cached result is forgotten by the list that evicts it, however the threads
\* that store results of one tool interleave (_cache_put).
THEOREM CacheTrackedSafe == Spec => []CacheTracked
<1>1. CacheInv => CacheTracked
  BY DEF CacheInv
<1> QED
  BY <1>1, CacheInit, CacheNext, PTL DEF Spec

\* The values of a function on a finite set are at most as many as its arguments.
LEMMA FewerValues ==
  ASSUME NEW S, IsFiniteSet(S), NEW f, f = [s \in S |-> f[s]]
  PROVE  LET values == {f[s] : s \in S}
         IN  /\ IsFiniteSet(values)
             /\ Cardinality(values) \in Nat /\ Cardinality(values) <= Cardinality(S)
<1> DEFINE values == {f[s] : s \in S}
<1>1. f \in [S -> values] /\ \A v \in values : \E s \in S : f[s] = v
  OBVIOUS
<1> HIDE DEF values
<1>2. f \in Surjection(S, values)
  BY <1>1 DEF Surjection
<1> QED
  BY <1>2, FS_Surjection, FS_CardinalityType DEF values

\* Every entry of a tool's cache can be evicted, and there are at most _CACHE_MAX
\* of them and one for each thread that is storing one (_cache_put).
THEOREM CacheBoundedSafe == Spec => []CacheBounded
<1>1. CacheInv => CacheBounded
  <2> SUFFICES ASSUME CacheInv, NEW x \in Tools
               PROVE  Cardinality(cache[x]) <= CacheMax + Cardinality(
                        {t \in Threads : Tool(t) = x /\ pc[t] \in {"order", "evict", "drop"}})
    BY DEF CacheBounded, CacheInv
  <2> DEFINE Busy == {t \in Threads : Tool(t) = x /\ pc[t] \in {"order", "evict", "drop"}}
             Between == {t \in Threads : Tool(t) = x /\ pc[t] \in {"order", "drop"}}
             hand == [t \in Between |-> IF pc[t] = "order" THEN call[t].arg ELSE victim[t]]
             inHand == {hand[t] : t \in Between}
             Keys == {order[x][i] : i \in DOMAIN order[x]}
  <2>1. /\ order[x] \in Seq(Args) /\ Len(order[x]) \in Nat /\ DOMAIN order[x] = 1..Len(order[x])
        /\ CacheMax \in Nat /\ TypeOK /\ cache[x] \subseteq Args
    BY ToolAssumption, LenProperties DEF CacheInv, TypeOK, OtherTypeOK
  <2>2. cache[x] \subseteq Keys \cup inHand
    <3> SUFFICES ASSUME NEW k \in cache[x] PROVE k \in Keys \/ k \in inHand
      OBVIOUS
    <3>1. Listed(x, k) \/ \E t \in Threads : Storing(t, x, k) \/ Dropping(t, x, k)
      BY TrackedIff DEF CacheInv
    <3>2. CASE Listed(x, k)
      BY <3>2 DEF Listed, InTuple
    <3>3. ASSUME NEW t \in Threads, Storing(t, x, k) \/ Dropping(t, x, k) PROVE k \in inHand
      <4>1. t \in Between /\ hand[t] = k
        BY <3>3 DEF Storing, Dropping
      <4> QED
        BY <4>1
    <3> QED
      BY <3>1, <3>2, <3>3
  <2>3. /\ IsFiniteSet(Between) /\ IsFiniteSet(Evicting(x))
        /\ Between \cap Evicting(x) = {} /\ Busy = Between \cup Evicting(x)
    BY ToolAssumption, FS_Subset DEF Evicting
  <2>4. /\ IsFiniteSet(inHand) /\ Cardinality(inHand) \in Nat
        /\ Cardinality(inHand) <= Cardinality(Between)
    <3>1. hand = [t \in Between |-> hand[t]]
      OBVIOUS
    <3> HIDE DEF hand, Between
    <3> QED
      BY <2>3, <3>1, FewerValues
  <2>5. /\ IsFiniteSet(Keys) /\ Cardinality(Keys) \in Nat /\ Cardinality(Keys) <= Len(order[x])
    <3>1. IsFiniteSet(1..Len(order[x])) /\ Cardinality(1..Len(order[x])) = Len(order[x])
      BY <2>1, FS_Interval
    <3>2. order[x] = [i \in 1..Len(order[x]) |-> order[x][i]]
      BY <2>1
    <3> DEFINE seq == order[x]
               S == 1..Len(order[x])
    <3>3. IsFiniteSet(S) /\ seq = [i \in S |-> seq[i]] /\ Keys = {seq[i] : i \in S}
      BY <2>1, <3>1, <3>2
    <3> HIDE DEF seq, S, Keys
    <3>4. IsFiniteSet(Keys) /\ Cardinality(Keys) \in Nat /\ Cardinality(Keys) <= Cardinality(S)
      BY <3>3, FewerValues
    <3> QED
      BY <3>1, <3>4 DEF S
  <2> HIDE DEF Between, hand, inHand, Keys, Busy
  <2>6. /\ IsFiniteSet(Keys \cup inHand)
        /\ Cardinality(Keys \cup inHand) <= Cardinality(Keys) + Cardinality(inHand)
    <3>1. IsFiniteSet(Keys \cap inHand) /\ Cardinality(Keys \cap inHand) \in Nat
      BY <2>5, FS_Subset, FS_CardinalityType
    <3>2. /\ IsFiniteSet(Keys \cup inHand)
          /\ Cardinality(Keys \cup inHand) =
                Cardinality(Keys) + Cardinality(inHand) - Cardinality(Keys \cap inHand)
      <4>1. IsFiniteSet(Keys) /\ IsFiniteSet(inHand)
        BY <2>4, <2>5
      <4> QED
        BY <4>1, FS_Union
    <3> QED
      BY <2>4, <2>5, <3>1, <3>2
  <2>7. Cardinality(cache[x]) <= Cardinality(Keys \cup inHand) /\ Cardinality(cache[x]) \in Nat
        /\ Cardinality(Keys \cup inHand) \in Nat
    BY <2>2, <2>6, FS_Subset, FS_CardinalityType
  <2>8. Cardinality(Busy) = Cardinality(Between) + Cardinality(Evicting(x))
    <3>1. /\ Cardinality(Between \cup Evicting(x)) =
                Cardinality(Between) + Cardinality(Evicting(x)) - Cardinality(Between \cap Evicting(x))
      BY <2>3, FS_Union
    <3>2. Cardinality(Between \cap Evicting(x)) = 0
      BY <2>3, FS_EmptySet
    <3>3. Cardinality(Between) \in Nat /\ Cardinality(Evicting(x)) \in Nat
      BY <2>3, FS_CardinalityType
    <3> QED
      BY <2>3, <3>1, <3>2, <3>3
  <2>9. Cardinality(Between) \in Nat /\ Cardinality(Evicting(x)) \in Nat
    BY <2>3, FS_CardinalityType
  <2>10. Len(order[x]) <= CacheMax + Cardinality(Evicting(x))
    BY DEF CacheInv, OrderBounded
  <2>11. Cardinality(cache[x]) <= CacheMax + Cardinality(Busy)
    BY <2>1, <2>4, <2>5, <2>6, <2>7, <2>8, <2>9, <2>10
  <2> QED
    BY <2>11 DEF Busy
<1> QED
  BY <1>1, CacheInit, CacheNext, PTL DEF Spec

-----------------------------------------------------------------------------
(* Risk                                                                    *)

\* The budgets that t's call has charged for a body it has not started.
RiskPaid(t) ==
  IF pc[t] = "risk" THEN {P(t).risks[i] : i \in 1..(at[t] - 1)}
  ELSE IF pc[t] \in {"gates", "cache", "loop", "guards", "acquire"} THEN InTuple(P(t).risks)
  ELSE {}

\* One unit for each point of risk charged and not yet exposed.
Share(t, b) == IF b \in RiskPaid(t) THEN {t} \X (1..Risk[Tool(t)]) ELSE {}
RiskUnits(b) == UNION {Share(t, b) : t \in Threads}

\* The inductive invariant: what the waiting calls have charged is charged.
RiskInv ==
  /\ TypeOK
  /\ \A b \in RiskBudgets :
       /\ IsFiniteSet(RiskUnits(b))
       /\ exposure[b] + Cardinality(RiskUnits(b)) <= risk[b]
       /\ risk[b] <= MaxRisk[b]

\* A share has as many units as its call has points.
LEMMA ShareSize ==
  ASSUME LocalTypeOK, NEW t \in Threads
  PROVE  LET points == {t} \X (1..Risk[Tool(t)])
         IN  /\ Risk[Tool(t)] \in Nat
             /\ IsFiniteSet(points) /\ Cardinality(points) = Risk[Tool(t)]
<1>1. Risk[Tool(t)] \in Nat
  BY CallFields, ToolAssumption
<1>2. IsFiniteSet(1..Risk[Tool(t)]) /\ Cardinality(1..Risk[Tool(t)]) = Risk[Tool(t)]
  BY <1>1, FS_Interval, SMTT(30)
<1>3. IsFiniteSet({t}) /\ Cardinality({t}) = 1
  BY FS_Singleton
<1>4. /\ IsFiniteSet({t} \X (1..Risk[Tool(t)]))
      /\ Cardinality({t} \X (1..Risk[Tool(t)])) = 1 * Risk[Tool(t)]
  <2> DEFINE S == {t}
             T == 1..Risk[Tool(t)]
  <2>1. IsFiniteSet(S) /\ IsFiniteSet(T)
    BY <1>2, <1>3
  <2> HIDE DEF S, T
  <2>2. IsFiniteSet(S \X T) /\ Cardinality(S \X T) = Cardinality(S) * Cardinality(T)
    BY <2>1, FS_Product
  <2> QED
    BY <1>2, <1>3, <2>2 DEF S, T
<1> QED
  BY <1>1, <1>4

\* What one thread does leaves the share of the others in a risk budget alone.
LEMMA OthersShare ==
  ASSUME TypeOK, NEW t \in Threads, Step(t) \/ EndBody(t) \/ Begins(t),
         NEW u \in Threads, u # t, NEW b
  PROVE  Share(u, b)' = Share(u, b)
<1>1. pc'[u] = pc[u] /\ at'[u] = at[u] /\ call'[u] = call[u]
  BY ThreadFrame DEF TypeOK, Begins
<1> QED
  BY <1>1 DEF Share, RiskPaid, P, Tool

\* Only charging a budget adds to what a call has charged.
LEMMA ShareShrinks ==
  ASSUME TypeOK, NEW t \in Threads, Step(t) \/ EndBody(t) \/ Begins(t), ~ChargeRisk(t), NEW b
  PROVE  Share(t, b)' \subseteq Share(t, b)
<1>0. LocalTypeOK /\ pc[t] \in Stages /\ at[t] \in Nat \ {0} /\ Risk[Tool(t)] \in Nat
  BY ShareSize DEF TypeOK, LocalTypeOK
<1>1. CASE Begun(t) \/ Ended(t)
  <2>1. pc'[t] \in {"idle", "quota", "body"}
    BY <1>1 DEF Begun, Ended
  <2> QED
    BY <2>1 DEF Share, RiskPaid
<1>2. ASSUME call'[t] = call[t], b \in RiskPaid(t)' => b \in RiskPaid(t) \/ Risk[Tool(t)] = 0
      PROVE  Share(t, b)' \subseteq Share(t, b)
  <2>1. Tool(t)' = Tool(t)
    BY <1>2 DEF Tool
  <2>2. Risk[Tool(t)] = 0 => {t} \X (1..Risk[Tool(t)]) = {}
    OBVIOUS
  <2> QED
    BY <1>2, <2>1, <2>2 DEF Share
<1>3. CASE Going(t)
  <2>1. P(t)' = P(t) /\ call'[t] = call[t]
    BY <1>3 DEF Going, P
  <2>2. pc[t] # "risk"
    BY <1>0, <1>3, StageSteps, MovesOwn, StageNames DEF StageDone, FollowedBy, Going, Edges
  <2>3. CASE pc'[t] = "risk"
    <3>1. Require(t)
      BY <1>3, <2>2, <2>3, RequireStep DEF Going, Edges
    <3>2. at'[t] = 1
      BY <1>0, <2>3, <3>1, MovesWhole, StageNames DEF Require, Ended
    <3>3. RiskPaid(t)' = {}
      BY <2>3, <3>2 DEF RiskPaid
    <3> QED
      BY <3>3 DEF Share
  <2>4. CASE pc'[t] \in {"gates", "cache", "loop", "guards", "acquire"}
    <3>1. pc[t] \in {"gates", "cache", "loop", "guards", "acquire"}
      BY <1>3, <2>4 DEF Going, Edges
    <3> QED
      BY <1>2, <2>1, <2>4, <3>1 DEF RiskPaid
  <2>5. CASE pc'[t] \notin {"risk", "gates", "cache", "loop", "guards", "acquire"}
    BY <2>5 DEF Share, RiskPaid
  <2> QED
    BY <2>3, <2>4, <2>5
<1>4. CASE ThroughWith(t)
  <2>1. P(t)' = P(t) /\ call'[t] = call[t] /\ pc'[t] = FollowedBy[pc[t]] /\ pc[t] \in DOMAIN FollowedBy
    BY <1>4 DEF ThroughWith, P
  <2>2. CASE pc[t] = "risk"
    <3>1. pc'[t] = "gates" /\ RiskPaid(t)' = InTuple(P(t).risks)
      BY <2>1, <2>2 DEF FollowedBy, RiskPaid
    <3>2. CASE Risk[Tool(t)] > 0
      <4>1. Items(t) = P(t).risks /\ ~(at[t] <= Len(P(t).risks))
        BY <1>4, <2>2, <3>2 DEF Items, In, ThroughWith, MoreItems
      <4>2. P(t).risks \in Seq(RiskBudgets)
        BY <1>0, CallFields, PolicyAssumption DEF Policy
      <4>3. DOMAIN P(t).risks \subseteq 1..(at[t] - 1)
        BY <1>0, <4>1, <4>2, LenProperties
      <4> QED
        BY <1>2, <2>1, <2>2, <3>1, <4>3 DEF RiskPaid, InTuple
    <3>3. CASE Risk[Tool(t)] = 0
      BY <1>2, <2>1, <3>3
    <3> QED
      BY <1>0, <3>2, <3>3
  <2>3. CASE pc[t] = "loop"
    <3>1. pc'[t] = "guards"
      BY <2>1, <2>3 DEF FollowedBy
    <3> QED
      BY <1>2, <2>1, <2>3, <3>1 DEF RiskPaid
  <2>4. CASE pc[t] \in {"quota", "rate", "deadline"}
    <3>1. pc'[t] \in {"rate", "deadline", "require"}
      BY <2>1, <2>4 DEF FollowedBy
    <3> QED
      BY <3>1 DEF Share, RiskPaid
  <2> QED
    BY <2>1, <2>2, <2>3, <2>4 DEF FollowedBy
<1> QED
  BY <1>1, <1>3, <1>4, Flow

\* What charging a budget adds is one share, and to no other budget.
LEMMA ChargeShare ==
  ASSUME TypeOK, NEW t \in Threads, ChargeRisk(t), ~Leave(t), NEW b
  PROVE  /\ Share(t, b)' \subseteq {t} \X (1..Risk[Tool(t)])
         /\ b # Item(t) => Share(t, b)' \subseteq Share(t, b)
<1>1. /\ LocalTypeOK /\ pc[t] = "risk" /\ at[t] \in Nat \ {0}
      /\ pc'[t] = "risk" /\ at'[t] = at[t] + 1 /\ call'[t] = call[t]
      /\ Risk[Tool(t)] \in Nat
  BY MovesOwn, ShareSize DEF TypeOK, ChargeRisk, In, LocalTypeOK
<1>2. P(t)' = P(t) /\ Tool(t)' = Tool(t)
  BY <1>1 DEF P, Tool
<1>3. RiskPaid(t)' \subseteq RiskPaid(t) \cup {P(t).risks[at[t]]}
  <2>1. RiskPaid(t)' = {P(t).risks[i] : i \in 1..((at[t] + 1) - 1)}
    BY <1>1, <1>2 DEF RiskPaid
  <2>2. \A i \in 1..((at[t] + 1) - 1) : i = at[t] \/ i \in 1..(at[t] - 1)
    BY <1>1
  <2> QED
    BY <1>1, <2>1, <2>2 DEF RiskPaid
<1>4. CASE Risk[Tool(t)] = 0
  <2>1. {t} \X (1..Risk[Tool(t)]) = {}
    BY <1>4
  <2> QED
    BY <1>2, <2>1 DEF Share
<1>5. CASE Risk[Tool(t)] > 0
  <2>1. Item(t) = P(t).risks[at[t]]
    BY <1>1, <1>5 DEF Item, Items, In
  <2> QED
    BY <1>2, <1>3, <2>1 DEF Share
<1> QED
  BY <1>1, <1>4, <1>5

\* Adding units to a finite set, and taking away some of its own.
LEMMA MoreUnits ==
  ASSUME NEW S, NEW A, IsFiniteSet(S), IsFiniteSet(A), NEW T, T \subseteq S \cup A
  PROVE  /\ IsFiniteSet(T) /\ Cardinality(T) \in Nat
         /\ Cardinality(T) <= Cardinality(S) + Cardinality(A)
<1>1. /\ IsFiniteSet(S \cup A)
      /\ Cardinality(S \cup A) = Cardinality(S) + Cardinality(A) - Cardinality(S \cap A)
  BY FS_Union
<1>2. IsFiniteSet(S \cap A)
  BY FS_Subset
<1>3. Cardinality(S) \in Nat /\ Cardinality(A) \in Nat /\ Cardinality(S \cap A) \in Nat
  BY <1>2, FS_CardinalityType
<1>4. IsFiniteSet(T) /\ Cardinality(T) <= Cardinality(S \cup A)
  BY <1>1, FS_Subset
<1> QED
  BY <1>1, <1>3, <1>4, FS_CardinalityType

\* Two sets of units that have none in common, in a finite one.
LEMMA FewerUnits ==
  ASSUME NEW S, NEW A, IsFiniteSet(S), A \subseteq S, NEW T, T \subseteq S \ A
  PROVE  /\ IsFiniteSet(T) /\ Cardinality(T) \in Nat
         /\ Cardinality(T) + Cardinality(A) <= Cardinality(S)
<1>1. /\ IsFiniteSet(S \ A)
      /\ Cardinality(S \ A) = Cardinality(S) - Cardinality(S \cap A)
  BY FS_Difference
<1>2. S \cap A = A /\ IsFiniteSet(A)
  BY FS_Subset
<1>3. Cardinality(S) \in Nat /\ Cardinality(A) \in Nat
  BY <1>2, FS_CardinalityType
<1>4. IsFiniteSet(T) /\ Cardinality(T) <= Cardinality(S \ A)
  BY <1>1, FS_Subset
<1>5. Cardinality(S \ A) = Cardinality(S) - Cardinality(A)
  BY <1>1, <1>2
<1>6. Cardinality(T) \in Nat
  BY <1>4, FS_CardinalityType
<1> QED
  BY <1>3, <1>4, <1>5, <1>6

\* A body that starts exposes what its call has charged: the budgets that
\* enclose it gain the risk their call gives up.
LEMMA StartShare ==
  ASSUME TypeOK, NEW t \in Threads, StartBody(t), NEW b \in RiskBudgets
  PROVE  /\ Share(t, b)' = {}
         /\ b \in InTuple(P(t).risks) =>
              Share(t, b) = {t} \X (1..Risk[Tool(t)]) /\ exposure'[b] = exposure[b] + Risk[Tool(t)]
         /\ b \notin InTuple(P(t).risks) => exposure'[b] = exposure[b]
         /\ risk'[b] = risk[b]
<1>1. /\ LocalTypeOK /\ pc[t] = "acquire" /\ pc'[t] = "body"
      /\ exposure \in [RiskBudgets -> Nat] /\ Risk[Tool(t)] \in Nat
      /\ risk' = risk
  BY ShareSize DEF TypeOK, StartBody, In, LocalTypeOK, BudgetTypeOK, budgets
<1>2. Share(t, b)' = {}
  BY <1>1 DEF Share, RiskPaid
<1>3. RiskPaid(t) = InTuple(P(t).risks)
  BY <1>1 DEF RiskPaid
<1>4. exposure'[b] = exposure[b] + IF b \in InTuple(P(t).risks) THEN Risk[Tool(t)] ELSE 0
  BY DEF StartBody
<1> QED
  BY <1>1, <1>2, <1>3, <1>4 DEF Share

\* Every step keeps the invariant.
LEMMA RiskNext == RiskInv /\ [Next]_vars => RiskInv'
<1> SUFFICES ASSUME RiskInv, [Next]_vars PROVE RiskInv'
  OBVIOUS
<1>1. TypeOK /\ TypeOK'
  BY NextType DEF RiskInv
<1> DEFINE Good(b) ==
             /\ IsFiniteSet(RiskUnits(b))
             /\ exposure[b] + Cardinality(RiskUnits(b)) <= risk[b]
             /\ risk[b] <= MaxRisk[b]
<1> SUFFICES ASSUME NEW b \in RiskBudgets PROVE Good(b)'
  BY <1>1 DEF RiskInv
<1>2. /\ IsFiniteSet(RiskUnits(b)) /\ Cardinality(RiskUnits(b)) \in Nat
      /\ exposure[b] \in Nat /\ risk[b] \in Nat /\ MaxRisk[b] \in Nat
      /\ exposure[b] + Cardinality(RiskUnits(b)) <= risk[b] /\ risk[b] <= MaxRisk[b]
      /\ risk \in [RiskBudgets -> Nat]
  BY LimitAssumption, FS_CardinalityType DEF RiskInv, TypeOK, BudgetTypeOK
<1>3. ASSUME RiskUnits(b)' \subseteq RiskUnits(b), UNCHANGED <<exposure, risk>>
      PROVE  Good(b)'
  <2>1. IsFiniteSet(RiskUnits(b)') /\ Cardinality(RiskUnits(b)') <= Cardinality(RiskUnits(b))
        /\ Cardinality(RiskUnits(b)') \in Nat
    BY <1>2, <1>3, FS_Subset, FS_CardinalityType
  <2> QED
    BY <1>2, <1>3, <2>1
<1>4. ASSUME NEW t \in Threads, Step(t) \/ EndBody(t) \/ Begins(t)
      PROVE  Good(b)'
  <2> DEFINE points == {t} \X (1..Risk[Tool(t)])
  <2>1. \A u \in Threads : u # t => Share(u, b)' = Share(u, b)
    BY <1>1, <1>4, OthersShare
  <2>2. Share(t, b) \subseteq RiskUnits(b)
    BY DEF RiskUnits
  <2>3. RiskUnits(b)' \subseteq RiskUnits(b) \cup Share(t, b)'
    BY <2>1 DEF RiskUnits
  <2>4. Risk[Tool(t)] \in Nat /\ IsFiniteSet(points) /\ Cardinality(points) = Risk[Tool(t)]
    BY <1>1, ShareSize DEF TypeOK
  <2> HIDE DEF points
  <2>5. CASE ChargeRisk(t) /\ ~Leave(t)
    <3>1. /\ Affordable(risk[Item(t)], Risk[Tool(t)], MaxRisk[Item(t)])
          /\ risk' = [risk EXCEPT ![Item(t)] = @ + Risk[Tool(t)]]
          /\ exposure' = exposure
      BY <2>5 DEF ChargeRisk, bodies
    <3>2. /\ Share(t, b)' \subseteq points
          /\ b # Item(t) => Share(t, b)' \subseteq Share(t, b)
      BY <1>1, <2>5, ChargeShare DEF points
    <3>3. CASE b = Item(t)
      <4>1. IsFiniteSet(RiskUnits(b)') /\ Cardinality(RiskUnits(b)') \in Nat
            /\ Cardinality(RiskUnits(b)') <= Cardinality(RiskUnits(b)) + Risk[Tool(t)]
        BY <1>2, <2>3, <2>4, <3>2, MoreUnits
      <4>2. risk'[b] = risk[b] + Risk[Tool(t)] /\ risk'[b] <= MaxRisk[b]
        BY <1>2, <3>1, <3>3 DEF Affordable
      <4> QED
        BY <1>2, <2>4, <3>1, <4>1, <4>2
    <3>4. CASE b # Item(t)
      <4>1. RiskUnits(b)' \subseteq RiskUnits(b)
        BY <2>2, <2>3, <3>2, <3>4
      <4>2. IsFiniteSet(RiskUnits(b)') /\ Cardinality(RiskUnits(b)') <= Cardinality(RiskUnits(b))
            /\ Cardinality(RiskUnits(b)') \in Nat
        BY <1>2, <4>1, FS_Subset, FS_CardinalityType
      <4>3. risk'[b] = risk[b] /\ exposure'[b] = exposure[b]
        BY <1>2, <3>1, <3>4
      <4> QED
        BY <1>2, <4>2, <4>3
    <3> QED
      BY <3>3, <3>4
  <2>6. CASE ChargeRisk(t) /\ Leave(t)
    <3>1. UNCHANGED exposure /\ pc'[t] = "idle"
      BY <1>1, <2>6 DEF ChargeRisk, bodies, Leave, TypeOK, LocalTypeOK
    <3>2. UNCHANGED risk
      <4>1. pc[t] = "risk"
        BY <2>6 DEF ChargeRisk, In
      <4>2. ~NextItem(t)
        BY <3>1, <4>1 DEF NextItem
      <4> QED
        BY <2>6, <4>2 DEF ChargeRisk
    <3>3. Share(t, b)' = {}
      BY <3>1 DEF Share, RiskPaid
    <3> QED
      BY <1>3, <2>3, <3>1, <3>2, <3>3
  <2>7. CASE StartBody(t)
    <3>1. /\ Share(t, b)' = {}
          /\ b \in InTuple(P(t).risks) =>
               Share(t, b) = points /\ exposure'[b] = exposure[b] + Risk[Tool(t)]
          /\ b \notin InTuple(P(t).risks) => exposure'[b] = exposure[b]
          /\ risk'[b] = risk[b]
      BY <1>1, <2>7, StartShare DEF points
    <3>2. CASE b \in InTuple(P(t).risks)
      <4>1. RiskUnits(b)' \subseteq RiskUnits(b) \ points /\ points \subseteq RiskUnits(b)
        <5>1. \A u \in Threads : u # t => Share(u, b) \cap points = {}
          BY DEF Share, points
        <5>2. RiskUnits(b)' = UNION {Share(u, b)' : u \in Threads}
          BY DEF RiskUnits
        <5>3. ASSUME NEW unit \in RiskUnits(b)' PROVE unit \in RiskUnits(b) /\ unit \notin points
          <6>1. PICK u \in Threads : unit \in Share(u, b)'
            BY <5>2
          <6>2. u # t /\ unit \in Share(u, b)
            BY <2>1, <3>1, <6>1
          <6> QED
            BY <5>1, <6>2 DEF RiskUnits
        <5> QED
          BY <2>2, <3>1, <3>2, <5>3
      <4>2. IsFiniteSet(RiskUnits(b)') /\ Cardinality(RiskUnits(b)') \in Nat
            /\ Cardinality(RiskUnits(b)') + Risk[Tool(t)] <= Cardinality(RiskUnits(b))
        BY <1>2, <2>4, <4>1, FewerUnits
      <4> QED
        BY <1>2, <2>4, <3>1, <3>2, <4>2
    <3>3. CASE b \notin InTuple(P(t).risks)
      <4>1. RiskUnits(b)' \subseteq RiskUnits(b)
        BY <2>3, <3>1
      <4>2. IsFiniteSet(RiskUnits(b)') /\ Cardinality(RiskUnits(b)') <= Cardinality(RiskUnits(b))
            /\ Cardinality(RiskUnits(b)') \in Nat
        BY <1>2, <4>1, FS_Subset, FS_CardinalityType
      <4> QED
        BY <1>2, <3>1, <3>3, <4>2
    <3> QED
      BY <3>2, <3>3
  <2>8. CASE ~ChargeRisk(t) /\ ~StartBody(t)
    <3>1. UNCHANGED <<exposure, risk>>
      BY <1>4, <2>8, SharedFrame
    <3>2. Share(t, b)' \subseteq Share(t, b)
      BY <1>1, <1>4, <2>8, ShareShrinks
    <3> QED
      BY <1>3, <2>2, <2>3, <3>1, <3>2
  <2> QED
    BY <2>5, <2>6, <2>7, <2>8
<1>5. CASE UNCHANGED <<local, budgets, pacing, loops, memo, started, exposure, sem>>
  <2>1. RiskUnits(b)' = RiskUnits(b) /\ UNCHANGED <<exposure, risk>>
    BY <1>5 DEF local, budgets, bodies, RiskUnits, Share, RiskPaid, InTuple, P, Tool
  <2> QED
    BY <1>3, <2>1
<1> QED
  BY <1>4, <1>5, StepCases

\* No interleaving of calls that share a risk budget runs bodies whose risk
\* together exceeds what was charged, or max_risk (RiskBudget.charge,
\* Policy.charge_risk).
THEOREM RiskSafe == Spec => []RiskCoversBodies
<1>1. Init => RiskInv
  <2> SUFFICES ASSUME Init, NEW b \in RiskBudgets
               PROVE  /\ IsFiniteSet(RiskUnits(b))
                      /\ exposure[b] + Cardinality(RiskUnits(b)) <= risk[b]
                      /\ risk[b] <= MaxRisk[b]
    BY InitType DEF RiskInv
  <2>1. RiskUnits(b) = {}
    BY DEF Init, RiskUnits, Share, RiskPaid
  <2>2. exposure[b] = 0 /\ risk[b] = 0 /\ MaxRisk[b] \in Nat
    BY LimitAssumption DEF Init
  <2> QED
    BY <2>1, <2>2, FS_EmptySet
<1>2. RiskInv => RiskCoversBodies
  <2> SUFFICES ASSUME RiskInv, NEW b \in RiskBudgets PROVE exposure[b] <= risk[b] /\ risk[b] <= MaxRisk[b]
    BY DEF RiskCoversBodies
  <2>1. Cardinality(RiskUnits(b)) \in Nat /\ exposure[b] \in Nat /\ risk[b] \in Nat
    BY FS_CardinalityType DEF RiskInv, TypeOK, BudgetTypeOK
  <2> QED
    BY <2>1 DEF RiskInv
<1> QED
  BY <1>1, <1>2, RiskNext, PTL DEF Spec

-----------------------------------------------------------------------------
(* Loop guards                                                             *)

\* Where a bounded history of one more entry comes from: all of it moves up by
\* one place when the oldest entry is dropped.
LEMMA Remembered ==
  ASSUME NEW S, NEW seq \in Seq(S), NEW x \in S, NEW history \in Nat,
         NEW cut, cut = IF Len(seq) + 1 > history THEN 1 ELSE 0
  PROVE  LET new == Remember(seq, x, history)
         IN  /\ new \in Seq(S) /\ Len(new) = Len(seq) + 1 - cut
             /\ \A j \in 1..Len(new) : new[j] = IF j + cut = Len(seq) + 1 THEN x ELSE seq[j + cut]
<1> DEFINE longer == Append(seq, x)
           new == Remember(seq, x, history)
<1>1. /\ longer \in Seq(S) /\ Len(longer) = Len(seq) + 1 /\ Len(seq) \in Nat
      /\ longer # <<>>
      /\ \A i \in 1..Len(seq) : longer[i] = seq[i]
      /\ longer[Len(seq) + 1] = x
  BY AppendProperties, LenProperties
<1>2. CASE Len(seq) + 1 > history
  <2> HIDE DEF longer
  <2>1. new = Tail(longer) /\ cut = 1
    BY <1>1, <1>2 DEF Remember, longer
  <2>2. /\ Tail(longer) \in Seq(S) /\ Len(Tail(longer)) = Len(longer) - 1
        /\ \A i \in 1..Len(Tail(longer)) : Tail(longer)[i] = longer[i + 1]
    BY <1>1, HeadTailProperties
  <2>3. ASSUME NEW j \in 1..Len(seq) PROVE j + 1 = Len(seq) + 1 \/ j + 1 \in 1..Len(seq)
    BY <1>1
  <2> HIDE DEF new
  <2> QED
    BY <1>1, <2>1, <2>2, <2>3 DEF new
<1>3. CASE ~(Len(seq) + 1 > history)
  <2> HIDE DEF longer
  <2>1. new = longer /\ cut = 0
    BY <1>1, <1>3 DEF Remember, longer
  <2>2. ASSUME NEW j \in 1..(Len(seq) + 1) PROVE j = Len(seq) + 1 \/ j \in 1..Len(seq)
    BY <1>1
  <2> HIDE DEF new
  <2> QED
    BY <1>1, <2>1, <2>2 DEF new
<1> QED
  BY <1>2, <1>3

\* The inductive invariant: the two histories run side by side.
LoopInv ==
  /\ TypeOK
  /\ \A g \in LoopGuards : Len(recent[g]) = Len(passed[g])
  /\ LoopBounded

\* One more call recorded keeps the bound of the guard: a call of a signature
\* that occurs too often is not let pass.
LEMMA BoundKept ==
  ASSUME NEW S, NEW seq \in Seq(S), NEW ok \in Seq(BOOLEAN), Len(seq) = Len(ok),
         NEW sig \in S, NEW history \in Nat, NEW max \in Nat, NEW fine \in BOOLEAN,
         fine <=> Occurrences(Remember(seq, sig, history), sig) <= max,
         \A i \in DOMAIN seq : Cardinality({j \in DOMAIN seq : seq[j] = seq[i] /\ ok[j]}) <= max
  PROVE  LET longer == Remember(seq, sig, history)
             flags == Remember(ok, fine, history)
         IN  /\ Len(longer) = Len(flags)
             /\ \A i \in DOMAIN longer :
                  Cardinality({j \in DOMAIN longer : longer[j] = longer[i] /\ flags[j]}) <= max
<1> DEFINE cut == IF Len(seq) + 1 > history THEN 1 ELSE 0
           longer == Remember(seq, sig, history)
           flags == Remember(ok, fine, history)
<1>1. Len(seq) \in Nat /\ DOMAIN seq = 1..Len(seq)
  BY LenProperties
<1>3. /\ longer \in Seq(S) /\ Len(longer) = Len(seq) + 1 - cut
      /\ \A j \in 1..Len(longer) : longer[j] = IF j + cut = Len(seq) + 1 THEN sig ELSE seq[j + cut]
  BY Remembered
<1>4. /\ flags \in Seq(BOOLEAN) /\ Len(flags) = Len(ok) + 1 - cut
      /\ \A j \in 1..Len(flags) : flags[j] = IF j + cut = Len(ok) + 1 THEN fine ELSE ok[j + cut]
  BY Remembered
<1>c. cut \in {0, 1} /\ cut \in Nat
  OBVIOUS
<1>5. Occurrences(longer, sig) = Cardinality({i \in DOMAIN longer : longer[i] = sig})
  BY DEF Occurrences
<1>6. fine <=> Occurrences(longer, sig) <= max
  OBVIOUS
<1> HIDE DEF cut, longer, flags
<1>7. DOMAIN longer = 1..Len(longer) /\ Len(longer) = Len(flags)
  BY <1>1, <1>3, <1>4, LenProperties
<1> DEFINE Same(s) == {j \in DOMAIN longer : longer[j] = s /\ flags[j]}
<1>8. ASSUME NEW i \in DOMAIN longer PROVE Cardinality(Same(longer[i])) <= max
  <2>1. CASE longer[i] = sig /\ fine
    <3> DEFINE T == {j \in DOMAIN longer : longer[j] = sig}
    <3>1. Cardinality(T) <= max
      BY <1>5, <1>6, <2>1
    <3>2. IsFiniteSet(1..Len(longer))
      BY <1>1, <1>3, <1>c, FS_Interval
    <3>3. T \subseteq 1..Len(longer) /\ Same(longer[i]) \subseteq T
      BY <1>7, <2>1
    <3>4. IsFiniteSet(T)
      BY <3>2, <3>3, FS_Subset
    <3> HIDE DEF T, Same
    <3>5. /\ Cardinality(Same(longer[i])) <= Cardinality(T)
          /\ Cardinality(Same(longer[i])) \in Nat /\ Cardinality(T) \in Nat
      BY <3>3, <3>4, FS_Subset, FS_CardinalityType
    <3> QED
      BY <3>1, <3>5
  <2>2. CASE ~(longer[i] = sig /\ fine)
    <3> DEFINE T == Same(longer[i])
               Old == {j \in DOMAIN seq : seq[j] = longer[i] /\ ok[j]}
    <3>1. ASSUME NEW j \in T PROVE j + cut \in Old /\ j \in Nat
      <4>1. j \in 1..Len(longer) /\ longer[j] = longer[i] /\ flags[j]
        BY <1>7
      <4>2. j + cut # Len(seq) + 1
        BY <1>1, <1>3, <1>4, <1>7, <2>2, <4>1
      <4>3. j + cut \in 1..Len(seq)
        BY <1>1, <1>3, <1>c, <4>1, <4>2, SMTT(30)
      <4> QED
        BY <1>1, <1>3, <1>4, <1>7, <4>1, <4>2, <4>3
    <3>2. Old \subseteq 1..Len(seq) /\ IsFiniteSet(Old)
      <4>1. IsFiniteSet(1..Len(seq)) /\ Old \subseteq 1..Len(seq)
        BY <1>1, FS_Interval
      <4> HIDE DEF Old
      <4> QED
        BY <4>1, FS_Subset
    <3>3. /\ IsFiniteSet(T) /\ Cardinality(T) \in Nat /\ Cardinality(T) <= Cardinality(Old)
      <4> HIDE DEF T, Old
      <4>1. T \subseteq Nat /\ \A j \in T : j + cut \in Old
        BY <3>1
      <4> QED
        BY <1>c, <3>2, <4>1, ShiftedFewer
    <3>4. Cardinality(Old) \in Nat
      BY <3>2, FS_CardinalityType
    <3>5. CASE Old = {}
      <4>1. Cardinality(Old) = 0
        BY <3>5, FS_EmptySet
      <4> QED
        BY <3>3, <4>1
    <3>6. CASE Old # {}
      <4>1. PICK j \in DOMAIN seq : seq[j] = longer[i]
        BY <3>6
      <4>2. Cardinality({n \in DOMAIN seq : seq[n] = seq[j] /\ ok[n]}) <= max
        BY <4>1
      <4>3. Cardinality(Old) <= max
        BY <4>1, <4>2
      <4> QED
        BY <3>3, <3>4, <4>3
    <3> QED
      BY <3>5, <3>6
  <2> QED
    BY <2>1, <2>2
<1> QED
  BY <1>7, <1>8 DEF longer, flags

\* Recording a call in a loop guard (LoopGuard.record).
LEMMA RecordLoopStep ==
  ASSUME LoopInv, NEW t \in Threads, RecordLoop(t), NEW g \in LoopGuards, g = Item(t)
  PROVE  /\ Len(recent'[g]) = Len(passed'[g])
         /\ \A i \in DOMAIN recent'[g] :
              Cardinality({j \in DOMAIN recent'[g] :
                recent'[g][j] = recent'[g][i] /\ passed'[g][j]}) <= MaxIdentical[g]
<1>1. /\ TypeOK /\ LocalTypeOK
      /\ recent \in [LoopGuards -> Seq(Tools \X Args)] /\ passed \in [LoopGuards -> Seq(BOOLEAN)]
      /\ Len(recent[g]) = Len(passed[g])
  BY DEF LoopInv, TypeOK, OtherTypeOK
<1>2. PICK S : S = Tools \X Args
  OBVIOUS
<1>3. PICK seq, ok, sig, history, max : /\ seq = recent[g] /\ ok = passed[g] /\ sig = Sig(t)
                                      /\ history = History[g] /\ max = MaxIdentical[g]
  OBVIOUS
<1>4. PICK fine \in BOOLEAN : fine <=> Occurrences(Remember(seq, sig, history), sig) <= max
  OBVIOUS
<1>5. /\ seq \in Seq(S) /\ ok \in Seq(BOOLEAN) /\ Len(seq) = Len(ok)
      /\ history \in Nat /\ max \in Nat
  BY <1>1, <1>2, <1>3, LimitAssumption
<1>6. sig \in S
  BY <1>1, <1>2, <1>3, CallFields DEF Sig, Tool
<1>7. \A i \in DOMAIN seq : Cardinality({j \in DOMAIN seq : seq[j] = seq[i] /\ ok[j]}) <= max
  BY <1>3 DEF LoopInv, LoopBounded
<1>8. recent'[g] = Remember(seq, sig, history) /\ passed'[g] = Remember(ok, fine, history)
  BY <1>1, <1>3, <1>4 DEF RecordLoop
<1>9. LET longer == Remember(seq, sig, history)
          flags == Remember(ok, fine, history)
      IN  /\ Len(longer) = Len(flags)
          /\ \A i \in DOMAIN longer :
               Cardinality({j \in DOMAIN longer : longer[j] = longer[i] /\ flags[j]}) <= max
  BY <1>4, <1>5, <1>6, <1>7, BoundKept
<1> QED
  BY <1>3, <1>8, <1>9

\* Every step keeps the invariant.
LEMMA LoopNext == LoopInv /\ [Next]_vars => LoopInv'
<1> SUFFICES ASSUME LoopInv, [Next]_vars PROVE LoopInv'
  OBVIOUS
<1>1. TypeOK /\ TypeOK'
  BY NextType DEF LoopInv
<1>2. ASSUME NEW g \in LoopGuards, recent'[g] = recent[g], passed'[g] = passed[g]
      PROVE  /\ Len(recent'[g]) = Len(passed'[g])
             /\ \A i \in DOMAIN recent'[g] :
                  Cardinality({j \in DOMAIN recent'[g] :
                    recent'[g][j] = recent'[g][i] /\ passed'[g][j]}) <= MaxIdentical[g]
  BY <1>2 DEF LoopInv, LoopBounded
<1>3. ASSUME NEW g \in LoopGuards
      PROVE  /\ Len(recent'[g]) = Len(passed'[g])
             /\ \A i \in DOMAIN recent'[g] :
                  Cardinality({j \in DOMAIN recent'[g] :
                    recent'[g][j] = recent'[g][i] /\ passed'[g][j]}) <= MaxIdentical[g]
  <2>1. ASSUME NEW t \in Threads, RecordLoop(t), g # Item(t)
        PROVE  recent'[g] = recent[g] /\ passed'[g] = passed[g]
    BY <1>1, <2>1 DEF RecordLoop, TypeOK, OtherTypeOK
  <2>2. ASSUME NEW t \in Threads, Step(t) \/ EndBody(t) \/ Begins(t), ~RecordLoop(t)
        PROVE  recent'[g] = recent[g] /\ passed'[g] = passed[g]
    BY <2>2, SharedFrame DEF loops
  <2>3. CASE UNCHANGED loops
    BY <1>2, <2>3 DEF loops
  <2> QED
    BY <1>2, <2>1, <2>2, <2>3, RecordLoopStep, StepCases
<1> QED
  BY <1>1, <1>3 DEF LoopInv, LoopBounded

\* Of the calls in its history a loop guard let at most max_identical with one
\* signature pass, whichever threads made them (LoopGuard.record).
THEOREM LoopSafe == Spec => []LoopBounded
<1>1. Init => LoopInv
  BY InitType DEF Init, LoopInv, LoopBounded
<1>2. LoopInv => LoopBounded
  BY DEF LoopInv
<1> QED
  BY <1>1, <1>2, LoopNext, PTL DEF Spec

-----------------------------------------------------------------------------
(* Rate limits                                                             *)

\* The end of a history has no more times after h than all of it.
LEMMA LaterSince ==
  ASSUME NEW seq \in Seq(Nat), NEW h \in Int, NEW time \in Int
  PROVE  /\ Since(seq, time) \in Seq(Nat)
         /\ Cardinality(Later(Since(seq, time), h)) <= Cardinality(Later(seq, h))
         /\ \A i \in DOMAIN Since(seq, time) : \E j \in DOMAIN seq : Since(seq, time)[i] = seq[j]
<1> DEFINE old == {i \in DOMAIN seq : seq[i] <= time}
           rest == Since(seq, time)
<1>1. Len(seq) \in Nat /\ DOMAIN seq = 1..Len(seq)
  BY LenProperties
<1>2. IsFiniteSet(1..Len(seq))
  BY <1>1, FS_Interval
<1>3. Cardinality(old) \in Nat
  <2>1. old \subseteq 1..Len(seq)
    BY <1>1
  <2> HIDE DEF old
  <2> QED
    BY <1>2, <2>1, FS_Subset, FS_CardinalityType
<1>4. rest = SubSeq(seq, 1 + Cardinality(old), Len(seq))
  BY DEF Since
<1> HIDE DEF old, rest
<1> DEFINE n == Cardinality(old)
<1>5. n \in Nat /\ rest = SubSeq(seq, 1 + n, Len(seq))
  BY <1>3, <1>4
<1> HIDE DEF n
<1>6. rest \in Seq(Nat)
  BY SinceType DEF rest
<1>7. DOMAIN rest = 1..(IF 1 + n <= Len(seq) THEN Len(seq) - n ELSE 0)
      /\ \A i \in DOMAIN rest : rest[i] = seq[i + n] /\ i + n \in DOMAIN seq
  BY ONLY seq \in Seq(Nat), <1>5, DropFirst
<1>8. \A i \in Later(rest, h) : i + n \in Later(seq, h)
  BY <1>7 DEF Later
<1>9. Cardinality(Later(rest, h)) <= Cardinality(Later(seq, h))
  <2>1. IsFiniteSet(Later(seq, h)) /\ Later(rest, h) \subseteq Nat
    <3>1. IsFiniteSet(Later(seq, h))
      BY LaterFinite
    <3>2. Later(rest, h) \subseteq 1..Len(rest)
      BY <1>6, LaterFinite
    <3> QED
      BY <3>1, <3>2
  <2> QED
    BY <1>5, <1>8, <2>1, ShiftedFewer
<1> QED
  BY <1>6, <1>7, <1>9 DEF rest

\* Threads that have read the clock and not taken the lock by the time it shows h.
Delayed(h) == {t \in Threads : pc[t] = "rateLock" /\ stamp[t] <= h}

\* The inductive invariant.  A thread can let one call through behind a moment h
\* with a timestamp from before h; it cannot be about to do it again.
PaceInv ==
  /\ TypeOK
  /\ \A t \in Threads : stamp[t] <= now
  /\ \A r \in RateLimits :
       /\ Len(times[r]) <= RateCap[r]
       /\ \A i \in DOMAIN admitted[r] : admitted[r][i] <= now
       /\ \A h \in Int : now - Window[r] <= h =>
            Cardinality(Later(admitted[r], h)) + Cardinality(Delayed(h))
              <= Cardinality(Later(times[r], h)) + Cardinality(Threads)

\* A step other than taking a rate limit's lock delays no thread before h, unless
\* the clock has not passed h.
LEMMA DelayedStep ==
  ASSUME TypeOK, NEW t \in Threads, Step(t) \/ EndBody(t) \/ Begins(t), NEW h \in Int, h < now
  PROVE  /\ Delayed(h)' \subseteq Delayed(h)
         /\ ChargeRate(t) => t \notin Delayed(h)'
<1>0. LocalTypeOK /\ now \in Nat
  BY DEF TypeOK, PaceTypeOK
<1>1. ASSUME NEW u \in Threads, u # t, u \in Delayed(h)' PROVE u \in Delayed(h)
  BY <1>0, <1>1, ThreadFrame, LocalsFrame DEF Delayed, Begins
<1>2. ASSUME pc'[t] = "rateLock" PROVE ReadClock(t)
  <2>1. CASE Begun(t) \/ Ended(t)
    BY <1>2, <2>1 DEF Begun, Ended
  <2>2. CASE ThroughWith(t)
    BY <1>2, <2>2 DEF ThroughWith, FollowedBy
  <2>3. CASE Going(t)
    <3>1. pc[t] = "rate"
      BY <1>2, <2>3 DEF Going, Edges
    <3>2. ~StageDone(t)
      BY <1>0, <1>2, <3>1, MovesOwn, StageNames DEF StageDone, FollowedBy
    <3> QED
      BY <3>1, <3>2, StageSteps
  <2> QED
    BY <2>1, <2>2, <2>3, Flow
<1>3. t \notin Delayed(h)'
  <2> SUFFICES ASSUME t \in Delayed(h)' PROVE FALSE
    OBVIOUS
  <2>1. stamp'[t] = now
    BY <1>0, <1>2 DEF ReadClock, Delayed, LocalTypeOK
  <2> QED
    BY <1>0, <2>1 DEF Delayed
<1> QED
  BY <1>1, <1>3 DEF Delayed

\* The threads that have waited since before a moment are finitely many.
LEMMA DelayedFinite ==
  ASSUME NEW h
  PROVE  /\ IsFiniteSet(Delayed(h)) /\ Cardinality(Delayed(h)) \in Nat
         /\ Cardinality(Delayed(h)) <= Cardinality(Threads) /\ Cardinality(Threads) \in Nat
<1>1. Delayed(h) \subseteq Threads /\ IsFiniteSet(Threads)
  BY ToolAssumption DEF Delayed
<1> QED
  BY <1>1, FS_Subset, FS_CardinalityType

\* What taking the lock of a rate limit does to its histories.
LEMMA ChargeRateEffect ==
  ASSUME TypeOK, NEW t \in Threads, ChargeRate(t), NEW r \in RateLimits, r = P(t).rates[at[t]]
  PROVE  LET live == DropExpired(times[r], stamp[t] - Window[r])
         IN  \/ /\ Len(live) < RateCap[r]
                /\ times'[r] = Append(live, stamp[t])
                /\ admitted'[r] = Append(Since(admitted[r], now - Window[r]), now)
             \/ times'[r] = live /\ admitted'[r] = admitted[r]
<1>1. times \in [RateLimits -> Seq(Nat)] /\ admitted \in [RateLimits -> Seq(Nat)]
  BY DEF TypeOK, PaceTypeOK
<1> QED
  BY <1>1 DEF ChargeRate

\* The part of the invariant about one limit and one moment.
Paced(r, h) ==
  Cardinality(Later(admitted[r], h)) + Cardinality(Delayed(h))
    <= Cardinality(Later(times[r], h)) + Cardinality(Threads)

\* A moment the clock has not passed: nothing was let through after it.
LEMMA PacedAhead ==
  ASSUME TypeOK, NEW r \in RateLimits, NEW h \in Int, now <= h,
         \A i \in DOMAIN admitted[r] : admitted[r][i] <= now
  PROVE  Paced(r, h)
<1>1. admitted[r] \in Seq(Nat) /\ times[r] \in Seq(Nat) /\ now \in Nat
      /\ \A i \in DOMAIN admitted[r] : admitted[r][i] \in Nat
  BY DEF TypeOK, PaceTypeOK
<1>2. Later(admitted[r], h) = {}
  BY <1>1 DEF Later
<1>3. Cardinality(Later(admitted[r], h)) = 0
  BY <1>2, FS_EmptySet
<1>4. Cardinality(Later(times[r], h)) \in Nat
  BY <1>1, LaterFinite
<1> QED
  BY <1>3, <1>4, DelayedFinite DEF Paced

\* Taking the lock of r: a timestamp from after h is one more on record, and a
\* timestamp from before h leaves one thread fewer delayed.
LEMMA PacedCharge ==
  ASSUME PaceInv, NEW t \in Threads, ChargeRate(t), NEW r \in RateLimits, r = P(t).rates[at[t]],
         NEW h \in Int, now - Window[r] <= h, h < now
  PROVE  Paced(r, h)'
<1>0. /\ TypeOK /\ LocalTypeOK /\ pc[t] = "rateLock" /\ stamp[t] \in Nat /\ stamp[t] <= now /\ now \in Nat
      /\ times[r] \in Seq(Nat) /\ admitted[r] \in Seq(Nat)
      /\ Window[r] \in Nat /\ RateCap[r] \in Nat /\ Paced(r, h)
      /\ Step(t)
  BY LimitAssumption DEF PaceInv, Paced, TypeOK, LocalTypeOK, PaceTypeOK, ChargeRate, In, Step
<1> DEFINE s == stamp[t]
           horizon == stamp[t] - Window[r]
           live == DropExpired(times[r], horizon)
           rest == Since(admitted[r], now - Window[r])
           allowed == Cardinality(Later(admitted[r], h))
           onRecord == Cardinality(Later(times[r], h))
           waiting == Cardinality(Delayed(h))
           nowWaiting == Cardinality(Delayed(h)')
           threads == Cardinality(Threads)
<1>1. horizon \in Int /\ horizon <= h /\ now - Window[r] \in Int
  BY <1>0, SMTT(30)
<1>2. live \in Seq(Nat) /\ onRecord <= Cardinality(Later(live, h)) /\ Cardinality(Later(live, h)) \in Nat
      /\ onRecord \in Nat /\ allowed \in Nat
  <2>1. live \in Seq(Nat)
    BY <1>0, <1>1, DropExpiredType
  <2>2. onRecord <= Cardinality(Later(live, h))
    BY <1>0, <1>1, LaterDrop
  <2> QED
    BY <1>0, <2>1, <2>2, LaterFinite
<1>3. rest \in Seq(Nat) /\ Cardinality(Later(rest, h)) <= allowed /\ Cardinality(Later(rest, h)) \in Nat
  <2>1. rest \in Seq(Nat) /\ Cardinality(Later(rest, h)) <= allowed
    BY <1>0, <1>1, LaterSince
  <2> QED
    BY <2>1, LaterFinite
<1>4. /\ waiting \in Nat /\ nowWaiting \in Nat /\ threads \in Nat /\ nowWaiting <= waiting
      /\ s <= h => nowWaiting + 1 <= waiting
  <2>1. IsFiniteSet(Delayed(h)) /\ waiting \in Nat /\ threads \in Nat
    BY DelayedFinite
  <2>2. Delayed(h)' \subseteq Delayed(h) /\ t \notin Delayed(h)'
    BY <1>0, DelayedStep
  <2>3. s <= h => t \in Delayed(h)
    BY <1>0 DEF Delayed
  <2>4. PICK A, B : A = Delayed(h) /\ B = Delayed(h)'
    OBVIOUS
  <2>5. IsFiniteSet(B) /\ Cardinality(B) <= Cardinality(A) /\ Cardinality(B) \in Nat
    BY <2>1, <2>2, <2>4, FS_Subset, FS_CardinalityType
  <2>6. ASSUME t \in A PROVE Cardinality(B) + 1 <= Cardinality(A)
    <3>1. {t} \subseteq A /\ B \subseteq A \ {t} /\ IsFiniteSet(A)
      BY <2>1, <2>2, <2>4, <2>6
    <3>2. Cardinality({t}) = 1
      BY FS_Singleton
    <3>3. Cardinality(B) + Cardinality({t}) <= Cardinality(A)
      BY <3>1, FewerUnits
    <3> QED
      BY <3>2, <3>3
  <2> QED
    BY <2>1, <2>3, <2>4, <2>5, <2>6
<1>5. allowed + waiting <= onRecord + threads
  BY <1>0 DEF Paced
<1>6. \/ /\ times'[r] = Append(live, s)
         /\ admitted'[r] = Append(rest, now)
      \/ times'[r] = live /\ admitted'[r] = admitted[r]
  BY <1>0, ChargeRateEffect
<1>7. /\ Cardinality(Later(Append(live, s), h)) = Cardinality(Later(live, h)) + IF s > h THEN 1 ELSE 0
      /\ Cardinality(Later(Append(rest, now), h)) = Cardinality(Later(rest, h)) + 1
  <2>1. s \in Nat
    BY <1>0
  <2> HIDE DEF live, rest, s
  <2>2. Cardinality(Later(Append(live, s), h)) = Cardinality(Later(live, h)) + IF s > h THEN 1 ELSE 0
    BY <1>2, <2>1, LaterAppend
  <2>3. Cardinality(Later(Append(rest, now), h)) = Cardinality(Later(rest, h)) + IF now > h THEN 1 ELSE 0
    BY <1>0, <1>3, LaterAppend
  <2> QED
    BY <1>0, <2>2, <2>3
<1>8. Cardinality(Later(admitted'[r], h)) + nowWaiting <= Cardinality(Later(times'[r], h)) + threads
  <2>1. s \in Nat
    BY <1>0
  <2> HIDE DEF s, live, rest, allowed, onRecord, waiting, nowWaiting, threads
  <2>2. CASE times'[r] = Append(live, s) /\ admitted'[r] = Append(rest, now)
    BY <1>2, <1>3, <1>4, <1>5, <1>7, <2>1, <2>2, SMTT(30)
  <2>3. CASE times'[r] = live /\ admitted'[r] = admitted[r]
    BY <1>2, <1>4, <1>5, <2>3 DEF allowed
  <2> QED
    BY <1>6, <2>2, <2>3
<1>9. Later(admitted[r], h)' = Later(admitted'[r], h) /\ Later(times[r], h)' = Later(times'[r], h)
  BY DEF Later
<1> QED
  BY <1>8, <1>9 DEF Paced

\* A rate limit's list holds at most as many times as it allows, and no call is
\* let through in the future.
LEMMA RecordsStep ==
  ASSUME PaceInv, NEW t \in Threads, ChargeRate(t), NEW r \in RateLimits, r = P(t).rates[at[t]]
  PROVE  Len(times'[r]) <= RateCap[r] /\ \A i \in DOMAIN admitted'[r] : admitted'[r][i] <= now
<1>0. /\ TypeOK /\ stamp[t] \in Nat /\ now \in Nat
      /\ times[r] \in Seq(Nat) /\ admitted[r] \in Seq(Nat)
      /\ Window[r] \in Nat /\ RateCap[r] \in Nat /\ Len(times[r]) <= RateCap[r]
      /\ \A i \in DOMAIN admitted[r] : admitted[r][i] <= now
  BY LimitAssumption DEF PaceInv, TypeOK, LocalTypeOK, PaceTypeOK
<1> DEFINE live == DropExpired(times[r], stamp[t] - Window[r])
           rest == Since(admitted[r], now - Window[r])
<1>1. live \in Seq(Nat) /\ Len(live) <= Len(times[r]) /\ Len(live) \in Nat /\ Len(times[r]) \in Nat
  <2>1. live \in Seq(Nat) /\ Len(live) <= Len(times[r])
    <3>1. PICK horizon \in Int : horizon = stamp[t] - Window[r]
      BY <1>0
    <3> QED
      BY <1>0, <3>1, DropExpiredType
  <2> QED
    BY <1>0, <2>1, LenProperties
<1>2. rest \in Seq(Nat) /\ \A i \in DOMAIN rest : rest[i] <= now
  <2>1. rest \in Seq(Nat) /\ \A i \in DOMAIN rest : \E j \in DOMAIN admitted[r] : rest[i] = admitted[r][j]
    BY <1>0, LaterSince, SMTT(30)
  <2> QED
    BY <1>0, <2>1
<1>3. \/ /\ Len(live) < RateCap[r]
         /\ times'[r] = Append(live, stamp[t])
         /\ admitted'[r] = Append(rest, now)
      \/ times'[r] = live /\ admitted'[r] = admitted[r]
  BY <1>0, ChargeRateEffect
<1> HIDE DEF live, rest
<1>4. Len(Append(live, stamp[t])) = Len(live) + 1
  BY <1>0, <1>1, AppendProperties
<1>5. \A i \in DOMAIN Append(rest, now) : Append(rest, now)[i] <= now
  <2>1. DOMAIN Append(rest, now) = 1..(Len(rest) + 1) /\ Len(rest) \in Nat /\ DOMAIN rest = 1..Len(rest)
    BY <1>0, <1>2, AppendProperties, LenProperties
  <2>2. /\ Append(rest, now)[Len(rest) + 1] = now
        /\ \A i \in 1..Len(rest) : Append(rest, now)[i] = rest[i]
    BY <1>0, <1>2, AppendProperties
  <2>3. ASSUME NEW i \in 1..(Len(rest) + 1) PROVE i = Len(rest) + 1 \/ i \in 1..Len(rest)
    BY <2>1
  <2> QED
    BY <1>0, <1>2, <2>1, <2>2, <2>3
<1>6. CASE Len(live) < RateCap[r] /\ times'[r] = Append(live, stamp[t])
             /\ admitted'[r] = Append(rest, now)
  <2>1. Len(live) + 1 <= RateCap[r]
    BY <1>0, <1>1, <1>6
  <2>2. Len(times'[r]) = Len(live) + 1
    BY <1>4, <1>6
  <2>3. \A i \in DOMAIN admitted'[r] : admitted'[r][i] <= now
    BY <1>5, <1>6
  <2> QED
    BY <2>1, <2>2, <2>3
<1>7. CASE times'[r] = live /\ admitted'[r] = admitted[r]
  BY <1>0, <1>1, <1>7
<1> QED
  BY <1>3, <1>6, <1>7

\* The timestamp a thread carries is the clock's when it read it.
LEMMA StampStep ==
  ASSUME TypeOK, NEW t \in Threads, Step(t) \/ EndBody(t) \/ Begins(t)
  PROVE  stamp'[t] \in {stamp[t], now, 0}
<1> DEFINE Fine == stamp'[t] \in {stamp[t], now, 0}
<1> SUFFICES Fine
  OBVIOUS
<1>0. /\ \A stage : Goto(t, stage) => Fine
      /\ NextItem(t) => Fine
      /\ Leave(t) => Fine
  BY DEF Goto, NextItem, Leave, TypeOK, LocalTypeOK
<1>1. StageDone(t) \/ ChargeQuota(t) \/ Require(t) \/ ChargeRisk(t) \/ ConsultGates(t)
        \/ LookUp(t) \/ ReadCached(t) \/ RecordLoop(t) \/ GuardInputs(t) \/ Acquire(t)
        \/ Released(t) \/ PutResult(t) \/ AppendOrder(t) \/ Finish(t) => Fine
  BY <1>0 DEF StageDone, ChargeQuota, Require, ChargeRisk, ConsultGates, LookUp, ReadCached,
              RecordLoop, GuardInputs, Acquire, Released, PutResult, AppendOrder, Finish
<1>2. ReadClock(t) \/ StartBody(t) \/ TimeOut(t) \/ Release(t) \/ EndBody(t) \/ DropVictim(t)
        \/ Begins(t) => Fine
  BY DEF ReadClock, StartBody, TimeOut, Timed, Release, EndBody, DropVictim, Begins, Begin, TypeOK, LocalTypeOK
<1>3. ChargeRate(t) \/ ChargeDeadline(t) => Leave(t) \/ stamp' = [stamp EXCEPT ![t] = 0]
  BY DEF ChargeRate, ChargeDeadline
<1>4. PopOldest(t) => Goto(t, "finish") \/ stamp' = stamp
  BY DEF PopOldest
<1> QED
  BY <1>0, <1>1, <1>2, <1>3, <1>4 DEF Step, TypeOK, LocalTypeOK

\* The limit's part of the invariant after a thread's step.
LEMMA PaceStep ==
  ASSUME PaceInv, NEW t \in Threads, Step(t) \/ EndBody(t) \/ Begins(t), NEW r \in RateLimits
  PROVE  /\ Len(times'[r]) <= RateCap[r]
         /\ \A i \in DOMAIN admitted'[r] : admitted'[r][i] <= now
         /\ \A h \in Int : now - Window[r] <= h /\ h < now => Paced(r, h)'
<1>0. /\ TypeOK /\ times \in [RateLimits -> Seq(Nat)] /\ admitted \in [RateLimits -> Seq(Nat)]
      /\ Len(times[r]) <= RateCap[r]
      /\ \A i \in DOMAIN admitted[r] : admitted[r][i] <= now
      /\ \A h \in Int : now - Window[r] <= h => Paced(r, h)
  BY DEF PaceInv, Paced, TypeOK, PaceTypeOK
<1>1. CASE ChargeRate(t) /\ r = P(t).rates[at[t]]
  BY <1>1, PacedCharge, RecordsStep
<1>2. CASE ~(ChargeRate(t) /\ r = P(t).rates[at[t]])
  <2>1. times'[r] = times[r] /\ admitted'[r] = admitted[r]
    <3>1. CASE ChargeRate(t)
      BY <1>0, <1>2, <3>1 DEF ChargeRate
    <3>2. CASE ~ChargeRate(t)
      BY <3>2, SharedFrame
    <3> QED
      BY <3>1, <3>2
  <2>2. ASSUME NEW h \in Int, now - Window[r] <= h, h < now PROVE Paced(r, h)'
    <3>1. Delayed(h)' \subseteq Delayed(h)
      BY <1>0, <2>2, DelayedStep
    <3>2. PICK A, B : A = Delayed(h) /\ B = Delayed(h)'
      OBVIOUS
    <3>3. /\ Cardinality(A) \in Nat /\ Cardinality(B) \in Nat /\ Cardinality(B) <= Cardinality(A)
      <4>1. IsFiniteSet(A) /\ B \subseteq A
        BY <3>1, <3>2, DelayedFinite
      <4> QED
        BY <4>1, FS_Subset, FS_CardinalityType
    <3>4. Paced(r, h) /\ times[r] \in Seq(Nat) /\ admitted[r] \in Seq(Nat)
      BY <1>0, <2>2
    <3>5. Cardinality(Later(admitted[r], h)) \in Nat /\ Cardinality(Later(times[r], h)) \in Nat
          /\ Cardinality(Threads) \in Nat
      BY <3>4, LaterFinite, DelayedFinite
    <3>6. /\ Later(admitted[r], h)' = Later(admitted[r], h)
          /\ Later(times[r], h)' = Later(times[r], h)
      BY <2>1 DEF Later
    <3>7. Cardinality(Later(admitted[r], h)) + Cardinality(A)
            <= Cardinality(Later(times[r], h)) + Cardinality(Threads)
      BY <3>2, <3>4 DEF Paced
    <3>8. Cardinality(Later(admitted[r], h)) + Cardinality(B)
            <= Cardinality(Later(times[r], h)) + Cardinality(Threads)
      BY <3>3, <3>5, <3>7
    <3> QED
      BY <3>2, <3>6, <3>8 DEF Paced
  <2> QED
    BY <1>0, <2>1, <2>2
<1> QED
  BY <1>1, <1>2

\* Every step keeps the invariant.
LEMMA PaceNext == PaceInv /\ [Next]_vars => PaceInv'
<1> SUFFICES ASSUME PaceInv, [Next]_vars PROVE PaceInv'
  OBVIOUS
<1>0. TypeOK /\ TypeOK' /\ now \in Nat /\ Window \in [RateLimits -> Nat]
  BY NextType, LimitAssumption DEF PaceInv, TypeOK, PaceTypeOK
<1>1. ASSUME NEW t \in Threads, Step(t) \/ EndBody(t) \/ Begins(t) PROVE PaceInv'
  <2>1. now' = now
    BY <1>1, SharedFrame
  <2>2. ASSUME NEW u \in Threads PROVE stamp'[u] <= now
    <3>1. CASE u # t
      BY <1>0, <1>1, <3>1, LocalsFrame DEF PaceInv, TypeOK
    <3>2. CASE u = t
      <4>1. stamp'[t] \in {stamp[t], now, 0}
        BY <1>0, <1>1, StampStep
      <4> QED
        BY <1>0, <3>2, <4>1 DEF PaceInv
    <3> QED
      BY <3>1, <3>2
  <2>3. ASSUME NEW r \in RateLimits
        PROVE  /\ Len(times'[r]) <= RateCap[r]
               /\ \A i \in DOMAIN admitted'[r] : admitted'[r][i] <= now'
               /\ \A h \in Int : now' - Window[r] <= h => Paced(r, h)'
    <3>1. /\ Len(times'[r]) <= RateCap[r]
          /\ \A i \in DOMAIN admitted'[r] : admitted'[r][i] <= now
          /\ \A h \in Int : now - Window[r] <= h /\ h < now => Paced(r, h)'
      BY <1>1, PaceStep
    <3>2. ASSUME NEW h \in Int, now <= h PROVE Paced(r, h)'
      <4>1. (/\ TypeOK /\ now <= h
             /\ \A i \in DOMAIN admitted[r] : admitted[r][i] <= now)'
        BY <1>0, <2>1, <3>1, <3>2
      <4> QED
        BY <4>1, PacedAhead, PTL
    <3> QED
      BY <1>0, <2>1, <3>1, <3>2
  <2> QED
    BY <1>0, <2>1, <2>2, <2>3 DEF PaceInv, Paced
<1>2. CASE UNCHANGED <<local, budgets, pacing, loops, memo, started, exposure, sem>>
           /\ (now' = now \/ now' = now + 1)
  <2>1. /\ \A t \in Threads : stamp'[t] = stamp[t]
        /\ times' = times /\ admitted' = admitted
        /\ \A h : Delayed(h)' = Delayed(h)
    BY <1>2 DEF local, pacing, Delayed
  <2>2. ASSUME NEW t \in Threads PROVE stamp'[t] <= now'
    <3>1. stamp[t] \in Nat /\ stamp[t] <= now
      BY <1>0 DEF PaceInv, TypeOK, LocalTypeOK
    <3> QED
      BY <1>0, <1>2, <2>1, <3>1
  <2>3. ASSUME NEW r \in RateLimits
        PROVE  /\ Len(times'[r]) <= RateCap[r]
               /\ \A i \in DOMAIN admitted'[r] : admitted'[r][i] <= now'
               /\ \A h \in Int : now' - Window[r] <= h => Paced(r, h)'
    <3>1. /\ Len(times[r]) <= RateCap[r]
          /\ \A i \in DOMAIN admitted[r] : admitted[r][i] <= now
          /\ \A h \in Int : now - Window[r] <= h => Paced(r, h)
      BY DEF PaceInv, Paced
    <3>2. ASSUME NEW i \in DOMAIN admitted'[r] PROVE admitted'[r][i] <= now'
      <4>1. admitted[r] \in Seq(Nat) /\ i \in DOMAIN admitted[r]
        BY <1>0, <2>1, <3>2 DEF TypeOK, PaceTypeOK
      <4>2. admitted[r][i] \in Nat /\ admitted[r][i] <= now
        BY <3>1, <4>1
      <4> QED
        BY <1>0, <1>2, <2>1, <4>2
    <3>3. ASSUME NEW h \in Int, now' - Window[r] <= h PROVE Paced(r, h)'
      <4>1. now - Window[r] <= h
        BY <1>0, <1>2, <3>3
      <4>2. Paced(r, h)
        BY <3>1, <4>1
      <4> QED
        BY <2>1, <4>2 DEF Paced, Later
    <3> QED
      BY <2>1, <3>1, <3>2, <3>3
  <2> QED
    BY <1>0, <2>2, <2>3 DEF PaceInv, Paced
<1> QED
  BY <1>1, <1>2, StepCases

\* "Allow at most limit calls within any rolling window" (RateLimit) holds in
\* the time at which calls are let through up to one call for each thread,
\* however the threads are delayed between reading the clock and taking the
\* lock (RateLimit.charge).
THEOREM RateSafe == Spec => []RateWindowWithDelays
<1>1. Init => PaceInv
  <2> SUFFICES ASSUME Init PROVE PaceInv
    OBVIOUS
  <2>1. TypeOK
    BY InitType
  <2>2. ASSUME NEW r \in RateLimits
        PROVE  /\ Len(times[r]) <= RateCap[r]
               /\ \A i \in DOMAIN admitted[r] : admitted[r][i] <= now
               /\ \A h \in Int : Paced(r, h)
    <3>1. times[r] = <<>> /\ admitted[r] = <<>> /\ RateCap[r] \in Nat
      BY LimitAssumption DEF Init
    <3>2. ASSUME NEW h \in Int PROVE Paced(r, h)
      <4>1. Later(times[r], h) = {} /\ Later(admitted[r], h) = {}
        BY <3>1 DEF Later
      <4>2. Cardinality({}) = 0
        BY FS_EmptySet
      <4> QED
        BY <4>1, <4>2, DelayedFinite DEF Paced
    <3> QED
      BY <3>1, <3>2
  <2>3. \A t \in Threads : stamp[t] <= now
    BY DEF Init
  <2> QED
    BY <2>1, <2>2, <2>3 DEF PaceInv, Paced
<1>2. PaceInv => RateWindowWithDelays
  <2> SUFFICES ASSUME PaceInv, NEW r \in RateLimits
               PROVE  AdmittedSince(r, now - Window[r]) <= RateCap[r] + Cardinality(Threads)
    BY DEF RateWindowWithDelays
  <2> DEFINE h == now - Window[r]
  <2>1. /\ h \in Int /\ times[r] \in Seq(Nat) /\ admitted[r] \in Seq(Nat)
        /\ RateCap[r] \in Nat /\ Len(times[r]) <= RateCap[r] /\ Len(times[r]) \in Nat
        /\ now \in Nat /\ Window[r] \in Nat
    BY LimitAssumption DEF PaceInv, TypeOK, PaceTypeOK
  <2>2. Paced(r, h)
    <3>1. now - Window[r] <= h
      BY <2>1
    <3> QED
      BY <2>1, <3>1 DEF PaceInv, Paced
  <2> HIDE DEF h
  <2>3. /\ Cardinality(Later(times[r], h)) \in Nat /\ Cardinality(Later(times[r], h)) <= Len(times[r])
        /\ Cardinality(Later(admitted[r], h)) \in Nat
        /\ Cardinality(Delayed(h)) \in Nat /\ Cardinality(Threads) \in Nat
    BY <2>1, LaterFinite, DelayedFinite
  <2>4. Cardinality(Later(admitted[r], h)) <= RateCap[r] + Cardinality(Threads)
    BY <2>1, <2>2, <2>3 DEF Paced
  <2> QED
    BY <2>4 DEF AdmittedSince, Later, h
<1> QED
  BY <1>1, <1>2, PaceNext, PTL DEF Spec
=============================================================================
