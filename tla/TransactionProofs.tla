-------------------------- MODULE TransactionProofs --------------------------
(***************************************************************************)
(* Theorems about Transaction, for any tasks of a block and any steps:     *)
(* every compensation runs at most once, newest first, and none is lost.   *)
(***************************************************************************)
EXTENDS Transaction, SequenceTheorems, FiniteSetTheorems, TLAPS

-----------------------------------------------------------------------------
(* The stack                                                               *)

\* The last entry of a stack and what is below it.
LEMMA Popped ==
  ASSUME NEW S, NEW seq \in Seq(S), seq # <<>>
  PROVE  /\ Front(seq) \in Seq(S) /\ Len(Front(seq)) = Len(seq) - 1
         /\ DOMAIN Front(seq) = 1..(Len(seq) - 1)
         /\ DOMAIN seq = 1..Len(seq) /\ Len(seq) \in Nat /\ Len(seq) > 0
         /\ Last(seq) = seq[Len(seq)] /\ Last(seq) \in S
         /\ \A i \in 1..(Len(seq) - 1) : Front(seq)[i] = seq[i]
<1>1. DOMAIN seq = 1..Len(seq) /\ Len(seq) \in Nat /\ Len(seq) > 0
  BY EmptySeq, LenProperties
<1>2. \A i \in 1..Len(seq) : seq[i] \in S
  BY ElementOfSeq
<1>3. Last(seq) = seq[Len(seq)] /\ Last(seq) \in S
  BY <1>1, <1>2 DEF Last
<1> DEFINE n == Len(seq) - 1
           u == SubSeq(seq, 1, n)
<1>4. n \in Nat /\ \A i \in 1..n : seq[i] \in S
  BY <1>1, <1>2
<1> HIDE DEF n
<1>5. u \in Seq(S) /\ Len(u) = n /\ \A i \in 1..n : u[i] = seq[i]
  BY <1>4, SubSeqProperties
<1> HIDE DEF u
<1>6. DOMAIN u = 1..n
  BY <1>4, <1>5, LenProperties
<1> QED
  BY <1>1, <1>3, <1>5, <1>6 DEF Front, u, n

\* A step on the stack.
Stacked(u, s) == \E i \in DOMAIN u : u[i] = s

\* Contains says whether a step is on the stack.
LEMMA ContainsStacked ==
  ASSUME NEW u \in Seq(Steps), NEW s
  PROVE  Contains(u, s) <=> Stacked(u, s)
<1>1. DOMAIN u = 1..Len(u)
  BY LenProperties
<1> QED
  BY <1>1 DEF Contains, Stacked

-----------------------------------------------------------------------------
(* The inductive invariant                                                 *)

\* Every step that was registered is on the stack once, or one task compensates
\* it, or it is settled; p, st, fx and reg stand for pc, step, effect and
\* registered.
Consistent(u, p, st, fx, reg) ==
  /\ \A i, j \in DOMAIN u : u[i] = u[j] => i = j
  /\ \A i \in DOMAIN u : u[i] \in reg /\ fx[u[i]] = "done"
  /\ \A s \in reg : fx[s] = "done" => Stacked(u, s)
  /\ \A s \in reg : fx[s] # "none"
  /\ \A s \in Steps : fx[s] \notin {"none", "done"} => s \in reg
  /\ \A s \in Steps : fx[s] = "undoing" => \E t \in Tasks : p[t] = "await" /\ st[t] = s
  /\ \A t \in Tasks : p[t] = "await" => fx[st[t]] = "undoing"
  /\ \A t \in Tasks : p[t] = "acted" => st[t] \notin reg /\ fx[st[t]] = "done"
  /\ \A t, w \in Tasks : p[t] \in {"acted", "await"} /\ p[w] = p[t] /\ st[w] = st[t] => t = w

\* What was kept was committed and what was cut was interrupted; a block that
\* has raised has closed its transaction.
Explained(fx, committed, n) ==
  \A s \in Steps : (fx[s] = "kept" => committed) /\ (fx[s] = "cut" => n > 0)

TxInv ==
  /\ TypeOK
  /\ Consistent(undo, pc, step, effect, registered)
  /\ state # "open" => undo = <<>>
  /\ Explained(effect, everCommitted, interrupts)
  /\ outcome = "raised" => state # "open"

-----------------------------------------------------------------------------
(* Steps of the drain                                                      *)

\* A task that awaits no compensation of its own.
Freed(p, t) == [p EXCEPT ![t] = "work"]

\* A compensation that has ended leaves a settled step and a free task.
LEMMA Ends ==
  ASSUME TypeOK, Consistent(undo, pc, step, effect, registered),
         NEW t \in Tasks, pc[t] = "await", NEW v \in Settled
  PROVE  Consistent(undo, Freed(pc, t), step, [effect EXCEPT ![step[t]] = v], registered)
<1> DEFINE fx == [effect EXCEPT ![step[t]] = v]
           p == Freed(pc, t)
<1>1. /\ step[t] \in Steps /\ effect[step[t]] = "undoing" /\ step[t] \in registered
      /\ \A s \in Steps : fx[s] = IF s = step[t] THEN v ELSE effect[s]
      /\ \A w \in Tasks : p[w] = IF w = t THEN "work" ELSE pc[w]
      /\ \A w \in Tasks : step[w] \in Steps
      /\ \A i \in DOMAIN undo : undo[i] \in Steps
      /\ registered \subseteq Steps
      /\ v \notin {"none", "done", "undoing"}
  BY DEF TypeOK, Consistent, Freed, Settled
<1> HIDE DEF fx, p
<1>2. \A i \in DOMAIN undo : undo[i] \in registered /\ fx[undo[i]] = "done"
  BY <1>1 DEF Consistent
<1>3. \A s \in registered : (fx[s] = "done" => Stacked(undo, s)) /\ fx[s] # "none"
  BY <1>1 DEF Consistent
<1>4. \A s \in Steps : fx[s] \notin {"none", "done"} => s \in registered
  BY <1>1 DEF Consistent
<1>5. \A s \in Steps : fx[s] = "undoing" => \E w \in Tasks : p[w] = "await" /\ step[w] = s
  BY <1>1 DEF Consistent
<1>6. \A w \in Tasks : p[w] = "await" => fx[step[w]] = "undoing"
  BY <1>1 DEF Consistent
<1>7. \A w \in Tasks : p[w] = "acted" => step[w] \notin registered /\ fx[step[w]] = "done"
  BY <1>1 DEF Consistent
<1>8. \A w, x \in Tasks :
        p[w] \in {"acted", "await"} /\ p[x] = p[w] /\ step[x] = step[w] => w = x
  BY <1>1 DEF Consistent
<1> QED
  BY <1>2, <1>3, <1>4, <1>5, <1>6, <1>7, <1>8 DEF Consistent, fx, p

\* The newest compensation starts.
LEMMA PopKeeps ==
  ASSUME TypeOK, NEW t \in Tasks, NEW fx \in [Steps -> Effects], NEW errs,
         Consistent(undo, Freed(pc, t), step, fx, registered), Pop(t, fx, errs)
  PROVE  /\ Consistent(undo', pc', step', effect', registered)
         /\ effect' \in [Steps -> Effects] /\ undo' \in Seq(Steps)
         /\ step' \in [Tasks -> Steps] /\ fx[Last(undo)] = "done"
<1> DEFINE p == Freed(pc, t)
           top == Last(undo)
           n == Len(undo)
<1>1. /\ undo # <<>> /\ undo' = Front(undo)
      /\ pc' = [pc EXCEPT ![t] = "await"] /\ step' = [step EXCEPT ![t] = top]
      /\ effect' = [fx EXCEPT ![top] = "undoing"]
  BY DEF Pop
<1>2. /\ Front(undo) \in Seq(Steps) /\ DOMAIN Front(undo) = 1..(n - 1)
      /\ DOMAIN undo = 1..n /\ n \in Nat /\ n > 0
      /\ top = undo[n] /\ top \in Steps
      /\ \A i \in 1..(n - 1) : Front(undo)[i] = undo[i]
  BY <1>1, Popped DEF TypeOK
<1>3. n \in 1..n /\ \A i \in 1..(n - 1) : i \in 1..n /\ i # n
  BY <1>2
<1> HIDE DEF top, n, p
<1>4. /\ \A i, j \in DOMAIN undo : undo[i] = undo[j] => i = j
      /\ \A i \in DOMAIN undo : undo[i] \in registered /\ fx[undo[i]] = "done"
      /\ \A s \in registered : fx[s] = "done" => Stacked(undo, s)
      /\ \A s \in registered : fx[s] # "none"
      /\ \A s \in Steps : fx[s] \notin {"none", "done"} => s \in registered
      /\ \A s \in Steps : fx[s] = "undoing" => \E w \in Tasks : p[w] = "await" /\ step[w] = s
      /\ \A w \in Tasks : p[w] = "await" => fx[step[w]] = "undoing"
      /\ \A w \in Tasks : p[w] = "acted" => step[w] \notin registered /\ fx[step[w]] = "done"
      /\ \A w, x \in Tasks : p[w] \in {"acted", "await"} /\ p[x] = p[w] /\ step[x] = step[w] => w = x
  BY DEF Consistent, p
<1>5. top \in registered /\ fx[top] = "done"
  BY <1>2, <1>3, <1>4
<1>6. /\ step \in [Tasks -> Steps] /\ pc \in [Tasks -> {"work", "acted", "await", "left"}]
      /\ registered \subseteq Steps
      /\ \A w \in Tasks : w # t => pc'[w] = pc[w] /\ p[w] = pc[w] /\ step'[w] = step[w]
      /\ pc'[t] = "await" /\ step'[t] = top /\ p[t] = "work"
      /\ \A s \in Steps : effect'[s] = IF s = top THEN "undoing" ELSE fx[s]
  BY <1>1, <1>2 DEF TypeOK, p, Freed
<1>7. effect' \in [Steps -> Effects] /\ step' \in [Tasks -> Steps]
  BY <1>1, <1>2, <1>6 DEF Effects
<1>8. \A i \in 1..(n - 1) : undo'[i] = undo[i] /\ undo'[i] # top /\ undo'[i] \in Steps
  BY <1>1, <1>2, <1>3, <1>4, <1>6
<1>9. DOMAIN undo' = 1..(n - 1)
  BY <1>1, <1>2
<1>a. \A i, j \in DOMAIN undo' : undo'[i] = undo'[j] => i = j
  BY <1>2, <1>3, <1>4, <1>8, <1>9
<1>b. \A i \in DOMAIN undo' : undo'[i] \in registered /\ effect'[undo'[i]] = "done"
  BY <1>2, <1>3, <1>4, <1>6, <1>8, <1>9
<1>c. ASSUME NEW s \in registered PROVE (effect'[s] = "done" => Stacked(undo', s)) /\ effect'[s] # "none"
  <2>1. CASE s = top
    BY <1>6, <2>1
  <2>2. CASE s # top
    <3>1. effect'[s] = fx[s]
      BY <1>6, <2>2
    <3>2. ASSUME fx[s] = "done" PROVE Stacked(undo', s)
      <4>1. PICK i \in 1..n : undo[i] = s
        BY <1>2, <1>4, <3>2 DEF Stacked
      <4>2. i \in 1..(n - 1)
        BY <1>2, <2>2, <4>1
      <4> QED
        BY <1>8, <1>9, <4>1, <4>2 DEF Stacked
    <3> QED
      BY <1>4, <3>1, <3>2
  <2> QED
    BY <2>1, <2>2
<1>d. \A s \in Steps : effect'[s] \notin {"none", "done"} => s \in registered
  BY <1>4, <1>5, <1>6
<1>e. \A s \in Steps : effect'[s] = "undoing" => \E w \in Tasks : pc'[w] = "await" /\ step'[w] = s
  BY <1>4, <1>6
<1>f. \A w \in Tasks : pc'[w] = "await" => effect'[step'[w]] = "undoing"
  BY <1>2, <1>4, <1>6
<1>g. \A w \in Tasks : pc'[w] = "acted" => step'[w] \notin registered /\ effect'[step'[w]] = "done"
  BY <1>2, <1>4, <1>5, <1>6
<1>h. ASSUME NEW w \in Tasks, NEW x \in Tasks,
             pc'[w] \in {"acted", "await"}, pc'[x] = pc'[w], step'[x] = step'[w]
      PROVE  w = x
  <2>1. CASE w # t /\ x # t
    BY <1>4, <1>6, <1>h, <2>1
  <2>2. ASSUME NEW y \in Tasks, y # t, pc'[y] = "await", step'[y] = top PROVE FALSE
    BY <1>4, <1>5, <1>6, <2>2
  <2>3. CASE w = t \/ x = t
    BY <1>6, <1>h, <2>2, <2>3
  <2> QED
    BY <2>1, <2>3
<1> QED
  BY <1>1, <1>2, <1>5, <1>7, <1>a, <1>b, <1>c, <1>d, <1>e, <1>f, <1>g, <1>h DEF Consistent, top

\* A task that leaves the block or goes on with it keeps the books.
LEMMA FreeKeeps ==
  ASSUME NEW t \in Tasks, NEW u, NEW fx, NEW reg,
         pc \in [Tasks -> {"work", "acted", "await", "left"}], step \in [Tasks -> Steps],
         Consistent(u, Freed(pc, t), step, fx, reg),
         NEW stage \in {"work", "left"}, NEW q, q = [pc EXCEPT ![t] = stage],
         NEW st, st = [step EXCEPT ![t] = NoStep]
  PROVE  Consistent(u, q, st, fx, reg)
<1> DEFINE p == Freed(pc, t)
<1>1. /\ \A w \in Tasks : w # t => q[w] = pc[w] /\ p[w] = pc[w] /\ st[w] = step[w]
      /\ q[t] = stage /\ p[t] = "work"
  BY DEF Freed
<1> HIDE DEF p
<1>2. Consistent(u, p, step, fx, reg)
  BY DEF p
<1>3. \A w \in Tasks : q[w] \in {"acted", "await"} => w # t /\ p[w] = q[w] /\ st[w] = step[w]
  BY <1>1
<1>4. \A w \in Tasks : p[w] \in {"acted", "await"} => w # t /\ p[w] = q[w] /\ st[w] = step[w]
  BY <1>1
<1>5. \A s \in Steps : fx[s] = "undoing" => \E w \in Tasks : q[w] = "await" /\ st[w] = s
  BY <1>2, <1>4 DEF Consistent
<1>6. \A w \in Tasks : q[w] = "await" => fx[st[w]] = "undoing"
  BY <1>2, <1>3 DEF Consistent
<1>7. \A w \in Tasks : q[w] = "acted" => st[w] \notin reg /\ fx[st[w]] = "done"
  BY <1>2, <1>3 DEF Consistent
<1>8. \A w, x \in Tasks : q[w] \in {"acted", "await"} /\ q[x] = q[w] /\ st[x] = st[w] => w = x
  BY <1>2, <1>3 DEF Consistent
<1> QED
  BY <1>2, <1>5, <1>6, <1>7, <1>8 DEF Consistent

\* What a drain leaves of the invariant, and of what was settled before.
Drained ==
  /\ state' \in {"open", "committed", "rolled_back"}
  /\ undo' \in Seq(Steps) /\ compensationErrors' \subseteq Steps
  /\ pc' \in [Tasks -> {"work", "acted", "await", "left"}]
  /\ step' \in [Tasks -> Steps] /\ errors' \in [Tasks -> SUBSET Steps]
  /\ ending' \in [Tasks -> BOOLEAN]
  /\ outcome' \in {"inside", "clean", "raised", "interrupted"}
  /\ effect' \in [Steps -> Effects]
  /\ Consistent(undo', pc', step', effect', registered)
  /\ state' # "open" => undo' = <<>>
  /\ outcome' = "raised" => state' # "open"

\* After what fx says, the drain has ended or the newest compensation starts.
Resumes(fx) ==
  \/ effect' = fx
  \/ /\ undo # <<>> /\ Last(undo) \in Steps /\ fx[Last(undo)] = "done"
     /\ effect' = [fx EXCEPT ![Last(undo)] = "undoing"]

\* The step of a task that has none is a step.
LEMMA DefaultStep == NoStep \in Steps
BY TransactionAssumption DEF NoStep

\* One turn of the drain loop, from books that balance.
LEMMA Drains ==
  ASSUME TxInv, NEW t \in Tasks, NEW ends \in BOOLEAN, NEW fx \in [Steps -> Effects],
         NEW errs \in SUBSET Steps,
         Consistent(undo, Freed(pc, t), step, fx, registered), DrainLoop(t, ends, fx, errs)
  PROVE  Drained /\ Resumes(fx)
<1>0. TypeOK /\ (state # "open" => undo = <<>>) /\ (outcome = "raised" => state # "open")
  BY DEF TxInv
<1>1. ending' \in [Tasks -> BOOLEAN]
  BY <1>0 DEF DrainLoop, TypeOK
<1>2. CASE Pop(t, fx, errs)
  <2>1. /\ Consistent(undo', pc', step', effect', registered)
        /\ effect' \in [Steps -> Effects] /\ undo' \in Seq(Steps)
        /\ step' \in [Tasks -> Steps] /\ fx[Last(undo)] = "done"
    BY <1>0, <1>2, PopKeeps
  <2>2. Last(undo) \in Steps
    BY <1>0, <1>2, Popped DEF Pop, TypeOK
  <2>3. /\ errors' \in [Tasks -> SUBSET Steps]
        /\ pc' \in [Tasks -> {"work", "acted", "await", "left"}]
        /\ state' = state /\ outcome' = outcome /\ compensationErrors' = compensationErrors
        /\ undo # <<>> /\ effect' = [fx EXCEPT ![Last(undo)] = "undoing"]
    BY <1>0, <1>2 DEF Pop, TypeOK
  <2>4. state = "open"
    BY <1>0, <2>3
  <2> QED
    BY <1>0, <1>1, <2>1, <2>2, <2>3, <2>4 DEF Drained, Resumes, TypeOK
<1>3. CASE FinishRollback(t, ends, fx, errs)
  <2>1. /\ state' = "rolled_back" /\ compensationErrors' = errs /\ effect' = fx
        /\ errors' \in [Tasks -> SUBSET Steps] /\ undo' = undo /\ undo = <<>>
    BY <1>0, <1>3 DEF FinishRollback, TypeOK
  <2>2. PICK stage \in {"work", "left"} : pc' = [pc EXCEPT ![t] = stage]
    BY <1>3 DEF FinishRollback, Leave
  <2>3. step' = [step EXCEPT ![t] = NoStep] /\ outcome' \in {outcome, "raised"}
    BY <1>3 DEF FinishRollback, Leave
  <2>4. Consistent(undo, pc', step', fx, registered)
    BY <1>0, <2>2, <2>3, FreeKeeps DEF TypeOK
  <2>5. step' \in [Tasks -> Steps] /\ pc' \in [Tasks -> {"work", "acted", "await", "left"}]
    BY <1>0, <2>2, <2>3, DefaultStep DEF TypeOK
  <2> QED
    BY <1>0, <1>1, <2>1, <2>3, <2>4, <2>5 DEF Drained, Resumes, TypeOK
<1> QED
  BY <1>2, <1>3 DEF DrainLoop

\* What a step changes of the registered steps, the commits and the
\* interruptions, after a drain.
LEMMA AfterDrain ==
  ASSUME TxInv, Drained, NEW fx \in [Steps -> Effects],
         Resumes(fx),
         \A s \in Steps : fx[s] \in {"kept", "cut"} => fx[s] = effect[s] \/ (fx[s] = "cut" /\ interrupts' > 0),
         registered' = registered, everCommitted' = everCommitted,
         interrupts' = interrupts \/ interrupts' = interrupts + 1, interrupts' \in 0..MaxInterrupts
  PROVE  TxInv'
<1>0. /\ TypeOK /\ Explained(effect, everCommitted, interrupts)
      /\ interrupts \in Nat
  BY TransactionAssumption DEF TxInv, TypeOK
<1>1. TypeOK'
  BY <1>0 DEF Drained, TypeOK
<1>2. Explained(effect', everCommitted', interrupts')
  <2>1. \A s \in Steps : effect'[s] \in {"kept", "cut"} => effect'[s] = fx[s]
    BY DEF Resumes
  <2> QED
    BY <1>0, <2>1 DEF Explained
<1> QED
  BY <1>1, <1>2 DEF Drained, TxInv

\* Freed is a stutter for a task that is at work in the block.
LEMMA AtWork ==
  ASSUME TypeOK, Consistent(undo, pc, step, effect, registered), NEW t \in Tasks,
         pc[t] \in {"work", "acted"}
  PROVE  Consistent(undo, Freed(pc, t), step, effect, registered)
<1> DEFINE p == Freed(pc, t)
<1>1. /\ \A w \in Tasks : w # t => p[w] = pc[w]
      /\ p[t] = "work"
  BY DEF Freed, TypeOK
<1> HIDE DEF p
<1>2. \A w \in Tasks : p[w] \in {"acted", "await"} => w # t /\ p[w] = pc[w]
  BY <1>1
<1>3. \A s \in Steps : effect[s] = "undoing" => \E w \in Tasks : p[w] = "await" /\ step[w] = s
  BY <1>1 DEF Consistent
<1>4. /\ \A w \in Tasks : p[w] = "await" => effect[step[w]] = "undoing"
      /\ \A w \in Tasks : p[w] = "acted" => step[w] \notin registered /\ effect[step[w]] = "done"
      /\ \A w, x \in Tasks : p[w] \in {"acted", "await"} /\ p[x] = p[w] /\ step[x] = step[w] => w = x
  BY <1>2 DEF Consistent
<1> QED
  BY <1>3, <1>4 DEF Consistent, p

\* What the invariant, SettledStays and NewestFirst ask of a step after which the
\* steps have the effects x.
Keeps(x) ==
  /\ \A s \in Steps : effect[s] \in Settled => x[s] = effect[s]
  /\ \A s \in Steps : effect[s] = "done" /\ x[s] = "undoing" => undo # <<>> /\ s = Last(undo)

Kept == TxInv' /\ Keeps(effect')

\* A task raises: the owner drains an open transaction.
LEMMA RaisesKeeps ==
  ASSUME TxInv, NEW t \in Tasks, pc[t] \in {"work", "acted"}, BlockRaises(t),
         registered' = registered, everCommitted' = everCommitted, interrupts' = interrupts
  PROVE  Kept
<1>0. /\ TypeOK /\ Consistent(undo, pc, step, effect, registered)
      /\ effect \in [Steps -> Effects]
  BY DEF TxInv, TypeOK
<1>1. Consistent(undo, Freed(pc, t), step, effect, registered)
  BY <1>0, AtWork
<1>2. CASE t = Owner /\ state = "open"
  <2>1. DrainLoop(t, TRUE, effect, {})
    BY <1>2 DEF BlockRaises
  <2>2. Drained /\ Resumes(effect)
    <3>1. {} \in SUBSET Steps /\ TRUE \in BOOLEAN
      OBVIOUS
    <3>2. PICK none, yes, fx : none = {} /\ yes = TRUE /\ fx = effect
      OBVIOUS
    <3> QED
      BY <1>0, <1>1, <2>1, <3>1, <3>2, Drains
  <2>3. TxInv'
    BY <1>0, <2>2, AfterDrain DEF TypeOK
  <2> QED
    BY <1>0, <2>2, <2>3 DEF Settled, Resumes, Kept, Keeps
<1>3. CASE ~(t = Owner /\ state = "open")
  <2>1. Leave(t, "raised") /\ UNCHANGED <<txVars, errors, ending, effect>>
    BY <1>3 DEF BlockRaises
  <2>2. /\ pc' = [pc EXCEPT ![t] = "left"] /\ step' = [step EXCEPT ![t] = NoStep]
        /\ outcome' = (IF t = Owner THEN "raised" ELSE outcome)
        /\ UNCHANGED <<state, undo, compensationErrors, errors, ending, effect>>
    BY <2>1 DEF Leave, txVars
  <2>3. Consistent(undo, pc', step', effect, registered)
    BY <1>0, <1>1, <2>2, FreeKeeps DEF TypeOK
  <2>4. TypeOK'
    BY <1>0, <2>2, DefaultStep DEF TypeOK
  <2>5. outcome' = "raised" => state' # "open"
    BY <1>3, <2>2 DEF TxInv
  <2> QED
    BY <2>2, <2>3, <2>4, <2>5 DEF TxInv, Explained, Kept, Keeps
<1> QED
  BY <1>2, <1>3

-----------------------------------------------------------------------------
(* The steps of the tasks                                                  *)

\* A task takes a step.
LEMMA ActKeeps ==
  ASSUME TxInv, NEW t \in Tasks, NEW s \in Steps, Act(t, s)
  PROVE  Kept
<1>0. /\ TypeOK /\ pc[t] = "work" /\ effect[s] = "none"
      /\ effect' = [effect EXCEPT ![s] = "done"]
      /\ step' = [step EXCEPT ![t] = s] /\ pc' = [pc EXCEPT ![t] = "acted"]
      /\ UNCHANGED <<state, undo, compensationErrors, errors, ending, outcome,
                     registered, everCommitted, interrupts>>
  BY DEF TxInv, Act, txVars
<1>1. TypeOK'
  BY <1>0 DEF TypeOK, Effects
<1>2. /\ \A x \in Steps : effect'[x] = IF x = s THEN "done" ELSE effect[x]
      /\ \A w \in Tasks : w # t => pc'[w] = pc[w] /\ step'[w] = step[w]
      /\ pc'[t] = "acted" /\ step'[t] = s
      /\ \A w \in Tasks : step[w] \in Steps
      /\ registered \subseteq Steps /\ \A i \in DOMAIN undo : undo[i] \in Steps
  BY <1>0 DEF TypeOK
<1>3. s \notin registered
  BY <1>0 DEF TxInv, Consistent
<1>4. \A i \in DOMAIN undo : undo[i] \in registered /\ effect'[undo[i]] = "done"
  BY <1>2 DEF TxInv, Consistent
<1>5. \A x \in registered : (effect'[x] = "done" => Stacked(undo, x)) /\ effect'[x] # "none"
  BY <1>2, <1>3 DEF TxInv, Consistent
<1>6. /\ \A x \in Steps : effect'[x] \notin {"none", "done"} => x \in registered
      /\ \A x \in Steps : effect'[x] = "undoing" => \E w \in Tasks : pc'[w] = "await" /\ step'[w] = x
  BY <1>0, <1>2 DEF TxInv, Consistent
<1>7. /\ \A w \in Tasks : pc'[w] = "await" => effect'[step'[w]] = "undoing"
      /\ \A w \in Tasks : pc'[w] = "acted" => step'[w] \notin registered /\ effect'[step'[w]] = "done"
  BY <1>0, <1>2, <1>3 DEF TxInv, Consistent
<1>8. \A w, x \in Tasks :
        pc'[w] \in {"acted", "await"} /\ pc'[x] = pc'[w] /\ step'[x] = step'[w] => w = x
  <2>1. \A w \in Tasks : w # t /\ pc[w] = "acted" => step[w] # s
    BY <1>0 DEF TxInv, Consistent
  <2> QED
    BY <1>0, <1>2, <2>1 DEF TxInv, Consistent
<1>9. Consistent(undo', pc', step', effect', registered')
  BY <1>0, <1>4, <1>5, <1>6, <1>7, <1>8 DEF Consistent, TxInv
<1>10. Explained(effect', everCommitted', interrupts')
  BY <1>0, <1>2 DEF TxInv, Explained
<1> QED
  BY <1>0, <1>1, <1>2, <1>9, <1>10 DEF Kept, Keeps, TxInv, Settled

\* A step enters the stack, or is refused and its task raises (on_undo).
LEMMA RegisterKeeps ==
  ASSUME TxInv, NEW t \in Tasks, Register(t)
  PROVE  Kept
<1>1. CASE state # "open"
  BY <1>1, RaisesKeeps DEF Register, Kept
<1>2. CASE state = "open"
  <2> DEFINE s == step[t]
             n == Len(undo)
  <2>1. /\ TypeOK /\ pc[t] = "acted" /\ s \in Steps
        /\ undo' = Append(undo, s) /\ registered' = registered \cup {s}
        /\ pc' = [pc EXCEPT ![t] = "work"] /\ step' = [step EXCEPT ![t] = NoStep]
        /\ UNCHANGED <<state, compensationErrors, errors, ending, outcome, effect,
                       everCommitted, interrupts>>
    BY <1>2 DEF TxInv, Register, TypeOK
  <2>2. /\ Append(undo, s) \in Seq(Steps) /\ Len(Append(undo, s)) = n + 1
        /\ n \in Nat /\ DOMAIN undo = 1..n
        /\ undo'[n + 1] = s /\ \A i \in 1..n : undo'[i] = undo[i]
    BY <2>1, AppendProperties, LenProperties DEF TypeOK
  <2>3. DOMAIN undo' = 1..(n + 1) /\ \A i \in 1..(n + 1) : i = n + 1 \/ i \in 1..n
    <3>1. DOMAIN Append(undo, s) = 1..Len(Append(undo, s))
      BY <2>2, LenProperties
    <3> QED
      BY <2>1, <2>2, <3>1
  <2>3a. n + 1 \in 1..(n + 1) /\ \A i \in 1..n : i \in 1..(n + 1)
    BY <2>2
  <2> HIDE DEF n
  <2>4. s \notin registered /\ effect[s] = "done"
    BY <2>1 DEF TxInv, Consistent
  <2>5. TypeOK'
    BY <2>1, <2>2, DefaultStep DEF TypeOK
  <2> HIDE DEF s
  <2>6. \A i \in 1..n : undo[i] \in registered /\ effect[undo[i]] = "done"
    BY <2>2 DEF TxInv, Consistent
  <2>7. \A i, j \in DOMAIN undo' : undo'[i] = undo'[j] => i = j
    <3>1. \A i, j \in 1..n : undo[i] = undo[j] => i = j
      BY <2>2 DEF TxInv, Consistent
    <3> QED
      BY <2>2, <2>3, <2>4, <2>6, <3>1
  <2>8. \A i \in DOMAIN undo' : undo'[i] \in registered' /\ effect[undo'[i]] = "done"
    BY <2>1, <2>2, <2>3, <2>4, <2>6
  <2>9. ASSUME NEW x \in registered', effect[x] = "done" PROVE Stacked(undo', x)
    <3>1. CASE x = s
      BY <2>2, <2>3, <2>3a, <3>1 DEF Stacked
    <3>2. CASE x # s
      <4>1. Stacked(undo, x)
        BY <2>1, <2>9, <3>2 DEF TxInv, Consistent
      <4> QED
        BY <2>2, <2>3, <2>3a, <4>1 DEF Stacked
    <3> QED
      BY <3>1, <3>2
  <2>10. /\ \A x \in registered' : effect[x] # "none"
         /\ \A x \in Steps : effect[x] \notin {"none", "done"} => x \in registered'
    BY <2>1, <2>4 DEF TxInv, Consistent
  <2>11. /\ \A w \in Tasks : w # t => pc'[w] = pc[w] /\ step'[w] = step[w]
         /\ pc'[t] = "work"
    BY <2>1 DEF TypeOK
  <2>12. /\ \A x \in Steps : effect[x] = "undoing" => \E w \in Tasks : pc'[w] = "await" /\ step'[w] = x
         /\ \A w \in Tasks : pc'[w] = "await" => effect[step'[w]] = "undoing"
    BY <2>1, <2>11 DEF TxInv, Consistent
  <2>13. ASSUME NEW w \in Tasks, pc'[w] = "acted"
         PROVE  step'[w] \notin registered' /\ effect[step'[w]] = "done"
    <3>1. w # t /\ pc[w] = "acted" /\ step'[w] = step[w]
      BY <2>11, <2>13
    <3>2. step[w] # s
      BY <2>1, <3>1 DEF TxInv, Consistent, s
    <3> QED
      BY <2>1, <3>1, <3>2 DEF TxInv, Consistent
  <2>14. \A w, x \in Tasks :
           pc'[w] \in {"acted", "await"} /\ pc'[x] = pc'[w] /\ step'[x] = step'[w] => w = x
    BY <2>11 DEF TxInv, Consistent
  <2>15. Consistent(undo', pc', step', effect', registered')
    BY <2>1, <2>7, <2>8, <2>9, <2>10, <2>12, <2>13, <2>14 DEF Consistent
  <2> QED
    BY <1>2, <2>1, <2>5, <2>15 DEF Kept, Keeps, TxInv
<1> QED
  BY <1>1, <1>2

\* A commit keeps what is on the stack.
LEMMA CommitsKeeps ==
  ASSUME TxInv, NEW p, NEW st,
         Consistent(undo, p, st, effect, registered),
         NEW fx, fx = [s \in Steps |-> IF Contains(undo, s) THEN "kept" ELSE effect[s]],
         \A t \in Tasks : st[t] \in Steps
  PROVE  /\ Consistent(<<>>, p, st, fx, registered) /\ fx \in [Steps -> Effects]
         /\ Explained(fx, TRUE, interrupts)
         /\ Keeps(fx)
<1>1. /\ TypeOK /\ undo \in Seq(Steps) /\ effect \in [Steps -> Effects]
      /\ registered \subseteq Steps /\ \A i \in DOMAIN undo : undo[i] \in Steps
  BY DEF TxInv, TypeOK
<1>2. \A s \in Steps : fx[s] = IF Stacked(undo, s) THEN "kept" ELSE effect[s]
  BY <1>1, ContainsStacked
<1>3. \A s \in Steps : Stacked(undo, s) <=> s \in registered /\ effect[s] = "done"
  BY DEF Consistent, Stacked
<1>4. DOMAIN <<>> = {}
  OBVIOUS
<1>5. /\ \A s \in registered : fx[s] # "done" /\ fx[s] # "none"
      /\ \A s \in Steps : fx[s] \notin {"none", "done"} => s \in registered
      /\ \A s \in Steps : fx[s] = "undoing" => \E t \in Tasks : p[t] = "await" /\ st[t] = s
      /\ \A t \in Tasks : p[t] = "await" => fx[st[t]] = "undoing"
  BY <1>1, <1>2, <1>3 DEF Consistent
<1>6. \A t \in Tasks : p[t] = "acted" => st[t] \notin registered /\ fx[st[t]] = "done"
  BY <1>2, <1>3 DEF Consistent
<1>7. Consistent(<<>>, p, st, fx, registered)
  BY <1>4, <1>5, <1>6 DEF Consistent
<1>8. fx \in [Steps -> Effects]
  BY <1>1 DEF Effects
<1>9. Explained(fx, TRUE, interrupts)
  BY <1>2 DEF TxInv, Explained
<1> QED
  BY <1>2, <1>3, <1>7, <1>8, <1>9 DEF Settled, Keeps

\* A commit in the block.
LEMMA CommitKeeps ==
  ASSUME TxInv, NEW t \in Tasks, Commit(t)
  PROVE  Kept
<1>1. /\ TypeOK /\ state' = "committed" /\ undo' = <<>>
      /\ effect' = [s \in Steps |-> IF Contains(undo, s) THEN "kept" ELSE effect[s]]
      /\ everCommitted' = TRUE
      /\ UNCHANGED <<compensationErrors, pc, step, errors, ending, outcome, registered, interrupts>>
  BY DEF TxInv, Commit, taskVars
<1>2. /\ Consistent(<<>>, pc, step, effect', registered) /\ effect' \in [Steps -> Effects]
      /\ Explained(effect', TRUE, interrupts)
      /\ Keeps(effect')
  <2>1. Consistent(undo, pc, step, effect, registered) /\ \A w \in Tasks : step[w] \in Steps
    BY <1>1 DEF TxInv, TypeOK
  <2>2. PICK p, st, fx : p = pc /\ st = step /\ fx = effect'
    OBVIOUS
  <2>3. /\ fx = [s \in Steps |-> IF Contains(undo, s) THEN "kept" ELSE effect[s]]
        /\ Consistent(undo, p, st, effect, registered) /\ \A w \in Tasks : st[w] \in Steps
    BY <1>1, <2>1, <2>2
  <2>4. /\ Consistent(<<>>, p, st, fx, registered) /\ fx \in [Steps -> Effects]
        /\ Explained(fx, TRUE, interrupts)
        /\ Keeps(fx)
    BY <2>3, CommitsKeeps
  <2> QED
    BY <2>2, <2>4
<1>3. TypeOK'
  BY <1>1, <1>2, EmptySeq DEF TypeOK
<1> QED
  BY <1>1, <1>2, <1>3 DEF Kept, Keeps, TxInv

\* An abort in the block starts a drain.
LEMMA AbortKeeps ==
  ASSUME TxInv, NEW t \in Tasks, Abort(t)
  PROVE  Kept
<1>0. /\ TypeOK /\ Consistent(undo, pc, step, effect, registered) /\ pc[t] = "work"
      /\ effect \in [Steps -> Effects] /\ DrainLoop(t, FALSE, effect, {})
      /\ UNCHANGED <<registered, everCommitted, interrupts>>
  BY DEF TxInv, TypeOK, Abort
<1>1. Consistent(undo, Freed(pc, t), step, effect, registered)
  BY <1>0, AtWork
<1>2. Drained /\ Resumes(effect)
  <2>1. {} \in SUBSET Steps /\ FALSE \in BOOLEAN
    OBVIOUS
  <2> QED
    BY <1>0, <1>1, <2>1, Drains
<1>3. TxInv'
  BY <1>0, <1>2, AfterDrain DEF TypeOK
<1> QED
  BY <1>0, <1>2, <1>3 DEF Kept, Keeps, Settled, Resumes

\* The end of the block commits what is open.
LEMMA CleanExitKeeps ==
  ASSUME TxInv, NEW t \in Tasks, CleanExit(t)
  PROVE  Kept
<1>0. /\ TypeOK /\ Consistent(undo, pc, step, effect, registered) /\ pc[t] = "work"
      /\ pc' = [pc EXCEPT ![t] = "left"] /\ step' = [step EXCEPT ![t] = NoStep]
      /\ outcome' = (IF t = Owner THEN "clean" ELSE outcome)
      /\ UNCHANGED <<compensationErrors, errors, ending, registered, interrupts>>
  BY DEF TxInv, CleanExit, Leave
<1>1. Consistent(undo, Freed(pc, t), step, effect, registered)
  BY <1>0, AtWork
<1>2. PICK p, st : p = pc' /\ st = step'
  OBVIOUS
<1>3. Consistent(undo, p, st, effect, registered)
  BY <1>0, <1>1, <1>2, FreeKeeps DEF TypeOK
<1>4. step' \in [Tasks -> Steps] /\ pc' \in [Tasks -> {"work", "acted", "await", "left"}]
      /\ outcome' \in {"inside", "clean", "raised", "interrupted"}
      /\ (outcome' = "raised" => outcome = "raised")
  BY <1>0, DefaultStep DEF TypeOK
<1>5. CASE t = Owner /\ state = "open"
  <2>1. /\ state' = "committed" /\ undo' = <<>> /\ everCommitted' = TRUE
        /\ effect' = [s \in Steps |-> IF Contains(undo, s) THEN "kept" ELSE effect[s]]
    BY <1>5 DEF CleanExit
  <2>2. PICK q, w, fx : q = p /\ w = st /\ fx = effect'
    OBVIOUS
  <2>3. /\ fx = [s \in Steps |-> IF Contains(undo, s) THEN "kept" ELSE effect[s]]
        /\ Consistent(undo, q, w, effect, registered) /\ \A x \in Tasks : w[x] \in Steps
    BY <1>2, <1>3, <1>4, <2>1, <2>2
  <2>5. /\ Consistent(<<>>, q, w, fx, registered) /\ fx \in [Steps -> Effects]
        /\ Explained(fx, TRUE, interrupts)
        /\ Keeps(fx)
    BY <2>3, CommitsKeeps
  <2>4. TypeOK'
    BY <1>0, <1>4, <2>1, <2>2, <2>5, EmptySeq DEF TypeOK
  <2> QED
    BY <1>0, <1>2, <1>4, <2>1, <2>2, <2>4, <2>5 DEF Kept, Keeps, TxInv
<1>6. CASE ~(t = Owner /\ state = "open")
  <2>1. UNCHANGED <<state, undo, effect, everCommitted>>
    BY <1>6 DEF CleanExit
  <2>2. TypeOK'
    BY <1>0, <1>4, <2>1 DEF TypeOK
  <2> QED
    BY <1>0, <1>2, <1>3, <1>4, <2>1, <2>2 DEF Kept, Keeps, TxInv
<1> QED
  BY <1>5, <1>6

\* A compensation that has ended is settled, and the drain goes on.
LEMMA CompensatedKeeps ==
  ASSUME TxInv, NEW t \in Tasks, Compensated(t)
  PROVE  Kept
<1>0. /\ TypeOK /\ Consistent(undo, pc, step, effect, registered) /\ pc[t] = "await"
      /\ effect \in [Steps -> Effects] /\ step[t] \in Steps /\ effect[step[t]] = "undoing"
      /\ ending[t] \in BOOLEAN /\ errors[t] \in SUBSET Steps
      /\ UNCHANGED <<registered, everCommitted, interrupts>>
  BY DEF TxInv, TypeOK, Compensated, Consistent
<1>1. PICK v \in {"undone", "failed"}, errs \in SUBSET Steps :
        DrainLoop(t, ending[t], [effect EXCEPT ![step[t]] = v], errs)
  <2>1. errors[t] \cup {step[t]} \in SUBSET Steps
    BY <1>0
  <2> QED
    BY <1>0, <2>1 DEF Compensated
<1>2. PICK fx : fx = [effect EXCEPT ![step[t]] = v]
  OBVIOUS
<1>3. /\ fx \in [Steps -> Effects]
      /\ \A s \in Steps : fx[s] = IF s = step[t] THEN v ELSE effect[s]
  BY <1>0, <1>2 DEF Effects
<1>4. Consistent(undo, Freed(pc, t), step, fx, registered)
  BY <1>0, <1>2, Ends DEF Settled
<1>5. Drained /\ Resumes(fx)
  <2>1. PICK ends : ends = ending[t]
    OBVIOUS
  <2>2. DrainLoop(t, ends, fx, errs) /\ ends \in BOOLEAN
    BY <1>0, <1>1, <1>2, <2>1
  <2> QED
    BY <1>3, <1>4, <2>2, Drains
<1>6. TxInv'
  <2>1. \A s \in Steps : fx[s] \in {"kept", "cut"} => fx[s] = effect[s]
    BY <1>3
  <2>2. interrupts' \in 0..MaxInterrupts
    BY <1>0 DEF TypeOK
  <2> QED
    BY <1>0, <1>3, <1>5, <2>1, <2>2, AfterDrain
<1>7. Keeps(effect')
  BY <1>0, <1>3, <1>5 DEF Settled, Resumes, Keeps
<1> QED
  BY <1>6, <1>7 DEF Kept

\* A compensation that is cut short is settled too; the owner's block drains
\* what is left when the exception reaches its end.
LEMMA InterruptKeeps ==
  ASSUME TxInv, NEW t \in Tasks, Interrupt(t)
  PROVE  Kept
<1>0. /\ TypeOK /\ Consistent(undo, pc, step, effect, registered) /\ pc[t] = "await"
      /\ effect \in [Steps -> Effects] /\ step[t] \in Steps /\ effect[step[t]] = "undoing"
      /\ UNCHANGED <<registered, everCommitted>>
      /\ interrupts' = interrupts + 1 /\ interrupts \in Nat /\ interrupts' \in 0..MaxInterrupts
  BY TransactionAssumption DEF TxInv, TypeOK, Interrupt, Consistent
<1>1. PICK fx : fx = [effect EXCEPT ![step[t]] = "cut"]
  OBVIOUS
<1>2. /\ fx \in [Steps -> Effects]
      /\ \A s \in Steps : fx[s] = IF s = step[t] THEN "cut" ELSE effect[s]
  BY <1>0, <1>1 DEF Effects
<1>3. Consistent(undo, Freed(pc, t), step, fx, registered)
  BY <1>0, <1>1, Ends DEF Settled
<1>4. CASE t = Owner /\ ~ending[t] /\ state = "open"
  <2>1. DrainLoop(t, TRUE, fx, {})
    BY <1>1, <1>4 DEF Interrupt
  <2>2. Drained /\ Resumes(fx)
    <3>1. {} \in SUBSET Steps /\ TRUE \in BOOLEAN
      OBVIOUS
    <3> QED
      BY <1>2, <1>3, <2>1, <3>1, Drains
  <2>3. \A s \in Steps : fx[s] \in {"kept", "cut"} =>
          fx[s] = effect[s] \/ (fx[s] = "cut" /\ interrupts' > 0)
    BY <1>0, <1>2
  <2>4. TxInv'
    BY <1>0, <1>2, <2>2, <2>3, AfterDrain
  <2> QED
    BY <1>0, <1>2, <2>2, <2>4 DEF Settled, Resumes, Kept, Keeps
<1>5. CASE ~(t = Owner /\ ~ending[t] /\ state = "open")
  <2>1. /\ pc' = [pc EXCEPT ![t] = "left"] /\ step' = [step EXCEPT ![t] = NoStep]
        /\ outcome' = (IF t = Owner THEN "interrupted" ELSE outcome)
        /\ effect' = fx /\ errors' = [errors EXCEPT ![t] = {}]
        /\ ending' = [ending EXCEPT ![t] = FALSE]
        /\ UNCHANGED <<state, undo, compensationErrors>>
    BY <1>1, <1>5 DEF Interrupt, Leave, txVars
  <2>2. PICK p, st : p = pc' /\ st = step'
    OBVIOUS
  <2>3. Consistent(undo, p, st, fx, registered)
    BY <1>0, <1>3, <2>1, <2>2, FreeKeeps DEF TypeOK
  <2>4. TypeOK'
    BY <1>0, <1>2, <2>1, DefaultStep DEF TypeOK
  <2>5. Explained(effect', everCommitted', interrupts')
    BY <1>0, <1>2, <2>1 DEF TxInv, Explained
  <2>6. Keeps(effect')
    BY <1>0, <1>2, <2>1 DEF Settled, Keeps
  <2>7. Consistent(undo', pc', step', effect', registered')
    BY <1>0, <2>1, <2>2, <2>3
  <2> QED
    BY <2>1, <2>4, <2>5, <2>6, <2>7 DEF TxInv, Kept
<1> QED
  BY <1>4, <1>5

\* The invariant holds when the block is entered.
LEMMA TxInit == Init => TxInv
<1> SUFFICES ASSUME Init PROVE TxInv
  OBVIOUS
<1>1. TypeOK
  <2>1. interrupts \in 0..MaxInterrupts
    BY TransactionAssumption DEF Init
  <2>2. undo \in Seq(Steps)
    BY EmptySeq DEF Init
  <2> QED
    BY <2>1, <2>2, DefaultStep DEF Init, TypeOK, Effects
<1>2. DOMAIN undo = {}
  BY DEF Init
<1>3. Consistent(undo, pc, step, effect, registered)
  BY <1>2 DEF Init, Consistent
<1> QED
  BY <1>1, <1>3 DEF Init, TxInv, Explained

\* Every step keeps the invariant, and what the action properties ask.
LEMMA TxNext == TxInv /\ [Next]_vars => Kept
<1> SUFFICES ASSUME TxInv, [Next]_vars PROVE Kept
  OBVIOUS
<1>1. ASSUME NEW t \in Tasks, NEW s \in Steps, Act(t, s) PROVE Kept
  BY <1>1, ActKeeps
<1>2. ASSUME NEW t \in Tasks, Register(t) \/ Commit(t) \/ Abort(t) PROVE Kept
  BY <1>2, RegisterKeeps, CommitKeeps, AbortKeeps
<1>3. ASSUME NEW t \in Tasks, Raise(t) PROVE Kept
  BY <1>3, RaisesKeeps DEF Raise, Kept
<1>4. ASSUME NEW t \in Tasks, CleanExit(t) \/ Compensated(t) \/ Interrupt(t) PROVE Kept
  BY <1>4, CleanExitKeeps, CompensatedKeeps, InterruptKeeps
<1>5. CASE UNCHANGED vars
  BY <1>5 DEF vars, txVars, taskVars, history, Kept, Keeps, TxInv, TypeOK, Consistent, Explained, Stacked
<1> QED
  BY <1>1, <1>2, <1>3, <1>4, <1>5 DEF Next

\* The invariant holds throughout.
LEMMA TxInvariant == Spec => []TxInv
<1>1. TxInv /\ [Next]_vars => TxInv'
  BY TxNext DEF Kept
<1> QED
  BY <1>1, TxInit, PTL DEF Spec

-----------------------------------------------------------------------------
(* The theorems                                                            *)

\* The transaction has one of its three states and every task its type, in
\* whatever order the tasks of a block act (async_rollback).
THEOREM TransactionTyped == Spec => []TypeOK
<1>1. TxInv => TypeOK
  BY DEF TxInv
<1> QED
  BY <1>1, TxInvariant, PTL

\* No compensation is lost or runs twice, for any number of tasks that drain,
\* commit and register at once (_drain_async, on_undo, commit).
THEOREM AccountedSafe == Spec => []Accounted
<1>1. TxInv => Accounted
  <2> SUFFICES ASSUME TxInv, NEW s \in Steps
               PROVE  Places(s) = IF s \in registered /\ effect[s] \notin Settled THEN 1 ELSE 0
    BY DEF Accounted, TxInv
  <2> DEFINE Here == {i \in DOMAIN undo : undo[i] = s}
             There == Compensating(s)
  <2>1. Places(s) = Cardinality(Here) + Cardinality(There)
    BY DEF Places
  <2>2. Cardinality({}) = 0 /\ \A x : Cardinality({x}) = 1
    BY FS_EmptySet, FS_Singleton
  <2>3. effect[s] \in Effects
    BY DEF TxInv, TypeOK
  <2>4. CASE s \in registered /\ effect[s] = "done"
    <3>1. PICK i \in DOMAIN undo : undo[i] = s
      BY <2>4 DEF TxInv, Consistent, Stacked
    <3>2. Here = {i} /\ There = {}
      BY <2>4, <3>1 DEF TxInv, Consistent, Compensating
    <3>3. Places(s) = 1 + 0
      BY <2>1, <2>2, <3>2
    <3> QED
      BY <2>4, <3>3 DEF Settled
  <2>5. CASE s \in registered /\ effect[s] = "undoing"
    <3>1. PICK t \in Tasks : pc[t] = "await" /\ step[t] = s
      BY <2>5 DEF TxInv, Consistent
    <3>2. Here = {} /\ There = {t}
      BY <2>5, <3>1 DEF TxInv, Consistent, Compensating
    <3>3. Places(s) = 0 + 1
      BY <2>1, <2>2, <3>2
    <3> QED
      BY <2>5, <3>3 DEF Settled
  <2>6. CASE s \notin registered \/ effect[s] \in Settled
    <3>1. Here = {} /\ There = {}
      BY <2>6 DEF TxInv, TypeOK, Consistent, Compensating, Settled
    <3> QED
      BY <2>1, <2>2, <2>6, <3>1
  <2> QED
    BY <2>3, <2>4, <2>5, <2>6 DEF Effects, Settled, TxInv, Consistent
<1> QED
  BY <1>1, TxInvariant, PTL

\* What was undone, failed, cut short or kept is never compensated again
\* (_drain_async, commit).
THEOREM SettledSafe == Spec => SettledStays
<1>1. TxInv /\ [Next]_vars => [\A s \in Steps : effect[s] \in Settled => effect'[s] = effect[s]]_vars
  BY TxNext DEF Kept, Keeps
<1> QED
  BY <1>1, TxInvariant, PTL DEF Spec, SettledStays

\* Whatever the tasks do, a compensation starts only when no step registered
\* after it still waits for its own (_drain_async).
THEOREM NewestSafe == Spec => NewestFirst
<1> DEFINE Newest == \A i, j \in DOMAIN undo :
                       i < j /\ effect'[undo[i]] = "undoing" => effect'[undo[j]] # "done"
<1>1. ASSUME TxInv, Keeps(effect') PROVE Newest
  <2> SUFFICES ASSUME NEW i \in DOMAIN undo, NEW j \in DOMAIN undo,
                      i < j, effect'[undo[i]] = "undoing"
               PROVE  FALSE
    OBVIOUS
  <2>1. undo \in Seq(Steps) /\ undo[i] \in registered /\ effect[undo[i]] = "done"
        /\ registered \subseteq Steps
    BY <1>1 DEF TxInv, TypeOK, Consistent
  <2>2. undo # <<>> /\ undo[i] = Last(undo)
    BY <1>1, <2>1 DEF Keeps
  <2>3. DOMAIN undo = 1..Len(undo) /\ Len(undo) \in Nat /\ Len(undo) > 0
        /\ Last(undo) = undo[Len(undo)]
    BY <2>1, <2>2, Popped
  <2>4. Len(undo) \in DOMAIN undo
    BY <2>3
  <2>5. i = Len(undo)
    BY <1>1, <2>2, <2>3, <2>4 DEF TxInv, Consistent
  <2> QED
    BY <2>3, <2>5
<1>2. TxInv /\ [Next]_vars => [Newest]_vars
  BY <1>1, TxNext DEF Kept
<1> QED
  BY <1>2, TxInvariant, PTL DEF Spec, NewestFirst

\* A block that has raised, with nobody committing or cancelled, has every
\* registered step undone or in the hands of its compensation (rollback).
THEOREM RaisedSafe == Spec => []RaisedMeansUndone
<1>1. TxInv => RaisedMeansUndone
  <2> SUFFICES ASSUME TxInv, outcome = "raised", ~everCommitted, interrupts = 0,
                      NEW s \in registered
               PROVE  effect[s] \in {"undoing", "undone", "failed"}
    BY DEF RaisedMeansUndone
  <2>1. s \in Steps /\ effect[s] \in Effects
    BY DEF TxInv, TypeOK
  <2>2. undo = <<>>
    BY DEF TxInv
  <2>3. effect[s] # "done"
    BY <2>2 DEF TxInv, Consistent, Stacked
  <2>4. effect[s] \notin {"none", "kept", "cut"}
    BY <2>1 DEF TxInv, Consistent, Explained
  <2> QED
    BY <2>1, <2>3, <2>4 DEF Effects
<1> QED
  BY <1>1, TxInvariant, PTL
=============================================================================
