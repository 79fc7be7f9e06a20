----------------------------- MODULE Transaction ----------------------------
(***************************************************************************)
(* Compensating transactions, core/transaction.py: a block registers how   *)
(* to undo each step it takes, and on an exception the compensations run,  *)
(* newest first.  This is async_rollback: the tasks of a block share one   *)
(* transaction and may run whenever a compensation awaits.  rollback() is  *)
(* the case of one task.  The step that the loop of _drain_async makes     *)
(* between two awaits is atomic, as it is under asyncio.                   *)
(***************************************************************************)
EXTENDS Sequences, SequencesExt, FiniteSets

CONSTANTS Tasks, Owner,   \* the tasks of the block; Owner entered it
          Steps,          \* the actions taken, each with its compensator
          MaxInterrupts   \* bound: compensations cut short by a cancellation

ASSUME TransactionAssumption ==
  /\ Owner \in Tasks /\ Steps # {} /\ MaxInterrupts \in Nat

VARIABLES
  state,     \* Transaction._state
  undo,      \* Transaction._undo
  compensationErrors,  \* Transaction.compensation_errors
  pc,        \* per task: where it is
  step,      \* per task: the action taken, or the one being compensated
  errors,    \* per task: the errors of its drain
  ending,    \* does the drain end the block (the block raised), or not (abort)?
  outcome,   \* how the block was left
  \* history: what became of each step, which steps on_undo accepted, did
  \* anybody commit, how many compensations were interrupted
  effect, registered, everCommitted, interrupts

txVars == <<state, undo, compensationErrors>>
taskVars == <<pc, step, errors, ending, outcome>>
history == <<effect, registered, everCommitted, interrupts>>
vars == <<txVars, taskVars, history>>

NoStep == CHOOSE s \in Steps : TRUE

Effects == {"none", "done", "undoing", "undone", "failed", "cut", "kept"}
Settled == {"undone", "failed", "cut", "kept"}

Init ==
  /\ state = "open" /\ undo = <<>> /\ compensationErrors = {}
  /\ pc = [t \in Tasks |-> "work"]
  /\ step = [t \in Tasks |-> NoStep]
  /\ errors = [t \in Tasks |-> {}]
  /\ ending = [t \in Tasks |-> FALSE]
  /\ outcome = "inside"
  /\ effect = [s \in Steps |-> "none"]
  /\ registered = {} /\ everCommitted = FALSE /\ interrupts = 0
-----------------------------------------------------------------------------
(* Leaving the block                                                       *)

\* Task t ends; if it entered the block, the block ends with how.
Leave(t, how) ==
  /\ pc' = [pc EXCEPT ![t] = "left"]
  /\ outcome' = IF t = Owner THEN how ELSE outcome
  /\ step' = [step EXCEPT ![t] = NoStep]

\* The head of the drain loop: the newest compensation starts, or nothing is
\* left and _finish_rollback closes the transaction.  fx is what the
\* compensations before this one did, errs what they raised.
PopOldest(t, fx, errs) ==            \* mutant: first registered, first undone
  /\ undo # <<>>
  /\ step' = [step EXCEPT ![t] = Head(undo)]
  /\ undo' = Tail(undo)
  /\ effect' = [fx EXCEPT ![Head(undo)] = "undoing"]
  /\ errors' = [errors EXCEPT ![t] = errs]
  /\ pc' = [pc EXCEPT ![t] = "await"]
  /\ UNCHANGED <<state, compensationErrors, outcome>>

PopKeeping(t, fx, errs) ==           \* mutant: the stack keeps the entry
  /\ undo # <<>>
  /\ step' = [step EXCEPT ![t] = Last(undo)]
  /\ effect' = [fx EXCEPT ![Last(undo)] = "undoing"]
  /\ errors' = [errors EXCEPT ![t] = errs]
  /\ pc' = [pc EXCEPT ![t] = "await"]
  /\ UNCHANGED <<state, undo, compensationErrors, outcome>>

Pop(t, fx, errs) ==
  /\ undo # <<>>
  /\ step' = [step EXCEPT ![t] = Last(undo)]
  /\ undo' = Front(undo)
  /\ effect' = [fx EXCEPT ![Last(undo)] = "undoing"]
  /\ errors' = [errors EXCEPT ![t] = errs]
  /\ pc' = [pc EXCEPT ![t] = "await"]
  /\ UNCHANGED <<state, compensationErrors, outcome>>

FinishAsAborted(t, ends, fx, errs) ==  \* mutant: abort names a state of its own
  /\ undo = <<>>
  /\ state' = IF ends THEN "rolled_back" ELSE "aborted"
  /\ compensationErrors' = errs
  /\ effect' = fx /\ errors' = [errors EXCEPT ![t] = {}]
  /\ Leave(t, "raised")
  /\ UNCHANGED undo

\* After an abort the task goes on, unless the RollbackError ends it; a block
\* that raised ends with its own exception.
FinishRollback(t, ends, fx, errs) ==
  /\ undo = <<>>
  /\ state' = "rolled_back" /\ compensationErrors' = errs
  /\ effect' = fx /\ errors' = [errors EXCEPT ![t] = {}]
  /\ \/ ends /\ Leave(t, "raised")
     \/ ~ends /\ errs # {} /\ Leave(t, "raised")
     \/ /\ ~ends
        /\ pc' = [pc EXCEPT ![t] = "work"]
        /\ step' = [step EXCEPT ![t] = NoStep]
        /\ UNCHANGED outcome
  /\ UNCHANGED undo

DrainLoop(t, ends, fx, errs) ==
  /\ Pop(t, fx, errs) \/ FinishRollback(t, ends, fx, errs)
  /\ ending' = [ending EXCEPT ![t] = ends /\ undo # <<>>]

\* An exception reaches the end of the block: what is still open is drained.
\* One that reaches the end of another task just ends the task.
BlockRaises(t) ==
  IF t = Owner /\ state = "open"
  THEN DrainLoop(t, TRUE, effect, {})
  ELSE Leave(t, "raised") /\ UNCHANGED <<txVars, errors, ending, effect>>
-----------------------------------------------------------------------------
(* What the tasks of the block do                                          *)

\* A task takes a step whose undo it will register next.
Act(t, s) ==
  /\ pc[t] = "work" /\ effect[s] = "none"
  /\ effect' = [effect EXCEPT ![s] = "done"]
  /\ step' = [step EXCEPT ![t] = s]
  /\ pc' = [pc EXCEPT ![t] = "acted"]
  /\ UNCHANGED <<txVars, errors, ending, outcome, registered, everCommitted,
                 interrupts>>

RegisterUnchecked(t) ==              \* mutant: a closed transaction registers
  /\ pc[t] = "acted"
  /\ undo' = Append(undo, step[t])
  /\ pc' = [pc EXCEPT ![t] = "work"]
  /\ step' = [step EXCEPT ![t] = NoStep]
  /\ registered' = registered \cup {step[t]}
  /\ UNCHANGED <<state, compensationErrors, errors, ending, outcome, effect,
                 everCommitted, interrupts>>

\* on_undo; on a closed transaction it raises RuntimeError, and the step stays.
Register(t) ==
  /\ pc[t] = "acted"
  /\ IF state = "open"
     THEN /\ undo' = Append(undo, step[t])
          /\ pc' = [pc EXCEPT ![t] = "work"]
          /\ step' = [step EXCEPT ![t] = NoStep]
          /\ registered' = registered \cup {step[t]}
          /\ UNCHANGED <<state, compensationErrors, errors, ending, outcome, effect>>
     ELSE BlockRaises(t) /\ UNCHANGED registered
  /\ UNCHANGED <<everCommitted, interrupts>>

\* commit(), called in the block (it does nothing on a closed transaction).
Commit(t) ==
  /\ pc[t] = "work" /\ state = "open"
  /\ state' = "committed" /\ undo' = <<>>
  /\ effect' = [s \in Steps |-> IF Contains(undo, s) THEN "kept" ELSE effect[s]]
  /\ everCommitted' = TRUE
  /\ UNCHANGED <<compensationErrors, taskVars, registered, interrupts>>

\* abort_async(), called in the block (likewise).
Abort(t) ==
  /\ pc[t] = "work" /\ state = "open"
  /\ DrainLoop(t, FALSE, effect, {})
  /\ UNCHANGED <<registered, everCommitted, interrupts>>

\* A task raises, from its own code or because it is cancelled.
Raise(t) ==
  /\ pc[t] \in {"work", "acted"}
  /\ BlockRaises(t)
  /\ UNCHANGED <<registered, everCommitted, interrupts>>

\* The end of the block without an exception commits what is open; the end of
\* another task leaves the transaction alone.
CleanExit(t) ==
  /\ pc[t] = "work"
  /\ Leave(t, "clean")
  /\ IF t = Owner /\ state = "open"
     THEN /\ state' = "committed" /\ undo' = <<>>
          /\ effect' = [s \in Steps |->
                          IF Contains(undo, s) THEN "kept" ELSE effect[s]]
          /\ everCommitted' = TRUE
     ELSE UNCHANGED <<state, undo, effect, everCommitted>>
  /\ UNCHANGED <<compensationErrors, errors, ending, registered, interrupts>>
-----------------------------------------------------------------------------
(* The compensation a task awaits                                          *)

CompensatedForgetting(t) ==          \* mutant: the first error ends the drain
  /\ pc[t] = "await"
  /\ \/ DrainLoop(t, ending[t], [effect EXCEPT ![step[t]] = "undone"], errors[t])
     \/ /\ state' = "rolled_back" /\ compensationErrors' = errors[t] \cup {step[t]}
        /\ effect' = [effect EXCEPT ![step[t]] = "failed"]
        /\ Leave(t, "raised") /\ UNCHANGED <<undo, errors, ending>>
  /\ UNCHANGED <<registered, everCommitted, interrupts>>

\* It returns, or raises an Exception (or is a coroutine function that a
\* synchronous drain cannot await); either way the drain goes on.
Compensated(t) ==
  /\ pc[t] = "await"
  /\ \/ DrainLoop(t, ending[t], [effect EXCEPT ![step[t]] = "undone"], errors[t])
     \/ DrainLoop(t, ending[t], [effect EXCEPT ![step[t]] = "failed"],
                  errors[t] \cup {step[t]})
  /\ UNCHANGED <<registered, everCommitted, interrupts>>

\* It is cancelled (CancelledError, KeyboardInterrupt: no Exception), which ends
\* the drain.  In an abort of the owner the exception then reaches the end of
\* the block, which drains again.
Interrupt(t) ==
  /\ pc[t] = "await" /\ interrupts < MaxInterrupts
  /\ interrupts' = interrupts + 1
  /\ LET fx == [effect EXCEPT ![step[t]] = "cut"] IN
     IF t = Owner /\ ~ending[t] /\ state = "open"
     THEN DrainLoop(t, TRUE, fx, {})
     ELSE /\ Leave(t, "interrupted")
          /\ effect' = fx /\ errors' = [errors EXCEPT ![t] = {}]
          /\ ending' = [ending EXCEPT ![t] = FALSE]
          /\ UNCHANGED txVars
  /\ UNCHANGED <<registered, everCommitted>>

Next ==
  \E t \in Tasks :
    \/ \E s \in Steps : Act(t, s)
    \/ Register(t) \/ Commit(t) \/ Abort(t) \/ Raise(t) \/ CleanExit(t)
    \/ Compensated(t) \/ Interrupt(t)

Spec == Init /\ [][Next]_vars

\* Compensations end, or are cancelled; nothing makes a task do anything else.
FairSpec == Spec /\ \A t \in Tasks : WF_vars(Compensated(t) \/ Interrupt(t))
-----------------------------------------------------------------------------
\* Every variable has its type; in particular the three states of
\* Transaction._state are the only ones.
TypeOK ==
  /\ state \in {"open", "committed", "rolled_back"}
  /\ undo \in Seq(Steps) /\ compensationErrors \subseteq Steps
  /\ pc \in [Tasks -> {"work", "acted", "await", "left"}]
  /\ step \in [Tasks -> Steps] /\ errors \in [Tasks -> SUBSET Steps]
  /\ ending \in [Tasks -> BOOLEAN]
  /\ outcome \in {"inside", "clean", "raised", "interrupted"}
  /\ effect \in [Steps -> Effects]
  /\ registered \subseteq Steps /\ everCommitted \in BOOLEAN
  /\ interrupts \in 0 .. MaxInterrupts

Compensating(s) == {t \in Tasks : pc[t] = "await" /\ step[t] = s}
Places(s) == Cardinality({i \in DOMAIN undo : undo[i] = s})
             + Cardinality(Compensating(s))

\* No compensation is lost or runs twice, however the drains of several tasks,
\* commits and registrations interleave: a registered step is settled, or else
\* it is on the stack once or is being compensated by one task.  A closed
\* transaction has no stack (_drain_async, on_undo, commit).
Accounted ==
  /\ \A s \in Steps : Places(s) = IF s \in registered /\ effect[s] \notin Settled
                                  THEN 1 ELSE 0
  /\ state # "open" => undo = <<>>

\* What is undone, failed, cut short or kept stays so: nothing is compensated
\* again, and nothing that a commit kept is undone (_drain_async, commit).
SettledStays == [][\A s \in Steps : effect[s] \in Settled => effect'[s] = effect[s]]_vars

\* "on any exception, runs the registered compensations" (rollback): when a
\* block has raised and nobody committed or was cancelled while compensating,
\* every registered step is undone, failed to be, or is being undone by a task
\* that called abort.
RaisedMeansUndone ==
  outcome = "raised" /\ ~everCommitted /\ interrupts = 0 =>
    \A s \in registered : effect[s] \in {"undoing", "undone", "failed"}

\* Newest first: a compensation starts only when no step registered after it is
\* still waiting for its own (_drain_async).
NewestFirst ==
  [][\A i, j \in DOMAIN undo :
       i < j /\ effect'[undo[i]] = "undoing" => effect'[undo[j]] # "done"]_vars

\* A block that raises is left, also when compensations fail: each one that
\* ends brings the drain nearer its end, and the other tasks can add only the
\* steps they have not taken yet (async_rollback).
BlockEnds == (pc[Owner] = "await" /\ ending[Owner]) ~> outcome # "inside"
=============================================================================
