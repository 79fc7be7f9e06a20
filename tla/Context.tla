------------------------------ MODULE Context -------------------------------
(***************************************************************************)
(* safety_context (core/context.py): the policy in force in each task, the *)
(* blocks it is inside, and Python's one memory tracer.  A task is an      *)
(* asyncio task or a thread with a context of its own; a spawned task      *)
(* starts with a copy of its parent's.                                     *)
(***************************************************************************)
EXTENDS PolicySpecs, SequencesExt

CONSTANTS Workers,    \* the tasks
          MaxDepth,   \* bound: blocks a task is inside
          MaxHeap     \* bound: traced memory

VARIABLES inherited,  \* per task: the policy and the run it started with
          blocks,     \* per task: the blocks it is inside, outermost first;
                      \* each a record with the policy and run in force in it
          opening,    \* per task: what is_tracing() told the block it enters
          tracing,    \* tracemalloc.is_tracing()
          heap        \* tracemalloc.get_traced_memory()[0], which is 0 untraced

contextVars == <<inherited, blocks, opening, tracing, heap>>

\* The quotas and the cost budgets of a policy are sequences of accounts; its
\* guards, limits, gates and sinks are one sequence of <<field, object>>, in
\* which each field's tuple is the entries with its name.
Bare == [quotas |-> <<>>, cost_budgets |-> <<>>, others |-> <<>>]
ObjectFields == DOMAIN Bare

Root ==
  [root |-> TRUE, perms |-> DenyAll, quotas |-> <<>>, cost_budgets |-> <<>>, others |-> <<>>,
   enforce |-> TRUE, timeout |-> None, memory |-> None, baseline |-> 0]

NoRun == ""
Outside == [policy |-> Root, run |-> NoRun]

ContextInit ==
  /\ inherited = [t \in Workers |-> Outside]
  /\ blocks = [t \in Workers |-> <<>>]
  /\ opening = [t \in Workers |-> "no"]
  /\ tracing = FALSE /\ heap = 0

Innermost(t) == IF blocks[t] = <<>> THEN inherited[t] ELSE Last(blocks[t])

\* current_policy(), current_run()
Current(t) == Innermost(t).policy
RunOf(t) == Innermost(t).run

InContext(t) == ~Current(t).root

\* permissions=None; of() never returns it.
NoPermissions == [allow |-> {}, deny |-> {Blank}]

\* Policy.narrow()
NarrowPolicy(policy, perms, more) ==
  [policy EXCEPT !.perms = IF perms = NoPermissions THEN @ ELSE Intersect(@, perms),
                 !.quotas = @ \o more.quotas,
                 !.cost_budgets = @ \o more.cost_budgets,
                 !.others = @ \o more.others]

\* safety_context's own keywords.
NoPolicy == Root
Scope == [perms |-> NoPermissions, policy |-> NoPolicy, more |-> Bare,
          timeout |-> None, memory |-> None, enforce |-> "unset"]

\* Mutant: monitor=True wins in a nested block too.
EnforceAsAsked(outer, narrowed, asked) == IF asked = "unset" THEN narrowed ELSE asked = "on"

\* A nested block may go from monitoring to enforcing, not back.
Enforcing(outer, narrowed, asked) ==
  IF outer.root \/ asked = "unset" THEN narrowed ELSE outer.enforce \/ asked = "on"

\* The policy a block gets, its memory baseline apart.
Effective(outer, scope) ==
  LET base == IF outer.root
                THEN [Root EXCEPT !.root = FALSE, !.perms = AllowAll,
                                  !.enforce = scope.enforce # "off"]
                ELSE outer
      given == IF scope.policy = NoPolicy
                 THEN base
                 ELSE NarrowPolicy(base, scope.policy.perms, scope.policy)
      own == NarrowPolicy(given, scope.perms, scope.more)
  IN  [own EXCEPT !.enforce = Enforcing(outer, @, scope.enforce),
                  !.timeout = Tighter(@, scope.timeout),
                  !.memory = Tighter(@, scope.memory)]

\* Entering a block up to is_tracing(), if it has a memory limit; `notes` is
\* what safely() adds to it.
Open(t, scope, notes) ==
  LET policy == Effective(Current(t), scope)
      asked == IF tracing THEN "traced" ELSE "untraced"
  IN  /\ Len(blocks[t]) < MaxDepth
      /\ opening' = [opening EXCEPT ![t] = IF policy.memory # None THEN asked ELSE "no"]
      /\ blocks' = [blocks EXCEPT ![t] = Append(@,
           [policy |-> policy, started |-> FALSE,
            run |-> notes.run, required |-> notes.required, envelope |-> notes.envelope])]
      /\ UNCHANGED <<inherited, tracing, heap>>

\* start(), unless tracing was on, and the baseline.  start() does nothing when
\* tracing is on by now, and the block believes that it started it.
Watch(t) ==
  LET starts == opening[t] = "untraced"
      watched == [Last(blocks[t]) EXCEPT !.started = starts, !.policy.baseline = heap]
  IN  /\ opening[t] # "no"
      /\ tracing' = (tracing \/ starts)
      /\ blocks' = [blocks EXCEPT ![t] = [@ EXCEPT ![Len(@)] = watched]]
      /\ opening' = [opening EXCEPT ![t] = "no"]
      /\ UNCHANGED <<inherited, heap>>

\* Mutant: leaving any watched block stops the tracer.
CloseAndStop(t) ==
  /\ blocks[t] # <<>>
  /\ blocks' = [blocks EXCEPT ![t] = Front(@)]
  /\ tracing' = (tracing /\ Last(blocks[t]).policy.memory = None)
  /\ heap' = IF tracing' THEN heap ELSE 0
  /\ UNCHANGED <<inherited, opening>>

\* Leaving it, by its end or by an exception.
Close(t) ==
  /\ blocks[t] # <<>>
  /\ blocks' = [blocks EXCEPT ![t] = Front(@)]
  /\ tracing' = (tracing /\ ~Last(blocks[t]).started)
  /\ heap' = IF tracing' THEN heap ELSE 0
  /\ UNCHANGED <<inherited, opening>>

\* A task starts another one from inside its block.
Spawn(t, child) ==
  /\ InContext(t)
  /\ inherited[child] = Outside /\ blocks[child] = <<>>
  /\ inherited' = [inherited EXCEPT ![child] = [policy |-> Current(t), run |-> RunOf(t)]]
  /\ UNCHANGED <<blocks, opening, tracing, heap>>

\* The program's objects, as the tracer sees them.
Allocate ==
  /\ tracing
  /\ heap' \in {heap - 1, heap + 1} \cap 0..MaxHeap
  /\ UNCHANGED <<inherited, blocks, opening, tracing>>

\* Policy.check_memory() does not raise.
MemoryFits(t) ==
  LET p == Current(t)
  IN  p.memory = None \/ ~tracing \/ heap - p.baseline <= p.memory
=============================================================================
