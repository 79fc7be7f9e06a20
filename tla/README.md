# agent-safety: TLA+ models and proofs

`agent-safety` puts a checklist in front of every tool call an LLM agent makes:
budgets, permissions, gates, guards, concurrency slots and a timeout
(`src/docs/PIPELINE.md`).  One process enforces it through a policy that is current
for the running thread or task; several processes share budgets through a store
(`MemoryBackend`, Redis, SQL, MongoDB, DynamoDB) and can be held to a policy by a
gateway that mints signed envelopes.

## 1. Inventory

Paths below are relative to `src/src/agent_safety/`.

### In one process (`core/`, `easy.py`)

| Component | State it keeps | Operations | Correct when |
|---|---|---|---|
| Pipeline (`core/pipeline.py`) | per tool: result cache and its order list | one guarded call: charge, check, cache, hold slots, run, store, guard output | nothing runs that a budget, the permission set or a gate should have stopped; every call ends; what was taken for a call is given back |
| Policy (`core/policy.py`) | immutable | `charge_call`, `charge_tokens`, `charge_risk`, `charge_cost`, `check_*`, `narrow`, `audit` | a nested policy only adds restrictions |
| Quota, risk and cost budgets (`core/quota.py`) | used amounts, under a lock | `charge*` | used never exceeds the cap; what ran was paid for |
| Rate limit, deadline, loop guard, concurrency limit (`core/limits.py`) | timestamps, start time, recent signatures, semaphores | `charge`, `record`, `hold_sync`, `hold_async` | window, deadline, repetition and parallelism bounds hold under threads |
| Runtime (`core/runtime.py`) | worker threads, the process timer | `call_with_timeout` | a hung body does not hang its caller |
| Context (`core/context.py`) | the current policy (a context variable), tracemalloc | `safety_context` enter and exit | the ratchet: inside a block the policy is at least as strict as outside |
| Permissions (`core/permissions.py`) | allow and deny patterns | `allows`, `intersect`, `with_denied` | an intersection allows no more than either side |
| Gates (`core/gates.py`, `core/reasoning.py`) | patterns, hooks | `covers`, `evaluate` | a refusal by any covering gate stops the call |
| Metering (`core/usage.py`, `core/prices.py`) | none of its own | `charge_usage`, `metered` | what was spent is charged |
| Transactions (`core/transaction.py`) | compensation stack, state | `on_undo`, `commit`, `abort`, drain | every completed step is undone once, newest first, or none is |
| Audit (`core/audit.py`, `core/observability.py`, `core/tracing.py`) | hash chain, trip counters | sinks | the chain verifies; the breaker opens after the set number of failures |
| Guards, sandbox, schema, validation (`core/guards.py`, ...) | none | pure checks on values | value checks only |
| Facade (`easy.py`) | none | `tool`, `safely`, profiles | keywords become the limits they name |

### Across processes (`distributed/`)

| Component | State it keeps | Operations | Correct when |
|---|---|---|---|
| Budget stores (`backends/`) | per task: calls, tokens, risk, call times, signatures, leases, charged request ids | `charge`, `release_concurrency` | a charge is all or nothing, a retried request is charged once, caps hold for all workers together |
| `BackendQuota` (`backends/__init__.py`) | a sequence number | `charge_call`, `charge_tokens` | every call gets its own request id |
| Nonce stores (`nonces.py`) | spent nonces until they expire | `spend` in memory, Redis, SQL, MongoDB, DynamoDB | a nonce is accepted once while its envelope is valid |
| Envelopes (`envelope.py`) | none | `sign`, `verify` | an envelope is accepted in its window only, once, for its holder |
| Gateway (`gateway/server.py`, `gateway/client.py`) | service rate, client breaker | mint, charge tokens, ingest audit | an envelope is minted only after its call was charged |
| Policy documents, rollout (`policy_spec.py`, `config.py`, `run.py`) | registry, environment | build policies, canary and shadow modes | a narrowed document is not wider |

### How they interact

A tool wrapper reads the current policy once and then drives the limit objects the
policy names.  Those objects are shared by every thread whose policy names them, each
behind a lock of its own; there is no lock around a call.  A backend quota is one of
those objects: its charge goes to the store.  Gates, guards and audit sinks are
callbacks of the application.  A timed-out body is stopped by a signal or by
`asyncio`, or left behind in a worker thread.  A gateway charges a store and signs
what it found; the agent verifies the signature and spends the nonce.  A block is entered from
keywords, from a document of the registry, under an envelope, or with a policy handed
over by another task, and always narrows the policy in force.  A metered model call
charges the quotas of the block it is made in, and its reply those of the block the
reply is read in.

What is hard: threads between two locked sections of one call; a charge refused half
way through a list of limits; values read before a lock and used after it; retries
and lost answers of a store; leases that expire while their call runs; compensations
that fail while others wait; blocks of several origins nested in any order; providers
that report one reply in overlapping pieces; stores that decide on rows they read
before, with clocks older still.

## 2. Plan

In the order of importance: first what every call goes through, then the budget that
processes share, then what they rest on.

| Step | Modules | Composition | State |
|---|---|---|---|
| 1 | `Limits`, `ToolPipeline` | the pipeline extends the limits and drives them from several threads | done |
| 2 | `SharedBudget`, `MemoryBackend`, `BackendQuota` | quotas and a retrying gateway over one store; the composition implements the contract | done |
| 3 | `Transaction` | stands alone: compensations are callbacks of the application | done |
| 4 | `BudgetRecords`, `DocumentBackend` (MongoDB, DynamoDB), `Gateway` | a gateway's threads mint over a document store, agents verify what they signed; the store implements `SharedBudget` for one process | done for one process |
| 5 | `Permissions`, `Globs`, `PolicySpecs`, `Context`, `Safely`, `Metering`, `Blocks` | each extends the one before: documents and keywords become blocks, blocks build the policies that `ToolPipeline` takes as a constant, model calls spend the budgets the blocks carry | done |
| 6 | `BudgetTables`, `RedisBudget`, `SqlBudget`, `NonceStores`, `Engines` | processes charge one task and spend one nonce through every database the stores support | done |
| 7 | two processes on one MongoDB or DynamoDB document; DynamoDB's `release_concurrency`, which rewrites it | the code promises nothing there: how far a budget is overrun would be a measurement | not planned |
| 8 | `Sums`, `Lemmas` and the eight modules of theorems (section 6) | each extends the component it is about | done |

Abstract specifications: `SharedBudget` for the stores of steps 2 and 4; for the
context, `Ratchet`, which compares the policies of a task with each other and not with
the keywords they came from.

Theorems: first what a run checks as an invariant and one thread or worker alone cannot
break, then the refinements; section 6 has what is proved and section 7 what is left to TLC.

## 3. The modules

Each module says in its header what one step stands for.  The general rule: a step is
what happens between two points where another actor may run.

**`Limits`** has the bodies of the `with self._lock:` blocks of `core/quota.py` and
`core/limits.py`, as functions of the state they read.  The pipeline and the memory
store, which builds on the same classes, share them.

**`ToolPipeline`** is `run_tool_call` and `arun` (`core/pipeline.py`) for every
thread in `Threads`.

| Model | Code |
|---|---|
| `pc`, `at` | the line of `run_tool_call` a thread is at, and its place in the tuple of limits it is working through |
| `call` | `spec`, the arguments and the policy, read once when the call begins |
| `Begin` | `_admit` up to the enforcement mode; in monitor mode the body runs with nothing charged |
| `ChargeQuota` | one `quota.charge_call()` in `Policy.charge_call` |
| `ReadClock`, `ChargeRate`, `ChargeDeadline` | `time.monotonic()` outside the lock, then the locked section |
| `Require`, `ChargeRisk`, `ConsultGates` | `check_memory` and `require`, `charge_risk`, the gates in their order |
| `LookUp`, `ReadCached` | `_cache_hit`, then `spec.cache[key]` |
| `RecordLoop`, `GuardInputs` | the loop guards, `_guard_inputs` |
| `Acquire`, `StartBody`, `EndBody`, `TimeOut`, `Release`, `Released` | `_hold_concurrency` around `call_with_timeout` |
| `NestedCall` | a body makes a guarded or metered call of its own: in the main thread `_with_signal` sets the process's one timer for it and switches it off |
| `OrphanEnds` | the worker thread that a timeout left behind ends |
| `PutResult`, `AppendOrder`, `PopOldest`, `DropVictim` | `_cache_put`, one dict or list operation at a time |
| `Finish` | `_finish`: the output guards, then the caller |

`Leave` is every exit, by return or by exception: it resets the thread and nothing
else, which is what the code does with what was already charged.  A policy is a
record of tuples, the outer block's limits before the nested block's, as
`Policy.narrow` leaves them.  `disarmed` has the threads whose body has lost its alarm in a
nested call; what such a call charges and holds is a call of another thread, since one thread
in a body and one calling from it take the same steps on the shared limits.
`started`, `exposure`, `admitted`, `passed` and `begun`
are history variables: they record what the limits are there to bound and no guard
reads them.

**`SharedBudget`** is the contract of `BudgetBackend.charge`: a request id is granted
once, grants stay within the call limit, and holders within the slots.

**`Sums`** adds up what the members of a set have by counting units: `SumOf(f, S)` is the
number of pairs `<<x, i>>` with `i` in `1 .. f[x]`.  That needs no recursion, so a fact about
a sum is a fact about the cardinality of a set and can be proved.  **`Dicts`** has Python's
dictionaries as functions, for the same reason.

**`MemoryBackend`** is the class of that name.  A charge runs under the store's lock
and is one step; its limits are tried in the code's order and `ChargeLimits` keeps
what each leaves behind when a later one refuses.  The quota, rate, loop and risk
objects of a task are records that are replaced when a caller comes with another
limit, as the code does.

**`BackendQuota`** extends it with the callers: quotas that number their charges and
derive request ids from their `RunContext` (`ChargeCall`, `ChargeTokens`), the charge a
gateway makes for a mint and may repeat when the answer is lost (`DirectCharge`), and
the release of a lease (`Release`).  `ContractKept` is the refinement: the granted
requests are the idempotency records, the holders the leases.

**`BudgetRecords`** has the two records of that interface, `BudgetCharge` and
`BudgetLimits`; both store models extend it.

**`DocumentBackend`** is `charge` of `mongo_backend.py` and `dynamo_backend.py`, which
differ in the calls they make and not in what they do.  The limits decide on a copy of
the document (`Fits`, `Rewritten`), so a refusal leaves nothing behind, unlike in
`MemoryBackend`; what takes several steps here is the database.

| Model | Code |
|---|---|
| `Enter` | up to `with self._lock`: the clock is read before the lock is taken |
| `LookUp` | the lock, and the record of the request id |
| `Read`, `Replace` | the document is read and decided on, then written back whole |
| `Record` | `insert_one`, or `put_item` on the condition that there is none yet |
| `ConnectionLost` | an operation raises, with or without having been done |
| `Crash` | the process dies between two operations |

**`Gateway`** extends it with `PolicyGateway.mint`, its circuit breaker, and the agents'
`verify` with `MemoryNonceStore`.  A mint goes through `BeginMint` (or ends in
`BeginBadMint` or `DeclineMint` before it charges), the steps of the store, and `Sign` or
`MintFails`, which tell the breaker.  `Restart` is a crash of the gateway, which forgets
its breaker and nothing else.  `BeginTokens` and `TokensDone` are `charge_tokens`, which goes through the
same store operations, takes a lease like any charge, and neither asks nor tells the
breaker.  `CheckWindow` and `Spend` are the two halves of `verify`:
the window is tested first, the nonce is spent later, under the lock of its store.

**`Transaction`** is `async_rollback` with the tasks of the block as actors;
`rollback` is the case of a single task.  `Act` stands for the application's step
before `on_undo` (`Register`); `Commit`, `Abort`, `Raise` and `CleanExit` are the ways
on; a drain is `Pop`, an await, `Compensated` or `Interrupt`, and `FinishRollback`.
`effect` records what became of each step.

**`Permissions`** has `PermissionSet` over an abstract matching `Covers`; **`Globs`** gives
the matching for the instance: names are sequences of tokens, as `fs.*` is, matched as
`fnmatchcase` does.  `Authority` is what a set lets an agent do.

**`PolicySpecs`** is `PolicySpec` and `PolicyRegistry`.  A document is a function on its
fields, a dictionary a partial function, so `to_dict`, `from_dict`, `to_kwargs` and
`from_safely_kwargs` are the conversions they are, with what they leave out.

**`Context`** is `safety_context`.

| Model | Code |
|---|---|
| `inherited`, `blocks` | the context variables of a task: what it was started with, and the blocks it is inside |
| `Effective` | the policy of a block: the base policy, `Policy.narrow` with an adopted policy and with the block's own keywords, the monitor-mode rule, the tighter timeout and memory limit |
| `Open` | entering a block up to `tracemalloc.is_tracing()`, whose answer is `opening` |
| `Watch` | `start()`, unless tracing was on when asked, and the baseline |
| `Close` | leaving by return or exception |
| `Spawn` | a task is created inside a block and copies its context |
| `Allocate` | the traced heap grows or shrinks |

The quotas and cost budgets of a policy are sequences of accounts; its other tuples are one
sequence of `<<field, object>>`, where a field's tuple is the entries with its name.  Between
`Open` and `Watch` a thread may be stopped, so two may believe that they turned the tracer on;
the second `start()` does nothing.  `start()` and reading the baseline after it are one step.
An adopted policy gives its permissions and its tuples, and not
its timeout, memory limit or monitor mode, as the code does.

**`Safely`** is `safely()`: the roll-out decision (`ShouldRequire`, `Admitted`), the nonce
that verification spends (`Spend`), the keywords (`GrantedPermissions`, `SharedLimits`,
`NewQuotas`, `Restrictions`) and the entry itself (`Enter`, `Fail`, `Adopt`).  `Fail` is an
entry that raises after the envelope was verified: the envelope is spent and no block
opens.  In a shadowing mode an envelope that does not verify is let in with the
capabilities it claims in place of `allow=`, and without keys in local mode it is not
verified at all; both are the code's and `EnvelopePerBlock` is about required ones.

**`Metering`** is `metered()` with its two readers of streams.  A call goes through
`BeginCall` (price, `charge_call`), `Charge` for each budget in turn, `Charged` (the memory
check), `Answer` or `CallFails`; a stream through `NextChunk`, `Exhausted` or `Abandon`.
`RefusedElsewhere` is a refusal by a shared quota, which stands among the quotas, or by a rate
limit or a deadline after them: a choice here, with their state in `BackendQuota` and
`ToolPipeline`.  Shared quotas are not in `accounts`, so their place among the local ones is
not kept: one may refuse before or after any of them.  A reply's `bill` is what the provider
makes it come to, in tokens of four kinds, known to the model and not to the code; its chunks
report running counts of it (`Truthful`), with the cached tokens inside the prompt or beside it.

**`Blocks`** puts these together: tasks enter, leave, start tasks and make model calls,
and a supervisor publishes narrowed documents.  In the modes of `Threaded` the tasks are
threads; in the others asyncio's, and no other task moves while a block opens (`MaySwitch`).

**`BudgetTables`** is what Redis and the SQL databases keep of a task, and the callers;
**`RedisBudget`** the Lua script, in which each limit writes before the next one is asked;
**`SqlBudget`** the transaction.

| Model | Code |
|---|---|
| `BeginCharge` | `charge()` reads the clock |
| `LookUp` | `BEGIN` and the idempotency record; SQLite takes its write lock, MySQL its snapshot |
| `ReadRow` | the task's row, locked in PostgreSQL when there is one |
| `Commit` | the limits, the writes and the commit; an `INSERT` that meets a key fails |
| `RollBack` | a limit refuses, the database fails, a deadlock is broken |
| `Release` | `release_concurrency` by a caller that has the lease |

**`NonceStores`** is `spend()` of the five stores, with the record each keeps and for how
long (`Ttl`, `Kept`, `Until`), DynamoDB's second look at a record it met (`Inspect`) and the
unconditional write over one that has expired (`Overwrite`), and failures before or after a
write.  **`Engines`** composes them: callers are in different
processes, so the lock a process has of its own orders none of them.

## 4. The runs

| Run | Instance | What it shows |
|---|---|---|
| `pipeline_limits` | 2 threads, 2 tools, five policies: four that share quotas of 3 and 1, a risk cap of 3 and a loop guard (1 of the last 3), one with 2 calls per 2 ticks and a deadline of 2; clock to 3, symmetric threads | no body starts unpaid, no risk goes uncharged, repetition is bounded across threads; the rolling window can be exceeded, by one late admission per thread and no more; a late call never runs |
| `pipeline_slots` | 2 threads, one of them the main thread, 2 arguments, two limits of one slot, a cache of one entry, bodies that return, raise, make calls of their own, hang and are abandoned or interrupted by the alarm; one block is forbidden the cached tool, one has a gate on it that must refuse | slots always balance, every entry of the cache can be evicted and the cache stays bounded, nothing gets past the permission check or a gate, a result another block cached included, every call ends |
| `store_shared` | one task, a worker in a plain block and one under an envelope, two charges that are retried at will, every limit at once, 2 charges per quota, clock to 2 | leases and their count agree, granted charges are booked once, no window is overfilled, every call and token let through is on the account, the contract holds |
| `gateway_mints` | one gateway process of two threads, two mints and a token charge that are retried at will, 2 calls, one token, one slot, one crash or lost connection, two agents that verify one envelope, clock to 2 | the account is exactly what was granted plus what the interruption left behind, an envelope is always for a charged request, it is accepted once while its window lasts, the contract holds |
| `transaction_tasks` | the owner and a helper, 3 steps, one cancelled compensation | no compensation is lost or runs twice, they run newest first, what is settled stays, a block that raises ends undone |
| `blocks` | two tasks, blocks two deep, the four roll-out modes, two documents (narrowed by each other in canary mode), three keyword sets, a genuine and a forged envelope, a plain reply and two streams, one of which reports the prompt before its cached part; the tasks are threads in shadow mode | policies only get stricter whatever a block is made from, memory limits excepted; no block leaves the tracer on, and asyncio tasks have it on just as long as the block that owns it; a required envelope opens one block, no spending escapes an outer budget, a reply is metered as no less than it is billed, and as no more but for cached tokens reported late |
| `blocks_wildcards` (violation) | one task, names on which matching is not transitive | the hypothesis of `RatchetSafe` is needed |
| `engines` | two processes, three requests that are retried at will against 3 calls, 3 tokens, risk 2, a window of 3, one repetition and two slots; one nonce spent twice; the seven stores | a request is booked once, accounts are what was granted, grants stay within limits, and a nonce is accepted once |

The violation runs each show one sentence of the repository that the code does not
keep (section 5).

Why these bounds are enough.  The pipeline's races need two threads in one tuple; a call
that a limit refused leaves what it had charged for the next call of either thread to
meet, at caps of 3 and 1.  The budgets and the pace share no object, so `BudgetsOrPace`,
the constraint of `pipeline_limits`, keeps a behaviour to the policies of one kind.  A risk of 2 against a cap of 3
leaves a remainder that a cheaper call still fits into.  The window is exceeded by
delay, so the clock must pass it while a thread sits between its clock and its lock;
the clock ends after the window and the deadline of 2.  Two limits and two threads are the least that can wait for
each other; one cache slot makes every store evict.  In the store, three calls, two
slots and a lease of one tick make every limit refuse and every lease lapse while
charges are retried.  In the gateway two calls and one slot leave a request over
when an interrupted charge has taken one; one failure shows what a failure costs, and
the clock passes a lease, the breaker's pause and an envelope's window.  In `blocks` a
ratchet fails between two blocks, a shared budget between two tasks; the bounds depend on
the mode, since metering needs no envelope and documents no metering: local mode has a
model call and two entries, canary mode a narrowed document, shadow and enforce mode
three entries for two envelopes.  An instance with two model calls, six times as large,
finds nothing more.  In `engines` every limit refuses some order of the three requests,
and a request is its own rival when it is retried by the other process; the clock goes to
3, past a lease, a window and the nonce's end, and to 2 for Redis, whose records last two
ticks.  A second has two ticks, so that Redis's whole seconds round.  PostgreSQL and
MySQL spend nonces as SQLite does and only charge.  Three steps
give a stack in which a middle one can fail.

Named bounds: `MaxTime` ends the clock, `MaxOrphans` stops counting abandoned
workers, `MaxSeq` ends a quota's charges, `MaxEnvelopes` the envelopes, `MaxFailures` the
crashes and lost connections, `MaxInterrupts` the cancellations, and `Presented` says
which envelopes agents verify.  The
quota bounds the number of bodies in `pipeline_limits` and `pipeline_slots`; the
other counters are bounded by the code's own caps.

`MaxDepth`, `MaxEntered`, `MaxCalls`, `MaxDocuments` and `MaxHeap` bound `blocks`,
`MaxSpends`, the request ids and `Leases` bound `engines`.

`transaction_tasks` turns the deadlock check off because the tasks leave the block
for good, `blocks`, `blocks_narrow`, `blocks_wildcards` and `engines` because they stop at their bounds,
`store_one_run` because quotas stop at `MaxSeq`, and `pipeline_repeated`
because its counterexample is the call that waits for itself.

Fairness.  A thread keeps running (`WF(Step(t))`), which includes that timers fire
and that a waiting thread takes a slot that stays free.  A body ends unless its tool
is in `Hangs`; a tool in `Hangs` ends only by a timeout, and by the alarm only while its
timer is set.  Nothing makes a thread begin
a call, or an abandoned worker end.  Weak fairness of `Acquire` is all that a
semaphore gives; `CallsEnd` holds nevertheless because quota charges bound how often
others can take the slot first, and it needs that the limits are acquired in one
order, no tuple names a limit twice (`pipeline_repeated` drops this), and that in the main
thread a tool that may hang makes no guarded call (a limit of the code, section 5).  A
compensation ends or is cancelled (`WF(Compensated \/ Interrupt)`); nothing else in a
transaction is forced.

## 5. Where code and documents disagree

- `pipeline_hit`: `_cache_hit` tests the key and `run_tool_call` reads it later;
  another thread's eviction in between makes the call fail with `KeyError`.
- `pipeline_repeated`: a concurrency limit shared by an outer and a nested block is
  acquired twice by one call, which waits for itself when the cap is one.
- `store_one_run`: two blocks given the same `RunContext` send the same request ids,
  and the second block's calls cost nothing.
- `blocks_narrow`: two documents that allow nothing in common narrow to an empty allow
  list, which `permissions()` and `safely()` read as `*`.  `IntersectNarrows` (section 6)
  says that the intersection itself is right; what goes wrong is the reading of an empty
  one.
- `blocks_wildcards`: `intersect` keeps a pattern that the other set matches as a text; `?`
  matches the text `*`, so `v?` intersected with `v*` allows what `v?` does not.

Limits of the code that the models show and no run states:

- A body that timed out goes on in its worker thread after its slot is free
  (`core/runtime.py`), so more bodies may run than `max_concurrent`; only callers are bounded.
- `MemoryBackend` books calls, rate and loop entries before a later limit refuses, and the
  Redis script leaves rate, loop and lease entries behind; SQL and the document stores
  leave nothing.
- Two MySQL transactions read the same row, without `FOR UPDATE`, and write over each
  other's sum; `AccountsExact` and `GrantedWithinLimits` except that database.
- Redis does not count tokens, and its idempotency records are per task and last a while;
  SQL's are for all tasks and last.
- A guarded or metered call inside a body of the main thread sets the process's one timer for
  itself and switches it off when it ends (`core/runtime.py`); the body around it, if it then
  hangs, does so past its timeout.  `CallsEnd` fails when a tool is in `Hangs` and in `Nesting`.
- A nested block takes a heap baseline of its own for the memory limit it inherits
  (`core/context.py:254`), so the limit, which "can only tighten", starts over: a call that the
  outer block would refuse passes inside a nested one.
- The block that turned the tracer on turns it off when it is left; a task started inside it,
  or another task's block, has a memory limit that nothing measures from then on.  Two
  threads that enter blocks at once may both believe that they turned it on.
- A stream that reports its prompt whole, and what was cached of it only later, is merged
  with the cached tokens in two buckets, `input` and `cached` (`_merge`), although the
  docstring of `TokenUsage` says that each token is counted in exactly one bucket.
  `MeteredAsBilled` allows that much and no more.
- A cost that a budget refuses is not booked, so the calls after it still go out.

## 6. What is proved

Every theorem holds for every number of threads, tasks, tools, requests and limits, from
the named assumptions of the component's modules, which say what its constructors accept
and bound what the code takes as finite (threads, leases), and from the hypotheses in the
table.  A hypothesis is about the deployment, never about the state.

| Module | Theorem | Says | Hypothesis |
|---|---|---|---|
| `ToolPipelineProofs` | `TypeCorrect` | every variable keeps its type | |
| | `QuotaSafe` | bodies started and calls paid never exceed `calls_used`, which never exceeds `max_calls` | |
| | `SlotSafe`, `CallerSafe` | free and held slots add up to `max_concurrent`; callers inside a limited body are at most that | |
| | `AuthoritySafe` | no call runs, or returns a cached result, past the permission set or a gate that must refuse | |
| `LimitProofs` | `RiskSafe` | the risk of every body was charged before, within `max_risk` | |
| | `LoopSafe` | of the calls a loop guard remembers, at most `max_identical` alike were let through | |
| | `RateSafe` | a window is overrun by at most one call per thread | |
| | `DeadlineSafe` | a call that begins too late never reaches its body | |
| | `CacheTrackedSafe`, `CacheBoundedSafe` | every cached entry can be evicted; the cache outgrows its bound by the storing threads at most | |
| `BlocksProofs` | `IntersectNarrows` | the intersection of two permission sets allows nothing either forbids | `Transitive` |
| | `RatchetSafe` | no block has more authority, a looser timeout, fewer limits or a weaker mode than the one around it; memory limits are not in it | `Transitive` |
| | `TracingSafe` | the tracer is on only while a block is open that turned it on; among asyncio tasks, exactly as long as the one block that did | |
| | `EnvelopesSafe` | a required envelope opens one block, with no more authority than it grants | `Transitive` |
| | `BlocksTyped` | types of blocks, policies, accounts and metered calls | |
| | `SpendingSafe` | no nested budget shows more spending than the budgets around it, and none more than its limit | |
| | `MeteredExactly` | a reply that was read to its end is metered as no less than the provider's bill, and as no more but for cached tokens that a chunk left in the prompt | reports are running counts that reach the bill (`Truthful`) |
| `TransactionProofs` | `TransactionTyped` | types | |
| | `AccountedSafe`, `SettledSafe`, `NewestSafe`, `RaisedSafe` | no compensation is lost or runs twice, settled ones stay so, newest run first, a block that raised leaves none behind | |
| `StoreProofs` | `StoreTyped`, `LeasesSafe` | types; the semaphore counts exactly the leases, each of a granted request | |
| | `BooksSafe` | what was granted is on the books once, and the books within the budgets | one risk and token budget (`SameBudgets`) |
| | `GrantRateSafe` | no window sees more granted calls than the limit | one rate limit (`SameRate`) |
| | `CallsSafe`, `TokensSafe` | what the quotas let through is on the account | a run of its own for every block, quotas with limits (`OwnIds`, `CallsLimited`, `TokensLimited`) |
| | `KeepsContract` | the memory store implements `SharedBudget` | one set of limits (`OneLimit`) |
| `EnginesProofs` | `NonceSafe` | an envelope is accepted once in its window, in all seven stores | |
| | `RequestsSafe` | a request is booked once, in Redis once per lifetime of its record; MySQL included | |
| | `AccountsSafe` | accounts are what was granted; MySQL excepted | |
| | `GrantsSafe` | grants stay within budgets and slots; MySQL excepted | callers agree on the limits (`Agreed`) |
| | `EnginesTyped` | types of tables, records, views and callers, MySQL included; Redis's lists stay short | lease ids without end (`LeasesNeverEnd`) |
| `GatewayProofs` | `AcceptedSafe` | an envelope is accepted once in its window | |
| | `BookedSafe` | a charge is booked once and within the cap | one process on the document (`OneProcess`), one cap |
| | `PaidSafe` | every envelope is for a request on record and paid for | one process, a request id is of one task (`OwnTask`) |
| | `KeepsContract` | the document store implements `SharedBudget` | one process, one cap and one number of slots, lease ids without end (`LeasesNeverEnd`) |
| | `GatewayTyped` | types; the breaker opens at the threshold and closes below it | lease ids without end |

Every proof has one lemma per group of actions and one step per action.  The hypotheses
are needed.  Without `Transitive` the run `blocks_wildcards` violates `Ratchet`; without
runs of their own `store_one_run` violates `EveryCallCharged`; with two processes on one
document the mutant without the lock violates `BookedOnce`; a lease id is a random number
in the code, so `LeasesNeverEnd` says that the set it is drawn from is infinite and the
tasks are finitely many, where TLC's instances have as many ids as their bounds need;
callers with different limits
replace each other's objects in `MemoryBackend`, which the code promises nothing about.

*Sums.*  `Lemmas` has what every argument about accounts uses: a sum over a set with one
more member (`SumAdd`, `SumGrow`), one member with more (`SumRaise`), no less for more
members (`SumMore`), no less along an injection (`SumInject`), the same for the same values
(`SumSame`), each from the cardinality of a set of units.

*Quotas and risk.*  `QuotaCoversBodies` counts the threads that have paid and not started.
A thread at rest must not count, and one that begins must start at position 1, so the
inductive invariant is `TypeOK`, `AtRest` and `QuotaCoversBodies`.  A charge adds a payer and
a call together, unless the thread had already paid the same quota through an outer
block: then only the call is added, which is why the invariant is an inequality.
`RiskInv` is the same argument with points of risk for calls.

*Slots.*  `SlotsBalanced` is an equation: a unit is a thread and a position in its tuple,
which counts a limit named twice twice; the units are finite, `Acquire` adds and `Release`
removes exactly one.  `CallersWithinCap` follows, since the callers inject into the units.

*Pace.*  `PaceInv` says, for every start of a window at the clock or later than it lies in
the past, that admissions inside and threads with an older stamp are at most the deque's
own timestamps and one per thread: a thread is paid for by its stamp before it is
admitted.  `DeadlineInv` says where a late call can still be: before the deadline's lock.
`LoopInv` pairs each remembered signature with whether its call passed.

*Cache.*  `CacheTracked` is inductive; the bound needs also that the order list is longer
than `CacheMax` only by the threads that are about to shorten it (`OrderBounded`).

*Authority.*  The inductive invariant adds the stages between the permission check and the
gates and those after the body, with monitor mode as the one way around.

*Blocks.*  `Ratchet` compares neighbours on a stack, so `RatchetInv` adds what a policy has
to be for the comparison to mean anything (`StateOK`: tuples that name accounts, finite
sequences, documents as `to_dict` writes them) and what a task inherits.  `TracingInv`
adds, for asyncio tasks, that tracing has one owner or is off (`Owned`), and that at most one of
them is on its way into a block, where what `is_tracing()` told it is still so (`Alone`).  The ratchet rests on
`IntersectNarrows`: a pattern that another one matches as a text matches no more than it.

*Metered calls.*  `SpendingNested` compares two accounts between charges as well as after
them, while several tasks are part of the way through lists of charges of their own, so it is
not inductive.  `SpentOrdered` is: however many of its next charges each task makes, an
account has no more spent than those around it (`Total` is what those charges book to it).
It holds of a new list because the list is `Nested`, which is to say that each charge of an inner
account comes after one of the outer account with the same amount, a different one for
each; lists are so because tuples are, and tuples stay so when a block's own account is
appended to those it was opened in (`EnterBooks`), when a block adopts another task's tuples
(`AdoptBooks`) and when tokens and costs are charged one after the other
(`ChargesNested`).  A charge that is booked moves an amount from `Total` to the accounts; one
that is refused drops a list, which the choice of no further charge covers.
`BillInv` says that a call's merged usage is, of every kind of token, the most that the chunks read
so far reported, and of the total that or the sum of the buckets (`Bills`).  `Truthful` speaks of the
reports alone: each is of a running count, never above what the bill comes to, and each
count reaches it in some chunk, not all in one.  From that every bucket is at least the
bill's, and only `input` can be more, by what a chunk did not carve out of the prompt.
`MCBlocks` states `Truthful` as an assumption about the replies of the instance, so TLC
evaluates it.
`BlocksAssumption` takes budgets to be no less than nothing (one below would
refuse every charge), `MeteringAssumption` says what reports, prices and plain replies are.

*Transactions.*  `TxInv` ties the stack, the tasks and the effects together (`Consistent`):
a step is done and stacked once, or undoing in one task, or settled; `Explained` says why
one may be kept or cut short.  The action properties follow from what a step keeps
(`Keeps`).

*Memory store.*  `StoreInv` relates each object of a task to the records: a lease to the
granted request that took it and to the count.  `BooksInv` follows the risk object that is
replaced with its limit; `FreshInv` says that an id a quota has not used is unknown to the
store, the step at which `OwnIds` is used, and so that each of its charges is a new one;
`RateInv` splits the past into the open window, whose timestamps are those of its grants,
and closed ones, in which nothing is granted any more.  `KeepsContract` shows `Init` and
each action to be an `Init`, a `Grant`, a `GiveBack` or a stutter of `SharedBudget`.

*Database stores.*  `AccountInv` says that a row that a transaction read is still the row
when it commits: SQLite by its write lock, PostgreSQL by the row's or, when there is no row
yet, by the primary key on which the second `INSERT` fails.  MySQL has neither, and the
invariant excepts it.  `NonceInv` says that the record of an accepted nonce is there until
the envelope's window ends, `RequestInv` that a booked request has a record as long as the
engine keeps it, `LimitInv` that rows and leases keep to the limits.

*Gateway.*  `NonceInv` is that argument for the store in memory.  `ChargeInv` says that one
worker at a time is inside the lock and that its request has no record (`Alone`), that the
document it is about to write is the present one and its charge (`Drafted`), and that
the account is what is recorded, what is being recorded and what a crash or a lost
connection left without a record (`Booked`).  For envelopes it is enough that granted
requests are on record and records stay (`EnvelopeInv`).  For the contract `SlotInv` adds
the leases: a document has no more than there are slots, the draft that will replace it
has the leases of the document and the one that was drawn, which no record has yet; then
`Record` is a `Grant` and `Replace`, which drops leases that lapsed, a `GiveBack`.  The
types need that the breaker's failures and the mints under way stay below the threshold and
the number of threads together, and that a closed breaker is below its threshold.

*Fresh ids.*  `NewLease` is a `CHOOSE`.  `NewLeaseIsNew` shows what it chooses to be in no
table, draft or record, because those are finite unions of finite sets and the ids are not;
the types of `Engines` and the contract of the gateway rest on it.

## 7. What is only model-checked

- `CallsEnd` and `BlockEnds`: liveness under fairness, beyond the proof system.
- What the violation runs show (section 5).
- How much memory a task may use: a memory limit holds against the innermost block's own
  baseline only, and only while the tracer is on.

## 8. What is not modelled

Left out: guards, sandbox, schema and validation, pure functions on values whose outcome
the pipeline has as a choice; audit formatting, tracing and the hash chain, whose state is
one hash and which takes no lock; the gateway's audit ingestion, its HTTP client and the
client's breaker; the parsing of amounts, sizes and environment variables; the tool
decorators and provider wrappers, which pass their arguments on; the compatibility
modules, the command line, examples and deployment files, which keep no state.  Several
processes on one MongoDB or DynamoDB document, and callers that charge one task with
different limits, are not instances: the code promises nothing there.  In `ToolPipeline`
memory limits are a choice of outcome (`check_memory` reads the heap of the whole
program); `Blocks` has the heap.  A call nested in a body has
no state of its own beside the alarm: it is a call of another thread, so that a body waiting for
slots its own call holds is not an instance (it deadlocks as `pipeline_repeated` does, for the
same reason).  Arguments are model values, so
the cache key and the loop signature are taken as exact: two calls have the same key
when their arguments are the same.
In the gateway, authentication, the service rate and the policy document are choices of
outcome, and signatures are taken as sound; MongoDB drops idempotency records after a
day, which is longer than any clock here.  `AcceptedOnce` ends with the window: at that
very moment the nonce store forgets the nonce, and an agent that tested the window just
before may still come to spend it.
