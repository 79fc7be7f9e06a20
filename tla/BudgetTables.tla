---------------------------- MODULE BudgetTables ----------------------------
(***************************************************************************)
(* What the budget stores keep in Redis (distributed/backends/             *)
(* redis_backend.py: keys of a task) and in an SQL database                *)
(* (sql_backend.py: tables with a scope key), and the callers, each a      *)
(* thread of a process of its own: threads of one process also take its    *)
(* lock, which only puts them in an order.                                 *)
(***************************************************************************)
EXTENDS BudgetRecords, Limits, Dicts, SequencesExt

CONSTANTS Workers,    \* the callers
          Jobs,       \* the charges they make: [req, lim]
          Engines,    \* the databases the stores may have
          Leases,     \* lease ids (uuid4 in the code)
          MaxTime     \* bound of the clock

VARIABLES engine,   \* the database in use, fixed
          budgets,  \* task -> its row (or hash): [calls, tokens, risk, stored]
          rates,    \* task -> its rate entries: <<id, i>> -> when
          loops,    \* task -> its loop entries: <<signature, when>>, newest first
          leases,   \* task -> its leases: lease -> when it expires
          idem,     \* the idempotency records: key -> [lease, until]
          grants,   \* history: the charges booked, [req, at]
          now,      \* time.time()
          at, job, stamp, \* per worker: the stage of its charge or spend, the
                          \* charge, and the time it read at its begin
          view      \* per worker: the rows of the task its transaction read

tables == <<budgets, rates, loops, leases, idem, grants>>
tableVars == <<engine, tables, now, at, job, stamp, view>>

BudgetEngines == {"redis", "sqlite", "postgres", "mysql"}
SqlEngines == BudgetEngines \ {"redis"}

NoRow == [calls |-> 0, tokens |-> 0, risk |-> 0, stored |-> FALSE]
NoRows == [row |-> NoRow, rates |-> <<>>, loops |-> <<>>, leases |-> <<>>]
NoJob == CHOOSE j \in Jobs : TRUE

TablesInit ==
  /\ engine \in Engines
  /\ budgets = [t \in Tasks |-> NoRow]
  /\ rates = [t \in Tasks |-> <<>>] /\ loops = [t \in Tasks |-> <<>>]
  /\ leases = [t \in Tasks |-> <<>>]
  /\ idem = <<>> /\ grants = <<>> /\ now = 0
  /\ at = [w \in Workers |-> "idle"] /\ job = [w \in Workers |-> NoJob]
  /\ stamp = [w \in Workers |-> 0] /\ view = [w \in Workers |-> NoRows]

Rows(t) == [row |-> budgets[t], rates |-> rates[t], loops |-> loops[t], leases |-> leases[t]]

\* The key of an idempotency record.  In SQL it has no scope.
IdemKey(req) == IF engine = "redis" THEN <<req.task, req.id>> ELSE <<req.id>>

\* The entries of a function that are later than a time.
After(f, time) == [e \in {d \in DOMAIN f : f[d] > time} |-> f[e]]

Stage(w, stage) ==
  /\ at' = [at EXCEPT ![w] = stage]
  /\ UNCHANGED <<job, stamp>>

\* The call of worker w returns or raises.
Return(w) ==
  /\ at' = [at EXCEPT ![w] = "idle"] /\ job' = [job EXCEPT ![w] = NoJob]
  /\ stamp' = [stamp EXCEPT ![w] = 0] /\ view' = [view EXCEPT ![w] = NoRows]

\* charge(): the clock is read, then the database is called.
BeginCharge(w, j) ==
  /\ engine \in BudgetEngines /\ at[w] = "idle"
  /\ at' = [at EXCEPT ![w] = "called"] /\ job' = [job EXCEPT ![w] = j]
  /\ stamp' = [stamp EXCEPT ![w] = now]
  /\ UNCHANGED <<engine, tables, now, view>>

\* uuid4(): no lease, in a table or in a record, has the new one.
NewLease ==
  CHOOSE l \in Leases :
    /\ \A t \in Tasks : l \notin DOMAIN leases[t]
    /\ \A key \in DOMAIN idem : l # idem[key].lease

Entries(req, ts) == [e \in {req.id} \X (1 .. req.callN) |-> ts]

\* The row with the charge; Redis has no token count.
Charged(row, req) ==
  [calls |-> row.calls + req.callN,
   tokens |-> IF engine = "redis" THEN 0 ELSE row.tokens + req.tokens,
   risk |-> row.risk + req.risk, stored |-> TRUE]

\* Mutant: what is booked is compared, not the sum.
SomeLeft(used, n, max) == max = None \/ n = 0 \/ used < max

\* A charge of nothing passes the token and risk budgets.
Fitting(used, n, max) == max = None \/ n = 0 \/ Affordable(used, n, max)

CallsFit(row, req, lim) == lim.maxCalls = None \/ Affordable(row.calls, req.callN, lim.maxCalls)

\* release_concurrency, by a caller that was given the lease.
Release(t, key) ==
  /\ engine \in BudgetEngines /\ key \in DOMAIN idem
  /\ idem[key].lease \in DOMAIN leases[t]
  /\ leases' = [leases EXCEPT ![t] = [l \in DOMAIN @ \ {idem[key].lease} |-> @[l]]]
  /\ UNCHANGED <<engine, budgets, rates, loops, idem, grants, now, at, job, stamp, view>>
=============================================================================
