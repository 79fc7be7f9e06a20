----------------------------- MODULE SqlBudget ------------------------------
(***************************************************************************)
(* SqlBudgetBackend.charge (distributed/backends/sql_backend.py): a        *)
(* transaction that looks the request id up, reads the task's row, decides *)
(* and writes.  What comes between depends on the database: SQLite begins  *)
(* it with the write lock; PostgreSQL (READ COMMITTED) locks the row it    *)
(* reads, if there is one; MySQL (REPEATABLE READ) reads what was          *)
(* committed when the transaction first read, and locks nothing.           *)
(***************************************************************************)
EXTENDS RedisBudget

InTransaction(w) == at[w] \in {"looked", "read"}

\* Mutant: PostgreSQL's SELECT is without FOR UPDATE.
NobodyHoldsRow(t) == TRUE

RowFree(t) ==
  \A w \in Workers : ~(at[w] = "read" /\ job[w].req.task = t /\ view[w].row.stored)

\* BEGIN, and the idempotency record.
LookUp(w) ==
  LET req == job[w].req IN
  /\ engine \in SqlEngines /\ at[w] = "called"
  /\ engine = "sqlite" => \A other \in Workers : ~InTransaction(other)
  /\ IF IdemKey(req) \in DOMAIN idem THEN Return(w)
     ELSE /\ Stage(w, "looked")
          /\ view' = [view EXCEPT ![w] = IF engine = "mysql" THEN Rows(req.task) ELSE NoRows]
  /\ UNCHANGED <<engine, tables, now>>

ReadRow(w) ==
  LET t == job[w].req.task IN
  /\ at[w] = "looked"
  /\ engine = "postgres" /\ budgets[t].stored => RowFree(t)
  /\ Stage(w, "read")
  /\ view' = IF engine = "mysql" THEN view ELSE [view EXCEPT ![w].row = budgets[t]]
  /\ UNCHANGED <<engine, tables, now>>

\* What the transaction sees of the task.
Seen(w) ==
  IF engine = "mysql" THEN view[w]
  ELSE [Rows(job[w].req.task) EXCEPT !.row = view[w].row]

\* Is S a possible answer to ORDER BY stamped_at DESC LIMIT k?
Newest(rows, k, S) ==
  /\ Cardinality(S) = Min({k, Len(rows)})
  /\ \A i \in S, j \in DOMAIN rows \ S : rows[i][2] >= rows[j][2]

LoopFits(rows, req, lim, ts) ==
  LET longer == << <<req.sig, ts>> >> \o rows
  IN  \E S \in SUBSET DOMAIN longer :
        /\ Newest(longer, lim.loopHistory, S)
        /\ Cardinality({i \in S : longer[i][1] = req.sig}) <= lim.maxIdentical

\* The entries the rate limit keeps: those at the edge of the window too.
InWindow(entries, lim, ts) == After(entries, ts - lim.window - 1)

\* Every limit passes in what the transaction sees.
Fits(seen, req, lim, ts) ==
  /\ CallsFit(seen.row, req, lim)
  /\ Fitting(seen.row.tokens, req.tokens, lim.maxTokens)
  /\ Fitting(seen.row.risk, req.risk, lim.maxRisk)
  /\ lim.rate # None =>
       Affordable(Cardinality(DOMAIN InWindow(seen.rates, lim, ts)), req.callN, lim.rate)
  /\ lim.maxIdentical # None => LoopFits(seen.loops, req, lim, ts)
  /\ lim.maxConcurrent # None =>
       Cardinality(DOMAIN After(seen.leases, ts)) < lim.maxConcurrent

\* Mutant: the record of the request is upserted.
KeysFreeUpserting(w) == view[w].row.stored \/ ~budgets[job[w].req.task].stored

\* No INSERT meets a row with its primary key, of the task or of the request.
KeysFree(w) ==
  /\ view[w].row.stored \/ ~budgets[job[w].req.task].stored
  /\ IdemKey(job[w].req) \notin DOMAIN idem

\* The writes, committed together.
Commit(w) ==
  LET req == job[w].req
      lim == job[w].lim
      t == req.task
      ts == stamp[w]
  IN
  /\ at[w] = "read"
  /\ Fits(Seen(w), req, lim, ts) /\ KeysFree(w)
  /\ budgets' = [budgets EXCEPT ![t] = Charged(view[w].row, req)]
  /\ rates' = IF lim.rate = None THEN rates
              ELSE [rates EXCEPT ![t] = Updated(InWindow(@, lim, ts), Entries(req, ts))]
  /\ loops' = IF lim.maxIdentical = None THEN loops
              ELSE [loops EXCEPT ![t] = << <<req.sig, ts>> >> \o @]
  /\ leases' = IF lim.maxConcurrent = None THEN leases
               ELSE [leases EXCEPT ![t] = With(After(@, ts), NewLease, ts + lim.leaseTtl)]
  /\ idem' = With(idem, IdemKey(req),
                  [lease |-> IF lim.maxConcurrent = None THEN None ELSE NewLease,
                   until |-> None])
  /\ grants' = Append(grants, [req |-> req, at |-> now])
  /\ Return(w)
  /\ UNCHANGED <<engine, now>>

\* A limit refuses, a key is taken, a deadlock is broken or the connection is
\* lost: the transaction is rolled back (or the script never ran) and charge()
\* raises.
RollBack(w) ==
  /\ at[w] = "called" \/ InTransaction(w)
  /\ Return(w)
  /\ UNCHANGED <<engine, tables, now>>
=============================================================================
