---------------------------- MODULE RedisBudget -----------------------------
(***************************************************************************)
(* RedisBudgetBackend.charge (distributed/backends/redis_backend.py): one  *)
(* Lua script, which Redis runs alone.  It writes as it goes, so the       *)
(* limit that refuses finds what the limits before it have recorded, and   *)
(* leaves it there.                                                        *)
(***************************************************************************)
EXTENDS BudgetTables

CONSTANT IdemTtl   \* how long Redis keeps a record

Recorded(req) == IdemKey(req) \in DOMAIN idem /\ idem[IdemKey(req)].until > now

\* Mutant: LTRIM keeps one entry more.
LoopPushedOneMore(t, req, lim, ts) ==
  LET longer == << <<req.sig, ts>> >> \o loops[t]
  IN  SubSeq(longer, 1, Min({Len(longer), lim.loopHistory + 1}))

\* LPUSH, LTRIM
LoopPushed(t, req, lim, ts) ==
  LET longer == << <<req.sig, ts>> >> \o loops[t]
  IN  SubSeq(longer, 1, Min({Len(longer), lim.loopHistory}))

Repeats(rows, sig) == Cardinality({i \in DOMAIN rows : rows[i][1] = sig})

\* The script on the charge req; `atX` says that it reaches limit X.
Apply(req, lim, ts, lease) ==
  LET t == req.task
      recent == After(rates[t], ts - lim.window)
      pushed == LoopPushed(t, req, lim, ts)
      live == After(leases[t], ts)
      atRate == CallsFit(budgets[t], req, lim)
      rateFits == lim.rate = None \/ Affordable(Cardinality(DOMAIN recent), req.callN, lim.rate)
      atLoop == atRate /\ rateFits
      atLease == atLoop /\ (lim.maxIdentical = None
                              \/ Repeats(pushed, req.sig) <= lim.maxIdentical)
      atRisk == atLease /\ (lim.maxConcurrent = None
                              \/ Cardinality(DOMAIN live) < lim.maxConcurrent)
      granted == atRisk /\ Fitting(budgets[t].risk, req.risk, lim.maxRisk)
  IN
  /\ rates' = IF ~atRate \/ lim.rate = None THEN rates
              ELSE [rates EXCEPT ![t] = IF rateFits THEN Updated(recent, Entries(req, ts))
                                        ELSE recent]
  /\ loops' = IF atLoop /\ lim.maxIdentical # None
              THEN [loops EXCEPT ![t] = pushed] ELSE loops
  /\ leases' = IF ~atLease \/ lim.maxConcurrent = None THEN leases
               ELSE [leases EXCEPT ![t] = IF atRisk THEN With(live, lease, ts + lim.leaseTtl)
                                          ELSE live]
  /\ IF granted
     THEN /\ budgets' = [budgets EXCEPT ![t] = Charged(@, req)]
          /\ idem' = With(idem, IdemKey(req), [lease |-> lease, until |-> now + IdemTtl])
          /\ grants' = Append(grants, [req |-> req, at |-> now])
     ELSE UNCHANGED <<budgets, idem, grants>>

\* A recorded request gets its record again.
Script(w) ==
  /\ engine = "redis" /\ at[w] = "called"
  /\ IF Recorded(job[w].req) THEN UNCHANGED tables
     ELSE Apply(job[w].req, job[w].lim, stamp[w], NewLease)
  /\ Return(w)
  /\ UNCHANGED <<engine, now>>
=============================================================================
