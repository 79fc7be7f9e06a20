------------------------------- MODULE Limits -------------------------------
(***************************************************************************)
(* What one limit object decides while it holds its lock                   *)
(* (core/quota.py, core/limits.py).  Every operator here is the body of a  *)
(* `with self._lock:` block, as a function of the state it reads; the      *)
(* modules that own the state do the reading and the writing.              *)
(***************************************************************************)
EXTENDS Integers, Sequences, FiniteSets

\* A deadline whose clock has not started (Deadline._start is None).
NotStarted == -1

\* Mutants (each replaces the definition after it): the cap is tested before
\* the charge is added; the horizon has the wrong sign, so that every timestamp
\* counts as expired; the deadline has a grace tick; the repetition count
\* misses the call being recorded.
AffordableBeforeCharge(used, n, max) == used <= max

\* Quota.charge_call, RiskBudget.charge: spending n more stays within max.
Affordable(used, n, max) == used + n <= max

DropExpiredAll(times, horizon) == <<>>

\* RateLimit.charge drops timestamps from the left while they are at or
\* before the horizon.  It stops at the first live one, so an expired
\* timestamp that was recorded after a live one stays.
DropExpired(times, horizon) ==
  LET live == {i \in DOMAIN times : times[i] > horizon}
  IN  IF live = {} THEN <<>>
      ELSE SubSeq(times,
                  CHOOSE i \in live : \A j \in live : i <= j,
                  Len(times))

InTimeWithGrace(start, seconds, ts) ==
  start = NotStarted \/ ts - start <= seconds + 1

\* Deadline.charge: the first charge starts the clock, later ones pass while
\* the time elapsed is at most the budget.
InTime(start, seconds, ts) ==
  start = NotStarted \/ ts - start <= seconds

\* LoopGuard.record: the bounded history (deque(maxlen=history)) after one
\* more signature.
Remember(recent, sig, history) ==
  LET longer == Append(recent, sig)
  IN  IF Len(longer) > history THEN Tail(longer) ELSE longer

OccurrencesBefore(recent, sig) ==
  Cardinality({i \in DOMAIN recent : recent[i] = sig}) - 1

\* How often sig occurs in the history.
Occurrences(recent, sig) == Cardinality({i \in DOMAIN recent : recent[i] = sig})
=============================================================================
