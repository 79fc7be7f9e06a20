---------------------------- MODULE PolicySpecs -----------------------------
(***************************************************************************)
(* Policy documents (distributed/policy_spec.py): the serializable form of *)
(* safely()'s keywords, as a function from field names to values.  A list  *)
(* field is a set, a number that is not given is None, a flag is a         *)
(* Boolean.                                                                *)
(***************************************************************************)
EXTENDS Permissions, Dicts, TLC

None == -1

ListFields == {"allow", "deny", "block", "explain", "rules"}
ScalarFields ==
  {"calls", "tokens", "per_second", "per_minute", "seconds", "at_most",
   "no_repeats", "risk_budget", "budget", "timeout", "memory", "max_input",
   "honeytoken"}
FlagFields ==
  {"block_injections", "clean_text", "hide_secrets", "ask", "monitor", "log"}
Fields == {"version"} \cup ListFields \cup ScalarFields \cup FlagFields

\* PolicySpec()
EmptySpec ==
  [f \in Fields |-> CASE f = "version"     -> 1
                      [] f \in ListFields   -> {}
                      [] f \in ScalarFields -> None
                      [] f \in FlagFields   -> FALSE]

\* The fields of a document that differ from their default.
Stated(spec) ==
  {"version"} \cup {f \in Fields \ {"version"} : spec[f] # EmptySpec[f]}

ToDict(spec) == [f \in Stated(spec) |-> spec[f]]

FromDict(dict) == [f \in Fields |-> Given(dict, f, EmptySpec[f])]

\* SHA-256 of the canonical JSON: what is published under it has that form.
PolicyHash(spec) == ToDict(spec)

\* permissions(): no allow list means everything.
SpecPermissions(spec) ==
  Of(IF spec.allow = {} THEN {Star} ELSE spec.allow, spec.deny)

\* budget_limits(): the limits a shared store is charged against.
SpecBudgetLimits(spec) ==
  LET minutely == spec.per_minute # None
  IN  [maxCalls |-> spec.calls, maxTokens |-> spec.tokens,
       rate |-> IF minutely THEN spec.per_minute ELSE spec.per_second,
       window |-> IF minutely THEN 60 ELSE 1,
       maxIdentical |-> spec.no_repeats, maxConcurrent |-> spec.at_most,
       maxRisk |-> spec.risk_budget]

\* to_kwargs(): the keywords of safely() that are passed; rules stay behind.
ToKwargs(spec) ==
  LET same == [f \in Stated(spec) \ {"version", "rules", "seconds"} |-> spec[f]]
  IN  IF spec.seconds = None THEN same ELSE With(same, "total_seconds", spec.seconds)

\* from_safely_kwargs()
FromSafelyKwargs(kw) ==
  [f \in Fields |->
     CASE f = "version" -> 1
       [] f = "seconds" -> Given(kw, "total_seconds", Given(kw, "seconds", None))
       [] f = "rules"   -> Given(kw, "rule", {})
       [] OTHER         -> Given(kw, f, EmptySpec[f])]

\* The smaller of two optional limits.
Tighter(a, b) == IF a = None THEN b
                 ELSE IF b = None THEN a
                 ELSE IF a < b THEN a ELSE b

\* narrow()
Narrow(spec, other) ==
  LET perms == Intersect(SpecPermissions(spec), SpecPermissions(other))
  IN  [f \in Fields |->
         CASE f = "version"    -> spec.version
           [] f = "allow"      -> perms.allow
           [] f = "deny"       -> perms.deny
           [] f = "honeytoken" -> IF spec[f] # None THEN spec[f] ELSE other[f]
           [] f = "monitor"    -> spec[f] /\ other[f]
           [] f \in {"block", "explain", "rules"}         -> spec[f] \cup other[f]
           [] f \in ScalarFields \ {"honeytoken"}         -> Tighter(spec[f], other[f])
           [] f \in FlagFields \ {"monitor"}              -> spec[f] \/ other[f]]

\* The keywords safely_from_spec() passes, given the run-time hooks; rules
\* need a judge.
MayOpen(spec, hooks) == spec.rules # {} => "judge" \in DOMAIN hooks

FromSpec(spec, hooks) ==
  LET kwargs == ToKwargs(spec)
  IN  Updated(IF spec.rules = {} THEN kwargs ELSE With(kwargs, "rule", spec.rules), hooks)
-----------------------------------------------------------------------------
(* PolicyRegistry                                                          *)

VARIABLE entries   \* policy hash -> the entry's version

\* The documents of a deployment are published when it starts.
RegistryInit(documents) == entries = [h \in {PolicyHash(d) : d \in documents} |-> 1]

Publish(spec, version) == entries' = With(entries, PolicyHash(spec), version)

\* The documents resolve() returns; what a hash stands for cannot change.
Resolvable == {FromDict(h) : h \in DOMAIN entries}
=============================================================================
