------------------------------- MODULE Safely -------------------------------
(***************************************************************************)
(* safely() (easy.py): plain keywords, and signed envelopes under the      *)
(* roll-out configuration (distributed/config.py), become a block of       *)
(* Context with the budgets that belong to it.                             *)
(***************************************************************************)
EXTENDS Context

CONSTANTS Everything,   \* the names that mean "*" in allow=
          Configs,      \* the deployments: [mode, keys]
          Canary        \* the task ids of the canary fraction

VARIABLES config,       \* DistributedConfig: [mode, keys]
          spent,        \* the nonce store: envelopes that were verified
          accounts      \* the Quota and CostBudget objects made so far

entryVars == <<config, spent, accounts>>

Modes == {"local", "shadow", "canary", "enforce"}
Resources == {"calls", "tokens", "usd"}
NoEnvelope == [task |-> "", caps |-> {}, genuine |-> FALSE]

EntryInit ==
  /\ config \in Configs
  /\ spent = {} /\ accounts = <<>>
-----------------------------------------------------------------------------
(* Roll-out                                                                *)

ShouldRequire(task) ==
  \/ config.mode = "enforce"
  \/ config.mode = "canary" /\ task \in Canary

ShouldShadow == config.mode \in {"shadow", "canary", "enforce"}

\* The run's task id, else the envelope's.
TaskOf(kw) == Given(kw, "run", Given(kw, "envelope", NoEnvelope).task)

Envelope(kw) == Given(kw, "envelope", NoEnvelope)
Required(kw) == ShouldRequire(TaskOf(kw))

\* EnvelopeVerifier.verify(): signature and window first, then the nonce.
Verifies(e) == e.genuine /\ e \notin spent

\* Mutant: what fails to verify is let in whenever the mode is a shadowing one.
AdmittedInShadow(kw) ==
  LET e == Envelope(kw)
  IN  IF e = NoEnvelope THEN ~Required(kw)
      ELSE IF config.keys THEN Verifies(e) \/ ShouldShadow
      ELSE ~Required(kw)

\* An envelope that fails is refused, unless it is only shadowed; without
\* keys nothing is verified.
Admitted(kw) ==
  LET e == Envelope(kw)
  IN  IF e = NoEnvelope THEN ~Required(kw)
      ELSE IF config.keys THEN Verifies(e) \/ (ShouldShadow /\ ~Required(kw))
      ELSE ~Required(kw)

\* Mutant: the nonce is spent before the signature is checked.
SpendFirst(kw) == spent' = spent \cup ({Envelope(kw)} \ {NoEnvelope})

\* verify() spends the nonce of a good envelope.
Spend(kw) ==
  spent' = spent \cup {e \in {Envelope(kw)} : config.keys /\ e.genuine}
-----------------------------------------------------------------------------
(* Keywords                                                                *)

Truthy(n) == n \notin {None, 0}

\* An envelope's capabilities, else _permissions(allow, deny).
GrantedPermissions(kw) ==
  LET allow == {IF p \in Everything THEN Star ELSE p : p \in Given(kw, "allow", {})}
      deny == Given(kw, "deny", {})
  IN  IF Envelope(kw) # NoEnvelope THEN Of(Envelope(kw).caps, {})
      ELSE IF allow = {} /\ deny = {} THEN NoPermissions
      ELSE Of(IF allow = {} THEN {Star} ELSE allow, deny)

\* With a backend and a run the shared store owns calls, tokens, rates, risk,
\* repetitions and concurrency.
Shared(kw) == "backend" \in DOMAIN kw /\ "run" \in DOMAIN kw

\* The limits a shared quota is charged against; with an envelope the call
\* was charged when it was minted.
SharedLimits(kw) ==
  LET perSecond == Given(kw, "per_second", None)
      perMinute == Given(kw, "per_minute", None)
  IN  [maxCalls |-> Given(kw, "calls", None), maxTokens |-> Given(kw, "tokens", None),
       rate |-> IF perSecond # None THEN perSecond ELSE perMinute,
       window |-> IF perSecond = None /\ Truthy(perMinute) THEN 60 ELSE 1,
       maxIdentical |-> Given(kw, "no_repeats", None),
       maxConcurrent |-> Given(kw, "at_most", None),
       maxRisk |-> Given(kw, "risk_budget", None),
       chargeCalls |-> Envelope(kw) = NoEnvelope]

Unlimited == [r \in Resources |-> None]
Unused == [r \in Resources |-> 0]

Objects(policy, field) == {policy[field][i] : i \in DOMAIN policy[field]}

Account(max, outer, field) ==
  [max |-> max, used |-> Unused, under |-> Objects(outer, field)]

\* The local quota: `elif calls or tokens`.
NewQuotas(kw, outer) ==
  LET calls == Given(kw, "calls", None)
      tokens == Given(kw, "tokens", None)
  IN  IF ~Shared(kw) /\ (Truthy(calls) \/ Truthy(tokens))
        THEN <<Account([Unlimited EXCEPT !["calls"] = calls, !["tokens"] = tokens],
                       outer, "quotas")>>
        ELSE <<>>

NewBudgets(kw, outer) ==
  IF "budget" \in DOMAIN kw
    THEN <<Account([Unlimited EXCEPT !["usd"] = kw["budget"]], outer, "cost_budgets")>>
    ELSE <<>>

\* Profiles: keywords to splat in.
Hardened ==
  "hide_secrets" :> TRUE @@ "block_injections" :> TRUE @@ "clean_text" :> TRUE
    @@ "no_repeats" :> 5

Observe == "monitor" :> TRUE @@ "log" :> TRUE

Added(wanted, object) == IF wanted THEN <<object>> ELSE <<>>

One(wanted, field, object) == Added(wanted, <<field, object>>)

\* _input_guards(): a guard is filed under its keyword; guards keep the order
\* of the blocks, and their order within one block is fixed.
InputGuards(kw) ==
  LET patterns == Given(kw, "block", {})
      longest == Given(kw, "max_input", None)
  IN  One(Given(kw, "clean_text", FALSE), "clean_text", TRUE)
      \o One(Given(kw, "block_injections", FALSE), "block_injections", TRUE)
      \o One(patterns # {}, "block", patterns)
      \o One(Truthy(longest), "max_input", longest)

\* _concurrency(): any at_most= but None is a limit, 0 too.
Concurrency(kw) ==
  LET atMost == Given(kw, "at_most", None)
  IN  One(~Shared(kw) /\ atMost # None, "concurrency_limits", atMost)

\* per_second wins over per_minute.
RateLimits(kw) ==
  LET perSecond == Given(kw, "per_second", None)
      perMinute == Given(kw, "per_minute", None)
  IN  One(~Shared(kw) /\ perSecond # None, "per_second", perSecond)
      \o One(~Shared(kw) /\ perSecond = None /\ perMinute # None, "per_minute", perMinute)

Approval(kw) == One(Given(kw, "ask", FALSE), "approvals", TRUE)

Reasoning(kw) ==
  LET patterns == Given(kw, "explain", {})
  IN  One(patterns # {}, "reasonings", patterns)

\* _constitution(): a rule needs a judge.
Judged(kw) == "rule" \in DOMAIN kw => "judge" \in DOMAIN kw

Constitution(kw) ==
  LET rules == Given(kw, "rule", {})
  IN  One(rules # {}, "constitutions", rules)

Preview(kw) == One(Given(kw, "preview", FALSE), "previews", TRUE)

Audit(kw) == One(Given(kw, "log", FALSE), "auditors", TRUE)

\* What the keywords add to the policy.
Restrictions(kw, outer) ==
  LET quotas == Len(NewQuotas(kw, outer))
      next == Len(accounts) + 1
      number(key) == Given(kw, key, None)
      lent(key) == ~Shared(kw) /\ Truthy(number(key))
  IN  [quotas |-> Added(quotas > 0, next),
       cost_budgets |-> Added("budget" \in DOMAIN kw, next + quotas),
       others |->
         One(Shared(kw), "shared_quota", SharedLimits(kw))
         \o RateLimits(kw)
         \o One(Truthy(number("total_seconds")), "deadlines", number("total_seconds"))
         \o Concurrency(kw)
         \o One(lent("risk_budget"), "risk_budgets", number("risk_budget"))
         \o One(lent("no_repeats"), "loop_guards", number("no_repeats"))
         \o InputGuards(kw)
         \o One(number("honeytoken") # None, "honeytoken", number("honeytoken"))
         \o One(Given(kw, "hide_secrets", FALSE), "hide_secrets", TRUE)
         \o Approval(kw) \o Reasoning(kw) \o Constitution(kw) \o Preview(kw)
         \o Audit(kw)]

ScopeOf(kw, outer) ==
  [Scope EXCEPT !.perms = GrantedPermissions(kw),
                !.more = Restrictions(kw, outer),
                !.timeout = Given(kw, "timeout", None),
                !.memory = Given(kw, "memory", None),
                !.enforce = IF Given(kw, "monitor", FALSE) THEN "off" ELSE "unset"]

-----------------------------------------------------------------------------
(* Entering                                                                *)

Enter(t, kw) ==
  LET outer == Current(t)
  IN  /\ Admitted(kw) /\ Judged(kw)
      /\ Spend(kw)
      /\ accounts' = accounts \o NewQuotas(kw, outer) \o NewBudgets(kw, outer)
      /\ Open(t, ScopeOf(kw, outer),
              [run |-> Given(kw, "run", RunOf(t)), required |-> Required(kw),
               envelope |-> Envelope(kw)])
      /\ UNCHANGED config

\* A keyword is wrong: the block is not entered, the envelope is spent.
Fail(t, kw) ==
  /\ Admitted(kw) /\ ~Judged(kw)
  /\ Spend(kw)
  /\ UNCHANGED <<contextVars, config, accounts>>

\* safety_context(policy=...) with the policy another task runs under.
Adopt(t, other) ==
  /\ other # t /\ InContext(other)
  /\ Open(t, [Scope EXCEPT !.policy = Current(other)],
          [run |-> RunOf(t), required |-> FALSE, envelope |-> NoEnvelope])
  /\ UNCHANGED entryVars
=============================================================================
