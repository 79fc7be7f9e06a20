------------------------------- MODULE Blocks -------------------------------
(***************************************************************************)
(* Tasks that enter blocks from policy documents, keywords, envelopes and  *)
(* each other's policies, start tasks, and make metered model calls inside *)
(* them: PolicySpecs, Context, Safely and Metering together.               *)
(***************************************************************************)
EXTENDS Metering

CONSTANTS Documents,    \* the policy documents first published
          Keywords,     \* keywords of a direct safely() call
          Hooks,        \* run-time keywords of safely_from_spec()
          Threaded,     \* the modes in which the tasks are threads
          MaxDocuments, \* bound, by mode: published documents
          MaxEntered    \* bound, by mode: blocks entered

\* What a caller passes has the types of safely()'s keywords: names, and
\* numbers or None.  A budget below nothing would refuse every charge.
Budgets == Nat \cup {None}

Typed(kw) ==
  /\ Given(kw, "allow", {}) \cup Given(kw, "deny", {}) \cup Envelope(kw).caps \subseteq Names
  /\ {Given(kw, "timeout", None), Given(kw, "memory", None)} \subseteq Int
  /\ {Given(kw, "calls", None), Given(kw, "tokens", None), Given(kw, "budget", None)}
       \subseteq Budgets

TypedSpec(spec) ==
  /\ spec.allow \cup spec.deny \subseteq Names
  /\ {spec.timeout, spec.memory} \subseteq Int
  /\ {spec.calls, spec.tokens, spec.budget} \subseteq Budgets

ASSUME BlocksAssumption ==
  /\ MaxDepth \in Nat /\ MaxHeap \in Nat /\ IsFiniteSet(Workers)
  /\ Configs \subseteq [mode : Modes, keys : BOOLEAN] /\ Threaded \subseteq Modes
  /\ \A kw \in Keywords \cup Hooks : Typed(kw)
  /\ \A spec \in Documents : TypedSpec(spec)

VARIABLE entered        \* blocks entered so far

vars == <<contextVars, entryVars, meterVars, entries, entered>>

Init ==
  /\ ContextInit /\ EntryInit /\ MeterInit /\ RegistryInit(Documents)
  /\ entered = 0

\* A task that is inside all of its blocks, not on its way into one.
Inside(t) == opening[t] = "no"

\* A task enters and leaves blocks between its steps, or between the chunks
\* of a stream.
Free(t) == Inside(t) /\ meter[t].phase \in {"idle", "streaming"}

EnterFromSpec(t) ==
  \E spec \in Resolvable, hooks \in Hooks :
    /\ MayOpen(spec, hooks)
    /\ Enter(t, FromSpec(spec, hooks))

EnterDirectly(t) == \E kw \in Keywords : Enter(t, kw) \/ Fail(t, kw)

AdoptPolicy(t) == \E other \in Workers : Inside(other) /\ Adopt(t, other)

Entering ==
  /\ entered < MaxEntered[config.mode]
  /\ entered' = entered + 1
  /\ \E t \in Workers : Free(t) /\ (EnterFromSpec(t) \/ EnterDirectly(t) \/ AdoptPolicy(t))
  /\ UNCHANGED <<meterVars, entries>>

Watching ==
  /\ \E t \in Workers : Watch(t)
  /\ UNCHANGED <<entryVars, meterVars, entries, entered>>

Leaving ==
  /\ \E t \in Workers : Free(t) /\ Close(t)
  /\ UNCHANGED <<entryVars, meterVars, entries, entered>>

Spawning ==
  /\ \E t, child \in Workers : Free(t) /\ Free(child) /\ Spawn(t, child)
  /\ UNCHANGED <<entryVars, meterVars, entries, entered>>

Metered == (\E t \in Workers : Inside(t) /\ Meter(t)) /\ UNCHANGED entered

Heap == Allocate /\ UNCHANGED <<entryVars, meterVars, entries, entered>>

\* A supervisor narrows one document by another and publishes the result.
PublishDocument ==
  /\ Cardinality(DOMAIN entries) < MaxDocuments[config.mode]
  /\ \E a, b \in Resolvable : Publish(Narrow(a, b), 2)
  /\ UNCHANGED <<contextVars, entryVars, meterVars, entered>>

\* asyncio changes tasks where they wait, and no block waits while it opens; a
\* thread can be stopped between is_tracing() and start().
MaySwitch == config.mode \in Threaded \/ \A t \in Workers : Inside(t)

Next ==
  \/ Watching
  \/ /\ MaySwitch
     /\ Entering \/ Leaving \/ Spawning \/ Metered \/ Heap \/ PublishDocument

Spec == Init /\ [][Next]_vars
-----------------------------------------------------------------------------
(* What must hold                                                          *)

\* Every task has a policy, blocks with a policy each, and a metered call
\* that waits for known accounts; what was spent and published is known.
TypeOK ==
  /\ opening \in [Workers -> {"no", "traced", "untraced"}]
  /\ tracing \in BOOLEAN /\ heap \in 0..MaxHeap
  /\ config \in [mode : Modes, keys : BOOLEAN]
  /\ \A t \in Workers :
       /\ Len(blocks[t]) <= MaxDepth
       /\ Current(t).perms \in PermissionSet
       /\ \A i \in DOMAIN meter[t].due : meter[t].due[i][1] \in DOMAIN accounts
  /\ \A spec \in Resolvable : DOMAIN spec = Fields
  /\ \A e \in spent : e.genuine

\* The policies of a task from the one it was started with to its own.
Chain(t) == <<inherited[t].policy>> \o [i \in DOMAIN blocks[t] |-> blocks[t][i].policy]

NoLooser(inner, outer) == outer = None \/ (inner # None /\ inner <= outer)

Stricter(inner, outer) ==
  /\ Authority(inner.perms) \subseteq Authority(outer.perms)
  /\ \A field \in ObjectFields : IsPrefix(outer[field], inner[field])
  /\ outer.enforce => inner.enforce
  /\ NoLooser(inner.timeout, outer.timeout)

\* The one-way ratchet: whatever a block is made from, it grants no capability
\* the block around it withholds, keeps its timeout or a shorter one and all of
\* its limit objects, guards and gates, and does not go back to monitoring; a
\* started task stays under the policy it was started with.  Memory limits are
\* left out: a nested block measures them from a baseline of its own, and allows
\* a heap that the block around it would refuse.
Ratchet ==
  \A t \in Workers : \A i, j \in DOMAIN Chain(t) :
    (i < j /\ ~Chain(t)[i].root) => Stricter(Chain(t)[j], Chain(t)[i])

Starters == {x \in Workers \X (1..MaxDepth) :
               x[2] \in DOMAIN blocks[x[1]] /\ blocks[x[1]][x[2]].started}

\* No block leaves the process traced: while it is, a block is open that turned
\* tracing on.  Among asyncio tasks that is one block, and tracing stays on as
\* long as it is open; threads may each believe they turned it on, and the
\* first of them to leave turns it off for the others.
TracingOwned ==
  /\ tracing => Starters # {}
  /\ config.mode \notin Threaded =>
       Cardinality(Starters) <= 1 /\ (Starters # {} => tracing)

\* Where an envelope is required, a block is entered with a genuine one that
\* no block was entered with before, and allows no more than it says.
Enveloped(t) ==
  LET b == Last(blocks'[t])
  IN  Len(blocks'[t]) > Len(blocks[t]) /\ b.required =>
        /\ b.envelope.genuine /\ config.keys
        /\ b.envelope \in spent' \ spent
        /\ Authority(b.policy.perms) \subseteq Authority(Of(b.envelope.caps, {}))

EnvelopePerBlock == [][\A t \in Workers : Enveloped(t)]_vars

\* A budget of a nested block never shows more spending than the budgets of
\* the blocks it was opened in, whichever tasks spend and whatever is refused
\* half-way: no spending escapes an outer budget.
SpendingNested ==
  \A b \in DOMAIN accounts : \A r \in Resources :
    /\ accounts[b].max[r] # None => accounts[b].used[r] <= accounts[b].max[r]
    /\ \A outer \in accounts[b].under : accounts[b].used[r] <= accounts[outer].used[r]

\* What a provider may report of a reply it bills.  A report is of a running
\* count, never more than the reply comes to, and sooner or later each count is
\* reported in full; of the total, which some never report, nothing is asked.
Tokens(bill) == bill.fresh + bill.output + bill.cached + bill.written

Actual(reply) ==
  LET bill == reply.bill
      inside == IF reply.inside THEN bill.cached ELSE 0
  IN  [input |-> bill.fresh + inside, output |-> bill.output, total |-> Tokens(bill),
       subset_cached |-> inside, additive_cached |-> bill.cached - inside,
       cache_write |-> bill.written]

Truthful(reply) ==
  LET reports == {reply.chunks[i] : i \in 1..Len(reply.chunks)}
      says(report, field) == field \in DOMAIN report
  IN  /\ \A r \in reports : \A field \in DOMAIN r : r[field] <= Actual(reply)[field]
      /\ \A field \in ReportFields \ {"total"} : Actual(reply)[field] > 0 =>
           \E r \in reports : says(r, field) /\ r[field] = Actual(reply)[field]

\* With every count of the prompt comes the cached part of it.
Carved(reply) ==
  \A i \in 1..Len(reply.chunks) :
    LET r == reply.chunks[i]
    IN  Given(r, "input", 0) <= reply.bill.fresh + Given(r, "subset_cached", 0)

\* Every token in one bucket: what a reply should be metered as.
Billed(bill) ==
  Usage(bill.fresh, bill.output, bill.cached, bill.written, Tokens(bill))

AsBilled(usage, reply) ==
  IF usage = NoUsage THEN Tokens(reply.bill) = 0
  ELSE LET extra == usage.input - reply.bill.fresh
       IN  /\ extra \in 0..reply.bill.cached
           /\ usage = [Billed(reply.bill) EXCEPT !.input = @ + extra, !.total = @ + extra]
           /\ Carved(reply) => extra = 0

\* The replies that have been read to their end.
IsRead(m) ==
  m.phase = "charging" \/ (m.phase = "streaming" /\ m.read = Len(m.reply.chunks))

\* However its counts are spread over the chunks, a reply that has been read to
\* its end is metered as no less than the provider bills: no bucket is lost
\* between the chunks.  What can be counted twice is the cached part of a
\* prompt, and that only if a chunk reports the prompt without it (_merge).
MeteredAsBilled ==
  \A t \in Workers : IsRead(meter[t]) => AsBilled(meter[t].merged, meter[t].reply)

\* "derives a strictly tighter spec": a document that is published as one
\* narrowed by another allows nothing either of them forbids.
NarrowedIsTighter ==
  [][\A h \in DOMAIN entries' \ DOMAIN entries :
       \E a, b \in Resolvable :
         /\ FromDict(h) = Narrow(a, b)
         /\ Authority(SpecPermissions(FromDict(h)))
              \subseteq Authority(SpecPermissions(a)) \cap Authority(SpecPermissions(b))]_vars
=============================================================================
