------------------------------ MODULE Metering ------------------------------
(***************************************************************************)
(* metered() (core/usage.py, core/prices.py): a model call is charged      *)
(* before it is made, its reply's tokens and dollars when they are known.  *)
(* Budgets are shared by tasks and each has its own lock, so one charge is *)
(* one step and a reply's charges are several.                             *)
(***************************************************************************)
EXTENDS Safely

CONSTANTS PriceTable,  \* _PRICES: a sequence of <<substring, price>>
          ModelCalls,  \* how metered functions are called: [fixed, model]
          Replies,     \* what models answer: [stream, chunks, inside, bill];
                       \* inside if the provider counts cached tokens in the
                       \* prompt, and the bill is what the reply comes to
          MaxCalls     \* bound, by mode: model calls

VARIABLES meter,       \* per task: its metered call
          made         \* model calls begun

meterVars == <<meter, made>>

\* A report is a partial function from the fields providers use to counts.
ReportFields == {"input", "output", "total", "subset_cached", "additive_cached", "cache_write"}
IsReport(r) == DOMAIN r \subseteq ReportFields /\ \A field \in DOMAIN r : r[field] \in Nat

Usages == [input : Int, output : Int, cached : Int, cache_write : Int, total : Int]
Prices == [input : Int, output : Int, cached : Int, cache_write : Int]

\* A plain reply is one report.
ASSUME MeteringAssumption ==
  /\ DOMAIN PriceTable = 1..Len(PriceTable) /\ Len(PriceTable) \in Nat
  /\ \A i \in DOMAIN PriceTable : PriceTable[i][2] \in Prices
  /\ \A call \in ModelCalls : call.fixed \in Prices
  /\ \A reply \in Replies :
       /\ Len(reply.chunks) \in Nat /\ \A i \in 1..Len(reply.chunks) : IsReport(reply.chunks[i])
       /\ ~reply.stream => Len(reply.chunks) = 1
       /\ reply.inside \in BOOLEAN
       /\ reply.bill \in [fresh : Nat, output : Nat, cached : Nat, written : Nat]

Usage(in, out, cached, write, total) ==
  [input |-> in, output |-> out, cached |-> cached, cache_write |-> write, total |-> total]

NoUsage == Usage(None, None, None, None, None)
NoPrice == [input |-> None, output |-> None, cached |-> None, cache_write |-> None]
NoModel == <<>>
NoBill == [fresh |-> 0, output |-> 0, cached |-> 0, written |-> 0]
NoReply == [stream |-> FALSE, chunks |-> <<>>, inside |-> FALSE, bill |-> NoBill]

Larger(a, b) == IF a > b THEN a ELSE b

\* extract_usage(): buckets that do not overlap, and the larger of the total
\* and their sum.
ExtractUsage(report) ==
  LET n(field) == Given(report, field, 0)
      in == Larger(0, n("input") - n("subset_cached"))
      cached == n("subset_cached") + n("additive_cached")
  IN  IF DOMAIN report = {} THEN NoUsage
      ELSE Usage(in, n("output"), cached, n("cache_write"),
                 Larger(n("total"), in + n("output") + cached + n("cache_write")))

\* Mutant: the last chunk's report is taken for the whole.
MergeLast(a, b) == b

\* _merge(): chunks report running counts, not always all of them.
Merge(a, b) ==
  LET in == Larger(a.input, b.input)
      out == Larger(a.output, b.output)
      cached == Larger(a.cached, b.cached)
      write == Larger(a.cache_write, b.cache_write)
  IN  Usage(in, out, cached, write,
            Larger(Larger(a.total, b.total), in + out + cached + write))

Merged(merged, report) ==
  LET usage == ExtractUsage(report)
  IN  IF usage = NoUsage THEN merged
      ELSE IF merged = NoUsage THEN usage
      ELSE Merge(merged, usage)

\* Price.cost()
Cost(price, usage) ==
  LET rate(bucket) == IF price[bucket] = None THEN price.input ELSE price[bucket]
  IN  usage.input * price.input + usage.cached * rate("cached")
      + usage.cache_write * rate("cache_write") + usage.output * price.output

NamedIn(part, model) ==
  \E i \in 1..(Len(model) - Len(part) + 1) : SubSeq(model, i, i + Len(part) - 1) = part

\* find_price(): the first entry whose substring the model's name contains.
FindPrice(model) ==
  LET hits == {i \in DOMAIN PriceTable : NamedIn(PriceTable[i][1], model)}
      first == CHOOSE i \in hits : \A j \in hits : i <= j
  IN  IF hits = {} THEN NoPrice ELSE PriceTable[first][2]

\* _resolve_price(): a fixed price, else that of the call's model=.
ResolvePrice(call) ==
  IF call.fixed # NoPrice THEN call.fixed
  ELSE IF call.model = NoModel THEN NoPrice
  ELSE FindPrice(call.model)

\* An unknown model is refused when there is money to count.
Priceable(t, call) ==
  \/ ResolvePrice(call) # NoPrice
  \/ call.model = NoModel
  \/ Current(t).cost_budgets = <<>>

Idle == [phase |-> "idle", price |-> NoPrice, reply |-> NoReply, read |-> 0,
         merged |-> NoUsage, due |-> <<>>]

MeterInit == meter = [t \in Workers |-> Idle] /\ made = 0

\* Mutant: the innermost block's objects come first.
EachInsideOut(policy, field, resource, n) ==
  [i \in 1..Len(policy[field]) |-> <<Reverse(policy[field])[i], resource, n>>]

\* One charge to each object of a field, the outermost block's first.
Each(policy, field, resource, n) ==
  [i \in 1..Len(policy[field]) |-> <<policy[field][i], resource, n>>]

\* _charge() against the policy in force now: tokens, then money.
Charges(t, usage, price) ==
  IF usage = NoUsage THEN <<>>
  ELSE (IF usage.total > 0 THEN Each(Current(t), "quotas", "tokens", usage.total) ELSE <<>>)
       \o (IF price # NoPrice /\ Cost(price, usage) > 0
             THEN Each(Current(t), "cost_budgets", "usd", Cost(price, usage)) ELSE <<>>)

Become(t, state) == meter' = [meter EXCEPT ![t] = state]

InPhase(t, phase) == meter[t].phase = phase

Unmetered == UNCHANGED <<contextVars, config, spent, entries>>
-----------------------------------------------------------------------------
(* A call                                                                  *)

\* The wrapper is called; the call is charged to every quota.
BeginCall(t, call) ==
  /\ InPhase(t, "idle") /\ made < MaxCalls[config.mode]
  /\ Priceable(t, call)
  /\ Become(t, [Idle EXCEPT !.phase = "admitting", !.price = ResolvePrice(call),
                            !.due = Each(Current(t), "quotas", "calls", 1)])
  /\ made' = made + 1
  /\ UNCHANGED accounts /\ Unmetered

\* Quota.charge_call, Quota.charge_tokens, CostBudget.charge
Exceeds(account, resource, n) ==
  /\ account.max[resource] # None
  /\ account.used[resource] + n > account.max[resource]

\* The next charge is booked, or it raises and the others are not made.
Charge(t) ==
  /\ meter[t].due # <<>>
  /\ LET item == Head(meter[t].due)
         id == item[1]
     IN  IF Exceeds(accounts[id], item[2], item[3])
           THEN Become(t, Idle) /\ UNCHANGED accounts
           ELSE /\ accounts' = [accounts EXCEPT ![id].used[item[2]] = @ + item[3]]
                /\ Become(t, [meter[t] EXCEPT !.due = Tail(@)])
  /\ UNCHANGED made /\ Unmetered

\* The fields of the policy's other limits.
Kinds(t) == {Current(t).others[i][1] : i \in DOMAIN Current(t).others}

\* A shared quota among the quotas, or a rate limit or a deadline after them,
\* refuses the call.  Their own state is in BackendQuota and ToolPipeline.
RefusedElsewhere(t) ==
  /\ \/ meter[t].phase \in {"admitting", "charging"} /\ "shared_quota" \in Kinds(t)
     \/ /\ InPhase(t, "admitting") /\ meter[t].due = <<>>
        /\ Kinds(t) \cap {"per_second", "per_minute", "deadlines"} # {}
  /\ Become(t, Idle)
  /\ UNCHANGED <<made, accounts>> /\ Unmetered

\* All charges are made; a call goes out unless the memory limit is passed.
Charged(t) ==
  /\ meter[t].due = <<>>
  /\ \/ InPhase(t, "admitting") /\ MemoryFits(t)
        /\ Become(t, [meter[t] EXCEPT !.phase = "calling"])
     \/ InPhase(t, "admitting") /\ ~MemoryFits(t) /\ Become(t, Idle)
     \/ InPhase(t, "charging") /\ Become(t, Idle)
  /\ UNCHANGED <<made, accounts>> /\ Unmetered

\* The call raises or times out.
CallFails(t) ==
  /\ InPhase(t, "calling")
  /\ Become(t, Idle)
  /\ UNCHANGED <<made, accounts>> /\ Unmetered

\* A plain reply is charged at once; a stream when it has been consumed.
Answer(t, reply) ==
  /\ InPhase(t, "calling")
  /\ LET usage == ExtractUsage(reply.chunks[1])
     IN  Become(t, IF reply.stream
                     THEN [meter[t] EXCEPT !.phase = "streaming", !.reply = reply]
                     ELSE [meter[t] EXCEPT !.phase = "charging", !.reply = reply,
                             !.read = 1, !.merged = usage,
                             !.due = Charges(t, usage, meter[t].price)])
  /\ UNCHANGED <<made, accounts>> /\ Unmetered

\* The consumer takes the next chunk, in whatever block it is then.
NextChunk(t) ==
  /\ InPhase(t, "streaming") /\ meter[t].read < Len(meter[t].reply.chunks)
  /\ Become(t, [meter[t] EXCEPT !.read = @ + 1,
                  !.merged = Merged(@, meter[t].reply.chunks[meter[t].read + 1])])
  /\ UNCHANGED <<made, accounts>> /\ Unmetered

Exhausted(t) ==
  /\ InPhase(t, "streaming") /\ meter[t].read = Len(meter[t].reply.chunks)
  /\ Become(t, [meter[t] EXCEPT !.phase = "charging",
                  !.due = Charges(t, meter[t].merged, meter[t].price)])
  /\ UNCHANGED <<made, accounts>> /\ Unmetered

\* A stream nobody reads to its end is not charged.
Abandon(t) ==
  /\ InPhase(t, "streaming")
  /\ Become(t, Idle)
  /\ UNCHANGED <<made, accounts>> /\ Unmetered

Meter(t) ==
  \/ \E call \in ModelCalls : BeginCall(t, call)
  \/ Charge(t) \/ RefusedElsewhere(t)
  \/ Charged(t)
  \/ CallFails(t)
  \/ \E reply \in Replies : Answer(t, reply)
  \/ NextChunk(t)
  \/ Exhausted(t)
  \/ Abandon(t)
=============================================================================
