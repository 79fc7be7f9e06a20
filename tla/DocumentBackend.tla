--------------------------- MODULE DocumentBackend --------------------------
(***************************************************************************)
(* The budget stores that keep a task's account in one document,           *)
(* distributed/backends/mongo_backend.py and dynamo_backend.py.  A charge  *)
(* looks its request id up, reads the document, decides, writes the whole  *)
(* document back and records the id: four operations on the database, of   *)
(* which a crash or a lost connection may leave the later ones undone.     *)
(* The lock of a process keeps its own threads apart, not other processes. *)
(***************************************************************************)
EXTENDS BudgetRecords, Limits, Sums, Dicts

CONSTANTS Workers,    \* the threads that charge
          ProcessOf,  \* the process each of them runs in
          Jobs,       \* the charges they make: [req, lim]
          Leases,     \* lease ids (uuid4 in the code)
          MaxTime, MaxFailures  \* bounds: of the clock, of crashes and lost connections

ASSUME DocumentAssumption ==
  /\ Jobs # {} /\ \A j \in Jobs : j.req \in BudgetCharge /\ j.lim \in LimitSets
  /\ IsFiniteSet(Workers)
  /\ MaxTime \in Nat /\ MaxFailures \in Nat

VARIABLES documents, \* task -> its budget document
          idem,      \* request id -> its record, with the charge it stands for
          at,        \* per worker: where its charge is
          job,       \* per worker: the charge it is making
          stamp,     \* per worker: the time it read before it took the lock
          lease,     \* per worker: the lease id it drew
          draft,     \* per worker: the document it is about to write
          now,       \* time.time()
          failures,  \* history: crashes and lost connections
          wasted     \* history: per task, calls written whose record was never made

storeVars == <<documents, idem, at, job, stamp, lease, draft, now, failures, wasted>>
accounts == <<documents, idem, wasted>>

EmptyDocument ==
  [calls |-> 0, tokens |-> 0, risk |-> 0, rate |-> <<>>, loop |-> <<>>,
   leases |-> <<>>]

NoJob == CHOOSE j \in Jobs : TRUE

StoreInit ==
  /\ documents = [t \in Tasks |-> EmptyDocument] /\ idem = <<>>
  /\ at = [w \in Workers |-> "ready"] /\ job = [w \in Workers |-> NoJob]
  /\ stamp = [w \in Workers |-> 0]
  /\ lease = [w \in Workers |-> None]
  /\ draft = [w \in Workers |-> EmptyDocument]
  /\ now = 0 /\ failures = 0 /\ wasted = [t \in Tasks |-> 0]
-----------------------------------------------------------------------------
(* What a charge makes of the document it read                             *)

\* The calls of the last window, by their time (nothing depends on their order);
\* one is kept at the edge of it (>= cutoff).
RecentCalls(doc, lim, ts) ==
  [time \in {past \in DOMAIN doc.rate : past >= ts - lim.window} |-> doc.rate[time]]

\* n more calls at the time ts.
Counted(rate, n, ts) == With(rate, ts, Given(rate, ts, 0) + n)

\* The newest signature comes first and the history is cut at its length.
LoopAfter(doc, req, lim) ==
  LET longer == <<req.sig>> \o doc.loop
  IN  IF Len(longer) > lim.loopHistory THEN SubSeq(longer, 1, lim.loopHistory)
      ELSE longer

Live(doc, ts) == {l \in DOMAIN doc.leases : doc.leases[l] > ts}

\* Mutant: the slots are compared after the lease is added, with <= kept.
SlotFreeOneMore(doc, lim, ts) ==
  lim.maxConcurrent # None => Cardinality(Live(doc, ts)) <= lim.maxConcurrent

SlotFree(doc, lim, ts) ==
  lim.maxConcurrent # None => Cardinality(Live(doc, ts)) < lim.maxConcurrent

\* Every limit passes.  A refusal writes nothing.
Fits(doc, req, lim, ts) ==
  /\ lim.maxCalls # None => Affordable(doc.calls, req.callN, lim.maxCalls)
  /\ lim.maxTokens # None /\ req.tokens > 0
       => Affordable(doc.tokens, req.tokens, lim.maxTokens)
  /\ lim.maxRisk # None /\ req.risk > 0 => Affordable(doc.risk, req.risk, lim.maxRisk)
  /\ lim.rate # None
       => LET recent == RecentCalls(doc, lim, ts)
          IN  Affordable(SumOf(recent, DOMAIN recent), req.callN, lim.rate)
  /\ lim.maxIdentical # None
       => Occurrences(LoopAfter(doc, req, lim), req.sig) <= lim.maxIdentical
  /\ SlotFree(doc, lim, ts)

\* A lease id is new: no document, worker or record has it.  (It is drawn before
\* the lock is taken, and first seen in the document.)
NewLease ==
  CHOOSE l \in Leases :
    /\ \A t \in Tasks : l \notin DOMAIN documents[t].leases
    /\ \A w \in Workers : l # lease[w]
    /\ \A id \in DOMAIN idem : l # idem[id].lease

\* The document with the charge and its lease new.
Rewritten(doc, req, lim, ts, new) ==
  [calls |-> doc.calls + req.callN,
   tokens |-> doc.tokens + req.tokens,
   risk |-> doc.risk + req.risk,
   rate |-> IF lim.rate = None THEN doc.rate
            ELSE Counted(RecentCalls(doc, lim, ts), req.callN, ts),
   loop |-> IF lim.maxIdentical = None THEN doc.loop ELSE LoopAfter(doc, req, lim),
   leases |-> IF lim.maxConcurrent = None THEN doc.leases
              ELSE [l \in Live(doc, ts) \cup {new} |->
                      IF l \in Live(doc, ts) THEN doc.leases[l] ELSE ts + lim.leaseTtl]]

-----------------------------------------------------------------------------
(* charge(), in the steps that others can come between                     *)

\* Mutant: charge() takes no lock.
NeverLocked(p) == FALSE

Locked(p) == \E w \in Workers : ProcessOf[w] = p /\ at[w] \in {"read", "replace", "record"}

Await(w, stage) ==
  /\ at' = [at EXCEPT ![w] = stage]
  /\ UNCHANGED <<job, stamp, lease>>

\* The charge returns or raises.
Answer(w, result) ==
  /\ at' = [at EXCEPT ![w] = result]
  /\ stamp' = [stamp EXCEPT ![w] = 0]
  /\ lease' = [lease EXCEPT ![w] = None]
  /\ UNCHANGED job

\* The worker has its answer, or never gets one, and forgets the charge.
Forget(w) ==
  /\ at' = [at EXCEPT ![w] = "ready"]
  /\ job' = [job EXCEPT ![w] = NoJob]
  /\ stamp' = [stamp EXCEPT ![w] = 0]
  /\ lease' = [lease EXCEPT ![w] = None]

\* The clock is read before the lock is taken.
Enter(w, j) ==
  /\ at[w] = "ready"
  /\ at' = [at EXCEPT ![w] = "lookup"]
  /\ job' = [job EXCEPT ![w] = j]
  /\ stamp' = [stamp EXCEPT ![w] = now]
  /\ UNCHANGED <<accounts, lease, draft, now, failures>>

\* A recorded id gets its result again (cached=True).
LookUp(w) ==
  /\ at[w] = "lookup" /\ ~Locked(ProcessOf[w])
  /\ IF job[w].req.id \in DOMAIN idem THEN Answer(w, "granted") ELSE Await(w, "read")
  /\ UNCHANGED <<accounts, draft, now, failures>>

Read(w) ==
  LET req == job[w].req
      lim == job[w].lim
      doc == documents[req.task]
  IN
  /\ at[w] = "read"
  /\ IF Fits(doc, req, lim, stamp[w])
     THEN /\ draft' = [draft EXCEPT ![w] = Rewritten(doc, req, lim, stamp[w], NewLease)]
          /\ lease' = [lease EXCEPT ![w] = NewLease]
          /\ at' = [at EXCEPT ![w] = "replace"]
     ELSE /\ at' = [at EXCEPT ![w] = "refused"]
          /\ UNCHANGED <<draft, lease>>
  /\ stamp' = [stamp EXCEPT ![w] = 0]
  /\ UNCHANGED <<accounts, job, now, failures>>

Replace(w) ==
  LET t == job[w].req.task IN
  /\ at[w] = "replace"
  /\ documents' = [documents EXCEPT ![t] = draft[w]]
  /\ Await(w, "record")
  /\ UNCHANGED <<idem, wasted, draft, now, failures>>

\* How many calls each worker's charge is for.
CallsMade == [w \in Workers |-> job[w].req.callN]

\* History: the workers of W end without a record for what they wrote.
Waste(W) ==
  wasted' = [t \in Tasks |->
    wasted[t] + SumOf(CallsMade, {w \in W : at[w] = "record" /\ job[w].req.task = t})]

\* insert_one, or put_item on the condition that there is no record yet: the
\* loser of a race gets the winner's result.
Record(w) ==
  LET req == job[w].req IN
  /\ at[w] = "record"
  /\ IF req.id \in DOMAIN idem
     THEN UNCHANGED idem
     ELSE idem' = [id \in DOMAIN idem \cup {req.id} |->
                    IF id # req.id THEN idem[id]
                    ELSE [req |-> req, callsUsed |-> draft[w].calls,
                          lease |-> IF job[w].lim.maxConcurrent = None
                                    THEN None ELSE lease[w]]]
  /\ draft' = [draft EXCEPT ![w] = EmptyDocument]
  /\ Answer(w, "granted")
  /\ UNCHANGED <<documents, wasted, now, failures>>

\* Mutant: a lost connection is taken for success.
ConnectionIgnored(w) ==
  /\ at[w] \in {"read", "replace", "record", "granted"} /\ failures < MaxFailures
  /\ failures' = failures + 1
  /\ draft' = [draft EXCEPT ![w] = EmptyDocument]
  /\ Waste({w})
  /\ Answer(w, "granted")
  /\ UNCHANGED <<documents, idem, now>>

\* A database operation raises without having been done, or was done (the stage
\* before) and its answer is lost.
ConnectionLost(w) ==
  /\ at[w] \in {"read", "replace", "record", "granted"} /\ failures < MaxFailures
  /\ failures' = failures + 1
  /\ draft' = [draft EXCEPT ![w] = EmptyDocument]
  /\ Waste({w})
  /\ Answer(w, "refused")
  /\ UNCHANGED <<documents, idem, now>>

\* A process dies with all its workers; the database stays.
Crash(p) ==
  LET here == {w \in Workers : ProcessOf[w] = p}
      Lost(values, reset) == [w \in Workers |-> IF w \in here THEN reset ELSE values[w]]
  IN
  /\ failures < MaxFailures /\ \E w \in here : at[w] # "ready"
  /\ failures' = failures + 1
  /\ at' = Lost(at, "ready") /\ job' = Lost(job, NoJob) /\ stamp' = Lost(stamp, 0)
  /\ lease' = Lost(lease, None) /\ draft' = Lost(draft, EmptyDocument)
  /\ Waste(here)
  /\ UNCHANGED <<documents, idem, now>>

Tick ==
  /\ now < MaxTime
  /\ now' = now + 1
  /\ UNCHANGED <<accounts, at, job, stamp, lease, draft, failures>>

\* The steps of the store in the charge of one worker.
Charging(w) ==
  LookUp(w) \/ Read(w) \/ Replace(w) \/ Record(w) \/ ConnectionLost(w)
-----------------------------------------------------------------------------
TypedDocument(doc) ==
  /\ doc.calls \in Nat /\ doc.tokens \in Nat /\ doc.risk \in Nat
  /\ DOMAIN doc.rate \subseteq 0 .. MaxTime
  /\ \A time \in DOMAIN doc.rate : doc.rate[time] \in Nat
  /\ doc.loop \in Seq(Signatures)
  /\ DOMAIN doc.leases \subseteq Leases

StoreTypeOK ==
  /\ \A t \in Tasks : TypedDocument(documents[t])
  /\ DOMAIN idem \subseteq Ids
  /\ \A id \in DOMAIN idem :
       /\ idem[id].req \in BudgetCharge /\ idem[id].req.id = id
       /\ idem[id].callsUsed \in Nat /\ idem[id].lease \in Leases \cup {None}
  /\ at \in [Workers -> {"ready", "lookup", "read", "replace", "record",
                        "granted", "refused"}]
  /\ job \in [Workers -> Jobs] /\ stamp \in [Workers -> 0 .. MaxTime]
  /\ lease \in [Workers -> Leases \cup {None}]
  /\ now \in 0 .. MaxTime /\ failures \in 0 .. MaxFailures
  /\ wasted \in [Tasks -> Nat]

Recorded(t) == {id \in DOMAIN idem : idem[id].req.task = t}

CallsRecorded == [id \in DOMAIN idem |-> idem[id].req.callN]

Recording(t) == {w \in Workers : at[w] = "record" /\ job[w].req.task = t}

\* The account of a task is what its recorded requests carried, what is being
\* recorded, and what a crash or a lost connection left without a record:
\* however often requests are retried and wherever they are interrupted, no
\* charge is lost, none is made twice for any other reason, and the call
\* budget is not overdrawn (charge, for the workers of one process).
BookedOnce ==
  \A t \in Tasks :
    /\ documents[t].calls =
         SumOf(CallsRecorded, Recorded(t)) + SumOf(CallsMade, Recording(t)) + wasted[t]
    /\ \A lim \in LimitSets : lim.maxCalls # None => documents[t].calls <= lim.maxCalls
=============================================================================
