------------------------------ MODULE Gateway -------------------------------
(***************************************************************************)
(* The policy gateway (distributed/gateway/server.py) over a document      *)
(* store: its threads charge a call and sign an envelope for it, behind a  *)
(* circuit breaker that lives in the process.  Agents verify envelopes     *)
(* (distributed/envelope.py) against a set of spent nonces they share      *)
(* (distributed/nonces.py, MemoryNonceStore).  Callers repeat a mint when  *)
(* the answer does not come.                                               *)
(***************************************************************************)
EXTENDS DocumentBackend, TLC

CONSTANTS Process,       \* the gateway's process
          Verifiers,     \* threads of agents that verify envelopes
          TokenJobs,     \* the charges that come to /v1/charge: tokens, no call
          Presented,     \* which of the envelopes agents present to them
          Ttl, Skew,     \* DEFAULT_TTL, CLOCK_SKEW_TOLERANCE
          FailureThreshold, OpenSeconds,
          MaxEnvelopes   \* bound: envelopes signed

ASSUME GatewayAssumption ==
  /\ TokenJobs \subseteq Jobs /\ Jobs \ TokenJobs # {}
  /\ \A j \in TokenJobs : j.req.callN = 0
  /\ Ttl \in Nat \ {0} /\ Skew \in Nat
  /\ FailureThreshold \in Nat \ {0} /\ OpenSeconds \in Nat
  /\ MaxEnvelopes \in Nat

VARIABLES failed, openedAt, \* CircuitBreaker._failures, ._opened_at
          envelopes,        \* nonce -> the envelope signed with it
          spent,            \* MemoryNonceStore._spent: nonce -> until when
          checked,          \* per verifier: the nonce it found valid, to be spent
          accepted          \* history: nonce -> how often verify accepted it
                            \* before the end of its window

breaker == <<failed, openedAt>>
verification == <<spent, checked, accepted>>
vars == <<storeVars, breaker, envelopes, verification>>

Closed == -1
NoNonce == 0

Init ==
  /\ StoreInit
  /\ failed = 0 /\ openedAt = Closed
  /\ envelopes = <<>> /\ spent = <<>> /\ accepted = <<>>
  /\ checked = [v \in Verifiers |-> NoNonce]
-----------------------------------------------------------------------------
(* The breaker                                                             *)

IsOpen == openedAt # Closed /\ now - openedAt < OpenSeconds

\* Mutant: mint() does not ask the breaker.
AskNothing == UNCHANGED breaker

\* is_open() resets a breaker whose time is over.
AskBreaker ==
  /\ ~IsOpen
  /\ IF openedAt = Closed THEN UNCHANGED breaker ELSE failed' = 0 /\ openedAt' = Closed

RecordFailure ==
  /\ failed' = failed + 1
  /\ openedAt' = IF failed + 1 >= FailureThreshold THEN now ELSE openedAt
-----------------------------------------------------------------------------
(* mint()                                                                  *)

Minting(w) == job[w] \notin TokenJobs

Signing == {w \in Workers : at[w] \notin {"ready", "refused"} /\ Minting(w)}

\* A mint behind a closed breaker comes to its charge (authenticated, within
\* the service rate, approved where the policy asks, capability permitted) ...
BeginMint(w, j) ==
  /\ j \notin TokenJobs
  /\ Cardinality(DOMAIN envelopes) + Cardinality(Signing) < MaxEnvelopes
  /\ AskBreaker
  /\ Enter(w, j)
  /\ UNCHANGED <<envelopes, verification>>

\* ... or raises before (no or bad token, service rate, malformed body).
BeginBadMint(w) ==
  /\ at[w] = "ready" /\ AskBreaker
  /\ at' = [at EXCEPT ![w] = "refused"]
  /\ job' = [job EXCEPT ![w] = CHOOSE j \in Jobs : j \notin TokenJobs]
  /\ UNCHANGED <<accounts, stamp, lease, draft, now, failures, envelopes, verification>>

\* ... or ends with no charge and no failure: the breaker is open, the policy asks
\* for an approval, the policy hash is unknown or the capability not permitted.
DeclineMint(w) ==
  /\ at[w] = "ready"
  /\ AskBreaker \/ (IsOpen /\ UNCHANGED breaker)
  /\ UNCHANGED <<storeVars, envelopes, verification>>

Store(w) == Charging(w) /\ UNCHANGED <<breaker, envelopes, verification>>

\* EnvelopeSigner.sign(); the request id is history.
Signed(req) ==
  [id |-> req.id, task |-> req.task, issuedAt |-> now, expiresAt |-> now + Ttl]

\* The charge was granted, now or to an earlier try: an envelope with a fresh
\* nonce is signed and the breaker told of the success.
Sign(w) ==
  /\ at[w] = "granted" /\ Minting(w)
  /\ LET nonce == Cardinality(DOMAIN envelopes) + 1 IN
     /\ envelopes' = With(envelopes, nonce, Signed(job[w].req))
     /\ accepted' = With(accepted, nonce, 0)
  /\ failed' = 0 /\ openedAt' = Closed
  /\ Forget(w)
  /\ UNCHANGED <<accounts, draft, now, failures, spent, checked>>

\* An exception on the way, a refusal by a limit included, counts as a failure.
MintFails(w) ==
  /\ at[w] = "refused" /\ Minting(w)
  /\ RecordFailure
  /\ Forget(w)
  /\ UNCHANGED <<accounts, draft, now, failures, envelopes, verification>>

\* charge_tokens(): the store is charged as for a mint, whatever the breaker says,
\* and the breaker is not told.
BeginTokens(w, j) ==
  /\ j \in TokenJobs
  /\ Enter(w, j)
  /\ UNCHANGED <<breaker, envelopes, verification>>

TokensDone(w) ==
  /\ at[w] \in {"granted", "refused"} /\ ~Minting(w)
  /\ Forget(w)
  /\ UNCHANGED <<accounts, draft, now, failures, breaker, envelopes, verification>>

\* The gateway restarts: its breaker is new.
Restart ==
  /\ Crash(Process)
  /\ failed' = 0 /\ openedAt' = Closed
  /\ UNCHANGED <<envelopes, verification>>
-----------------------------------------------------------------------------
(* verify()                                                                *)

\* The end of an envelope's window, the same for the window and for the nonce.
WindowEnd(nonce) == envelopes[nonce].expiresAt + Skew

\* The signature and the capability hold, and with one clock no envelope is too
\* early; the time is read, and later the nonce
\* is spent under the lock of the store.
CheckWindow(v, nonce) ==
  /\ checked[v] = NoNonce
  /\ now <= WindowEnd(nonce)
  /\ checked' = [checked EXCEPT ![v] = nonce]
  /\ UNCHANGED <<storeVars, breaker, envelopes, spent, accepted>>

\* Mutant: the nonce is kept for the lifetime without the skew.
SpendWithoutSkew(v) ==
  LET nonce == checked[v]
      kept  == {n \in DOMAIN spent : spent[n] > now}
  IN
  /\ nonce # NoNonce
  /\ spent' = [n \in kept \cup {nonce} |->
                 IF n \in kept THEN spent[n] ELSE envelopes[n].expiresAt]
  /\ accepted' = IF nonce \in kept \/ now >= WindowEnd(nonce) THEN accepted
                 ELSE [accepted EXCEPT ![nonce] = @ + 1]
  /\ checked' = [checked EXCEPT ![v] = NoNonce]
  /\ UNCHANGED <<storeVars, breaker, envelopes>>

\* MemoryNonceStore.spend (it reads the clock just before the lock; an older time
\* only drops less): what has expired is dropped, then a nonce that is
\* still there is refused.
Spend(v) ==
  LET nonce == checked[v]
      kept  == {n \in DOMAIN spent : spent[n] > now}
  IN
  /\ nonce # NoNonce
  /\ spent' = [n \in kept \cup {nonce} |->
                 IF n \in kept THEN spent[n] ELSE WindowEnd(n)]
  /\ accepted' = IF nonce \in kept \/ now >= WindowEnd(nonce) THEN accepted
                 ELSE [accepted EXCEPT ![nonce] = @ + 1]
  /\ checked' = [checked EXCEPT ![v] = NoNonce]
  /\ UNCHANGED <<storeVars, breaker, envelopes>>

Time == Tick /\ UNCHANGED <<breaker, envelopes, verification>>

Next ==
  \/ \E w \in Workers :
       \/ \E j \in Jobs : BeginMint(w, j) \/ BeginTokens(w, j)
       \/ BeginBadMint(w) \/ DeclineMint(w)
       \/ Store(w) \/ Sign(w) \/ MintFails(w) \/ TokensDone(w)
  \/ \E v \in Verifiers :
       \/ \E nonce \in Presented \cap DOMAIN envelopes : CheckWindow(v, nonce)
       \/ Spend(v)
  \/ Restart
  \/ Time

Spec == Init /\ [][Next]_vars
-----------------------------------------------------------------------------
TypeOK ==
  /\ StoreTypeOK
  /\ failed \in 0 .. FailureThreshold + Cardinality(Workers)
  /\ openedAt \in 0 .. MaxTime \cup {Closed}
  /\ DOMAIN envelopes = 1 .. Cardinality(DOMAIN envelopes)
  /\ \A nonce \in DOMAIN envelopes :
       /\ envelopes[nonce].id \in Ids /\ envelopes[nonce].task \in Tasks
       /\ envelopes[nonce].issuedAt <= now
  /\ DOMAIN spent \subseteq DOMAIN envelopes
  /\ checked \in [Verifiers -> DOMAIN envelopes \cup {NoNonce}]
  /\ DOMAIN accepted = DOMAIN envelopes

\* The requests that have got an envelope, some of them more than one.
Enveloped(t) == {envelopes[n].id : n \in {m \in DOMAIN envelopes : envelopes[m].task = t}}

\* Every request that got an envelope is on record and its calls are on the
\* task's account, through retries, crashes and lost connections, so the
\* requests with an envelope are never more than the budget pays for (mint).
EnvelopesPaid ==
  \A t \in Tasks :
    /\ Enveloped(t) \subseteq Recorded(t)
    /\ SumOf(CallsRecorded, Enveloped(t)) <= documents[t].calls

\* An envelope is accepted once, however many agents verify it at the same time
\* and however their clocks reads are delayed, until its window ends; what
\* is still between its check and its spend then is another matter, because
\* the store forgets the nonce at that moment (verify, MemoryNonceStore.spend).
AcceptedOnce == \A nonce \in DOMAIN accepted : accepted[nonce] <= 1

\* Every caller charges with the same limits.
TheLimits == CHOOSE lim \in LimitSets : TRUE

Contract ==
  INSTANCE SharedBudget WITH
    MaxCalls <- TheLimits.maxCalls,
    MaxConcurrent <- TheLimits.maxConcurrent,
    granted <- [id \in DOMAIN idem |->
                  [task |-> idem[id].req.task, n |-> idem[id].req.callN]],
    holders <- [t \in Tasks |->
                  {id \in Recorded(t) : idem[id].lease \in DOMAIN documents[t].leases}]

\* The document store implements the contract of a shared budget for the workers
\* of one process: with crashes, lost connections and retries a request is granted
\* once, within the call limit and, while its lease lasts, on a slot of its own
\* (charge).
ContractKept == Contract!Spec
=============================================================================
