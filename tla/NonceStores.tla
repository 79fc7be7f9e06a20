---------------------------- MODULE NonceStores -----------------------------
(***************************************************************************)
(* spend() of the nonce stores (distributed/nonces.py) in memory, Redis,   *)
(* an SQL database, MongoDB and DynamoDB.  The callers are agents that     *)
(* verify an envelope, in processes of their own, except that the memory   *)
(* store is shared by threads of one.                                      *)
(***************************************************************************)
EXTENDS SqlBudget

CONSTANTS Nonces,
          ExpiresAt,   \* nonce -> the end of its envelope's window
          Second,      \* ticks of the clock in a second
          MaxSpends    \* bound, by engine: calls of spend()

VARIABLES nonces,      \* the records of the store: nonce -> until when
          spending,    \* per worker: the nonce it spends
          spends,      \* calls of spend() so far
          accepted     \* history: nonce -> True answers before its window's end

nonceVars == <<nonces, spending, spends, accepted>>

NonceEngines == {"memory", "mongo", "dynamo"} \cup BudgetEngines
NoNonce == CHOOSE n \in Nonces : TRUE

NoncesInit ==
  /\ nonces = <<>> /\ spends = 0
  /\ spending = [w \in Workers |-> NoNonce]
  /\ accepted = [n \in Nonces |-> 0]

Unspent == UNCHANGED <<engine, tables, now, job, view>>

\* spend() is called; time.time() is read first.
BeginSpend(w, n) ==
  /\ at[w] = "idle" /\ spends < MaxSpends[engine]
  /\ at' = [at EXCEPT ![w] = "spending"] /\ stamp' = [stamp EXCEPT ![w] = now]
  /\ spending' = [spending EXCEPT ![w] = n] /\ spends' = spends + 1
  /\ UNCHANGED <<nonces, accepted>> /\ Unspent

Answered(w, fresh) ==
  /\ at' = [at EXCEPT ![w] = "idle"] /\ stamp' = [stamp EXCEPT ![w] = 0]
  /\ spending' = [spending EXCEPT ![w] = NoNonce]
  /\ accepted' = IF fresh /\ now < ExpiresAt[spending[w]]
                 THEN [accepted EXCEPT ![spending[w]] = @ + 1] ELSE accepted
  /\ UNCHANGED spends /\ Unspent

\* Mutant: int() alone, which cuts the last part of a second off.
TtlCutOff(n, ts) == Second * Max({1, (ExpiresAt[n] - ts) \div Second})

\* max(1, int(expires_at - now) + 1), from seconds to ticks.
Ttl(n, ts) == Second * Max({1, (ExpiresAt[n] - ts) \div Second + 1})

\* The records that are still there when the store looks: the memory store and
\* MongoDB drop what had expired at the first reading of the clock (in
\* MongoDB the pruning may fail), the SQL store and Redis what has expired
\* now, DynamoDB nothing.
Kept(ts) ==
  CASE engine \in SqlEngines \cup {"redis"} -> {After(nonces, now)}
    [] engine = "memory" -> {After(nonces, ts)}
    [] engine = "mongo" -> {After(nonces, ts), nonces}
    [] engine = "dynamo" -> {nonces}

Until(n, ts) == IF engine = "redis" THEN now + Ttl(n, ts) ELSE ExpiresAt[n]

\* DynamoNonceStore says yes to what has expired and stores nothing.
Overdue(w) == engine = "dynamo" /\ ExpiresAt[spending[w]] <= stamp[w]

\* A record that is not there is made; the primary key, NX and the condition
\* let one caller make it.  DynamoDB's caller looks at the record it met.
Put(w) ==
  LET n == spending[w] IN
  /\ at[w] = "spending"
  /\ IF Overdue(w) THEN UNCHANGED nonces /\ Answered(w, TRUE)
     ELSE \E kept \in Kept(stamp[w]) :
       IF n \notin DOMAIN kept
       THEN nonces' = With(kept, n, Until(n, stamp[w])) /\ Answered(w, TRUE)
       ELSE /\ nonces' = kept
            /\ IF engine = "dynamo"
               THEN /\ at' = [at EXCEPT ![w] = "met"]
                    /\ UNCHANGED <<stamp, spending, spends, accepted>> /\ Unspent
               ELSE Answered(w, FALSE)

\* DynamoDB: get_item() finds the record gone, expired or standing.
Inspect(w) ==
  LET n == spending[w] IN
  /\ at[w] = "met"
  /\ IF n \in DOMAIN nonces /\ nonces[n] <= now
     THEN /\ at' = [at EXCEPT ![w] = "expired"]
          /\ UNCHANGED <<stamp, spending, spends, accepted>> /\ Unspent
     ELSE Answered(w, n \notin DOMAIN nonces)
  /\ UNCHANGED nonces

\* The second put_item() has no condition.
Overwrite(w) ==
  /\ at[w] = "expired"
  /\ nonces' = With(nonces, spending[w], ExpiresAt[spending[w]])
  /\ Answered(w, TRUE)

\* The database fails, before or after it has done what it was asked: False
\* from the SQL and MongoDB stores, an exception from the others.
SpendFails(w) ==
  LET n == spending[w] IN
  /\ engine # "memory" /\ at[w] \in {"spending", "met", "expired"}
  /\ \/ UNCHANGED nonces
     \/ /\ at[w] = "spending" /\ n \notin DOMAIN nonces /\ ~Overdue(w)
        /\ nonces' = With(nonces, n, Until(n, stamp[w]))
     \/ at[w] = "expired" /\ nonces' = With(nonces, n, ExpiresAt[n])
  /\ Answered(w, FALSE)

\* A table with a TTL attribute drops what has expired some time later.
Expire(n) ==
  /\ engine = "dynamo" /\ n \in DOMAIN nonces /\ nonces[n] <= now
  /\ nonces' = [m \in DOMAIN nonces \ {n} |-> nonces[m]]
  /\ UNCHANGED <<tableVars, spending, spends, accepted>>
=============================================================================
