------------------------------- MODULE Ledger -------------------------------
(***************************************************************************)
(* The three executors of the money rails (TransferExecutor,               *)
(* EWalletExecutorImpl, QRISExecutorImpl) as they run on PostgreSQL: one   *)
(* SERIALIZABLE transaction per attempt, at most MaxAttempts attempts,     *)
(* every statement that can wait or fail an action of its own.             *)
(*                                                                         *)
(* The database is modelled by what the executors rely on: row locks held  *)
(* to the end of the transaction, a snapshot taken by the first statement, *)
(* SQLSTATE 40001 when a row changed since the snapshot is locked or       *)
(* upserted, the two unique keys, and transactions whose effects appear    *)
(* whole at COMMIT or not at all.                                          *)
(***************************************************************************)
EXTENDS LedgerBase

CONSTANTS Workers,      \* executor calls that may run at the same time
          MaxAttempts,  \* maxSerializationRetries
          PoolSize,     \* DB_MAX_OPEN_CONNS
          MaxCalls,     \* bound: calls in a behaviour
          Faults        \* of the environment, a subset of AllFaults

AllFaults == {"cancel", "lostCommit", "lostClaim", "ssi"}
Refusals == {"NOT_FOUND", "INSUFFICIENT", "LIMIT", "SERIALIZATION", "CTX"}

ASSUME ConfigAssumption ==
    /\ MaxAttempts \in Nat \ {0}
    /\ PoolSize \in Nat \ {0}
    /\ MaxCalls \in Nat
    /\ Faults \subseteq AllFaults
    /\ 0 \in Days

VARIABLES
    txns, serial, balance, usage,   \* the committed tables, as in Postings
    day,        \* the WIB calendar day
    calls,      \* calls made so far (bounds the model)
    pc,         \* the statement each worker is about to run
    job,        \* its request and the WIBDate the service put in it
    attempt,    \* its attempt, from 1
    credit,     \* the account it credits, once resolved
    feeAcc,     \* the fee shard it drew
    held,       \* the rows of accounts it has locked FOR UPDATE
    seen,       \* the balances it read from them
    used,       \* daily_usage as its snapshot has it
    stale,      \* accounts others committed since its snapshot
    staleUse,   \* whether its row of daily_usage is among those
    answer      \* what the call returned

tables == <<txns, serial, balance, usage>>
clock == <<day, calls>>
attemptVars == <<credit, feeAcc, held, seen, used, stale, staleUse>>
vars == <<txns, serial, balance, usage, day, calls, pc, job, attempt, credit,
          feeAcc, held, seen, used, stale, staleUse, answer>>

NoJob == [req |-> NoRequest, day |-> 0]
NoAnswer == [code |-> "NONE", txn |-> 0]
Ok(id) == [code |-> "OK", txn |-> id]
Refused(code) == [code |-> code, txn |-> 0]

InTransaction == {"lock", "check", "insert", "upsert", "commit"}
Running == {"begin", "fetch", "backoff"} \cup InTransaction
PCs == {"idle", "done"} \cup Running

req(w) == job[w].req
Row(w) == UsageRow(req(w), job[w].day)
Rows(w) == LockSet(req(w), credit[w], feeAcc[w])
Wanted(w) == Rows(w) \ held[w]
InTx(w) == pc[w] \in InTransaction

(* The row of transactions is in, waiting for its commit: whoever inserts  *)
(* the same (user, key) waits for that commit.                             *)
Inserted(w) == pc[w] \in {"upsert", "commit"}
SameKey(v, w) == req(v).user = req(w).user /\ req(v).key = req(w).key
Existing(w) == {t \in txns : t.user = req(w).user /\ t.key = req(w).key}

(* The connection is released by the deferred Rollback, so a worker that   *)
(* fetches the existing transaction still has the first one.               *)
HoldsConn(w) == InTx(w) \/ pc[w] = "fetch"
FreeConn == Cardinality({w \in Workers : HoldsConn(w)}) < PoolSize

-----------------------------------------------------------------------------
Init ==
    /\ txns = {}
    /\ serial = 0
    /\ balance = Opening
    /\ usage = [row \in UsageRows |-> 0]
    /\ day = 0
    /\ calls = 0
    /\ pc = [w \in Workers |-> "idle"]
    /\ job = [w \in Workers |-> NoJob]
    /\ attempt = [w \in Workers |-> 0]
    /\ credit = [w \in Workers |-> 0]
    /\ feeAcc = [w \in Workers |-> 0]
    /\ held = [w \in Workers |-> {}]
    /\ seen = [w \in Workers |-> [a \in Accounts |-> 0]]
    /\ used = [w \in Workers |-> 0]
    /\ stale = [w \in Workers |-> {}]
    /\ staleUse = [w \in Workers |-> FALSE]
    /\ answer = [w \in Workers |-> NoAnswer]

(* The end of an attempt: commit, rollback, or the abort PostgreSQL makes  *)
(* of the transaction as soon as a statement fails. Locks and snapshot go. *)
EndAttempt(w) ==
    /\ credit' = [credit EXCEPT ![w] = 0]
    /\ feeAcc' = [feeAcc EXCEPT ![w] = 0]
    /\ held' = [held EXCEPT ![w] = {}]
    /\ seen' = [seen EXCEPT ![w] = [a \in Accounts |-> 0]]
    /\ used' = [used EXCEPT ![w] = 0]

ForgetStale(w) ==
    /\ stale' = [stale EXCEPT ![w] = {}]
    /\ staleUse' = [staleUse EXCEPT ![w] = FALSE]

Return(w, ans) ==
    /\ pc' = [pc EXCEPT ![w] = "done"]
    /\ answer' = [answer EXCEPT ![w] = ans]

(* The attempt ended with an error that is not retried.                    *)
Fail(w, code) ==
    /\ EndAttempt(w)
    /\ ForgetStale(w)
    /\ Return(w, Refused(code))
    /\ UNCHANGED <<tables, clock, job, attempt>>

SerializationUncounted(w) ==    \* mutant: no limit on the attempts
    /\ EndAttempt(w)
    /\ ForgetStale(w)
    /\ pc' = [pc EXCEPT ![w] = "backoff"]
    /\ UNCHANGED <<tables, clock, job, attempt, answer>>

(* SQLSTATE 40001: back off, unless this was the last attempt.             *)
Serialization(w) ==
    \/ /\ attempt[w] = MaxAttempts
       /\ Fail(w, "SERIALIZATION")
    \/ /\ attempt[w] < MaxAttempts
       /\ EndAttempt(w)
       /\ ForgetStale(w)
       /\ pc' = [pc EXCEPT ![w] = "backoff"]
       /\ UNCHANGED <<tables, clock, job, attempt, answer>>

-----------------------------------------------------------------------------
(* A service calls the executor, the WIB date of the moment in hand. Its   *)
(* claim in Redis keeps two calls with one key apart, unless it was lost.  *)
InFlight(r) ==
    \E v \in Workers : pc[v] # "idle" /\ req(v).user = r.user /\ req(v).key = r.key

Call(w) ==
    /\ pc[w] = "idle"
    /\ calls < MaxCalls
    /\ calls' = calls + 1
    /\ \E r \in Requests :
         /\ InFlight(r) => "lostClaim" \in Faults
         /\ job' = [job EXCEPT ![w] = [req |-> r, day |-> day]]
    /\ attempt' = [attempt EXCEPT ![w] = 1]
    /\ pc' = [pc EXCEPT ![w] = "begin"]
    /\ UNCHANGED <<tables, day, attemptVars, answer>>

(* BEGIN and the statements that read no account: the destination is       *)
(* resolved, the shards are drawn. The first of them takes the snapshot.   *)
Begin(w) ==
    /\ pc[w] = "begin"
    /\ FreeConn
    /\ DestinationOK(req(w))
    /\ \E c \in ShardChoices(req(w)) : credit' = [credit EXCEPT ![w] = c]
    /\ \E f \in FeeShards : feeAcc' = [feeAcc EXCEPT ![w] = f]
    /\ used' = [used EXCEPT ![w] = usage[Row(w)]]
    /\ pc' = [pc EXCEPT ![w] = "lock"]
    /\ UNCHANGED <<tables, clock, job, attempt, held, seen, stale, staleUse, answer>>

(* The destination is not an active customer, or is the source itself.     *)
BadDestination(w) ==
    /\ pc[w] = "begin"
    /\ FreeConn
    /\ ~DestinationOK(req(w))
    /\ Fail(w, "NOT_FOUND")

NextRowUnsorted(w, a) ==        \* mutant: the rows in any order
    /\ pc[w] = "lock"
    /\ a \in Wanted(w)

(* SELECT ... FOR UPDATE, one row at a time, ascending; it waits while     *)
(* another transaction has the row.                                        *)
NextRow(w, a) ==
    /\ pc[w] = "lock"
    /\ a \in Wanted(w)
    /\ \A b \in Wanted(w) : a <= b

LockNothing(w) ==               \* mutant: SELECT without FOR UPDATE
    /\ \E a \in Accounts :
         /\ NextRow(w, a)
         /\ held' = [held EXCEPT ![w] = @ \cup {a}]
         /\ seen' = [seen EXCEPT ![w][a] = balance[a]]
         /\ pc' = [pc EXCEPT ![w] = IF Wanted(w) = {a} THEN "check" ELSE "lock"]
    /\ UNCHANGED <<tables, clock, job, attempt, credit, feeAcc, used, stale, staleUse, answer>>

Lock(w) ==
    /\ \E a \in Accounts :
         /\ NextRow(w, a)
         /\ \A v \in Workers : a \notin held[v]
         /\ a \notin stale[w]
         /\ held' = [held EXCEPT ![w] = @ \cup {a}]
         /\ seen' = [seen EXCEPT ![w][a] = balance[a]]
         /\ pc' = [pc EXCEPT ![w] = IF Wanted(w) = {a} THEN "check" ELSE "lock"]
    /\ UNCHANGED <<tables, clock, job, attempt, credit, feeAcc, used, stale, staleUse, answer>>

(* The row was changed by a transaction the snapshot does not contain.     *)
LockStale(w) ==
    /\ \E a \in Accounts :
         /\ NextRow(w, a)
         /\ \A v \in Workers : a \notin held[v]
         /\ a \in stale[w]
    /\ Serialization(w)

(* The balance under lock, then the daily usage and the limits.            *)
CheckPasses(w) ==
    /\ pc[w] = "check"
    /\ Funded(req(w), seen[w][req(w).src])
    /\ WithinLimit(req(w), used[w])
    /\ pc' = [pc EXCEPT ![w] = "insert"]
    /\ UNCHANGED <<tables, clock, job, attempt, attemptVars, answer>>

CheckFails(w) ==
    /\ pc[w] = "check"
    /\ \/ /\ ~Funded(req(w), seen[w][req(w).src])
          /\ Fail(w, "INSUFFICIENT")
       \/ /\ Funded(req(w), seen[w][req(w).src])
          /\ ~WithinLimit(req(w), used[w])
          /\ Fail(w, "LIMIT")

InsertUnchecked(w) ==           \* mutant: no unique index
    /\ pc[w] = "insert"
    /\ pc' = [pc EXCEPT ![w] = "upsert"]
    /\ UNCHANGED <<tables, clock, job, attempt, attemptVars, answer>>

(* INSERT INTO transactions: it waits for an uncommitted row with the same *)
(* key.                                                                    *)
Insert(w) ==
    /\ pc[w] = "insert"
    /\ Existing(w) = {}
    /\ \A v \in Workers : Inserted(v) => ~SameKey(v, w)
    /\ pc' = [pc EXCEPT ![w] = "upsert"]
    /\ UNCHANGED <<tables, clock, job, attempt, attemptVars, answer>>

InsertDuplicateRetried(w) ==    \* mutant: 23505 taken for 40001
    /\ pc[w] = "insert"
    /\ Existing(w) # {}
    /\ EndAttempt(w)
    /\ ForgetStale(w)
    /\ pc' = [pc EXCEPT ![w] = "begin"]
    /\ UNCHANGED <<tables, clock, job, attempt, answer>>

(* 23505: the transaction is aborted, the existing row is asked for.       *)
InsertDuplicate(w) ==
    /\ pc[w] = "insert"
    /\ Existing(w) # {}
    /\ EndAttempt(w)
    /\ ForgetStale(w)
    /\ pc' = [pc EXCEPT ![w] = "fetch"]
    /\ UNCHANGED <<tables, clock, job, attempt, answer>>

FetchByKey(w) ==                \* mutant: WHERE idempotency_key, whoever's
    /\ pc[w] = "fetch"
    /\ FreeConn
    /\ \E t \in txns : t.key = req(w).key /\ Return(w, Ok(t.id))
    /\ UNCHANGED <<tables, clock, job, attempt, attemptVars>>

(* fetchExistingTransaction reads through the pool, that is, on a second   *)
(* connection.                                                             *)
Fetch(w) ==
    /\ pc[w] = "fetch"
    /\ FreeConn
    /\ \E t \in Existing(w) : Return(w, Ok(t.id))
    /\ UNCHANGED <<tables, clock, job, attempt, attemptVars>>

(* The legs are inserted and daily_usage is upserted; the upsert waits for *)
(* an uncommitted one of the same row and fails if the row has changed     *)
(* since the snapshot.                                                     *)
UsageRowFree(w) == \A v \in Workers \ {w} : pc[v] = "commit" => Row(v) # Row(w)

UpsertBlind(w) ==               \* mutant: READ COMMITTED
    /\ pc[w] = "upsert"
    /\ UsageRowFree(w)
    /\ pc' = [pc EXCEPT ![w] = "commit"]
    /\ UNCHANGED <<tables, clock, job, attempt, attemptVars, answer>>

Upsert(w) ==
    /\ pc[w] = "upsert"
    /\ UsageRowFree(w)
    /\ ~staleUse[w]
    /\ pc' = [pc EXCEPT ![w] = "commit"]
    /\ UNCHANGED <<tables, clock, job, attempt, attemptVars, answer>>

UpsertStale(w) ==
    /\ pc[w] = "upsert"
    /\ UsageRowFree(w)
    /\ staleUse[w]
    /\ Serialization(w)

-----------------------------------------------------------------------------
(* What a commit makes visible: the balances computed from the locked      *)
(* reads, the usage, the transaction with its legs. Every transaction      *)
(* still running now has a snapshot without these rows.                    *)
Apply(w) ==
    LET r == req(w)
        touched == Touched(r, credit[w], feeAcc[w])
    IN  /\ serial' = serial + 1
        /\ txns' = txns \cup {[id   |-> serial + 1, user |-> r.user,
                               key  |-> r.key,      kind |-> r.kind,
                               day  |-> job[w].day,
                               legs |-> Legs(r, credit[w], feeAcc[w], seen[w])]}
        /\ balance' = [a \in Accounts |->
                         IF a \in touched
                         THEN NewBalance(r, credit[w], feeAcc[w], seen[w], a)
                         ELSE balance[a]]
        /\ usage' = [usage EXCEPT ![Row(w)] = @ + Total(r)]
        /\ stale' = [v \in Workers |->
                       IF v = w THEN {}
                       ELSE IF InTx(v) THEN stale[v] \cup touched ELSE stale[v]]
        /\ staleUse' = [v \in Workers |->
                          IF v = w THEN FALSE
                          ELSE staleUse[v] \/ (InTx(v) /\ Row(v) = Row(w))]

Commit(w) ==
    /\ pc[w] = "commit"
    /\ Apply(w)
    /\ EndAttempt(w)
    /\ Return(w, Ok(serial + 1))
    /\ UNCHANGED <<clock, job, attempt>>

(* The commit took place and its acknowledgement was lost: the executor    *)
(* reports an error for a transaction that exists.                         *)
CommitLost(w) ==
    /\ "lostCommit" \in Faults
    /\ pc[w] = "commit"
    /\ Apply(w)
    /\ EndAttempt(w)
    /\ Return(w, Refused("CTX"))
    /\ UNCHANGED <<clock, job, attempt>>

(* SSI may fail any statement and the commit of a transaction.             *)
SerializationFailure(w) ==
    /\ "ssi" \in Faults
    /\ InTx(w)
    /\ Serialization(w)

Retry(w) ==
    /\ pc[w] = "backoff"
    /\ attempt' = [attempt EXCEPT ![w] = @ + 1]
    /\ pc' = [pc EXCEPT ![w] = "begin"]
    /\ UNCHANGED <<tables, clock, job, attemptVars, answer>>

(* The request timeout, the client gone, a connection lost before COMMIT.  *)
(* A backoff that is cut short returns the serialization error it follows. *)
Cancel(w) ==
    /\ "cancel" \in Faults
    /\ pc[w] \in Running
    /\ Fail(w, IF pc[w] = "backoff" THEN "SERIALIZATION" ELSE "CTX")

(* The caller has the answer; the worker is free for another call.         *)
Leave(w) ==
    /\ pc[w] = "done"
    /\ pc' = [pc EXCEPT ![w] = "idle"]
    /\ job' = [job EXCEPT ![w] = NoJob]
    /\ attempt' = [attempt EXCEPT ![w] = 0]
    /\ answer' = [answer EXCEPT ![w] = NoAnswer]
    /\ UNCHANGED <<tables, clock, attemptVars>>

Midnight ==
    /\ day + 1 \in Days
    /\ day' = day + 1
    /\ UNCHANGED <<tables, calls, pc, job, attempt, attemptVars, answer>>

(* Nothing left to ask: the model ends here, and only here.                *)
AllServed ==
    /\ calls = MaxCalls
    /\ \A w \in Workers : pc[w] = "idle"
    /\ UNCHANGED vars

Step(w) ==
    \/ Begin(w) \/ BadDestination(w)
    \/ Lock(w) \/ LockStale(w)
    \/ CheckPasses(w) \/ CheckFails(w)
    \/ Insert(w) \/ InsertDuplicate(w) \/ Fetch(w)
    \/ Upsert(w) \/ UpsertStale(w)
    \/ Commit(w) \/ Retry(w) \/ Leave(w)

Fault(w) == CommitLost(w) \/ SerializationFailure(w) \/ Cancel(w)

Next ==
    \/ \E w \in Workers : Call(w) \/ Step(w) \/ Fault(w)
    \/ Midnight
    \/ AllServed

Spec == Init /\ [][Next]_vars

(* The executors run to their end: Go schedules the goroutine, PostgreSQL  *)
(* grants a free lock, the pool a free connection. Nothing is assumed of   *)
(* the callers or of the faults.                                           *)
FairSpec == Spec /\ \A w \in Workers : WF_vars(Step(w))

-----------------------------------------------------------------------------
(* The shape of the state.                                                 *)
TypeOK ==
    /\ serial \in Nat
    /\ txns \subseteq [id : 1 .. serial, user : Users, key : Keys, kind : Kinds, day : Days,
                       legs : SUBSET [acc : Accounts, delta : Int, before : Int, after : Int]]
    /\ balance \in [Accounts -> Int]
    /\ usage \in [UsageRows -> Nat]
    /\ day \in Days
    /\ calls \in 0 .. MaxCalls
    /\ pc \in [Workers -> PCs]
    /\ job \in [Workers -> [req : Requests \cup {NoRequest}, day : Days]]
    /\ attempt \in [Workers -> 0 .. MaxAttempts]
    /\ credit \in [Workers -> Accounts \cup {0}]
    /\ feeAcc \in [Workers -> Accounts \cup {0}]
    /\ held \in [Workers -> SUBSET Accounts]
    /\ seen \in [Workers -> [Accounts -> Int]]
    /\ used \in [Workers -> Nat]
    /\ stale \in [Workers -> SUBSET Accounts]
    /\ staleUse \in [Workers -> BOOLEAN]
    /\ answer \in [Workers -> [code : Refusals \cup {"OK", "NONE"}, txn : Nat]]

(* One transaction per (user, idempotency key), however many calls carry   *)
(* the key and whatever becomes of their answers: uq_txn_user_idempotency  *)
(* and the 23505 path of the executors.                                    *)
OneTxnPerKey ==
    \A s, t \in txns : <<s.user, s.key>> = <<t.user, t.key>> => s = t

(* Two attempts never spend the same funds: no nasabah is left below the   *)
(* hold_amount set aside, although each attempt writes a balance computed  *)
(* from what it read some statements earlier.                              *)
NoOverdraft == \A a \in Customers : balance[a] >= Hold[a]

(* The daily limit holds although it is compared with a daily_usage read   *)
(* from the snapshot, under no lock, and the upsert adds blindly to        *)
(* whatever is there by then.                                              *)
DailyLimitKept ==
    \A u \in Users, k \in Kinds, d \in Days : usage[<<u, k, d>>] <= DailyLimit[<<u, k>>]

(* L-05 of docs/06-LEDGER: no set of executors wait for one another, be it *)
(* for rows of accounts, for an uncommitted key or for a row of            *)
(* daily_usage.                                                            *)
WaitsFor(w, v) ==
    /\ v # w
    /\ \/ \E a \in Accounts : NextRow(w, a) /\ a \in held[v]
       \/ pc[w] = "insert" /\ Existing(w) = {} /\ Inserted(v) /\ SameKey(v, w)
       \/ pc[w] = "upsert" /\ pc[v] = "commit" /\ Row(v) = Row(w)

NoWaitCycle ==
    \A S \in (SUBSET Workers) \ {{}} : \E w \in S : \A v \in S : ~WaitsFor(w, v)

(* A call answered OK is answered with the one transaction of its own user *)
(* and key, also when another call posted it.                              *)
AnswerIsOwn ==
    \A w \in Workers : answer[w].code = "OK" =>
        \E t \in txns : t.id = answer[w].txn /\ t.user = req(w).user /\ t.key = req(w).key

(* Every call is answered: no executor waits for ever for a lock, a key or *)
(* a connection, nor retries for ever.                                     *)
Answered == \A w \in Workers : pc[w] \in Running ~> pc[w] = "done"

(* With the working state of the attempts hidden, the executors are the    *)
(* one-step postings of the abstract specification.                        *)
Abstract == INSTANCE Postings WITH ask <- job
RefinesPostings == Abstract!Spec
=============================================================================
