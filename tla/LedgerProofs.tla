---------------------------- MODULE LedgerProofs ----------------------------
(***************************************************************************)
(* Proofs about Ledger for any accounts, users, requests, workers, pool    *)
(* and retry budget, and with every fault allowed.                         *)
(***************************************************************************)
EXTENDS LedgerReconciliation, LedgerInvariant, FiniteSetTheorems, WellFoundedInduction, TLAPS

(* Every action of a worker does one of a few things to the state the      *)
(* invariant speaks of. Ends: the attempt is over and nothing was written. *)
Ends(w) ==
    /\ pc[w] \in Running
    /\ \E p \in {"done", "backoff", "fetch"} : pc' = [pc EXCEPT ![w] = p]
    /\ pc'[w] = "backoff" => attempt[w] < MaxAttempts
    /\ EndAttempt(w)
    /\ ForgetStale(w)
    /\ UNCHANGED <<tables, clock, job, attempt>>
    /\ \A v \in Workers : v # w => answer'[v] = answer[v]
    /\ answer' \in [Workers -> [code : Refusals \cup {"OK", "NONE"}, txn : Nat]]

(* The worker moves on outside of a transaction.                           *)
Outside(w) ==
    /\ ~InTx(w)
    /\ pc' \in [Workers -> PCs]
    /\ \A v \in Workers : v # w => pc'[v] = pc[v] /\ job'[v] = job[v] /\ attempt'[v] = attempt[v]
    /\ pc'[w] \in {"begin", "done", "idle"}
    /\ pc'[w] = "begin" => job'[w].req \in Requests
    /\ job' \in [Workers -> [req : Requests \cup {NoRequest}, day : Days]]
    /\ attempt' \in [Workers -> 0 .. MaxAttempts]
    /\ answer' \in [Workers -> [code : Refusals \cup {"OK", "NONE"}, txn : Nat]]
    /\ calls' \in 0 .. MaxCalls
    /\ UNCHANGED <<tables, day, attemptVars>>

Commits(w) ==
    /\ pc[w] = "commit"
    /\ Apply(w)
    /\ EndAttempt(w)
    /\ pc' = [pc EXCEPT ![w] = "done"]
    /\ \E a \in {Ok(serial + 1), Refused("CTX")} : answer' = [answer EXCEPT ![w] = a]
    /\ UNCHANGED <<clock, job, attempt>>

Kind(w) ==
    \/ Ends(w) \/ Outside(w) \/ Commits(w)
    \/ Begin(w) \/ Lock(w) \/ CheckPasses(w) \/ Insert(w) \/ Upsert(w)

(* Only the date may change.                                               *)
Idle == UNCHANGED <<tables, calls, pc, job, attempt, attemptVars, answer>> /\ day' \in Days

LEMMA FailEnds ==
    ASSUME TypeOK, NEW w \in Workers, pc[w] \in Running,
           NEW code \in Refusals, Fail(w, code)
    PROVE  Ends(w)
<1>1. pc' = [pc EXCEPT ![w] = "done"] /\ answer' = [answer EXCEPT ![w] = Refused(code)]
  BY DEF Fail, Return
<1>2. answer' \in [Workers -> [code : Refusals \cup {"OK", "NONE"}, txn : Nat]]
  BY <1>1 DEF TypeOK, Refused
<1>3. \A v \in Workers : v # w => answer'[v] = answer[v]
  BY <1>1 DEF TypeOK
<1>4. pc'[w] # "backoff"
  BY <1>1 DEF TypeOK
<1> QED BY <1>1, <1>2, <1>3, <1>4 DEF Fail, Ends

LEMMA SerializationEnds ==
    ASSUME TypeOK, NEW w \in Workers, pc[w] \in Running, Serialization(w)
    PROVE  Ends(w)
<1>1. CASE Fail(w, "SERIALIZATION")
  BY <1>1, FailEnds DEF Refusals
<1>2. CASE /\ attempt[w] < MaxAttempts
           /\ EndAttempt(w)
           /\ ForgetStale(w)
           /\ pc' = [pc EXCEPT ![w] = "backoff"]
           /\ UNCHANGED <<tables, clock, job, attempt, answer>>
  BY <1>2 DEF Ends, TypeOK
<1> QED BY <1>1, <1>2 DEF Serialization

(* Every step is one of those, or changes nothing but the date.            *)
LEMMA Classified ==
    ASSUME TypeOK, JobsInPlace, Next
    PROVE  \/ \E w \in Workers : Kind(w)
           \/ Idle
<1>1. ASSUME NEW w \in Workers, Call(w) PROVE Outside(w)
  <2>1. job' \in [Workers -> [req : Requests \cup {NoRequest}, day : Days]]
    BY <1>1 DEF Call, TypeOK
  <2>2. job'[w].req \in Requests
    BY <1>1 DEF Call, TypeOK
  <2>3. attempt' \in [Workers -> 0 .. MaxAttempts]
    BY <1>1, ConfigAssumption DEF Call, TypeOK
  <2>4. calls' \in 0 .. MaxCalls
    BY <1>1, ConfigAssumption DEF Call, TypeOK
  <2> QED BY <1>1, <2>1, <2>2, <2>3, <2>4
       DEF Call, Outside, TypeOK, InTx, InTransaction, PCs, Running
<1>2. ASSUME NEW w \in Workers, Retry(w) PROVE Outside(w)
  <2>1. attempt[w] \in Nat /\ attempt[w] < MaxAttempts
    BY <1>2, ConfigAssumption DEF Retry, TypeOK, JobsInPlace
  <2>2. attempt' \in [Workers -> 0 .. MaxAttempts]
    BY <1>2, <2>1, ConfigAssumption DEF Retry, TypeOK
  <2> QED BY <1>2, <2>2
       DEF Retry, Outside, TypeOK, JobsInPlace, InTx, InTransaction, PCs, Running, clock, req
<1>3. ASSUME NEW w \in Workers, Leave(w) PROVE Outside(w)
  <2>1. attempt' \in [Workers -> 0 .. MaxAttempts]
    BY <1>3, ConfigAssumption DEF Leave, TypeOK
  <2>2. job' \in [Workers -> [req : Requests \cup {NoRequest}, day : Days]]
    BY <1>3, ConfigAssumption DEF Leave, TypeOK, NoJob
  <2>3. answer' \in [Workers -> [code : Refusals \cup {"OK", "NONE"}, txn : Nat]]
    BY <1>3 DEF Leave, TypeOK, NoAnswer
  <2> QED BY <1>3, <2>1, <2>2, <2>3
       DEF Leave, Outside, TypeOK, InTx, InTransaction, PCs, Running, clock
<1>4. ASSUME NEW w \in Workers, Fetch(w) PROVE Outside(w)
  <2>1. answer' \in [Workers -> [code : Refusals \cup {"OK", "NONE"}, txn : Nat]]
    BY <1>4 DEF Fetch, Return, Ok, Existing, TypeOK
  <2> QED BY <1>4, <2>1
       DEF Fetch, Return, Outside, TypeOK, InTx, InTransaction, PCs, Running, clock
<1>5. ASSUME NEW w \in Workers, BadDestination(w) \/ CheckFails(w) \/ Cancel(w) PROVE Ends(w)
  BY <1>5, FailEnds DEF BadDestination, CheckFails, Cancel, Refusals, Running, InTransaction
<1>6. ASSUME NEW w \in Workers, LockStale(w) \/ UpsertStale(w) \/ SerializationFailure(w)
      PROVE  Ends(w)
  BY <1>6, SerializationEnds
     DEF LockStale, NextRow, UpsertStale, SerializationFailure, InTx, Running, InTransaction
<1>7. ASSUME NEW w \in Workers, InsertDuplicate(w) PROVE Ends(w)
  BY <1>7 DEF InsertDuplicate, Ends, TypeOK, Running, InTransaction
<1>8. ASSUME NEW w \in Workers, Commit(w) \/ CommitLost(w) PROVE Commits(w)
  BY <1>8 DEF Commit, CommitLost, Commits, Return
<1>9. ASSUME Midnight \/ AllServed PROVE Idle
  BY <1>9 DEF Midnight, Idle, AllServed, vars, tables, attemptVars, TypeOK
<1> QED BY <1>1, <1>2, <1>3, <1>4, <1>5, <1>6, <1>7, <1>8, <1>9 DEF Next, Step, Fault, Kind

-----------------------------------------------------------------------------
(* What a request that passed the resolving of its accounts may touch.     *)
LEMMA TouchedRows ==
    ASSUME NEW r \in Requests, DestinationOK(r), NEW c \in ShardChoices(r), NEW f \in FeeShards
    PROVE  /\ r.src \in Customers
           /\ Touched(r, c, f) \subseteq LockSet(r, c, f)
           /\ LockSet(r, c, f) \subseteq Accounts
           /\ r.src # c /\ r.src # f /\ c # f
           /\ f \notin Customers
           /\ r.amount \in Nat /\ r.fee \in Nat /\ Total(r) \in Nat
           /\ r.user \in Users /\ r.key \in Keys /\ r.kind \in Kinds
<1>1. r \in Request /\ r.src \in Customers
  BY DataAssumption
<1>2. r.amount \in Nat /\ r.fee \in Nat /\ Total(r) \in Nat
      /\ r.user \in Users /\ r.key \in Keys /\ r.kind \in Kinds
  BY <1>1 DEF Request, Total
<1>3. c \in Accounts /\ f \in Accounts /\ r.src \in Accounts /\ f \notin Customers
  BY <1>1, AccountsAssumption, RowsAssumption DEF ShardChoices, Request, Kinds
<1>4. r.src # c /\ r.src # f /\ c # f
  <2>1. CASE r.kind = "INTERNAL"
    BY <2>1, <1>1, <1>3, AccountsAssumption DEF ShardChoices, DestinationOK
  <2>2. CASE r.kind # "INTERNAL"
    BY <2>2, <1>1, <1>2, <1>3, RowsAssumption DEF ShardChoices, Kinds
  <2> QED BY <2>1, <2>2
<1>5. Touched(r, c, f) \subseteq LockSet(r, c, f) /\ LockSet(r, c, f) \subseteq Accounts
  BY <1>2, <1>3 DEF Touched, LockSet, UsesFeeShard
<1> QED BY <1>1, <1>2, <1>3, <1>4, <1>5

(* What is known of a worker about to commit.                              *)
LEMMA AtCommit ==
    ASSUME IInv, NEW w \in Workers, pc[w] = "commit"
    PROVE  /\ req(w) \in Requests /\ DestinationOK(req(w))
           /\ credit[w] \in ShardChoices(req(w)) /\ feeAcc[w] \in FeeShards
           /\ Touched(req(w), credit[w], feeAcc[w]) \subseteq held[w]
           /\ \A a \in held[w] : a \in Accounts /\ seen[w][a] = balance[a] /\ balance[a] \in Int
           /\ Funded(req(w), balance[req(w).src])
           /\ WithinLimit(req(w), usage[Row(w)])
           /\ Row(w) \in UsageRows
           /\ Existing(w) = {}
<1>1. InTx(w) /\ pc[w] \in Running
  BY DEF InTx, InTransaction, Running
<1>2. /\ req(w) \in Requests /\ DestinationOK(req(w))
      /\ credit[w] \in ShardChoices(req(w)) /\ feeAcc[w] \in FeeShards
  BY <1>1 DEF IInv, JobsInPlace
<1>3. Touched(req(w), credit[w], feeAcc[w]) \subseteq held[w]
  BY <1>2, TouchedRows DEF IInv, LocksHeld, Rows
<1>4. \A a \in held[w] : a \in Accounts /\ seen[w][a] = balance[a] /\ balance[a] \in Int
  BY DEF IInv, LocksHeld, TypeOK
<1>5. Funded(req(w), balance[req(w).src])
  <2>1. req(w).src \in held[w]
    BY <1>3 DEF Touched
  <2> QED BY <2>1, <1>4 DEF IInv, ChecksPassed
<1>6. WithinLimit(req(w), usage[Row(w)])
  BY <1>1 DEF IInv, ChecksPassed, UsageCurrent
<1>7. Row(w) \in UsageRows
  BY <1>2, TouchedRows DEF IInv, TypeOK, Row, UsageRow, UsageRows
<1>8. Existing(w) = {}
  BY DEF IInv, KeysReserved, Inserted
<1> QED BY <1>2, <1>3, <1>4, <1>5, <1>6, <1>7, <1>8

(* The tables after a commit.                                              *)
LEMMA AfterCommit ==
    ASSUME IInv, NEW w \in Workers, Commits(w)
    PROVE  /\ serial' \in Nat
           /\ txns' \subseteq [id : 1 .. serial', user : Users, key : Keys, kind : Kinds, day : Days,
                    legs : SUBSET [acc : Accounts, delta : Int, before : Int, after : Int]]
           /\ balance' \in [Accounts -> Int]
           /\ \A a \in Accounts \ held[w] : balance'[a] = balance[a]
           /\ usage' = [usage EXCEPT ![Row(w)] = @ + Total(req(w))]
           /\ usage' \in [UsageRows -> Nat]
           /\ \E t : txns' = txns \cup {t} /\ t.user = req(w).user /\ t.key = req(w).key
<1> DEFINE r == req(w)
           c == credit[w]
           f == feeAcc[w]
           new == [id   |-> serial + 1, user |-> r.user, key  |-> r.key, kind |-> r.kind,
                   day  |-> job[w].day, legs |-> Legs(r, c, f, seen[w])]
<1>1. pc[w] = "commit" /\ Apply(w)
  BY DEF Commits
<1>2. /\ r \in Requests /\ DestinationOK(r)
      /\ c \in ShardChoices(r) /\ f \in FeeShards
      /\ Touched(r, c, f) \subseteq held[w]
      /\ held[w] \subseteq Accounts
      /\ Row(w) \in UsageRows
  BY <1>1, AtCommit
<1>3. /\ r.amount \in Nat /\ r.fee \in Nat /\ Total(r) \in Nat
      /\ r.user \in Users /\ r.key \in Keys /\ r.kind \in Kinds
  BY <1>2, TouchedRows
<1>4. \A a \in Accounts : NewBalance(r, c, f, seen[w], a) \in Int /\ seen[w][a] \in Int
  <2>1. \A a \in Accounts : seen[w][a] \in Int
    BY DEF IInv, TypeOK
  <2> QED BY <1>3, <2>1 DEF NewBalance
<1>5. Legs(r, c, f, seen[w]) \subseteq [acc : Accounts, delta : Int, before : Int, after : Int]
  <2> SUFFICES ASSUME NEW a \in Touched(r, c, f)
               PROVE  [acc    |-> a,
                       delta  |-> NewBalance(r, c, f, seen[w], a) - seen[w][a],
                       before |-> seen[w][a],
                       after  |-> NewBalance(r, c, f, seen[w], a)]
                      \in [acc : Accounts, delta : Int, before : Int, after : Int]
    BY DEF Legs
  <2> HIDE DEF r, c, f
  <2>1. a \in Accounts
    BY <1>2
  <2>2. NewBalance(r, c, f, seen[w], a) \in Int /\ seen[w][a] \in Int
    BY <1>4, <2>1
  <2> QED BY <2>1, <2>2
<1>6. /\ serial' = serial + 1
      /\ txns' = txns \cup {new}
      /\ balance' = [a \in Accounts |-> IF a \in Touched(r, c, f)
                         THEN NewBalance(r, c, f, seen[w], a) ELSE balance[a]]
      /\ usage' = [usage EXCEPT ![Row(w)] = @ + Total(r)]
  BY <1>1 DEF Apply
<1>7. serial \in Nat /\ job[w].day \in Days /\ balance \in [Accounts -> Int]
      /\ usage \in [UsageRows -> Nat]
  BY DEF IInv, TypeOK
<1>8. txns \subseteq [id : 1 .. serial, user : Users, key : Keys, kind : Kinds, day : Days,
                legs : SUBSET [acc : Accounts, delta : Int, before : Int, after : Int]]
  BY DEF IInv, TypeOK
<1> HIDE DEF r, c, f
<1>9. new \in [id : 1 .. serial', user : Users, key : Keys, kind : Kinds, day : Days,
                legs : SUBSET [acc : Accounts, delta : Int, before : Int, after : Int]]
  BY <1>3, <1>5, <1>6, <1>7
<1>10. txns \subseteq [id : 1 .. serial', user : Users, key : Keys, kind : Kinds, day : Days,
                legs : SUBSET [acc : Accounts, delta : Int, before : Int, after : Int]]
  <2>1. 1 .. serial \subseteq 1 .. serial'
    BY <1>6, <1>7
  <2> QED BY <2>1, <1>8
<1>11. txns' = txns \cup {new} /\ new.user = r.user /\ new.key = r.key
  BY <1>6
<1>12. balance' \in [Accounts -> Int] /\ \A a \in Accounts \ held[w] : balance'[a] = balance[a]
  BY <1>2, <1>4, <1>6, <1>7
<1>13. usage' \in [UsageRows -> Nat]
  BY <1>2, <1>3, <1>6, <1>7
<1>14. \E t : txns' = txns \cup {t} /\ t.user = r.user /\ t.key = r.key
  <2> HIDE DEF new
  <2> QED BY <1>11
<1>15. serial' \in Nat
  BY <1>6, <1>7
<1>16. txns' \subseteq [id : 1 .. serial', user : Users, key : Keys, kind : Kinds, day : Days,
                legs : SUBSET [acc : Accounts, delta : Int, before : Int, after : Int]]
  <2> HIDE DEF new
  <2> QED BY <1>9, <1>10, <1>11
<1> USE DEF r
<1> HIDE DEF new
<1> QED BY <1>6, <1>12, <1>13, <1>14, <1>15, <1>16

-----------------------------------------------------------------------------
(* The parts of the invariant, each kept by every kind of step.            *)
LEMMA TypeStep ==
    ASSUME IInv, NEW w \in Workers, Kind(w)
    PROVE  TypeOK'
<1> USE DEF tables, clock, attemptVars
<1>1. CASE Ends(w)
  <2>1. pc' \in [Workers -> PCs]
    BY <1>1 DEF IInv, TypeOK, Ends, PCs, Running
  <2> QED BY <1>1, <2>1 DEF IInv, TypeOK, Ends, EndAttempt, ForgetStale
<1>2. CASE Outside(w)
  BY <1>2 DEF IInv, TypeOK, Outside
<1>3. CASE Commits(w)
  <2>1. pc' \in [Workers -> PCs]
    BY <1>3 DEF IInv, TypeOK, Commits, PCs
  <2>2. answer' \in [Workers -> [code : Refusals \cup {"OK", "NONE"}, txn : Nat]]
    BY <1>3 DEF IInv, TypeOK, Commits, Ok, Refused, Refusals
  <2>3. /\ credit' \in [Workers -> Accounts \cup {0}]
        /\ feeAcc' \in [Workers -> Accounts \cup {0}]
        /\ held' \in [Workers -> SUBSET Accounts]
        /\ seen' \in [Workers -> [Accounts -> Int]]
        /\ used' \in [Workers -> Nat]
    BY <1>3 DEF IInv, TypeOK, Commits, EndAttempt
  <2>4. stale' \in [Workers -> SUBSET Accounts] /\ staleUse' \in [Workers -> BOOLEAN]
    <3> DEFINE touched == Touched(req(w), credit[w], feeAcc[w])
    <3>1. touched \subseteq Accounts
      BY <1>3, AtCommit DEF Commits, IInv, TypeOK
    <3>2. stale' = [v \in Workers |-> IF v = w THEN {}
                      ELSE IF InTx(v) THEN stale[v] \cup touched ELSE stale[v]]
      BY <1>3 DEF Commits, Apply
    <3>3. staleUse' \in [Workers -> BOOLEAN]
      BY <1>3, Zenon DEF Commits, Apply, IInv, TypeOK
    <3> HIDE DEF touched
    <3> QED BY <3>1, <3>2, <3>3 DEF IInv, TypeOK
  <2>5. UNCHANGED <<day, calls, job, attempt>>
    BY <1>3 DEF Commits
  <2>6. day \in Days /\ calls \in 0 .. MaxCalls
        /\ job \in [Workers -> [req : Requests \cup {NoRequest}, day : Days]]
        /\ attempt \in [Workers -> 0 .. MaxAttempts]
    BY DEF IInv, TypeOK
  <2> QED BY <1>3, <2>1, <2>2, <2>3, <2>4, <2>5, <2>6, AfterCommit DEF TypeOK
<1>4. CASE Begin(w)
  <2>1. req(w) \in Requests
    BY <1>4 DEF IInv, JobsInPlace, Begin, Running
  <2>2. PICK c \in ShardChoices(req(w)) : credit' = [credit EXCEPT ![w] = c]
    BY <1>4 DEF Begin
  <2>3. PICK f \in FeeShards : feeAcc' = [feeAcc EXCEPT ![w] = f]
    BY <1>4 DEF Begin
  <2>4. c \in Accounts /\ f \in Accounts /\ Row(w) \in UsageRows
    <3>1. DestinationOK(req(w))
      BY <1>4 DEF Begin
    <3>2. LockSet(req(w), c, f) \subseteq Accounts /\ req(w).user \in Users /\ req(w).kind \in Kinds
      BY <2>1, <3>1, TouchedRows
    <3>3. f \in Accounts
      BY AccountsAssumption
    <3> QED BY <3>2, <3>3 DEF LockSet, Row, UsageRow, UsageRows, IInv, TypeOK
  <2>5. /\ credit' \in [Workers -> Accounts \cup {0}]
        /\ feeAcc' \in [Workers -> Accounts \cup {0}]
    BY <2>2, <2>3, <2>4 DEF IInv, TypeOK
  <2>6. pc' \in [Workers -> PCs] /\ used' \in [Workers -> Nat]
    BY <1>4, <2>4 DEF Begin, IInv, TypeOK, PCs, Running, InTransaction
  <2> QED BY <1>4, <2>5, <2>6 DEF Begin, IInv, TypeOK
<1>5. CASE Lock(w)
  <2>1. pc' \in [Workers -> PCs]
    BY <1>5 DEF Lock, IInv, TypeOK, PCs, Running, InTransaction
  <2>2. held' \in [Workers -> SUBSET Accounts] /\ seen' \in [Workers -> [Accounts -> Int]]
    BY <1>5 DEF Lock, IInv, TypeOK
  <2> QED BY <1>5, <2>1, <2>2 DEF Lock, IInv, TypeOK
<1>6. CASE CheckPasses(w) \/ Insert(w) \/ Upsert(w)
  <2>1. pc' \in [Workers -> PCs]
    BY <1>6 DEF CheckPasses, Insert, Upsert, IInv, TypeOK, PCs, Running, InTransaction
  <2> QED BY <1>6, <2>1 DEF CheckPasses, Insert, Upsert, IInv, TypeOK
<1> QED BY <1>1, <1>2, <1>3, <1>4, <1>5, <1>6 DEF Kind

LEMMA JobsStep ==
    ASSUME IInv, NEW w \in Workers, Kind(w)
    PROVE  JobsInPlace'
<1> SUFFICES ASSUME NEW v \in Workers
             PROVE  /\ pc'[v] \in Running => req(v)' \in Requests
                    /\ pc'[v] = "backoff" => attempt'[v] < MaxAttempts
                    /\ InTx(v)' =>
                         /\ DestinationOK(req(v)')
                         /\ credit'[v] \in ShardChoices(req(v)')
                         /\ feeAcc'[v] \in FeeShards
  BY DEF JobsInPlace, DestinationOK, ShardChoices
<1>0. /\ pc[v] \in Running => req(v) \in Requests
      /\ pc[v] = "backoff" => attempt[v] < MaxAttempts
      /\ InTx(v) =>
           /\ DestinationOK(req(v))
           /\ credit[v] \in ShardChoices(req(v))
           /\ feeAcc[v] \in FeeShards
  BY DEF IInv, JobsInPlace
<1> USE DEF tables, clock, attemptVars
<1>1. CASE Ends(w)
  BY <1>0, <1>1 DEF IInv, TypeOK, Ends, EndAttempt, InTx, InTransaction, Running, req
<1>2. CASE Outside(w)
  BY <1>0, <1>2 DEF IInv, TypeOK, Outside, InTx, InTransaction, Running, req
<1>3. CASE Commits(w)
  BY <1>0, <1>3 DEF IInv, TypeOK, Commits, EndAttempt, InTx, InTransaction, Running, req
<1>4. CASE Begin(w)
  BY <1>0, <1>4 DEF IInv, TypeOK, Begin, InTx, InTransaction, Running, req
<1>5. CASE Lock(w)
  BY <1>0, <1>5 DEF IInv, TypeOK, Lock, NextRow, InTx, InTransaction, Running, req
<1>6. CASE CheckPasses(w) \/ Insert(w) \/ Upsert(w)
  BY <1>0, <1>6 DEF IInv, TypeOK, CheckPasses, Insert, Upsert, InTx, InTransaction, Running, req
<1> QED BY <1>1, <1>2, <1>3, <1>4, <1>5, <1>6 DEF Kind

LEMMA LocksStep ==
    ASSUME IInv, NEW w \in Workers, Kind(w)
    PROVE  LocksHeld'
<1> USE DEF tables, clock, attemptVars
<1>0. /\ held \in [Workers -> SUBSET Accounts] /\ seen \in [Workers -> [Accounts -> Int]]
      /\ pc \in [Workers -> PCs] /\ balance \in [Accounts -> Int]
      /\ credit \in [Workers -> Accounts \cup {0}] /\ feeAcc \in [Workers -> Accounts \cup {0}]
  BY DEF IInv, TypeOK
<1>1. ASSUME Ends(w) \/ Commits(w)
      PROVE  LocksHeld'
  <2>1. held' = [held EXCEPT ![w] = {}] /\ seen' = [seen EXCEPT ![w] = [a \in Accounts |-> 0]]
    BY <1>1 DEF Ends, Commits, EndAttempt
  <2>2. \E p \in {"done", "backoff", "fetch"} : pc' = [pc EXCEPT ![w] = p]
    BY <1>1 DEF Ends, Commits
  <2>3. \A v \in Workers : v # w => Rows(v)' = Rows(v)
    BY <1>0, <1>1 DEF Ends, Commits, EndAttempt, Rows, req
  <2>4. \A v \in Workers : v # w => \A a \in held[v] : balance'[a] = balance[a]
    <3>1. CASE Ends(w)
      BY <3>1 DEF Ends
    <3>2. CASE Commits(w)
      <4>1. \A a \in Accounts \ held[w] : balance'[a] = balance[a]
        BY <3>2, AfterCommit
      <4> QED BY <1>0, <4>1 DEF IInv, LocksHeld
    <3> QED BY <1>1, <3>1, <3>2
  <2> QED BY <1>0, <2>1, <2>2, <2>3, <2>4 DEF IInv, LocksHeld, InTx, InTransaction
<1>2. CASE Outside(w)
  BY <1>0, <1>2 DEF IInv, LocksHeld, Outside, InTx, InTransaction, Rows, req
<1>3. CASE Begin(w)
  <2>1. pc[w] = "begin" /\ pc' = [pc EXCEPT ![w] = "lock"]
    BY <1>3 DEF Begin
  <2>2. UNCHANGED <<held, seen, balance>>
    BY <1>3 DEF Begin
  <2>3. \A v \in Workers : v # w => Rows(v)' = Rows(v)
    BY <1>0, <1>3 DEF Begin, Rows, req
  <2> QED BY <1>0, <2>1, <2>2, <2>3 DEF IInv, LocksHeld, InTx, InTransaction
<1>4. CASE Lock(w)
  <2>1. PICK a \in Accounts : /\ NextRow(w, a)
                              /\ \A v \in Workers : a \notin held[v]
                              /\ held' = [held EXCEPT ![w] = @ \cup {a}]
                              /\ seen' = [seen EXCEPT ![w][a] = balance[a]]
                              /\ pc' = [pc EXCEPT ![w] = IF Wanted(w) = {a} THEN "check" ELSE "lock"]
    BY <1>4 DEF Lock
  <2>2. UNCHANGED <<balance, job, credit, feeAcc>>
    BY <1>4 DEF Lock
  <2>3. \A v \in Workers : Rows(v)' = Rows(v)
    BY <2>2 DEF Rows, req
  <2>4. pc[w] = "lock" /\ a \in Wanted(w)
    BY <2>1 DEF NextRow
  <2>5. pc'[w] = "check" => Rows(w)' \subseteq held'[w]
    BY <1>0, <2>1, <2>3, <2>4 DEF Wanted
  <2>6. \A v, u \in Workers : v # u => held'[v] \cap held'[u] = {}
    BY <1>0, <2>1 DEF IInv, LocksHeld
  <2>7. \A v \in Workers : \A b \in held'[v] : seen'[v][b] = balance'[b]
    BY <1>0, <2>1, <2>2 DEF IInv, LocksHeld
  <2>8. \A v \in Workers : ~InTx(v)' => held'[v] = {}
    BY <1>0, <2>1, <2>4 DEF IInv, LocksHeld, InTx, InTransaction
  <2>9. \A v \in Workers : pc'[v] \in {"check", "insert", "upsert", "commit"} => Rows(v)' \subseteq held'[v]
    BY <1>0, <2>1, <2>3, <2>5 DEF IInv, LocksHeld
  <2> QED BY <2>6, <2>7, <2>8, <2>9 DEF LocksHeld
<1>5. CASE CheckPasses(w) \/ Insert(w) \/ Upsert(w)
  <2>1. UNCHANGED <<held, seen, balance, job, credit, feeAcc>>
    BY <1>5 DEF CheckPasses, Insert, Upsert
  <2>2. \A v \in Workers : Rows(v)' = Rows(v)
    BY <2>1 DEF Rows, req
  <2>3. /\ pc[w] \in {"check", "insert", "upsert"}
        /\ \E p \in {"insert", "upsert", "commit"} : pc' = [pc EXCEPT ![w] = p]
    BY <1>5 DEF CheckPasses, Insert, Upsert
  <2> QED BY <1>0, <2>1, <2>2, <2>3 DEF IInv, LocksHeld, InTx, InTransaction
<1> QED BY <1>1, <1>2, <1>3, <1>4, <1>5 DEF Kind

(* Rows are taken in ascending order, so a lock taken leaves only greater  *)
(* ones to take.                                                           *)
LEMMA AscendingStep ==
    ASSUME IInv, NEW w \in Workers, Kind(w)
    PROVE  Ascending'
<1> USE DEF tables, clock, attemptVars
<1> SUFFICES ASSUME NEW v \in Workers, pc'[v] = "lock",
                    NEW a \in held'[v], NEW b \in Wanted(v)'
             PROVE  a < b
  BY DEF Ascending
<1>0. /\ held \in [Workers -> SUBSET Accounts] /\ pc \in [Workers -> PCs]
      /\ credit \in [Workers -> Accounts \cup {0}] /\ feeAcc \in [Workers -> Accounts \cup {0}]
      /\ ~InTx(v) => held[v] = {}
      /\ pc[v] = "lock" => \A x \in held[v], y \in Wanted(v) : x < y
  BY DEF IInv, TypeOK, LocksHeld, Ascending
<1>1. CASE ~Begin(w) /\ ~Lock(w)
  <2>1. pc[v] = "lock" /\ v # w
    BY <1>0, <1>1 DEF Kind, Ends, Outside, Commits, CheckPasses, Insert, Upsert
  <2>2. Rows(v)' = Rows(v) /\ held'[v] = held[v]
    BY <1>0, <1>1, <2>1
       DEF Kind, Ends, Outside, Commits, EndAttempt, CheckPasses, Insert, Upsert, Rows, req
  <2> QED BY <1>0, <2>1, <2>2 DEF Wanted
<1>2. CASE Begin(w)
  <2>1. pc[w] = "begin" /\ held' = held
    BY <1>2 DEF Begin
  <2>2. v # w
    BY <1>0, <2>1 DEF InTx, InTransaction
  <2>3. pc[v] = "lock" /\ Rows(v)' = Rows(v)
    BY <1>0, <1>2, <2>2 DEF Begin, Rows, req
  <2> QED BY <1>0, <2>1, <2>3 DEF Wanted
<1>3. CASE Lock(w)
  <2>1. PICK c \in Accounts : /\ NextRow(w, c)
                              /\ held' = [held EXCEPT ![w] = @ \cup {c}]
    BY <1>3 DEF Lock
  <2>2. Rows(v)' = Rows(v)
    BY <1>3 DEF Lock, Rows, req
  <2>3. pc[v] = "lock"
    BY <1>0, <1>3, <2>1 DEF Lock, NextRow
  <2>4. b \in Wanted(v)
    BY <1>0, <2>1, <2>2 DEF Wanted
  <2>5. CASE a \in held[v]
    BY <1>0, <2>3, <2>4, <2>5
  <2>6. CASE a \notin held[v]
    <3>1. v = w /\ a = c /\ b # c
      BY <1>0, <2>1, <2>6 DEF Wanted
    <3>2. a <= b
      BY <2>1, <2>4, <3>1 DEF NextRow
    <3>3. b \in Nat /\ a \in Nat
      <4>1. req(v) \in Requests
        BY <2>3 DEF IInv, JobsInPlace, Running, InTransaction
      <4>2. req(v).src \in Accounts
        BY <4>1, DataAssumption, AccountsAssumption
      <4>3. Rows(v) \subseteq Accounts \cup {0}
        BY <1>0, <4>2 DEF Rows, LockSet
      <4>4. Accounts \subseteq Nat
        BY AccountsAssumption
      <4>5. b \in Rows(v)
        BY <2>4 DEF Wanted
      <4>6. b \in Nat
        <5>1. b \in Accounts \cup {0}
          BY <4>3, <4>5
        <5>2. CASE b \in Accounts
          BY <4>4, <5>2
        <5>3. CASE b = 0
          BY <5>3
        <5> QED BY <5>1, <5>2, <5>3
      <4>7. a \in Nat
        BY <2>1, <3>1, <4>4
      <4> QED BY <4>6, <4>7
    <3> QED BY <3>1, <3>2, <3>3
  <2> QED BY <2>5, <2>6
<1> QED BY <1>1, <1>2, <1>3

LEMMA ChecksStep ==
    ASSUME IInv, NEW w \in Workers, Kind(w)
    PROVE  ChecksPassed'
<1> SUFFICES ASSUME NEW v \in Workers, pc'[v] \in {"insert", "upsert", "commit"}
             PROVE  /\ Funded(req(v)', seen'[v][req(v)'.src])
                    /\ WithinLimit(req(v)', used'[v])
  BY DEF ChecksPassed, Funded, WithinLimit
<1> USE DEF tables, clock, attemptVars
<1>0. pc[v] \in {"insert", "upsert", "commit"} =>
        /\ Funded(req(v), seen[v][req(v).src])
        /\ WithinLimit(req(v), used[v])
  BY DEF IInv, ChecksPassed
<1>1. CASE Ends(w) \/ Commits(w)
  BY <1>0, <1>1 DEF IInv, TypeOK, Ends, Commits, EndAttempt, req
<1>2. CASE Outside(w)
  BY <1>0, <1>2 DEF IInv, TypeOK, Outside, req
<1>3. CASE Begin(w)
  BY <1>0, <1>3 DEF IInv, TypeOK, Begin, req
<1>4. CASE Lock(w)
  BY <1>0, <1>4 DEF IInv, TypeOK, Lock, req
<1>5. CASE CheckPasses(w) \/ Insert(w) \/ Upsert(w)
  BY <1>0, <1>5 DEF IInv, TypeOK, CheckPasses, Insert, Upsert, req
<1> QED BY <1>1, <1>2, <1>3, <1>4, <1>5 DEF Kind

LEMMA UsageStep ==
    ASSUME IInv, NEW w \in Workers, Kind(w)
    PROVE  UsageCurrent'
<1> USE DEF tables, clock, attemptVars
<1>0. /\ \A v \in Workers : InTx(v) /\ ~staleUse[v] => used[v] = usage[Row(v)]
      /\ \A v \in Workers : pc[v] = "commit" => ~staleUse[v]
      /\ \A v, u \in Workers :
           v # u /\ pc[v] = "commit" /\ pc[u] = "commit" => Row(v) # Row(u)
      /\ pc \in [Workers -> PCs] /\ used \in [Workers -> Nat] /\ staleUse \in [Workers -> BOOLEAN]
  BY DEF IInv, UsageCurrent, TypeOK
<1>1. CASE Ends(w)
  BY <1>0, <1>1 DEF UsageCurrent, Ends, EndAttempt, ForgetStale, InTx, InTransaction, Row, req
<1>2. CASE Outside(w)
  <2>1. \A v \in Workers : InTx(v)' => v # w
    BY <1>2 DEF Outside, InTx, InTransaction
  <2>2. \A v \in Workers : v # w => pc'[v] = pc[v] /\ job'[v] = job[v]
    BY <1>2 DEF Outside
  <2>3. \A v \in Workers : v # w => (InTx(v)' <=> InTx(v)) /\ Row(v)' = Row(v)
    BY <2>2 DEF InTx, Row, req
  <2>4. pc'[w] # "commit"
    BY <1>2 DEF Outside
  <2>5. UNCHANGED <<used, usage, staleUse>>
    BY <1>2 DEF Outside
  <2> QED BY <1>0, <2>1, <2>2, <2>3, <2>4, <2>5 DEF UsageCurrent
<1>3. CASE Commits(w)
  <2>1. pc[w] = "commit" /\ pc' = [pc EXCEPT ![w] = "done"] /\ job' = job
    BY <1>3 DEF Commits
  <2>2. \A v \in Workers : Row(v)' = Row(v)
    BY <2>1 DEF Row, req
  <2>3. used' = [used EXCEPT ![w] = 0]
    BY <1>3 DEF Commits, EndAttempt
  <2>4. staleUse' = [v \in Workers |->
                       IF v = w THEN FALSE
                       ELSE staleUse[v] \/ (InTx(v) /\ Row(v) = Row(w))]
    BY <1>3 DEF Commits, Apply
  <2>5. usage' = [usage EXCEPT ![Row(w)] = @ + Total(req(w))] /\ usage \in [UsageRows -> Nat]
    BY <1>3, AfterCommit DEF IInv, TypeOK
  <2>6. ASSUME NEW v \in Workers, v # w, InTx(v), ~staleUse'[v]
        PROVE  used'[v] = usage'[Row(v)]
    <3>1. Row(v) # Row(w) /\ ~staleUse[v]
      BY <2>4, <2>6, Zenon
    <3>2. Row(v) \in UsageRows
      <4>1. req(v) \in Requests
        BY <2>6 DEF IInv, JobsInPlace, InTx, InTransaction, Running
      <4>2. req(v) \in Request
        BY <4>1, DataAssumption
      <4> QED BY <4>2 DEF IInv, TypeOK, Row, UsageRow, UsageRows, Request
    <3> QED BY <1>0, <2>3, <2>5, <2>6, <3>1, <3>2
  <2>7. \A v \in Workers : v # w => InTx(v)' = InTx(v) /\ pc'[v] = pc[v]
    BY <1>0, <2>1 DEF InTx
  <2>8. ~InTx(w)' /\ pc'[w] = "done"
    BY <1>0, <2>1 DEF InTx, InTransaction
  <2>9. \A v \in Workers : v # w /\ pc[v] = "commit" => ~staleUse'[v]
    BY <1>0, <2>1, <2>4, Zenon
  <2> QED BY <1>0, <2>2, <2>6, <2>7, <2>8, <2>9 DEF UsageCurrent
<1>4. CASE Begin(w)
  <2>1. /\ pc[w] = "begin" /\ pc' = [pc EXCEPT ![w] = "lock"]
        /\ used' = [used EXCEPT ![w] = usage[Row(w)]]
        /\ UNCHANGED <<usage, job, staleUse>>
    BY <1>4 DEF Begin
  <2>2. \A v \in Workers : Row(v)' = Row(v)
    BY <2>1 DEF Row, req
  <2> QED BY <1>0, <2>1, <2>2 DEF UsageCurrent, InTx, InTransaction
<1>5. CASE Lock(w) \/ CheckPasses(w) \/ Insert(w)
  <2>1. /\ pc[w] \in {"lock", "check", "insert"}
        /\ \E p \in {"lock", "check", "insert", "upsert"} : pc' = [pc EXCEPT ![w] = p]
        /\ UNCHANGED <<usage, job, used, staleUse>>
    BY <1>5 DEF Lock, NextRow, CheckPasses, Insert
  <2>2. \A v \in Workers : Row(v)' = Row(v)
    BY <2>1 DEF Row, req
  <2> QED BY <1>0, <2>1, <2>2 DEF UsageCurrent, InTx, InTransaction
<1>6. CASE Upsert(w)
  <2>1. /\ pc[w] = "upsert" /\ pc' = [pc EXCEPT ![w] = "commit"]
        /\ UsageRowFree(w) /\ ~staleUse[w]
        /\ UNCHANGED <<usage, job, used, staleUse>>
    BY <1>6 DEF Upsert
  <2>2. \A v \in Workers : Row(v)' = Row(v)
    BY <2>1 DEF Row, req
  <2> QED BY <1>0, <2>1, <2>2 DEF UsageCurrent, UsageRowFree, InTx, InTransaction
<1> QED BY <1>1, <1>2, <1>3, <1>4, <1>5, <1>6 DEF Kind

LEMMA KeysStep ==
    ASSUME IInv, NEW w \in Workers, Kind(w)
    PROVE  KeysReserved' /\ OneTxnPerKey'
<1> USE DEF tables, clock, attemptVars
<1>0. /\ \A v \in Workers : Inserted(v) => Existing(v) = {}
      /\ \A v, u \in Workers : v # u /\ Inserted(v) /\ Inserted(u) => ~SameKey(v, u)
      /\ OneTxnPerKey
      /\ pc \in [Workers -> PCs]
  BY DEF IInv, KeysReserved, TypeOK
<1>1. CASE Ends(w)
  BY <1>0, <1>1 DEF KeysReserved, OneTxnPerKey, Ends, Inserted, Existing, SameKey, req
<1>2. CASE Outside(w)
  <2>1. OneTxnPerKey'
    BY <1>0, <1>2 DEF OneTxnPerKey, Outside
  <2>2. ASSUME NEW v \in Workers, Inserted(v)'
        PROVE  v # w /\ Inserted(v) /\ req(v)' = req(v)
    BY <1>2, <2>2 DEF Outside, Inserted, req
  <2>3. \A v \in Workers : Inserted(v)' => Existing(v)' = Existing(v)
    BY <1>2, <2>2 DEF Outside, Existing
  <2>4. \A v, u \in Workers : Inserted(v)' /\ Inserted(u)' /\ SameKey(v, u)' => SameKey(v, u)
    BY <2>2 DEF SameKey
  <2> QED BY <1>0, <2>1, <2>2, <2>3, <2>4 DEF KeysReserved
<1>3. CASE Commits(w)
  <2>1. pc[w] = "commit" /\ pc' = [pc EXCEPT ![w] = "done"] /\ job' = job
    BY <1>3 DEF Commits
  <2>2. PICK t : txns' = txns \cup {t} /\ t.user = req(w).user /\ t.key = req(w).key
    BY <1>3, AfterCommit
  <2>3. Inserted(w) /\ Existing(w) = {}
    BY <1>0, <2>1 DEF Inserted
  <2>4. OneTxnPerKey'
    BY <1>0, <2>2, <2>3 DEF OneTxnPerKey, Existing
  <2>5. \A v \in Workers : Inserted(v)' => v # w /\ Inserted(v)
    BY <1>0, <2>1 DEF Inserted
  <2>6. \A v, u \in Workers : SameKey(v, u)' = SameKey(v, u)
    BY <2>1 DEF SameKey, req
  <2>7. ASSUME NEW v \in Workers, v # w, Inserted(v)
        PROVE  Existing(v)' = {}
    <3>1. ~SameKey(v, w) /\ Existing(v) = {}
      BY <1>0, <2>3, <2>7
    <3> QED BY <2>1, <2>2, <3>1 DEF Existing, SameKey, req
  <2> QED BY <1>0, <2>4, <2>5, <2>6, <2>7 DEF KeysReserved
<1>4. CASE Begin(w) \/ Lock(w) \/ CheckPasses(w)
  <2>1. /\ pc[w] \in {"begin", "lock", "check"}
        /\ \E p \in {"lock", "check", "insert"} : pc' = [pc EXCEPT ![w] = p]
        /\ UNCHANGED <<txns, job>>
    BY <1>4 DEF Begin, Lock, NextRow, CheckPasses
  <2> QED BY <1>0, <2>1 DEF KeysReserved, OneTxnPerKey, Inserted, Existing, SameKey, req
<1>5. CASE Insert(w)
  <2>1. /\ pc[w] = "insert" /\ pc' = [pc EXCEPT ![w] = "upsert"]
        /\ Existing(w) = {}
        /\ \A v \in Workers : Inserted(v) => ~SameKey(v, w)
        /\ UNCHANGED <<txns, job>>
    BY <1>5 DEF Insert
  <2>2. \A v \in Workers : Existing(v)' = Existing(v)
    BY <2>1 DEF Existing, req
  <2>3. ASSUME NEW v \in Workers, NEW u \in Workers, v # u, Inserted(v)', Inserted(u)'
        PROVE  ~SameKey(v, u)'
    <3>1. SameKey(v, u)' => SameKey(v, u)
      BY <2>1 DEF SameKey, req
    <3>2. SameKey(v, u) => SameKey(u, v)
      BY DEF SameKey
    <3>3. /\ v = w \/ Inserted(v)
          /\ u = w \/ Inserted(u)
      BY <1>0, <2>1, <2>3 DEF Inserted
    <3> QED BY <1>0, <2>1, <2>3, <3>1, <3>2, <3>3
  <2>4. \A v \in Workers : Inserted(v)' => v = w \/ Inserted(v)
    BY <1>0, <2>1 DEF Inserted
  <2>5. OneTxnPerKey'
    BY <1>0, <2>1 DEF OneTxnPerKey
  <2>6. ASSUME NEW v \in Workers, Inserted(v)' PROVE Existing(v)' = {}
    BY <1>0, <2>1, <2>2, <2>4, <2>6
  <2>7. KeysReserved'
    BY <2>3, <2>6 DEF KeysReserved
  <2> QED BY <2>5, <2>7
<1>6. CASE Upsert(w)
  <2>1. /\ pc[w] = "upsert" /\ pc' = [pc EXCEPT ![w] = "commit"]
        /\ UNCHANGED <<txns, job>>
    BY <1>6 DEF Upsert
  <2> QED BY <1>0, <2>1 DEF KeysReserved, OneTxnPerKey, Inserted, Existing, SameKey, req
<1> QED BY <1>1, <1>2, <1>3, <1>4, <1>5, <1>6 DEF Kind

LEMMA LimitsStep ==
    ASSUME IInv, NEW w \in Workers, Kind(w)
    PROVE  NoOverdraft' /\ DailyLimitKept'
<1>1. CASE ~Commits(w)
  <2>1. UNCHANGED <<balance, usage>>
    BY <1>1 DEF Kind, Ends, Outside, Begin, Lock, CheckPasses, Insert, Upsert, tables
  <2> QED BY <2>1 DEF IInv, NoOverdraft, DailyLimitKept
<1>2. CASE Commits(w)
  <2> DEFINE r == req(w)
             c == credit[w]
             f == feeAcc[w]
  <2>1. pc[w] = "commit"
    BY <1>2 DEF Commits
  <2>2. /\ r \in Requests /\ DestinationOK(r)
        /\ c \in ShardChoices(r) /\ f \in FeeShards
        /\ Touched(r, c, f) \subseteq held[w]
        /\ \A a \in held[w] : a \in Accounts /\ seen[w][a] = balance[a] /\ balance[a] \in Int
        /\ Funded(r, balance[r.src])
        /\ WithinLimit(r, usage[Row(w)])
        /\ Row(w) \in UsageRows
    BY <2>1, AtCommit
  <2>3. /\ r.src # c /\ r.src # f /\ c # f /\ f \notin Customers
        /\ r.amount \in Nat /\ r.fee \in Nat /\ Total(r) \in Nat
        /\ r.src \in Customers
    BY <2>2, TouchedRows
  <2>4. balance' = [a \in Accounts |-> IF a \in Touched(r, c, f)
                       THEN NewBalance(r, c, f, seen[w], a) ELSE balance[a]]
    BY <1>2 DEF Commits, Apply
  <2>5. /\ balance \in [Accounts -> Int] /\ usage \in [UsageRows -> Nat]
        /\ Hold \in [Accounts -> Nat] /\ DailyLimit \in [Users \X Kinds -> Nat]
        /\ Customers \subseteq Accounts
    BY DataAssumption, AccountsAssumption DEF IInv, TypeOK
  <2>6. NoOverdraft'
    <3> HIDE DEF r, c, f
    <3> SUFFICES ASSUME NEW a \in Customers PROVE balance'[a] >= Hold[a]
      BY DEF NoOverdraft
    <3>1. balance[a] >= Hold[a] /\ a \in Accounts /\ Hold[a] \in Nat /\ balance[a] \in Int
      BY <2>5 DEF IInv, NoOverdraft
    <3>2. CASE a \notin Touched(r, c, f)
      BY <2>4, <3>1, <3>2
    <3>3. CASE a = r.src
      <4>1. a \in Touched(r, c, f)
        BY <3>3 DEF Touched
      <4>2. seen[w][a] = balance[a]
        BY <2>2, <4>1
      <4>3. balance'[a] = NewBalance(r, c, f, seen[w], a)
        BY <2>4, <3>1, <4>1
      <4>4. balance'[a] = balance[a] - Total(r)
        BY <2>3, <3>3, <4>2, <4>3 DEF NewBalance
      <4>5. balance[a] - Hold[a] >= Total(r)
        BY <2>2, <3>3 DEF Funded
      <4> QED BY <2>3, <3>1, <4>4, <4>5
    <3>4. CASE a = c
      <4>1. a \in Touched(r, c, f)
        BY <3>4 DEF Touched
      <4>2. balance'[a] = balance[a] + r.amount
        BY <2>2, <2>3, <2>4, <3>1, <3>4, <4>1 DEF NewBalance
      <4> QED BY <2>3, <3>1, <4>2
    <3> QED BY <2>3, <3>2, <3>3, <3>4 DEF Touched
  <2>7. DailyLimitKept'
    <3>1. usage' = [usage EXCEPT ![Row(w)] = @ + Total(r)]
      BY <1>2, AfterCommit
    <3>2. Row(w) = <<r.user, r.kind, job[w].day>>
      BY DEF Row, UsageRow
    <3>3. usage[Row(w)] + Total(r) <= DailyLimit[<<r.user, r.kind>>]
      BY <2>2 DEF WithinLimit
    <3> HIDE DEF r, c, f
    <3> SUFFICES ASSUME NEW u \in Users, NEW k \in Kinds, NEW d \in Days
                 PROVE  usage'[<<u, k, d>>] <= DailyLimit[<<u, k>>]
      BY DEF DailyLimitKept
    <3>4. <<u, k, d>> \in UsageRows
      BY DEF UsageRows
    <3>5. CASE <<u, k, d>> = Row(w)
      <4>1. u = r.user /\ k = r.kind
        BY <3>2, <3>5
      <4> QED BY <2>5, <3>1, <3>3, <3>4, <3>5, <4>1
    <3>6. CASE <<u, k, d>> # Row(w)
      BY <2>5, <3>1, <3>4, <3>6 DEF IInv, DailyLimitKept
    <3> QED BY <3>5, <3>6
  <2> QED BY <2>6, <2>7
<1> QED BY <1>1, <1>2

-----------------------------------------------------------------------------
LEMMA InitInv == Init => IInv
<1> SUFFICES ASSUME Init PROVE IInv
  OBVIOUS
<1> USE DEF Init
<1>1. TypeOK
  <2>1. usage \in [UsageRows -> Nat] /\ balance \in [Accounts -> Int]
    BY DataAssumption
  <2>2. answer \in [Workers -> [code : Refusals \cup {"OK", "NONE"}, txn : Nat]]
    BY DEF NoAnswer
  <2>3. job \in [Workers -> [req : Requests \cup {NoRequest}, day : Days]]
    BY ConfigAssumption DEF NoJob
  <2> QED BY <2>1, <2>2, <2>3, ConfigAssumption DEF TypeOK, PCs
<1>2. JobsInPlace /\ LocksHeld /\ Ascending /\ ChecksPassed /\ KeysReserved
  BY DEF JobsInPlace, LocksHeld, Ascending, ChecksPassed, KeysReserved, InTx, InTransaction, Running, Inserted
<1>3. UsageCurrent
  BY DEF UsageCurrent, InTx, InTransaction
<1>4. OneTxnPerKey /\ NoOverdraft
  BY DataAssumption DEF OneTxnPerKey, NoOverdraft
<1>5. DailyLimitKept
  BY DataAssumption DEF DailyLimitKept, UsageRows
<1> QED BY <1>1, <1>2, <1>3, <1>4, <1>5 DEF IInv

LEMMA StepInv == IInv /\ [Next]_vars => IInv'
<1> SUFFICES ASSUME IInv, [Next]_vars PROVE IInv'
  OBVIOUS
<1>1. ASSUME NEW w \in Workers, Kind(w) PROVE IInv'
  BY <1>1, TypeStep, JobsStep, LocksStep, AscendingStep, ChecksStep, UsageStep, KeysStep, LimitsStep DEF IInv
<1>2. CASE Idle
  <2> USE <1>2 DEF Idle, tables, attemptVars
  <2>1. TypeOK'
    BY DEF IInv, TypeOK
  <2>2. JobsInPlace' /\ LocksHeld' /\ Ascending' /\ ChecksPassed'
    BY DEF IInv, JobsInPlace, LocksHeld, Ascending, ChecksPassed, InTx, Wanted, Rows, req
  <2>3. UsageCurrent' /\ KeysReserved'
    BY DEF IInv, UsageCurrent, KeysReserved, InTx, Row, Inserted, Existing, SameKey, req
  <2>4. OneTxnPerKey' /\ NoOverdraft' /\ DailyLimitKept'
    BY DEF IInv, OneTxnPerKey, NoOverdraft, DailyLimitKept
  <2> QED BY <2>1, <2>2, <2>3, <2>4 DEF IInv
<1>3. CASE UNCHANGED vars
  BY <1>2, <1>3 DEF vars, Idle, tables, attemptVars, IInv, TypeOK
<1> QED BY <1>1, <1>2, <1>3, Classified DEF IInv

(* The invariant the other theorems are corollaries of.                    *)
THEOREM Invariance == Spec => []IInv
BY InitInv, StepInv, PTL DEF Spec

(* The state keeps its shape.                                              *)
THEOREM TypeCorrect == Spec => []TypeOK
<1>1. IInv => TypeOK
  BY DEF IInv
<1> QED BY <1>1, Invariance, PTL

(* A key has one transaction whatever the number of executors, retries,    *)
(* lost claims and lost acknowledgements.                                  *)
THEOREM KeysAreUnique == Spec => []OneTxnPerKey
<1>1. IInv => OneTxnPerKey
  BY DEF IInv
<1> QED BY <1>1, Invariance, PTL

(* No interleaving of executors spends funds twice or funds on hold.       *)
THEOREM FundsSuffice == Spec => []NoOverdraft
<1>1. IInv => NoOverdraft
  BY DEF IInv
<1> QED BY <1>1, Invariance, PTL

(* Nor does any pass a daily limit.                                        *)
THEOREM LimitsHold == Spec => []DailyLimitKept
<1>1. IInv => DailyLimitKept
  BY DEF IInv
<1> QED BY <1>1, Invariance, PTL

-----------------------------------------------------------------------------
(* A nonempty set of naturals has a least element, a finite one a greatest.*)
LEMMA HasLeast ==
    ASSUME NEW T, T \subseteq Nat, T # {}
    PROVE  \E m \in T : \A n \in T : m <= n
<1> DEFINE R == OpToRel(<, Nat)
<1>1. PICK m \in T : \A n \in T : <<n, m>> \notin R
  BY NatLessThanWellFounded, WFMin
<1>2. ASSUME NEW n \in T, n < m PROVE <<n, m>> \in R
  BY <1>2 DEF OpToRel
<1>3. \A n \in T : ~(n < m)
  BY <1>1, <1>2, Zenon
<1>4. \A n \in T : m \in Int /\ n \in Int
  OBVIOUS
<1> HIDE DEF R
<1> QED BY <1>3, <1>4

(* The element with the fewest elements above it.                          *)
LEMMA HasGreatest ==
    ASSUME NEW T, T \subseteq Nat, T # {}, IsFiniteSet(T)
    PROVE  \E m \in T : \A n \in T : n <= m
<1> DEFINE Above(m) == {n \in T : m < n}
           Counts == {Cardinality(Above(m)) : m \in T}
<1>1. \A m \in T : IsFiniteSet(Above(m)) /\ Cardinality(Above(m)) \in Nat
  BY FS_Subset, FS_CardinalityType
<1>2. PICK c \in Counts : \A d \in Counts : c <= d
  <2>1. Counts \subseteq Nat /\ Counts # {}
    BY <1>1
  <2> HIDE DEF Counts
  <2> QED BY <2>1, HasLeast
<1>3. PICK m \in T : c = Cardinality(Above(m))
  OBVIOUS
<1>4. ASSUME NEW n \in T, m < n PROVE FALSE
  <2>1. \A x \in Above(n) : x \in Above(m)
    BY <1>4
  <2>a. n \in Above(m) /\ n \notin Above(n)
    BY <1>4
  <2>b. Above(n) \in SUBSET Above(m) /\ Above(n) # Above(m)
    BY <2>1, <2>a
  <2>2. Cardinality(Above(n)) < Cardinality(Above(m))
    BY <1>1, <2>b, FS_Subset, FS_CardinalityType
  <2>3. Cardinality(Above(m)) <= Cardinality(Above(n))
    BY <1>2, <1>3
  <2> QED BY <1>1, <2>2, <2>3
<1> QED BY <1>4

(* Of the workers of a set that all wait for each other's rows, the one    *)
(* that asks for the greatest would wait for a holder that asks for a      *)
(* greater one. Waits for a key or for a row of daily_usage end at workers *)
(* further on, and those wait for less.                                    *)
LEMMA WaitsEnd == IInv => NoWaitCycle
<1> SUFFICES ASSUME IInv, NEW S \in (SUBSET Workers) \ {{}},
                    \A w \in S : \E v \in S : WaitsFor(w, v)
             PROVE  FALSE
  BY DEF NoWaitCycle
<1> DEFINE Asked == {a \in Accounts : \E w \in S : NextRow(w, a)}
<1>1. S \subseteq Workers /\ S # {}
  OBVIOUS
<1>2. \A w \in S : pc[w] \in {"lock", "insert", "upsert"}
  BY DEF WaitsFor, NextRow
<1>3. \A w \in S : pc[w] # "upsert"
  BY <1>2 DEF WaitsFor, NextRow
<1>4. \A w \in S : pc[w] # "insert"
  BY <1>2, <1>3 DEF WaitsFor, NextRow, Inserted
<1>5. \A w \in S : \E v \in S, a \in Accounts : NextRow(w, a) /\ a \in held[v]
  BY <1>3, <1>4 DEF WaitsFor
<1>6. Asked # {} /\ Asked \subseteq Nat /\ IsFiniteSet(Asked)
  BY <1>1, <1>5, AccountsAssumption, FS_Subset
<1>7. PICK m \in Asked : \A n \in Asked : n <= m
  BY <1>6, HasGreatest
<1>8. PICK w \in S : NextRow(w, m)
  OBVIOUS
<1>9. PICK v \in S, a \in Accounts : NextRow(w, a) /\ a \in held[v]
  BY <1>5
<1>10. a = m
  BY <1>6, <1>8, <1>9 DEF NextRow
<1>11. PICK b \in Accounts : NextRow(v, b)
  BY <1>5
<1>12. pc[v] = "lock" /\ b \in Wanted(v) /\ v \in Workers
  BY <1>1, <1>11 DEF NextRow
<1>13. m < b
  BY <1>9, <1>10, <1>12 DEF IInv, Ascending
<1>14. b \in Asked /\ m \in Nat /\ b \in Nat
  BY <1>6, <1>11
<1> QED BY <1>7, <1>13, <1>14

(* No set of executors waits in a circle, on any mix of the rails: what    *)
(* L-05 of docs/06-LEDGER asks of the order of the locks.                  *)
THEOREM NoDeadlock == Spec => []NoWaitCycle
BY WaitsEnd, Invariance, PTL

-----------------------------------------------------------------------------
(* The sums of the books. A sum is a recursive function on 0 .. n; what is *)
(* needed of it is shown by least counterexample, from HasLeast.           *)

(* The term that S and g give number k.                                    *)
Term(S, g, k) == IF k \in S THEN g[k] ELSE 0

(* A set of naturals closed under successor holds them all: the failures,  *)
(* were there any, would have a least one.                                 *)
LEMMA Induction ==
    ASSUME NEW T, 0 \in T, \A n \in Nat : n \in T => n + 1 \in T
    PROVE  Nat \subseteq T
<1> SUFFICES ASSUME Nat \ T # {} PROVE FALSE
  OBVIOUS
<1>1. PICK m \in Nat \ T : \A n \in Nat \ T : m <= n
  BY HasLeast
<1>2. m # 0 /\ m \in Nat /\ m - 1 \in Nat
  BY <1>1
<1>3. m - 1 \in T
  BY <1>1, <1>2
<1>4. m = (m - 1) + 1
  BY <1>2
<1> QED BY <1>1, <1>2, <1>3, <1>4

(* s adds up the terms of S and g below n, one number after the other.     *)
Adds(S, g, n, s) ==
    s = [i \in 0 .. n |-> IF i = 0 THEN 0 ELSE s[i - 1] + (IF i - 1 \in S THEN g[i - 1] ELSE 0)]

(* Such a function exists for every n, and only one.                       *)
LEMMA AddsExist == \A S, g : \A n \in Nat : \E s : Adds(S, g, n, s)
<1> SUFFICES ASSUME NEW S, NEW g PROVE \A n \in Nat : \E s : Adds(S, g, n, s)
  OBVIOUS
<1> DEFINE T == {k \in Nat : \E s : Adds(S, g, k, s)}
<1>1. 0 \in T
  <2>1. Adds(S, g, 0, [i \in 0 .. 0 |-> 0])
    BY DEF Adds
  <2> QED BY <2>1
<1>2. ASSUME NEW k \in Nat, k \in T PROVE k + 1 \in T
  <2>1. PICK s : Adds(S, g, k, s)
    BY <1>2
  <2> DEFINE r == [i \in 0 .. k + 1 |-> IF i = k + 1 THEN s[k] + Term(S, g, k) ELSE s[i]]
  <2>2. \A i \in 0 .. k : s[i] = IF i = 0 THEN 0 ELSE s[i - 1] + Term(S, g, i - 1)
    BY <2>1 DEF Adds, Term
  <2>3. \A i \in 0 .. k + 1 : r[i] = IF i = 0 THEN 0 ELSE r[i - 1] + Term(S, g, i - 1)
    BY <2>2
  <2>4. Adds(S, g, k + 1, r)
    BY <2>3 DEF Adds, Term
  <2>5. k + 1 \in Nat
    OBVIOUS
  <2> HIDE DEF r
  <2> QED BY <2>4, <2>5
<1> HIDE DEF T
<1>3. Nat \subseteq T
  BY <1>1, <1>2, Induction
<1> QED BY <1>3 DEF T

LEMMA AddsAgree ==
    ASSUME NEW S, NEW g, NEW n \in Nat, NEW m \in Nat, n <= m,
           NEW s, NEW r, Adds(S, g, n, s), Adds(S, g, m, r)
    PROVE  s[n] = r[n]
<1> DEFINE T == {i \in Nat : i <= n => s[i] = r[i]}
<1>1. 0 \in T
  BY DEF Adds
<1>2. ASSUME NEW i \in Nat, i \in T PROVE i + 1 \in T
  <2> SUFFICES ASSUME i + 1 <= n PROVE s[i + 1] = r[i + 1]
    OBVIOUS
  <2>1. s[i] = r[i]
    BY <1>2
  <2>2. s[i + 1] = s[i] + Term(S, g, i)
    BY DEF Adds, Term
  <2>3. r[i + 1] = r[i] + Term(S, g, i)
    BY DEF Adds, Term
  <2> QED BY <2>1, <2>2, <2>3
<1> HIDE DEF T
<1>3. Nat \subseteq T
  BY <1>1, <1>2, Induction
<1>4. n \in T
  BY <1>3
<1> QED BY <1>4 DEF T

LEMMA SumBelowAdds ==
    ASSUME NEW S, NEW g, NEW n \in Nat
    PROVE  \E s : Adds(S, g, n, s) /\ SumBelow(S, g, n) = s[n]
<1> DEFINE s[i \in 0 .. n] ==
            IF i = 0 THEN 0 ELSE s[i - 1] + (IF i - 1 \in S THEN g[i - 1] ELSE 0)
<1>1. SumBelow(S, g, n) = s[n]
  BY DEF SumBelow
<1>2. \E f : Adds(S, g, n, f)
  BY AddsExist
<1>3. Adds(S, g, n, s)
  BY <1>2 DEF Adds
<1> QED BY <1>1, <1>3

LEMMA SumBelowSteps ==
    ASSUME NEW S, NEW g, NEW n \in Nat
    PROVE  /\ SumBelow(S, g, 0) = 0
           /\ SumBelow(S, g, n + 1) = SumBelow(S, g, n) + Term(S, g, n)
<1>1. SumBelow(S, g, 0) = 0
  BY SumBelowAdds DEF Adds
<1>2. PICK s : Adds(S, g, n, s) /\ SumBelow(S, g, n) = s[n]
  BY SumBelowAdds
<1>3. PICK r : Adds(S, g, n + 1, r) /\ SumBelow(S, g, n + 1) = r[n + 1]
  BY SumBelowAdds
<1>4. s[n] = r[n]
  BY <1>2, <1>3, AddsAgree
<1>5. r[n + 1] = r[n] + Term(S, g, n)
  BY <1>3 DEF Adds, Term
<1> QED BY <1>1, <1>2, <1>3, <1>4, <1>5

(* The sum depends on the terms only.                                      *)
LEMMA SumBelowSame ==
    ASSUME NEW S, NEW g, NEW R, NEW f, NEW n \in Nat,
           \A k \in Nat : k < n => Term(S, g, k) = Term(R, f, k)
    PROVE  SumBelow(S, g, n) = SumBelow(R, f, n)
<1> DEFINE T == {k \in Nat : k <= n => SumBelow(S, g, k) = SumBelow(R, f, k)}
<1>1. 0 \in T
  BY SumBelowSteps
<1>2. ASSUME NEW k \in Nat, k \in T PROVE k + 1 \in T
  <2> SUFFICES ASSUME k + 1 <= n PROVE SumBelow(S, g, k + 1) = SumBelow(R, f, k + 1)
    OBVIOUS
  <2>1. SumBelow(S, g, k) = SumBelow(R, f, k)
    BY <1>2
  <2>2. /\ SumBelow(S, g, k + 1) = SumBelow(S, g, k) + Term(S, g, k)
        /\ SumBelow(R, f, k + 1) = SumBelow(R, f, k) + Term(R, f, k)
    BY SumBelowSteps
  <2> QED BY <2>1, <2>2
<1> HIDE DEF T
<1>3. n \in T
  BY <1>1, <1>2, Induction
<1> QED BY <1>3 DEF T

LEMMA SumBelowInt ==
    ASSUME NEW S, NEW g, \A k \in S : g[k] \in Int, NEW n \in Nat
    PROVE  SumBelow(S, g, n) \in Int
<1> DEFINE T == {k \in Nat : SumBelow(S, g, k) \in Int}
<1>1. 0 \in T
  BY SumBelowSteps
<1>2. ASSUME NEW k \in Nat, k \in T PROVE k + 1 \in T
  BY <1>2, SumBelowSteps DEF Term
<1> HIDE DEF T
<1>3. n \in T
  BY <1>1, <1>2, Induction
<1> QED BY <1>3 DEF T

(* Above the greatest element nothing is added.                            *)
LEMMA SumBelowFlat ==
    ASSUME NEW S, NEW g, \A k \in S : g[k] \in Int,
           NEW b \in Nat, \A k \in S : k < b, NEW n \in Nat, b <= n
    PROVE  SumBelow(S, g, n) = SumBelow(S, g, b)
<1> DEFINE T == {d \in Nat : SumBelow(S, g, b + d) = SumBelow(S, g, b)}
<1>1. 0 \in T
  OBVIOUS
<1>2. ASSUME NEW d \in Nat, d \in T PROVE d + 1 \in T
  <2>1. SumBelow(S, g, (b + d) + 1) = SumBelow(S, g, b + d) + Term(S, g, b + d)
    BY SumBelowSteps
  <2>2. Term(S, g, b + d) = 0
    BY DEF Term
  <2>3. SumBelow(S, g, b) \in Int
    BY SumBelowInt
  <2>4. (b + d) + 1 = b + (d + 1)
    OBVIOUS
  <2> QED BY <1>2, <2>1, <2>2, <2>3, <2>4
<1> HIDE DEF T
<1>3. n - b \in T
  BY <1>1, <1>2, Induction
<1>4. b + (n - b) = n
  OBVIOUS
<1> QED BY <1>3, <1>4 DEF T

(* (R, f) is (S, g) with one number more.                                  *)
Extended(S, g, x, R, f) ==
    /\ S \subseteq Nat /\ IsFiniteSet(S)
    /\ x \in Nat /\ x \notin S /\ R = S \cup {x}
    /\ f[x] \in Int
    /\ \A k \in S : g[k] \in Int /\ f[k] = g[k]

(* One more element adds its term, wherever it stands.                     *)
LEMMA SumBelowPut ==
    ASSUME NEW S, NEW g, NEW x, NEW R, NEW f, Extended(S, g, x, R, f),
           NEW n \in Nat, x < n
    PROVE  SumBelow(R, f, n) = SumBelow(S, g, n) + f[x]
<1>0. /\ S \subseteq Nat /\ IsFiniteSet(S)
      /\ x \in Nat /\ x \notin S /\ R = S \cup {x} /\ f[x] \in Int
      /\ \A k \in S : g[k] \in Int /\ f[k] = g[k]
  BY DEF Extended
<1>a. f[x] \in Int /\ x \in Nat
  BY <1>0
<1>b. \A k \in Nat : k # x => Term(R, f, k) = Term(S, g, k) /\ Term(S, g, k) \in Int
  BY <1>0 DEF Term
<1> DEFINE T == {d \in Nat : SumBelow(R, f, (x + 1) + d) = SumBelow(S, g, (x + 1) + d) + f[x]}
<1>1. 0 \in T
  <2>1. SumBelow(R, f, x) = SumBelow(S, g, x)
    <3>1. \A k \in Nat : k < x => Term(R, f, k) = Term(S, g, k)
      BY <1>a, <1>b
    <3> QED BY <1>a, <3>1, SumBelowSame
  <2>2. Term(R, f, x) = f[x] /\ Term(S, g, x) = 0
    BY <1>0 DEF Term
  <2>3. /\ SumBelow(R, f, x + 1) = SumBelow(R, f, x) + Term(R, f, x)
        /\ SumBelow(S, g, x + 1) = SumBelow(S, g, x) + Term(S, g, x)
        /\ SumBelow(S, g, x) \in Int
    BY <1>0, SumBelowSteps, SumBelowInt
  <2>4. (x + 1) + 0 = x + 1
    BY <1>a
  <2> QED BY <1>a, <2>1, <2>2, <2>3, <2>4
<1>2. ASSUME NEW d \in Nat, d \in T PROVE d + 1 \in T
  <2> DEFINE k == (x + 1) + d
  <2>1. k \in Nat /\ k # x /\ (x + 1) + (d + 1) = k + 1
    BY <1>a
  <2>2. Term(R, f, k) = Term(S, g, k) /\ Term(S, g, k) \in Int
    BY <1>b, <2>1
  <2>3. SumBelow(R, f, k) = SumBelow(S, g, k) + f[x]
    BY <1>2
  <2> HIDE DEF k
  <2>4. /\ SumBelow(R, f, k + 1) = SumBelow(R, f, k) + Term(R, f, k)
        /\ SumBelow(S, g, k + 1) = SumBelow(S, g, k) + Term(S, g, k)
        /\ SumBelow(S, g, k) \in Int
    BY <1>0, <2>1, SumBelowSteps, SumBelowInt
  <2>5. SumBelow(R, f, k + 1) = SumBelow(S, g, k + 1) + f[x]
    BY <1>a, <2>2, <2>3, <2>4
  <2> QED BY <2>1, <2>5
<1> HIDE DEF T
<1>3. n - (x + 1) \in T
  BY <1>a, <1>1, <1>2, Induction
<1>4. (x + 1) + (n - (x + 1)) = n
  BY <1>a
<1> QED BY <1>3, <1>4 DEF T

LEMMA SumOverBelow ==
    ASSUME NEW S, S \subseteq Nat, IsFiniteSet(S),
           NEW g, \A k \in S : g[k] \in Int,
           NEW n \in Nat, \A k \in S : k < n
    PROVE  SumOver(S, g) = SumBelow(S, g, n)
<1>1. CASE S = {}
  <2>1. SumBelow(S, g, n) = SumBelow(S, g, 0)
    BY <1>1, SumBelowFlat
  <2> QED BY <1>1, <2>1, SumBelowSteps DEF SumOver
<1>2. CASE S # {}
  <2> DEFINE m == CHOOSE m \in S : \A k \in S : k <= m
  <2>1. m \in S /\ \A k \in S : k <= m
    BY <1>2, HasGreatest
  <2>2. SumOver(S, g) = SumBelow(S, g, 1 + m)
    BY <1>2 DEF SumOver
  <2> HIDE DEF m
  <2>3. 1 + m \in Nat /\ 1 + m <= n /\ \A k \in S : k < 1 + m
    BY <2>1
  <2>4. SumBelow(S, g, n) = SumBelow(S, g, 1 + m)
    BY <2>3, SumBelowFlat
  <2> QED BY <2>2, <2>4
<1> QED BY <1>1, <1>2

LEMMA SumOverEmpty == \A g : SumOver({}, g) = 0
BY DEF SumOver

LEMMA SumOverAdd ==
    ASSUME NEW S, NEW g, NEW x, NEW R, NEW f, Extended(S, g, x, R, f)
    PROVE  SumOver(R, f) = SumOver(S, g) + f[x]
<1>0. /\ S \subseteq Nat /\ IsFiniteSet(S)
      /\ x \in Nat /\ x \notin S /\ R = S \cup {x} /\ f[x] \in Int
      /\ \A k \in S : g[k] \in Int /\ f[k] = g[k]
  BY DEF Extended
<1>1. R \subseteq Nat /\ IsFiniteSet(R) /\ R # {}
  BY <1>0, FS_AddElement
<1>2. PICK n \in Nat : \A k \in R : k < n
  <2>1. PICK m \in R : \A k \in R : k <= m
    BY <1>1, HasGreatest
  <2>2. m + 1 \in Nat /\ \A k \in R : k < m + 1
    BY <1>1, <2>1
  <2> QED BY <2>2
<1>3. \A k \in R : f[k] \in Int
  BY <1>0
<1>4. x < n /\ \A k \in S : k < n
  BY <1>0, <1>2
<1>5. SumOver(S, g) = SumBelow(S, g, n)
  BY <1>0, <1>4, SumOverBelow
<1>6. SumBelow(R, f, n) = SumBelow(S, g, n) + f[x]
  <2>1. SumBelow(S, g, n) \in Int /\ f[x] \in Int
    BY <1>0, SumBelowInt
  <2> QED BY <1>4, <2>1, SumBelowPut
<1>7. SumOver(R, f) = SumBelow(R, f, n)
  BY <1>1, <1>2, <1>3, SumOverBelow
<1> QED BY <1>5, <1>6, <1>7

(* The sum depends on the values of g on S only.                           *)
LEMMA SumOverSame ==
    ASSUME NEW S, NEW g, NEW f, \A k \in S : f[k] = g[k],
           S \subseteq Nat, IsFiniteSet(S), \A k \in S : g[k] \in Int
    PROVE  SumOver(S, g) = SumOver(S, f)
<1>1. CASE S = {}
  BY <1>1, SumOverEmpty
<1>2. CASE S # {}
  <2>1. PICK m \in S : \A k \in S : k <= m
    BY <1>2, HasGreatest
  <2>2. m + 1 \in Nat /\ \A k \in S : k < m + 1
    BY <2>1
  <2>3. SumOver(S, g) = SumBelow(S, g, m + 1) /\ SumOver(S, f) = SumBelow(S, f, m + 1)
    BY <2>2, SumOverBelow
  <2>4. \A k \in Nat : Term(S, g, k) = Term(S, f, k)
    BY DEF Term
  <2> QED BY <2>2, <2>3, <2>4, SumBelowSame
<1> QED BY <1>1, <1>2

(* The sums of two and of three terms.                                     *)
LEMMA SumOfTwo ==
    ASSUME NEW x \in Nat, NEW y \in Nat, x # y, NEW R, R = {x, y},
           NEW g, g[x] \in Int, g[y] \in Int
    PROVE  SumOver(R, g) = g[x] + g[y]
<1> DEFINE One == {x}
<1>1. Extended({}, g, x, One, g) /\ Extended(One, g, y, R, g)
  BY FS_EmptySet, FS_Singleton DEF Extended
<1> HIDE DEF One
<1>2. SumOver({}, g) = 0
  BY SumOverEmpty
<1>3. SumOver(One, g) = g[x]
  BY <1>1, <1>2, SumOverAdd
<1>4. SumOver(R, g) = SumOver(One, g) + g[y]
  BY <1>1, <1>3, SumOverAdd
<1> QED BY <1>3, <1>4

LEMMA SumOfThree ==
    ASSUME NEW x \in Nat, NEW y \in Nat, NEW z \in Nat, x # y, x # z, y # z,
           NEW R, R = {x, y, z},
           NEW g, g[x] \in Int, g[y] \in Int, g[z] \in Int
    PROVE  SumOver(R, g) = g[x] + g[y] + g[z]
<1> DEFINE Two == {x, y}
<1>1. IsFiniteSet(Two)
  <2>1. Two = {x} \cup {y} /\ IsFiniteSet({x})
    BY FS_Singleton
  <2> HIDE DEF Two
  <2> QED BY <2>1, FS_AddElement, Zenon
<1>2. Extended(Two, g, z, R, g)
  BY <1>1 DEF Extended
<1>3. SumOver(Two, g) = g[x] + g[y]
  <2>1. Two = {x, y}
    OBVIOUS
  <2> HIDE DEF Two
  <2> QED BY <2>1, SumOfTwo
<1> HIDE DEF Two
<1>4. SumOver(R, g) = SumOver(Two, g) + g[z]
  BY <1>2, <1>3, SumOverAdd
<1> QED BY <1>3, <1>4

-----------------------------------------------------------------------------
(* A posting has one leg per row it touches; they sum to zero, and what    *)
(* they take is what the request costs.                                    *)
LEMMA LegsOfPosting ==
    ASSUME NEW r \in Requests, DestinationOK(r), NEW c \in ShardChoices(r), NEW f \in FeeShards,
           NEW bal \in [Accounts -> Int], NEW t, t.legs = Legs(r, c, f, bal)
    PROVE  /\ AccountsOf(t) = Touched(r, c, f)
           /\ \A l, m \in t.legs : l.acc = m.acc => l = m
           /\ \A a \in Touched(r, c, f) :
                /\ LegIn(t, a).before = bal[a]
                /\ LegIn(t, a).after = NewBalance(r, c, f, bal, a)
           /\ Imbalance(t) = 0
           /\ Debited(t) = Total(r)
<1> DEFINE Leg(a) == [acc    |-> a,
                      delta  |-> NewBalance(r, c, f, bal, a) - bal[a],
                      before |-> bal[a],
                      after  |-> NewBalance(r, c, f, bal, a)]
           T == Touched(r, c, f)
<1>1. t.legs = {Leg(a) : a \in T}
  BY DEF Legs
<1>2. \A a : Leg(a).acc = a
  OBVIOUS
<1>3. AccountsOf(t) = T
  <2> HIDE DEF Leg, T
  <2> QED BY <1>1, <1>2 DEF AccountsOf
<1>4. \A l, m \in t.legs : l.acc = m.acc => l = m
  <2> HIDE DEF Leg, T
  <2> QED BY <1>1, <1>2
<1>5. \A a \in T : LegIn(t, a) = Leg(a)
  <2> HIDE DEF Leg, T
  <2> QED BY <1>1, <1>2, <1>4 DEF LegIn
<1>6. /\ r.src # c /\ r.src # f /\ c # f
      /\ r.amount \in Nat \ {0} /\ r.fee \in Nat
      /\ r.src \in Accounts /\ c \in Accounts /\ f \in Accounts
  <2>1. c \in LockSet(r, c, f) /\ r.src \in LockSet(r, c, f)
    BY DEF LockSet
  <2> QED BY <2>1, TouchedRows, DataAssumption, AccountsAssumption DEF Request
<1>7. /\ bal[r.src] \in Int /\ bal[c] \in Int /\ bal[f] \in Int
      /\ r.src \in Nat /\ c \in Nat /\ f \in Nat
  BY <1>6, AccountsAssumption
<1>8. /\ NewBalance(r, c, f, bal, r.src) = bal[r.src] - Total(r)
      /\ NewBalance(r, c, f, bal, c) = bal[c] + r.amount
      /\ NewBalance(r, c, f, bal, f) = bal[f] + r.fee
  BY <1>6 DEF NewBalance
<1>9. Imbalance(t) = 0
  <2> DEFINE g == [a \in T |-> LegIn(t, a).delta]
  <2>1. Imbalance(t) = SumOver(T, g)
    BY <1>3 DEF Imbalance
  <2>2. \A a \in T : g[a] = NewBalance(r, c, f, bal, a) - bal[a]
    BY <1>5
  <2>3. r.src \in T /\ c \in T /\ (r.fee > 0 => f \in T)
    BY DEF Touched
  <2> HIDE DEF g, Leg, T
  <2>4. /\ g[r.src] = -Total(r) /\ g[c] = r.amount
        /\ r.fee > 0 => g[f] = r.fee
    BY <1>6, <1>7, <1>8, <2>2, <2>3 DEF Total
  <2>a. -Total(r) \in Int
    BY <1>6 DEF Total
  <2>5. CASE r.fee > 0
    <3>1. T = {r.src, c, f}
      BY <2>5 DEF T, Touched
    <3>2. SumOver(T, g) = g[r.src] + g[c] + g[f]
      BY <1>6, <1>7, <2>4, <2>5, <2>a, <3>1, SumOfThree
    <3> QED BY <1>6, <2>1, <2>4, <2>5, <3>2 DEF Total
  <2>6. CASE r.fee = 0
    <3>1. T = {r.src, c}
      BY <2>6 DEF T, Touched
    <3>2. SumOver(T, g) = g[r.src] + g[c]
      BY <1>6, <1>7, <2>4, <2>6, <2>a, <3>1, SumOfTwo
    <3> QED BY <1>6, <2>1, <2>4, <2>6, <3>2 DEF Total
  <2> QED BY <1>6, <2>5, <2>6
<1>10. Debited(t) = Total(r)
  <2> DEFINE g == [a \in T |-> Debit(LegIn(t, a))]
  <2>1. Debited(t) = SumOver(T, g)
    BY <1>3 DEF Debited
  <2>2. \A a \in T : g[a] = Debit(Leg(a)) /\ Leg(a).delta = NewBalance(r, c, f, bal, a) - bal[a]
    <3>1. \A a : Leg(a).delta = NewBalance(r, c, f, bal, a) - bal[a]
      OBVIOUS
    <3> HIDE DEF Leg, T
    <3> QED BY <1>5, <3>1
  <2>3. r.src \in T /\ c \in T /\ (r.fee > 0 => f \in T)
    BY DEF Touched
  <2> HIDE DEF g, Leg, T
  <2>4. /\ g[r.src] = Total(r) /\ g[c] = 0
        /\ r.fee > 0 => g[f] = 0
    <3>1. /\ Leg(r.src).delta = -Total(r) /\ Leg(c).delta = r.amount
          /\ r.fee > 0 => Leg(f).delta = r.fee
      BY <1>6, <1>7, <1>8, <2>2, <2>3 DEF Total
    <3> QED BY <1>6, <2>2, <2>3, <3>1 DEF Debit, Total
  <2>a. Total(r) \in Int
    BY <1>6 DEF Total
  <2>5. CASE r.fee > 0
    <3>1. T = {r.src, c, f}
      BY <2>5 DEF T, Touched
    <3>2. SumOver(T, g) = g[r.src] + g[c] + g[f]
      BY <1>6, <1>7, <2>4, <2>5, <2>a, <3>1, SumOfThree
    <3> QED BY <2>1, <2>4, <2>5, <2>a, <3>2
  <2>6. CASE r.fee = 0
    <3>1. T = {r.src, c}
      BY <2>6 DEF T, Touched
    <3>2. SumOver(T, g) = g[r.src] + g[c]
      BY <1>6, <1>7, <2>4, <2>6, <2>a, <3>1, SumOfTwo
    <3> QED BY <2>1, <2>4, <2>a, <3>2
  <2> QED BY <1>6, <2>5, <2>6
<1>11. \A a \in T : LegIn(t, a).before = bal[a] /\ LegIn(t, a).after = NewBalance(r, c, f, bal, a)
  BY <1>5
<1> QED BY <1>3, <1>4, <1>9, <1>10, <1>11

(* What a commit enters in the books.                                      *)
LEMMA Entry ==
    ASSUME IInv, NEW w \in Workers, Commits(w)
    PROVE  \E new :
             /\ new.id = serial + 1 /\ txns' = txns \cup {new} /\ serial' = serial + 1
             /\ <<new.user, new.kind, new.day>> = Row(w)
             /\ \A l, m \in new.legs : l.acc = m.acc => l = m
             /\ AccountsOf(new) \subseteq Accounts
             /\ \A a \in AccountsOf(new) :
                  LegIn(new, a).before = balance[a] /\ LegIn(new, a).after = balance'[a]
             /\ \A a \in Accounts \ AccountsOf(new) : balance'[a] = balance[a]
             /\ Imbalance(new) = 0
             /\ Debited(new) = Total(req(w)) /\ Total(req(w)) \in Nat
<1> DEFINE r == req(w)
           c == credit[w]
           f == feeAcc[w]
           new == [id   |-> serial + 1, user |-> r.user, key  |-> r.key, kind |-> r.kind,
                   day  |-> job[w].day, legs |-> Legs(r, c, f, seen[w])]
<1>1. pc[w] = "commit" /\ Apply(w)
  BY DEF Commits
<1>2. /\ r \in Requests /\ DestinationOK(r)
      /\ c \in ShardChoices(r) /\ f \in FeeShards
      /\ Touched(r, c, f) \subseteq held[w]
      /\ \A a \in held[w] : a \in Accounts /\ seen[w][a] = balance[a]
  BY <1>1, AtCommit
<1>3. seen[w] \in [Accounts -> Int] /\ Total(r) \in Nat
  BY <1>2, TouchedRows DEF IInv, TypeOK
<1>4. /\ serial' = serial + 1
      /\ txns' = txns \cup {new}
      /\ balance' = [a \in Accounts |-> IF a \in Touched(r, c, f)
                         THEN NewBalance(r, c, f, seen[w], a) ELSE balance[a]]
  BY <1>1 DEF Apply
<1>5. /\ new.id = serial + 1 /\ new.legs = Legs(r, c, f, seen[w])
      /\ <<new.user, new.kind, new.day>> = Row(w)
  BY DEF Row, UsageRow
<1> HIDE DEF r, c, f, new
<1>6. /\ AccountsOf(new) = Touched(r, c, f)
      /\ \A l, m \in new.legs : l.acc = m.acc => l = m
      /\ \A a \in Touched(r, c, f) :
           /\ LegIn(new, a).before = seen[w][a]
           /\ LegIn(new, a).after = NewBalance(r, c, f, seen[w], a)
      /\ Imbalance(new) = 0
      /\ Debited(new) = Total(r)
  BY <1>2, <1>3, <1>5, LegsOfPosting
<1>7. AccountsOf(new) \subseteq Accounts
  BY <1>2, <1>6
<1>8. \A a \in AccountsOf(new) :
        LegIn(new, a).before = balance[a] /\ LegIn(new, a).after = balance'[a]
  BY <1>2, <1>4, <1>6
<1>9. \A a \in Accounts \ AccountsOf(new) : balance'[a] = balance[a]
  BY <1>4, <1>6
<1>10. Debited(new) = Total(req(w)) /\ Total(req(w)) \in Nat
  BY <1>3, <1>6 DEF r
<1> QED BY <1>4, <1>5, <1>6, <1>7, <1>8, <1>9, <1>10

(* The chain grows by the legs of the posting, and every earlier link is   *)
(* where it was.                                                           *)
LEMMA ChainStep ==
    ASSUME IInv, MutationsChain, NEW w \in Workers, Commits(w)
    PROVE  MutationsChain'
<1>1. PICK new :
             /\ new.id = serial + 1 /\ txns' = txns \cup {new} /\ serial' = serial + 1
             /\ AccountsOf(new) \subseteq Accounts
             /\ \A a \in AccountsOf(new) :
                  LegIn(new, a).before = balance[a] /\ LegIn(new, a).after = balance'[a]
             /\ \A a \in Accounts \ AccountsOf(new) : balance'[a] = balance[a]
  BY Entry
<1>2. serial \in Nat /\ \A t \in txns : t.id \in Nat /\ t.id <= serial
  BY DEF IInv, TypeOK
<1> SUFFICES ASSUME NEW a \in Accounts
             PROVE  /\ balance'[a] = Carried({t \in LegsOf(a)' : t.id < serial' + 1}, a)
                    /\ \A t \in LegsOf(a)' :
                         LegIn(t, a).before = Carried({s \in LegsOf(a)' : s.id < t.id}, a)
  BY DEF MutationsChain, BookBalance
<1> DEFINE Old == {t \in LegsOf(a) : t.id < serial + 1}
<1>3. /\ balance[a] = Carried(Old, a)
      /\ \A t \in LegsOf(a) : LegIn(t, a).before = Carried({s \in LegsOf(a) : s.id < t.id}, a)
  BY DEF MutationsChain, BookBalance
<1>4. Old = LegsOf(a) /\ LegsOf(a) \subseteq txns
  BY <1>2 DEF LegsOf
<1> HIDE DEF Old
<1>5. CASE a \in AccountsOf(new)
  <2>1. LegsOf(a)' = LegsOf(a) \cup {new}
    BY <1>1, <1>5 DEF LegsOf
  <2>2. {t \in LegsOf(a)' : t.id < serial' + 1} = LegsOf(a)'
    BY <1>1, <1>2, <1>4, <2>1
  <2>3. Carried(LegsOf(a)', a) = LegIn(new, a).after
    <3> DEFINE E == LegsOf(a)'
               last == CHOOSE u \in E : \A s \in E : s.id <= u.id
    <3>1. new \in E /\ \A s \in E : s.id <= new.id /\ (new.id <= s.id => s = new)
      BY <1>1, <1>2, <1>4, <2>1
    <3>2. Carried(E, a) = LegIn(last, a).after
      BY <3>1 DEF Carried
    <3> HIDE DEF E
    <3>3. last \in E /\ \A s \in E : s.id <= last.id
      BY <3>1
    <3> HIDE DEF last
    <3>4. last = new
      BY <3>1, <3>3
    <3> QED BY <3>2, <3>4 DEF E
  <2>4. {s \in LegsOf(a)' : s.id < new.id} = Old
    BY <1>1, <1>2, <1>4, <2>1
  <2>5. ASSUME NEW t \in LegsOf(a)
        PROVE  {s \in LegsOf(a)' : s.id < t.id} = {s \in LegsOf(a) : s.id < t.id}
    BY <1>1, <1>2, <1>4, <2>1
  <2>6. balance'[a] = Carried({t \in LegsOf(a)' : t.id < serial' + 1}, a)
    BY <1>1, <1>5, <2>2, <2>3
  <2>7. LegIn(new, a).before = Carried({s \in LegsOf(a)' : s.id < new.id}, a)
    BY <1>1, <1>3, <1>5, <2>4
  <2>8. \A t \in LegsOf(a) : LegIn(t, a).before = Carried({s \in LegsOf(a)' : s.id < t.id}, a)
    BY <1>3, <2>5
  <2> QED BY <2>1, <2>6, <2>7, <2>8
<1>6. CASE a \notin AccountsOf(new)
  <2>1. LegsOf(a)' = LegsOf(a)
    BY <1>1, <1>6 DEF LegsOf
  <2>2. {t \in LegsOf(a)' : t.id < serial' + 1} = Old
    BY <1>1, <1>2, <1>4, <2>1
  <2>3. balance'[a] = balance[a]
    BY <1>1, <1>6
  <2> QED BY <1>3, <2>1, <2>2, <2>3
<1> QED BY <1>5, <1>6

(* What the transactions cost, as numbers that can be summed.              *)
DebitsCounted == \A t \in txns : Debited(t) \in Nat

(* daily_usage grows by what the posting cost, in its row only.            *)
LEMMA SpentStep ==
    ASSUME IInv, EntriesKeyed, DebitsCounted, UsageIsSpent, NEW w \in Workers, Commits(w)
    PROVE  UsageIsSpent'
<1>1. PICK new :
             /\ new.id = serial + 1 /\ txns' = txns \cup {new}
             /\ <<new.user, new.kind, new.day>> = Row(w)
             /\ Debited(new) = Total(req(w)) /\ Total(req(w)) \in Nat
  BY Entry
<1>2. serial \in Nat /\ \A t \in txns : t.id \in 1 .. serial
  BY DEF IInv, TypeOK
<1>3. usage' = [usage EXCEPT ![Row(w)] = @ + Total(req(w))] /\ usage \in [UsageRows -> Nat]
  BY AfterCommit DEF IInv, TypeOK
<1> SUFFICES ASSUME NEW row \in UsageRows
             PROVE  LET ids == {t.id : t \in PostedOn(row)'}
                    IN  usage'[row] = SumOver(ids, [id \in ids |-> Debited(Posted(id)')])
  BY DEF UsageIsSpent
<1> DEFINE ids == {t.id : t \in PostedOn(row)}
           g == [id \in ids |-> Debited(Posted(id))]
           ids2 == {t.id : t \in PostedOn(row)'}
           g2 == [id \in ids2 |-> Debited(Posted(id)')]
<1>4. usage[row] = SumOver(ids, g)
  BY DEF UsageIsSpent
<1>5. \A t \in txns : Posted(t.id) = t /\ Posted(t.id)' = t
  <2>1. ASSUME NEW t \in txns PROVE Posted(t.id) = t
    BY DEF Posted, EntriesKeyed
  <2>2. ASSUME NEW t \in txns, NEW s \in txns', s.id = t.id PROVE s = t
    BY <1>1, <1>2, <2>2 DEF EntriesKeyed
  <2>3. \A t \in txns : t \in txns'
    BY <1>1
  <2>4. ASSUME NEW t \in txns PROVE Posted(t.id)' = t
    BY <2>2, <2>3 DEF Posted
  <2> QED BY <2>1, <2>4
<1>6. Posted(new.id)' = new
  <2>1. \A s \in txns' : s.id = new.id => s = new
    BY <1>1, <1>2
  <2> QED BY <1>1, <2>1 DEF Posted
<1>7. /\ \A id \in ids : g[id] \in Int
      /\ \A id \in ids : Debited(Posted(id)') = g[id]
  BY <1>5 DEF PostedOn, DebitsCounted
<1>8. ids \subseteq Nat /\ IsFiniteSet(ids) /\ new.id \in Nat /\ new.id \notin ids
  <2>1. ids \subseteq 1 .. serial
    BY <1>2 DEF PostedOn
  <2>2. IsFiniteSet(1 .. serial)
    BY <1>2, FS_Interval
  <2>3. IsFiniteSet(ids)
    BY <2>1, <2>2, FS_Subset
  <2> QED BY <1>1, <1>2, <2>1, <2>3
<1>9. CASE row = Row(w)
  <2>1. PostedOn(row)' = PostedOn(row) \cup {new}
    BY <1>1, <1>9 DEF PostedOn
  <2>2. ids2 = ids \cup {new.id}
    BY <2>1
  <2>3. g2[new.id] = Total(req(w)) /\ \A id \in ids : g2[id] = g[id]
    BY <1>1, <1>6, <1>7, <2>2
  <2> HIDE DEF ids, ids2, g, g2
  <2>4. Extended(ids, g, new.id, ids2, g2)
    BY <1>1, <1>7, <1>8, <2>2, <2>3 DEF Extended
  <2>5. SumOver(ids, g) \in Int /\ g2[new.id] \in Int
    BY <1>1, <1>3, <1>4, <2>3
  <2>6. SumOver(ids2, g2) = SumOver(ids, g) + g2[new.id]
    BY <2>4, <2>5, SumOverAdd
  <2>7. usage'[row] = usage[row] + Total(req(w))
    BY <1>3, <1>9
  <2>8. usage'[row] = SumOver(ids2, g2)
    BY <1>4, <2>3, <2>6, <2>7
  <2> QED BY <2>8 DEF ids2, g2
<1>10. CASE row # Row(w)
  <2>1. PostedOn(row)' = PostedOn(row)
    BY <1>1, <1>10 DEF PostedOn
  <2>2. ids2 = ids
    BY <2>1
  <2>3. \A id \in ids : g2[id] = g[id]
    BY <1>7, <2>2
  <2> HIDE DEF ids, ids2, g, g2
  <2>4. SumOver(ids, g2) = SumOver(ids, g)
    BY <1>7, <1>8, <2>3, SumOverSame
  <2>5. usage'[row] = usage[row]
    BY <1>3, <1>10
  <2>6. usage'[row] = SumOver(ids2, g2)
    BY <1>4, <2>2, <2>4, <2>5
  <2> QED BY <2>6 DEF ids2, g2
<1> QED BY <1>9, <1>10

BooksInv == Reconciles /\ DebitsCounted

LEMMA InitBooks == Init => BooksInv
<1> SUFFICES ASSUME Init PROVE BooksInv
  OBVIOUS
<1>1. /\ txns = {} /\ serial = 0 /\ balance = Opening
      /\ usage = [row \in UsageRows |-> 0]
  BY DEF Init
<1>2. EntriesKeyed /\ LegsBalance /\ DebitsCounted
  BY <1>1 DEF EntriesKeyed, LegsBalance, DebitsCounted
<1>3. MutationsChain
  BY <1>1 DEF MutationsChain, BookBalance, Carried, LegsOf
<1>4. UsageIsSpent
  <2> SUFFICES ASSUME NEW row \in UsageRows
               PROVE  LET ids == {t.id : t \in PostedOn(row)}
                      IN  SumOver(ids, [id \in ids |-> Debited(Posted(id))]) = 0
    BY <1>1 DEF UsageIsSpent
  <2>1. {t.id : t \in PostedOn(row)} = {}
    BY <1>1 DEF PostedOn
  <2> QED BY <2>1, SumOverEmpty
<1> QED BY <1>2, <1>3, <1>4 DEF BooksInv, Reconciles

LEMMA StepBooks == IInv /\ BooksInv /\ [Next]_vars => BooksInv'
<1> SUFFICES ASSUME IInv, BooksInv, [Next]_vars PROVE BooksInv'
  OBVIOUS
<1>1. ASSUME UNCHANGED <<txns, serial, balance, usage>> PROVE BooksInv'
  BY <1>1 DEF BooksInv, Reconciles, EntriesKeyed, MutationsChain, BookBalance, LegsOf,
              LegsBalance, UsageIsSpent, PostedOn, Posted, DebitsCounted
<1>2. ASSUME NEW w \in Workers, Commits(w) PROVE BooksInv'
  <2>1. PICK new :
          /\ new.id = serial + 1 /\ txns' = txns \cup {new}
          /\ \A l, m \in new.legs : l.acc = m.acc => l = m
          /\ Imbalance(new) = 0 /\ Debited(new) \in Nat
    BY <1>2, Entry
  <2>2. serial \in Nat /\ \A t \in txns : t.id \in 1 .. serial
    BY DEF IInv, TypeOK
  <2>3. EntriesKeyed'
    BY <2>1, <2>2 DEF BooksInv, Reconciles, EntriesKeyed
  <2>4. LegsBalance' /\ DebitsCounted'
    BY <2>1 DEF BooksInv, Reconciles, LegsBalance, DebitsCounted
  <2>5. MutationsChain' /\ UsageIsSpent'
    BY <1>2, ChainStep, SpentStep DEF BooksInv, Reconciles
  <2> QED BY <2>3, <2>4, <2>5 DEF BooksInv, Reconciles
<1>3. ASSUME NEW w \in Workers, Kind(w) PROVE BooksInv'
  <2>1. CASE ~Commits(w)
    BY <1>1, <1>3, <2>1
       DEF Kind, Ends, Outside, Begin, Lock, CheckPasses, Insert, Upsert, tables
  <2> QED BY <1>2, <2>1
<1>4. CASE Idle \/ UNCHANGED vars
  BY <1>1, <1>4 DEF Idle, vars, tables
<1> QED BY <1>3, <1>4, Classified DEF IInv

(* The books are right after any history of postings, for any accounts,    *)
(* rails, executors, days and faults: every mutation starts from the       *)
(* balance_after of the one committed before it on its account, the last   *)
(* one committed left the balance the account has, legs sum to zero, and   *)
(* daily_usage is what was spent. Nothing is said of the order of          *)
(* transaction_date and created_at, which is not that of the commits.      *)
THEOREM BooksReconcile == Spec => []Reconciles
<1>1. BooksInv => Reconciles
  BY DEF BooksInv
<1> QED BY <1>1, Invariance, InitBooks, StepBooks, PTL DEF Spec
=============================================================================
