-------------------------- MODULE LedgerRefinement --------------------------
(***************************************************************************)
(* The proof that the executors implement Postings: with attempts, locks,  *)
(* snapshots and connections hidden, each of their steps posts whole,      *)
(* replays, refuses, or does nothing.                                      *)
(***************************************************************************)
EXTENDS LedgerProofs

(* A call has a request from its start to the moment its caller leaves     *)
(* with the answer, and no answer before it is done.                       *)
AnswersInPlace ==
    \A w \in Workers :
        /\ pc[w] = "idle" => job[w] = NoJob /\ answer[w] = NoAnswer
        /\ pc[w] \in Running => answer[w] = NoAnswer
        /\ pc[w] = "done" => answer[w] # NoAnswer

LEMMA InitAnswers == Init => AnswersInPlace
BY DEF Init, AnswersInPlace, Running, InTransaction

LEMMA AnswerCodes ==
    /\ \A id : Ok(id) # NoAnswer
    /\ \A code \in Refusals : Refused(code) # NoAnswer
<1>1. ASSUME NEW id PROVE Ok(id) # NoAnswer
  <2>1. Ok(id).code = "OK" /\ NoAnswer.code = "NONE"
    BY DEF Ok, NoAnswer
  <2> QED BY <2>1
<1>2. ASSUME NEW code \in Refusals PROVE Refused(code) # NoAnswer
  <2>1. Refused(code).code = code /\ NoAnswer.code = "NONE"
    BY DEF Refused, NoAnswer
  <2> QED BY <2>1 DEF Refusals
<1> QED BY <1>1, <1>2

(* What a step does to the answers: a worker returns one, drops it, or     *)
(* the answers stay.                                                       *)
Returns(w) ==
    /\ pc[w] \in Running
    /\ pc' = [pc EXCEPT ![w] = "done"]
    /\ \E a : a # NoAnswer /\ answer' = [answer EXCEPT ![w] = a]
    /\ job' = job

Runs(w) ==
    /\ pc[w] \in Running
    /\ \E p \in Running : pc' = [pc EXCEPT ![w] = p]
    /\ UNCHANGED <<answer, job>>

LEMMA FailReturns ==
    ASSUME NEW w \in Workers, pc[w] \in Running, NEW code \in Refusals, Fail(w, code)
    PROVE  Returns(w)
BY AnswerCodes DEF Fail, Return, Returns

LEMMA SerializationReturns ==
    ASSUME NEW w \in Workers, pc[w] \in Running, Serialization(w)
    PROVE  Returns(w) \/ Runs(w)
<1>1. CASE Fail(w, "SERIALIZATION")
  BY <1>1, FailReturns DEF Refusals
<1>2. CASE ~Fail(w, "SERIALIZATION")
  BY <1>2 DEF Serialization, Runs, Running
<1> QED BY <1>1, <1>2

LEMMA StepAnswers == TypeOK /\ AnswersInPlace /\ [Next]_vars => AnswersInPlace'
<1> SUFFICES ASSUME TypeOK, AnswersInPlace, [Next]_vars PROVE AnswersInPlace'
  OBVIOUS
<1>0. /\ pc \in [Workers -> PCs] /\ DOMAIN answer = Workers /\ DOMAIN job = Workers
      /\ Running \subseteq PCs /\ "idle" \notin Running /\ "done" \notin Running
  BY DEF TypeOK, PCs, Running, InTransaction
<1>1. ASSUME NEW w \in Workers, Returns(w) PROVE AnswersInPlace'
  BY <1>0, <1>1 DEF Returns, AnswersInPlace
<1>2. ASSUME NEW w \in Workers, Runs(w) PROVE AnswersInPlace'
  BY <1>0, <1>2 DEF Runs, AnswersInPlace
<1>3. ASSUME NEW w \in Workers, Call(w) PROVE AnswersInPlace'
  BY <1>0, <1>3 DEF Call, AnswersInPlace, Running
<1>4. ASSUME NEW w \in Workers, Leave(w) PROVE AnswersInPlace'
  BY <1>0, <1>4 DEF Leave, AnswersInPlace
<1>5. ASSUME NEW w \in Workers,
             Begin(w) \/ Lock(w) \/ CheckPasses(w) \/ Insert(w) \/ InsertDuplicate(w)
               \/ Upsert(w) \/ Retry(w)
      PROVE  Runs(w)
  BY <1>5 DEF Begin, Lock, NextRow, CheckPasses, Insert, InsertDuplicate, Upsert, Retry,
              Runs, Running, InTransaction
<1>6. ASSUME NEW w \in Workers, BadDestination(w) \/ CheckFails(w) \/ Cancel(w) PROVE Returns(w)
  BY <1>6, FailReturns DEF BadDestination, CheckFails, Cancel, Refusals, Running, InTransaction
<1>7. ASSUME NEW w \in Workers, LockStale(w) \/ UpsertStale(w) \/ SerializationFailure(w)
      PROVE  Returns(w) \/ Runs(w)
  BY <1>7, SerializationReturns
     DEF LockStale, NextRow, UpsertStale, SerializationFailure, InTx, Running, InTransaction
<1>8. ASSUME NEW w \in Workers, Fetch(w) \/ Commit(w) \/ CommitLost(w) PROVE Returns(w)
  BY <1>8, AnswerCodes
     DEF Fetch, Commit, CommitLost, Return, Returns, Running, InTransaction, Refusals
<1>9. CASE Midnight \/ AllServed \/ UNCHANGED vars
  BY <1>9 DEF Midnight, AllServed, vars, AnswersInPlace
<1> QED BY <1>1, <1>2, <1>3, <1>4, <1>5, <1>6, <1>7, <1>8, <1>9 DEF Next, Step, Fault

-----------------------------------------------------------------------------
LEMMA InitRefines == Init => Abstract!Init
BY DEF Init, Abstract!Init, NoJob, NoAnswer, Abstract!NoAsk, Abstract!NoAnswer,
       UsageRows, Abstract!UsageRows, Kinds, Abstract!Kinds, Rails, Abstract!Rails

(* A worker that runs is one the abstract specification waits for.         *)
LEMMA RunningWaits ==
    ASSUME IInv, AnswersInPlace, NEW w \in Workers, pc[w] \in Running
    PROVE  Abstract!Waiting(w)
BY DataAssumption
   DEF IInv, JobsInPlace, AnswersInPlace, Abstract!Waiting, Abstract!NoAnswer, NoAnswer, req

LEMMA FailRefuses ==
    ASSUME IInv, AnswersInPlace, NEW w \in Workers, pc[w] \in Running,
           NEW code \in Refusals, Fail(w, code)
    PROVE  Abstract!Refuse(w)
BY RunningWaits DEF Fail, Return, Refused, tables, Abstract!Refuse, Abstract!Refused

LEMMA SerializationRefuses ==
    ASSUME IInv, AnswersInPlace, NEW w \in Workers, pc[w] \in Running, Serialization(w)
    PROVE  Abstract!Refuse(w) \/ UNCHANGED Abstract!vars
<1>1. CASE Fail(w, "SERIALIZATION")
  BY <1>1, FailRefuses DEF Refusals
<1>2. CASE ~Fail(w, "SERIALIZATION")
  BY <1>2 DEF Serialization, tables, Abstract!vars
<1> QED BY <1>1, <1>2

(* What was computed from the locked reads is what the balances of the     *)
(* moment give.                                                            *)
LEMMA SeenIsCurrent ==
    ASSUME IInv, NEW w \in Workers, pc[w] = "commit"
    PROVE  LET r == req(w)
               c == credit[w]
               f == feeAcc[w]
           IN  /\ Legs(r, c, f, seen[w]) = Abstract!Legs(r, c, f, balance)
               /\ \A a \in Touched(r, c, f) :
                    NewBalance(r, c, f, seen[w], a) = Abstract!NewBalance(r, c, f, balance, a)
<1> DEFINE r == req(w)
           c == credit[w]
           f == feeAcc[w]
<1>1. Touched(r, c, f) \subseteq held[w] /\ \A a \in held[w] : seen[w][a] = balance[a]
  BY AtCommit
<1>2. r.src \in Touched(r, c, f) /\ c \in Touched(r, c, f)
  BY DEF Touched
<1>3. \A a \in Touched(r, c, f) :
        NewBalance(r, c, f, seen[w], a) = Abstract!NewBalance(r, c, f, balance, a)
  BY <1>1, <1>2 DEF NewBalance, Abstract!NewBalance, Total, Abstract!Total
<1>4. Touched(r, c, f) = Abstract!Touched(r, c, f)
  BY DEF Touched, Abstract!Touched
<1>5. Legs(r, c, f, seen[w]) = Abstract!Legs(r, c, f, balance)
  BY <1>1, <1>3, <1>4 DEF Legs, Abstract!Legs
<1> QED BY <1>3, <1>5

LEMMA CommitPosts ==
    ASSUME IInv, AnswersInPlace, NEW w \in Workers, Commits(w)
    PROVE  Abstract!Post(w)
<1> DEFINE r == job[w].req
           c == credit[w]
           f == feeAcc[w]
           row == Abstract!UsageRow(r, job[w].day)
<1>1. pc[w] = "commit" /\ r = req(w)
  BY DEF Commits, req
<1>2. Abstract!Waiting(w)
  BY <1>1, RunningWaits DEF Running, InTransaction
<1>3. /\ DestinationOK(r) /\ c \in ShardChoices(r) /\ f \in FeeShards
      /\ Funded(r, balance[r.src]) /\ WithinLimit(r, usage[Row(w)]) /\ Existing(w) = {}
  BY <1>1, AtCommit
<1>4. row = Row(w)
  BY <1>1 DEF Row, UsageRow, Abstract!UsageRow
<1>5. /\ \A t \in txns : <<t.user, t.key>> # <<r.user, r.key>>
      /\ Abstract!DestinationOK(r)
      /\ Abstract!Funded(r, balance[r.src])
      /\ Abstract!WithinLimit(r, usage[row])
      /\ c \in Abstract!ShardChoices(r)
  BY <1>1, <1>3, <1>4
     DEF Existing, DestinationOK, Abstract!DestinationOK, Funded, Abstract!Funded, WithinLimit,
         Abstract!WithinLimit, ShardChoices, Abstract!ShardChoices, Total, Abstract!Total
<1>6. usage' = [usage EXCEPT ![row] = @ + Abstract!Total(r)]
  BY <1>1, <1>4 DEF Commits, Apply, Total, Abstract!Total
<1>7. txns' = txns \cup {[id   |-> serial + 1, user |-> r.user,
                          key  |-> r.key,      kind |-> r.kind,
                          day  |-> job[w].day,
                          legs |-> Abstract!Legs(r, c, f, balance)]}
  BY <1>1, SeenIsCurrent DEF Commits, Apply
<1>8. balance' = [a \in Accounts |->
                    IF a \in Abstract!Touched(r, c, f)
                    THEN Abstract!NewBalance(r, c, f, balance, a)
                    ELSE balance[a]]
  <2>1. balance' = [a \in Accounts |-> IF a \in Touched(r, c, f)
                       THEN NewBalance(r, c, f, seen[w], a) ELSE balance[a]]
    BY <1>1 DEF Commits, Apply
  <2>2. Touched(r, c, f) = Abstract!Touched(r, c, f)
    BY DEF Touched, Abstract!Touched
  <2>3. \A a \in Touched(r, c, f) :
          NewBalance(r, c, f, seen[w], a) = Abstract!NewBalance(r, c, f, balance, a)
    BY <1>1, SeenIsCurrent
  <2> QED BY <2>1, <2>2, <2>3
<1>9. serial' = serial + 1 /\ job' = job
  BY DEF Commits, Apply
<1>10. \E ans \in {Abstract!Ok(serial + 1)} \cup {Abstract!Refused(code) : code \in Refusals} :
          answer' = [answer EXCEPT ![w] = ans]
  BY DEF Commits, Ok, Refused, Abstract!Ok, Abstract!Refused, Refusals
<1> HIDE DEF r, c, f, row
<1> QED
  <2>1. \E cc \in Abstract!ShardChoices(r), ff \in FeeShards :
           /\ txns' = txns \cup {[id   |-> serial + 1, user |-> r.user,
                                  key  |-> r.key,      kind |-> r.kind,
                                  day  |-> job[w].day,
                                  legs |-> Abstract!Legs(r, cc, ff, balance)]}
           /\ balance' = [a \in Accounts |->
                            IF a \in Abstract!Touched(r, cc, ff)
                            THEN Abstract!NewBalance(r, cc, ff, balance, a)
                            ELSE balance[a]]
    BY <1>3, <1>5, <1>7, <1>8
  <2> QED BY <1>2, <1>5, <1>6, <1>9, <1>10, <2>1 DEF Abstract!Post, r, row

LEMMA StepRefines ==
    IInv /\ AnswersInPlace /\ [Next]_vars => [Abstract!Next]_(Abstract!vars)
<1> SUFFICES ASSUME IInv, AnswersInPlace, [Next]_vars
             PROVE  Abstract!Next \/ UNCHANGED Abstract!vars
  OBVIOUS
<1>1. ASSUME NEW w \in Workers, Call(w) PROVE Abstract!Ask(w)
  <2>1. PICK r \in Requests : job' = [job EXCEPT ![w] = [req |-> r, day |-> day]]
    BY <1>1 DEF Call
  <2>2. day \in Days /\ job[w].req = NoRequest
    BY <1>1 DEF Call, IInv, TypeOK, AnswersInPlace, NoJob
  <2>3. UNCHANGED <<txns, serial, balance, usage, answer>>
    BY <1>1 DEF Call, tables
  <2> QED BY <2>1, <2>2, <2>3 DEF Abstract!Ask
<1>2. ASSUME NEW w \in Workers, Leave(w) PROVE Abstract!Close(w)
  BY <1>2 DEF Leave, AnswersInPlace, NoJob, NoAnswer, tables,
              Abstract!Close, Abstract!NoAsk, Abstract!NoAnswer
<1>3. ASSUME NEW w \in Workers,
             Begin(w) \/ Lock(w) \/ CheckPasses(w) \/ Insert(w) \/ InsertDuplicate(w)
               \/ Upsert(w) \/ Retry(w)
      PROVE  UNCHANGED Abstract!vars
  BY <1>3 DEF Begin, Lock, CheckPasses, Insert, InsertDuplicate, Upsert, Retry, tables,
              Abstract!vars
<1>4. ASSUME NEW w \in Workers, BadDestination(w) \/ CheckFails(w) \/ Cancel(w)
      PROVE  Abstract!Refuse(w)
  BY <1>4, FailRefuses DEF BadDestination, CheckFails, Cancel, Refusals, Running, InTransaction
<1>5. ASSUME NEW w \in Workers, LockStale(w) \/ UpsertStale(w) \/ SerializationFailure(w)
      PROVE  Abstract!Refuse(w) \/ UNCHANGED Abstract!vars
  BY <1>5, SerializationRefuses
     DEF LockStale, NextRow, UpsertStale, SerializationFailure, InTx, Running, InTransaction
<1>6. ASSUME NEW w \in Workers, Fetch(w) PROVE Abstract!Replay(w)
  <2>1. Abstract!Waiting(w)
    BY <1>6, RunningWaits DEF Fetch, Running
  <2> QED BY <1>6, <2>1 DEF Fetch, Existing, Return, Ok, tables, req, Abstract!Replay, Abstract!Ok
<1>7. ASSUME NEW w \in Workers, Commit(w) \/ CommitLost(w) PROVE Abstract!Post(w)
  <2>1. Commits(w)
    BY <1>7 DEF Commit, CommitLost, Commits, Return
  <2> QED BY <2>1, CommitPosts
<1>8. CASE Midnight \/ AllServed \/ UNCHANGED vars
  BY <1>8 DEF Midnight, AllServed, vars, tables, Abstract!vars
<1> QED BY <1>1, <1>2, <1>3, <1>4, <1>5, <1>6, <1>7, <1>8
       DEF Next, Step, Fault, Abstract!Next

(* The executors implement the one-step postings of Postings, for every    *)
(* number of workers, attempts and connections and under every fault.      *)
THEOREM Refinement == Spec => RefinesPostings
<1>1. Init => AnswersInPlace /\ Abstract!Init
  BY InitAnswers, InitRefines
<1>2. IInv /\ AnswersInPlace /\ [Next]_vars => AnswersInPlace'
  BY StepAnswers DEF IInv
<1>3. IInv /\ AnswersInPlace /\ [Next]_vars => [Abstract!Next]_(Abstract!vars)
  BY StepRefines
<1> QED BY <1>1, <1>2, <1>3, Invariance, PTL DEF Spec, RefinesPostings, Abstract!Spec

-----------------------------------------------------------------------------
LEMMA StepOwn ==
    IInv /\ AnswersInPlace /\ AnswerIsOwn /\ [Next]_vars => AnswerIsOwn'
<1> SUFFICES ASSUME IInv, AnswersInPlace, AnswerIsOwn, [Next]_vars PROVE AnswerIsOwn'
  OBVIOUS
<1> DEFINE Own(v) == \E t \in txns : t.id = answer[v].txn /\ t.user = req(v).user /\ t.key = req(v).key
<1>0. /\ DOMAIN answer = Workers /\ DOMAIN job = Workers /\ NoAnswer.code # "OK"
      /\ \A code \in Refusals : Refused(code).code # "OK"
  BY DEF IInv, TypeOK, NoAnswer, Refused, Refusals
(* The answers of the others, and the transactions they name, stay.        *)
<1>1. ASSUME NEW w \in Workers, txns \subseteq txns',
             \A v \in Workers : v # w => answer'[v] = answer[v] /\ job'[v] = job[v],
             answer'[w].code = "OK" => Own(w)'
      PROVE  AnswerIsOwn'
  <2> SUFFICES ASSUME NEW v \in Workers, v # w, answer'[v].code = "OK" PROVE Own(v)'
    BY <1>1 DEF AnswerIsOwn
  <2>1. Own(v)
    BY <1>1 DEF AnswerIsOwn
  <2> QED BY <1>1, <2>1 DEF req
<1>2. ASSUME NEW w \in Workers, txns \subseteq txns', UNCHANGED <<answer, job>>
      PROVE  AnswerIsOwn'
  BY <1>2 DEF AnswerIsOwn, req
<1>3. ASSUME NEW w \in Workers, NEW code \in Refusals, Fail(w, code) PROVE AnswerIsOwn'
  BY <1>0, <1>1, <1>3 DEF Fail, Return, tables
<1>4. ASSUME NEW w \in Workers, Serialization(w) PROVE AnswerIsOwn'
  BY <1>2, <1>3, <1>4 DEF Serialization, tables, Refusals
<1>5. ASSUME NEW w \in Workers, Fetch(w) PROVE AnswerIsOwn'
  <2>1. PICK t \in Existing(w) : answer' = [answer EXCEPT ![w] = Ok(t.id)]
    BY <1>5 DEF Fetch, Return
  <2>2. UNCHANGED <<txns, job>>
    BY <1>5 DEF Fetch, tables
  <2>3. Own(w)'
    BY <1>0, <2>1, <2>2 DEF Existing, Ok, req
  <2> QED BY <1>0, <1>1, <2>1, <2>2, <2>3
<1>6. ASSUME NEW w \in Workers, Commit(w) PROVE AnswerIsOwn'
  <2>1. answer' = [answer EXCEPT ![w] = Ok(serial + 1)] /\ job' = job
    BY <1>6 DEF Commit, Return
  <2> DEFINE new == [id |-> serial + 1, user |-> req(w).user, key |-> req(w).key,
                     kind |-> req(w).kind, day |-> job[w].day,
                     legs |-> Legs(req(w), credit[w], feeAcc[w], seen[w])]
  <2>2. txns' = txns \cup {new}
    BY <1>6 DEF Commit, Apply
  <2>3. new.id = serial + 1 /\ new.user = req(w).user /\ new.key = req(w).key
    OBVIOUS
  <2>4. answer'[w].txn = serial + 1 /\ req(w)' = req(w)
    BY <1>0, <2>1 DEF Ok, req
  <2> HIDE DEF new
  <2>5. Own(w)'
    BY <2>2, <2>3, <2>4
  <2> QED BY <1>0, <1>1, <2>1, <2>2, <2>5
<1>7. ASSUME NEW w \in Workers, CommitLost(w) PROVE AnswerIsOwn'
  <2>1. answer' = [answer EXCEPT ![w] = Refused("CTX")] /\ job' = job
    BY <1>7 DEF CommitLost, Return
  <2>2. txns \subseteq txns'
    BY <1>7 DEF CommitLost, Apply
  <2> QED BY <1>0, <1>1, <2>1, <2>2 DEF Refusals
<1>8. ASSUME NEW w \in Workers, Leave(w) PROVE AnswerIsOwn'
  BY <1>0, <1>1, <1>8 DEF Leave, tables
<1>9. ASSUME NEW w \in Workers, Call(w) PROVE AnswerIsOwn'
  BY <1>0, <1>1, <1>9 DEF Call, AnswersInPlace, tables
<1>10. ASSUME NEW w \in Workers,
              Begin(w) \/ Lock(w) \/ CheckPasses(w) \/ Insert(w) \/ InsertDuplicate(w)
                \/ Upsert(w) \/ Retry(w)
       PROVE  AnswerIsOwn'
  BY <1>2, <1>10 DEF Begin, Lock, CheckPasses, Insert, InsertDuplicate, Upsert, Retry, tables
<1>11. ASSUME NEW w \in Workers, BadDestination(w) \/ CheckFails(w) \/ Cancel(w)
       PROVE  AnswerIsOwn'
  BY <1>3, <1>11 DEF BadDestination, CheckFails, Cancel, Refusals
<1>12. ASSUME NEW w \in Workers, LockStale(w) \/ UpsertStale(w) \/ SerializationFailure(w)
       PROVE  AnswerIsOwn'
  BY <1>4, <1>12 DEF LockStale, UpsertStale, SerializationFailure
<1>13. CASE Midnight \/ AllServed \/ UNCHANGED vars
  BY <1>13 DEF Midnight, AllServed, vars, tables, AnswerIsOwn, req
<1> QED BY <1>3, <1>4, <1>5, <1>6, <1>7, <1>8, <1>9, <1>10, <1>11, <1>12, <1>13
       DEF Next, Step, Fault

(* An executor's OK names the one transaction of its own user and key.     *)
THEOREM AnswersAreOwn == Spec => []AnswerIsOwn
<1>1. Init => AnswersInPlace /\ AnswerIsOwn
  BY InitAnswers DEF Init, AnswerIsOwn, NoAnswer
<1>2. IInv /\ AnswersInPlace /\ AnswerIsOwn /\ [Next]_vars => AnswersInPlace' /\ AnswerIsOwn'
  BY StepAnswers, StepOwn DEF IInv
<1> QED BY <1>1, <1>2, Invariance, PTL DEF Spec
=============================================================================
