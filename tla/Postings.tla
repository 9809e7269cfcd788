------------------------------ MODULE Postings ------------------------------
(***************************************************************************)
(* What the executors of the money rails promise, with no transaction,     *)
(* lock, snapshot or connection in sight: a request that was asked is      *)
(* posted whole in one step, against the balance and the daily usage of    *)
(* that very moment and at most once per (user, idempotency key); or it is *)
(* answered with the transaction its key already has; or it is refused.    *)
(* Ledger implements this specification.                                   *)
(***************************************************************************)
EXTENDS LedgerBase

CONSTANTS Workers,      \* executor calls that may run at the same time
          Refusals      \* the error codes a call may be answered with

VARIABLES
    txns,       \* committed rows of transactions, with their legs
    serial,     \* how many have been committed; numbers them in commit order
    balance,    \* accounts.balance
    usage,      \* daily_usage.total_amount
    ask,        \* the request each worker is asked to post, or NoAsk
    answer      \* what it was answered, or NoAnswer

vars == <<txns, serial, balance, usage, ask, answer>>

NoAsk == [req |-> NoRequest, day |-> 0]
NoAnswer == [code |-> "NONE", txn |-> 0]
Ok(id) == [code |-> "OK", txn |-> id]
Refused(code) == [code |-> code, txn |-> 0]

Init ==
    /\ txns = {}
    /\ serial = 0
    /\ balance = Opening
    /\ usage = [row \in UsageRows |-> 0]
    /\ ask = [w \in Workers |-> NoAsk]
    /\ answer = [w \in Workers |-> NoAnswer]

Waiting(w) == ask[w].req # NoRequest /\ answer[w] = NoAnswer

Ask(w) ==
    /\ ask[w].req = NoRequest
    /\ \E r \in Requests, d \in Days :
           ask' = [ask EXCEPT ![w] = [req |-> r, day |-> d]]
    /\ UNCHANGED <<txns, serial, balance, usage, answer>>

(* The one step in which money moves. The caller may still be told that    *)
(* its call failed: it then cannot know that the transaction exists.       *)
Post(w) ==
    /\ Waiting(w)
    /\ LET r   == ask[w].req
           row == UsageRow(r, ask[w].day)
       IN  /\ \A t \in txns : <<t.user, t.key>> # <<r.user, r.key>>
           /\ DestinationOK(r)
           /\ Funded(r, balance[r.src])
           /\ WithinLimit(r, usage[row])
           /\ usage' = [usage EXCEPT ![row] = @ + Total(r)]
           /\ \E c \in ShardChoices(r), f \in FeeShards :
                /\ txns' = txns \cup {[id   |-> serial + 1, user |-> r.user,
                                       key  |-> r.key,      kind |-> r.kind,
                                       day  |-> ask[w].day,
                                       legs |-> Legs(r, c, f, balance)]}
                /\ balance' = [a \in Accounts |->
                                 IF a \in Touched(r, c, f)
                                 THEN NewBalance(r, c, f, balance, a)
                                 ELSE balance[a]]
    /\ serial' = serial + 1
    /\ \E ans \in {Ok(serial + 1)} \cup {Refused(code) : code \in Refusals} :
           answer' = [answer EXCEPT ![w] = ans]
    /\ UNCHANGED ask

(* The key already has its transaction: that one is the answer.            *)
Replay(w) ==
    /\ Waiting(w)
    /\ \E t \in txns :
         /\ t.user = ask[w].req.user
         /\ t.key = ask[w].req.key
         /\ answer' = [answer EXCEPT ![w] = Ok(t.id)]
    /\ UNCHANGED <<txns, serial, balance, usage, ask>>

Refuse(w) ==
    /\ Waiting(w)
    /\ \E code \in Refusals : answer' = [answer EXCEPT ![w] = Refused(code)]
    /\ UNCHANGED <<txns, serial, balance, usage, ask>>

Close(w) ==
    /\ answer[w] # NoAnswer
    /\ ask' = [ask EXCEPT ![w] = NoAsk]
    /\ answer' = [answer EXCEPT ![w] = NoAnswer]
    /\ UNCHANGED <<txns, serial, balance, usage>>

Next == \E w \in Workers : Ask(w) \/ Post(w) \/ Replay(w) \/ Refuse(w) \/ Close(w)

Spec == Init /\ [][Next]_vars

-----------------------------------------------------------------------------
(* One transaction per (user, idempotency key): uq_txn_user_idempotency.   *)
OneTxnPerKey ==
    \A s, t \in txns : <<s.user, s.key>> = <<t.user, t.key>> => s = t

(* A nasabah never spends more than the available balance, hold_amount     *)
(* being set aside (step 8 of the transfer, "available" in every rail).    *)
NoOverdraft == \A a \in Customers : balance[a] >= Hold[a]

(* The day's usage never passes the daily limit, whatever runs beside it.  *)
DailyLimitKept ==
    \A u \in Users, k \in Kinds, d \in Days : usage[<<u, k, d>>] <= DailyLimit[<<u, k>>]
=============================================================================
