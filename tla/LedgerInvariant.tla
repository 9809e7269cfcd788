-------------------------- MODULE LedgerInvariant ---------------------------
(***************************************************************************)
(* The inductive invariant of Ledger: why a balance and a daily usage that *)
(* were read some statements ago may still be relied upon at COMMIT.       *)
(***************************************************************************)
EXTENDS Ledger

(* A worker that is running has a request; one that backs off has an       *)
(* attempt left; one inside a transaction has resolved its accounts.       *)
JobsInPlace ==
    \A w \in Workers :
        /\ pc[w] \in Running => req(w) \in Requests
        /\ pc[w] = "backoff" => attempt[w] < MaxAttempts
        /\ InTx(w) =>
             /\ DestinationOK(req(w))
             /\ credit[w] \in ShardChoices(req(w))
             /\ feeAcc[w] \in FeeShards

(* Row locks: of one transaction at a time, of a transaction only, all the *)
(* rows it needs once it has stopped locking; and a locked row still has   *)
(* the balance that was read from it.                                      *)
LocksHeld ==
    /\ \A v, w \in Workers : v # w => held[v] \cap held[w] = {}
    /\ \A w \in Workers :
         /\ ~InTx(w) => held[w] = {}
         /\ pc[w] \in {"check", "insert", "upsert", "commit"} => Rows(w) \subseteq held[w]
         /\ \A a \in held[w] : seen[w][a] = balance[a]

(* A worker that is still locking has passed over nothing it will come     *)
(* back for: the rows it holds are below every row it still wants.         *)
Ascending ==
    \A w \in Workers : pc[w] = "lock" =>
        \A a \in held[w], b \in Wanted(w) : a < b

(* The checks that were passed, on the values they were passed with.       *)
ChecksPassed ==
    \A w \in Workers : pc[w] \in {"insert", "upsert", "commit"} =>
        /\ Funded(req(w), seen[w][req(w).src])
        /\ WithinLimit(req(w), used[w])

(* The snapshot's daily_usage is the current one unless the row was marked *)
(* stale; at COMMIT it is neither stale nor about to be written by another *)
(* transaction.                                                            *)
UsageCurrent ==
    /\ \A w \in Workers : InTx(w) /\ ~staleUse[w] => used[w] = usage[Row(w)]
    /\ \A w \in Workers : pc[w] = "commit" => ~staleUse[w]
    /\ \A v, w \in Workers :
         v # w /\ pc[v] = "commit" /\ pc[w] = "commit" => Row(v) # Row(w)

(* An inserted row of transactions is the only one with its key.           *)
KeysReserved ==
    /\ \A w \in Workers : Inserted(w) => Existing(w) = {}
    /\ \A v, w \in Workers :
         v # w /\ Inserted(v) /\ Inserted(w) => ~SameKey(v, w)

IInv ==
    /\ TypeOK
    /\ JobsInPlace
    /\ LocksHeld
    /\ Ascending
    /\ ChecksPassed
    /\ UsageCurrent
    /\ KeysReserved
    /\ OneTxnPerKey
    /\ NoOverdraft
    /\ DailyLimitKept
=============================================================================
