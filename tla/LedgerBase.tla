----------------------------- MODULE LedgerBase -----------------------------
(***************************************************************************)
(* The vocabulary of the money rails, shared by the abstract specification *)
(* (Postings) and the executors that implement it (Ledger): the accounts   *)
(* and shards, the requests the services hand to an executor, the legs of  *)
(* a posting and the checks made on the locked rows.                       *)
(*                                                                         *)
(* Accounts are numbered in the order of their UUID strings, which is the  *)
(* order the executors lock them in.                                       *)
(***************************************************************************)
EXTENDS Integers, FiniteSets

CONSTANTS
    Accounts,       \* rows of table accounts, numbered in lock order
    Customers,      \* the accounts of nasabah (owner_type CUSTOMER)
    Active,         \* those with status ACTIVE
    Shards,         \* [Rails -> sets of settlement accounts]
    FeeShards,      \* the FEE_INCOME settlement accounts
    Users,
    Keys,           \* X-Idempotency-Key values
    Requests,       \* what the services may ask an executor to post
    NoRequest,      \* not a request: the worker is idle
    Opening,        \* [Accounts -> Int] balances before the first posting
    Hold,           \* [Accounts -> Nat] accounts.hold_amount
    DailyLimit,     \* [Users \X Kinds -> Nat]; 0 stands for a missing row
    PerTxnLimit,    \* [Users -> Nat] transaction_limits.per_transaction_limit of QRIS
    Days            \* WIB calendar days, 0 .. MaxDay

Rails == {"EXTERNAL", "EWALLET", "QRIS"}
Kinds == {"INTERNAL"} \cup Rails

(* ExecuteParams as the three services build it; dst is read by INTERNAL only. *)
Request == [user : Users, key : Keys, kind : Kinds, src : Accounts,
            dst : Accounts, amount : Nat \ {0}, fee : Nat]

ASSUME AccountsAssumption ==
    /\ Accounts \subseteq Nat
    /\ IsFiniteSet(Accounts)
    /\ Active \subseteq Customers
    /\ Customers \subseteq Accounts
    /\ Shards \in [Rails -> SUBSET Accounts]
    /\ FeeShards \subseteq Accounts

(* Settlement and fee shards are INTERNAL rows of one rail each (migration *)
(* 000009), never the account of a customer.                               *)
ASSUME RowsAssumption ==
    /\ \A k \in Rails : Shards[k] \cap FeeShards = {}
    /\ \A k \in Rails : Shards[k] \cap Customers = {}
    /\ FeeShards \cap Customers = {}

ASSUME DataAssumption ==
    /\ Requests \subseteq Request
    /\ NoRequest \notin Requests
    /\ \A r \in Requests : r.src \in Customers
    /\ Opening \in [Accounts -> Int]
    /\ Hold \in [Accounts -> Nat]
    /\ \A a \in Customers : Opening[a] >= Hold[a]
    /\ DailyLimit \in [Users \X Kinds -> Nat]
    /\ PerTxnLimit \in [Users -> Nat]
    /\ Days \subseteq Nat

Total(r) == r.amount + r.fee

(* The rail shards an attempt may draw: the shard is a hash of the fresh   *)
(* transaction id of the attempt, so any of them.                          *)
ShardChoices(r) == IF r.kind = "INTERNAL" THEN {r.dst} ELSE Shards[r.kind]

(* Transfers lock a fee shard only when there is a fee; the other two      *)
(* executors always lock one.                                              *)
UsesFeeShard(r) == r.fee > 0 \/ r.kind \in {"EWALLET", "QRIS"}

(* The rows an attempt locks, c being the credited account.                *)
LockSet(r, c, f) == {r.src, c} \cup (IF UsesFeeShard(r) THEN {f} ELSE {})

(* The rows it updates: QRIS locks a fee shard it never credits.           *)
Touched(r, c, f) == {r.src, c} \cup (IF r.fee > 0 THEN {f} ELSE {})

(* The new balance of each touched row, from the balances read under lock. *)
NewBalance(r, c, f, seen, a) ==
    CASE a = r.src -> seen[a] - Total(r)
      [] a = c     -> seen[a] + r.amount
      [] OTHER     -> seen[a] + r.fee

(* The account_mutations rows of a posting.                                *)
Legs(r, c, f, seen) ==
    {[acc    |-> a,
      delta  |-> NewBalance(r, c, f, seen, a) - seen[a],
      before |-> seen[a],
      after  |-> NewBalance(r, c, f, seen, a)] : a \in Touched(r, c, f)}

(* TRANSFER_INTERNAL resolves its destination among the active customers   *)
(* and refuses the source itself.                                          *)
DestinationOK(r) == r.kind = "INTERNAL" => r.dst \in Active /\ r.dst # r.src

FundedIgnoringHold(r, balanceOfSrc) == balanceOfSrc >= Total(r)     \* mutant
Funded(r, balanceOfSrc) == balanceOfSrc - Hold[r.src] >= Total(r)

UsageRow(r, day) == <<r.user, r.kind, day>>
UsageRows == Users \X Kinds \X Days

WithinLimit(r, used) ==
    /\ used + Total(r) <= DailyLimit[<<r.user, r.kind>>]
    /\ r.kind = "QRIS" => Total(r) <= PerTxnLimit[r.user]
=============================================================================
