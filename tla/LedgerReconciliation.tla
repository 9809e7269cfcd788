------------------------ MODULE LedgerReconciliation ------------------------
(***************************************************************************)
(* What the ledger's books must say after any history of postings: the     *)
(* mutations of an account in the order of their commits, the legs of a    *)
(* transaction, daily_usage. The order of the commits is nowhere in the    *)
(* tables. What a reader of the tables sees, who orders the mutations by   *)
(* transaction_date and created_at, is the subject of ReconciliationView:  *)
(* v_ledger_reconciliation is not claimed here, nor is it true.            *)
(***************************************************************************)
EXTENDS Ledger

(* The sum of g over a finite set of naturals. Accounts and transactions   *)
(* are both numbered, so the recursion runs over their numbers.            *)
SumBelow(S, g, n) ==
    LET s[i \in 0 .. n] ==
            IF i = 0 THEN 0 ELSE s[i - 1] + (IF i - 1 \in S THEN g[i - 1] ELSE 0)
    IN  s[n]

SumOver(S, g) ==
    IF S = {} THEN 0
    ELSE SumBelow(S, g, 1 + CHOOSE m \in S : \A k \in S : k <= m)

AccountsOf(t) == {leg.acc : leg \in t.legs}
LegsOf(a) == {t \in txns : a \in AccountsOf(t)}
LegIn(t, a) == CHOOSE leg \in t.legs : leg.acc = a
Posted(id) == CHOOSE t \in txns : t.id = id

(* A transaction has a number of its own and one leg per account.          *)
EntriesKeyed ==
    /\ \A s, t \in txns : s.id = t.id => s = t
    /\ \A t \in txns : \A l, m \in t.legs : l.acc = m.acc => l = m

(* The balance account a has after the entry of E committed last, and the  *)
(* one left to it by what committed before transaction id: transactions    *)
(* are numbered as they commit.                                            *)
Carried(E, a) ==
    IF E = {} THEN Opening[a]
    ELSE LegIn(CHOOSE t \in E : \A s \in E : s.id <= t.id, a).after

BookBalance(a, id) == Carried({t \in LegsOf(a) : t.id < id}, a)

(* The mutations of an account, as they committed, form one chain from its *)
(* opening balance to the balance it has: no update is lost between two    *)
(* executors and no leg starts from a balance that was not there.          *)
MutationsChain ==
    \A a \in Accounts :
        /\ balance[a] = BookBalance(a, serial + 1)
        /\ \A t \in LegsOf(a) : LegIn(t, a).before = BookBalance(a, t.id)

(* v_unbalanced_transactions is empty: the legs of a transaction sum to    *)
(* zero, fee and settlement legs included.                                 *)
Imbalance(t) ==
    SumOver(AccountsOf(t), [a \in AccountsOf(t) |-> LegIn(t, a).delta])

LegsBalance == \A t \in txns : Imbalance(t) = 0

(* daily_usage is the sum of what was spent that day from the user's       *)
(* accounts, transaction by transaction: retries, duplicates and lost      *)
(* answers neither count twice nor go uncounted.                           *)
Debit(leg) == IF leg.delta < 0 THEN -leg.delta ELSE 0
Debited(t) == SumOver(AccountsOf(t), [a \in AccountsOf(t) |-> Debit(LegIn(t, a))])
PostedOn(row) == {t \in txns : <<t.user, t.kind, t.day>> = row}

UsageIsSpent ==
    \A row \in UsageRows :
        LET ids == {t.id : t \in PostedOn(row)}
        IN  usage[row] = SumOver(ids, [id \in ids |-> Debited(Posted(id))])

(* The books are right after any history of postings: entries have numbers *)
(* of their own, balance_before and balance_after chain in the order of    *)
(* the commits and end at accounts.balance, the legs of each transaction   *)
(* sum to zero, and daily_usage is the sum of the debits.                  *)
Reconciles == EntriesKeyed /\ MutationsChain /\ LegsBalance /\ UsageIsSpent

(* L-05 and L-04 of docs/06-LEDGER, "tidak ada deadlock", of the pool: the *)
(* executors never wait for one another's connections, all of them held.   *)
NoPoolDeadlock ==
    Cardinality({w \in Workers : pc[w] = "fetch"}) < PoolSize
=============================================================================
