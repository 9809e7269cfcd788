------------------------------ MODULE MCLedger ------------------------------
(***************************************************************************)
(* Small instances of Ledger for TLC. Accounts 1 and 7 belong to Ana, 5    *)
(* and 8 to Budi; 2 and 4 are settlement shards, 3 and 6 fee shards,       *)
(* numbered so that shards and customers alternate in the lock order.      *)
(***************************************************************************)
EXTENDS LedgerReconciliation, LedgerInvariant

CONSTANTS ana, budi, k1, k2

MCAccounts == 1 .. 8
MCCustomers == {1, 5, 7, 8}
MCActive == {1, 5, 7, 8}
MCShards == [k \in Rails |-> CASE k = "EXTERNAL" -> {2} [] k = "EWALLET" -> {4} [] OTHER -> {4}]
MCFeeShards == {3, 6}
MCUsers == {ana, budi}
MCKeys == {k1, k2}
MCOpening == [a \in MCAccounts |-> IF a \in {1, 5, 7} THEN 4 ELSE 0]
MCHold == [a \in MCAccounts |-> IF a = 1 THEN 1 ELSE 0]
MCDailyLimit == [p \in MCUsers \X Kinds |-> IF p[2] = "INTERNAL" THEN 3 ELSE 4]
MCPerTxnLimit == [u \in MCUsers |-> 2]
MCDays == {0}
TwoDays == {0, 1}

Ask(u, k, kind, src, dst, amount, fee) ==
    [user |-> u, key |-> k, kind |-> kind, src |-> src, dst |-> dst,
     amount |-> amount, fee |-> fee]

(* Every rail, with and without a fee, and requests that must be refused.  *)
AllRails == {
    Ask(ana, k1, "INTERNAL", 1, 5, 2, 0),
    Ask(ana, k2, "INTERNAL", 7, 8, 2, 0),
    Ask(ana, k1, "EXTERNAL", 1, 1, 1, 1),
    Ask(ana, k2, "EWALLET", 1, 1, 1, 1),
    Ask(budi, k1, "QRIS", 5, 5, 2, 0),
    Ask(budi, k2, "QRIS", 5, 5, 3, 0),
    Ask(budi, k1, "INTERNAL", 5, 3, 1, 0)}

(* L-05: A to B and B to A, with a duplicate of the first.                 *)
Crossing == {
    Ask(ana, k1, "INTERNAL", 1, 5, 2, 0),
    Ask(budi, k1, "INTERNAL", 5, 1, 2, 0),
    Ask(ana, k2, "EXTERNAL", 1, 1, 1, 1)}

(* Small transfers to be sent again after their keys have left Redis.      *)
Replays == {
    Ask(ana, k1, "INTERNAL", 1, 5, 1, 0),
    Ask(budi, k1, "INTERNAL", 5, 1, 1, 0)}
=============================================================================
