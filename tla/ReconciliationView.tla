------------------------- MODULE ReconciliationView -------------------------
(***************************************************************************)
(* v_ledger_reconciliation of migration 000009 beside the executors. The   *)
(* view does not know the order of the commits, the one in which           *)
(* LedgerReconciliation chains the mutations: of an account's mutations it *)
(* takes the one with the greatest (transaction_date, created_at, id).     *)
(* transaction_date is the WIB date the service put into the request, and  *)
(* created_at is NOW(), the time of the attempt's BEGIN.                   *)
(*                                                                         *)
(* The executors are those of Ledger. To each of their actions is added    *)
(* what it does to the time stamps, and BEGIN, which Ledger leaves to the  *)
(* first statement after it, is a step of its own: it reads the clock, the *)
(* first statement takes the snapshot.                                     *)
(***************************************************************************)
EXTENDS LedgerReconciliation, Sequences

VARIABLES
    now,        \* the server clock, of which every BEGIN reads a new value
    begun,      \* the time of BEGIN of each worker's attempt, 0: none
    created     \* created_at of the mutations of each transaction, by id

viewVars == <<now, begun, created, vars>>

ViewInit == Init /\ now = 0 /\ begun = [w \in Workers |-> 0] /\ created = <<>>

(* BeginTx of an attempt.                                                  *)
BeginTx(w) ==
    /\ pc[w] = "begin"
    /\ begun[w] = 0
    /\ FreeConn
    /\ now' = now + 1
    /\ begun' = [begun EXCEPT ![w] = now']
    /\ UNCHANGED <<created, vars>>

(* The legs of a commit have the time of its BEGIN; the end of an attempt  *)
(* forgets it.                                                             *)
Stamps(w) ==
    /\ created' = IF serial' = serial THEN created ELSE Append(created, begun[w])
    /\ begun' = [begun EXCEPT ![w] = IF pc'[w] \in InTransaction THEN @ ELSE 0]
    /\ UNCHANGED now

StampedStep(w) ==
    /\ pc[w] = "begin" => begun[w] # 0
    /\ Step(w)
    /\ Stamps(w)

StampedCall(w) == (Call(w) \/ Fault(w)) /\ Stamps(w)

ViewNext ==
    \/ \E w \in Workers : BeginTx(w) \/ StampedStep(w) \/ StampedCall(w)
    \/ (Midnight \/ AllServed) /\ UNCHANGED <<now, begun, created>>

ViewSpec == ViewInit /\ [][ViewNext]_viewVars

-----------------------------------------------------------------------------
(* ORDER BY transaction_date DESC, created_at DESC LIMIT 1. No two         *)
(* transactions begin at one time here, so that the id decides nothing.    *)
Newer(s, t) ==
    \/ s.day > t.day
    \/ s.day = t.day /\ created[s.id] > created[t.id]

LatestByView(a) == CHOOSE t \in LegsOf(a) : \A s \in LegsOf(a) \ {t} : Newer(t, s)

(* The accounts v_ledger_reconciliation returns.                           *)
Drifting ==
    {a \in Accounts : LegsOf(a) # {} /\ balance[a] # LegIn(LatestByView(a), a).after}

(* "Any row returned by this view is a ledger defect", and docs/06-LEDGER, *)
(* L-06: the view is empty. The executors return no such row after any     *)
(* history of postings.                                                    *)
ViewIsEmpty == Drifting = {}
=============================================================================
