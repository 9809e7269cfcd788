------------------------ MODULE MCReconciliationView ------------------------
(***************************************************************************)
(* The instance of MCLedger for the executors with their time stamps.      *)
(***************************************************************************)
EXTENDS MCLedger, ReconciliationView
=============================================================================
