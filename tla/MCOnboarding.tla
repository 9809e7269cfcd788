--------------------------- MODULE MCOnboarding ---------------------------
(***************************************************************************)
(* Instances of Onboarding for TLC: any two requests of one session, and   *)
(* one after another.                                                      *)
(***************************************************************************)
EXTENDS Onboarding, TLC

DoesAnything == [p \in Procs |-> Kinds]
DoesOnboarding == [p \in Procs |-> Kinds \ {"cancel", "card"}]

Symmetric == Permutations(Procs)
=============================================================================
