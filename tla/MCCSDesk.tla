------------------------------ MODULE MCCSDesk ------------------------------
(***************************************************************************)
(* Instances of CSDesk for TLC: an agent who is asked everything, and one  *)
(* who only comes to the same terminal.                                    *)
(***************************************************************************)
EXTENDS CSDesk, TLC

CONSTANTS andi, bela

Everything == [x \in Agents |->
    IF x = andi THEN Kinds \ {"deactivate"}
    ELSE {"login", "password", "activate", "deactivate"}]

Symmetric == Permutations(Procs) \cup Permutations(Ids) \cup Permutations(Terminals) \cup Permutations(Gates)
=============================================================================
