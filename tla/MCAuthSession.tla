--------------------------- MODULE MCAuthSession ----------------------------
(***************************************************************************)
(* A small instance of AuthSession for TLC: a session of a user and two    *)
(* requests at a time, of any kind.                                        *)
(***************************************************************************)
EXTENDS AuthSession

CONSTANTS home,       \* a session
          p1, p2      \* requests

Everything == [p \in Procs |-> Kinds]
=============================================================================
