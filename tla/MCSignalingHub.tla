--------------------------- MODULE MCSignalingHub ---------------------------
(***************************************************************************)
(* An instance of SignalingHub for TLC. The system may stop: every ticket  *)
(* is used, the call is over and all sockets are closed.                   *)
(***************************************************************************)
EXTENDS SignalingHub
=============================================================================
