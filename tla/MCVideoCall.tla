---------------------------- MODULE MCVideoCall -----------------------------
(***************************************************************************)
(* Small instances of VideoCall for TLC: one session, the agents andi,     *)
(* bela and citra, each at a desk of their own, and the requests that may  *)
(* be in flight at the same time.                                          *)
(***************************************************************************)
EXTENDS VideoCall

CONSTANTS session1, andi, bela, citra,
          phone, deskA, deskB, deskC

OneSession == {session1}
AllAgents == {andi, bela, citra}
MCWho ==
    [p \in Procs |-> CASE p = deskB -> bela
                       [] p = deskC -> citra
                       [] OTHER -> andi]

(* The nasabah's requests beside those of agents who do everything.        *)
Everything ==
    [p \in Procs |-> IF p = phone THEN {"join", "cancelSession"}
                     ELSE {"pickup"} \cup Results \cup CaseKinds]

(* Andi and bela take the call and report. Andi raises the case, so that   *)
(* it has two reviewers: bela, who may have reported on the call as well,  *)
(* and citra.                                                              *)
Reviewing ==
    [p \in Procs |->
        CASE p = phone -> {"join", "cancelSession"}
          [] p = deskA -> {"pickup", "APPROVED", "NEED_REVIEW"}
          [] p = deskB -> {"pickup", "REJECTED", "CLAIM", "approveCase"}
          [] OTHER     -> {"CLAIM", "approveCase", "rejectCase"}]

(* A nasabah who queues; the desk refreshes its list, takes calls, and has *)
(* the other requests, the nasabah's cancelling from another phone too.    *)
Recovering ==
    [p \in Procs |-> IF p = phone THEN {"join"}
                     ELSE {"list", "cancelSession", "pickup", "REJECTED",
                           "NEED_REVIEW", "approveCase"}]
=============================================================================
