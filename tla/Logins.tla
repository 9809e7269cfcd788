------------------------------- MODULE Logins -------------------------------
(***************************************************************************)
(* What the sessions of a user promise, with no request, marker or Redis   *)
(* in sight: a login opens a session with a first refresh token, which     *)
(* whoever holds a token of it may renew until the session is ended; every *)
(* token is sent at most once; and an end that was confirmed has happened. *)
(* Any token of the session will do for a renewal, not just its last:      *)
(* the code does not ask for more. AuthSession implements this             *)
(* specification.                                                          *)
(***************************************************************************)
EXTENDS Integers

CONSTANT Sessions       \* session ids

VARIABLES
    tokens,     \* the number of refresh tokens made, per session
    given,      \* those of them the client was sent
    ended,      \* sessions that were ended
    confirmed   \* sessions whose end was confirmed to the client

vars == <<tokens, given, ended, confirmed>>

Init ==
    /\ tokens = [s \in Sessions |-> 0]
    /\ given = [s \in Sessions |-> {}]
    /\ ended = {}
    /\ confirmed = {}

Opened == {s \in Sessions : tokens[s] # 0}

Login(s) ==
    /\ s \notin Opened
    /\ tokens' = [tokens EXCEPT ![s] = 1]
    /\ UNCHANGED <<given, ended, confirmed>>

Renew(s) ==
    /\ given[s] # {}
    /\ s \notin ended
    /\ tokens' = [tokens EXCEPT ![s] = @ + 1]
    /\ UNCHANGED <<given, ended, confirmed>>

Send(s) ==
    /\ \E n \in (1 .. tokens[s]) \ given[s] : given' = [given EXCEPT ![s] = @ \cup {n}]
    /\ UNCHANGED <<tokens, ended, confirmed>>

End(S) ==
    /\ ended' = ended \cup S
    /\ UNCHANGED <<tokens, given, confirmed>>

Confirm(S) ==
    /\ S \subseteq ended
    /\ confirmed' = confirmed \cup S
    /\ UNCHANGED <<tokens, given, ended>>

Next ==
    \/ \E s \in Sessions : Login(s) \/ Renew(s) \/ Send(s)
    \/ \E s \in Opened : End({s})
    \/ End(Opened)
    \/ \E S \in SUBSET Opened : Confirm(S)

Spec == Init /\ [][Next]_vars
=============================================================================
