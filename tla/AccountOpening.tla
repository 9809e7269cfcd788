--------------------------- MODULE AccountOpening ---------------------------
(***************************************************************************)
(* What the opening of an account promises, with no request, step, flag or *)
(* cache in sight: what is verified of an applicant is verified in order,  *)
(* core banking is asked for an account only when all of it is, one user   *)
(* has one of these accounts, and only a user is answered and gets a card, *)
(* once. An applicant may go to the agent without the liveness check, but  *)
(* no further than that without it: All has to be verified in the end.     *)
(* Onboarding implements this specification.                               *)
(***************************************************************************)
EXTENDS Integers

CONSTANTS Sessions,     \* sessions of one phone
          Cores         \* the numbers of accounts core banking may open

VARIABLES
    proven,     \* what is on record of a session's applicant
    accounts,   \* accounts opened at core banking, numbered
    opened,     \* <<session, account>> of the user
    printed,    \* cards core banking was asked to print, per session
    told        \* <<session, account>> a submit was answered with

vars == <<proven, accounts, opened, printed, told>>

All == {"ocr", "data", "otp", "bio", "video", "cred"}

Init ==
    /\ proven = [x \in Sessions |-> {}]
    /\ accounts = 0
    /\ opened = {}
    /\ printed = [x \in Sessions |-> 0]
    /\ told = {}

(* What has to be on record before a verification.                         *)
Before == [ocr |-> {}, data |-> {"ocr"}, otp |-> {"data"}, bio |-> {"otp"},
           video |-> {"otp"}, cred |-> {"video"}]

Verify(x, what) ==
    /\ Before[what] \subseteq proven[x]
    /\ proven' = [proven EXCEPT ![x] = @ \cup {what}]
    /\ UNCHANGED <<accounts, opened, printed, told>>

(* A retry asks core banking again.                                        *)
Ask ==
    /\ \E x \in Sessions : All \subseteq proven[x]
    /\ accounts' = accounts + 1
    /\ UNCHANGED <<proven, opened, printed, told>>

Open(x, n) ==
    /\ opened = {}
    /\ All \subseteq proven[x]
    /\ n \in 1 .. accounts
    /\ opened' = {<<x, n>>}
    /\ UNCHANGED <<proven, accounts, printed, told>>

PrintCard(x) ==
    /\ \E n \in Cores : <<x, n>> \in opened
    /\ printed[x] = 0
    /\ printed' = [printed EXCEPT ![x] = 1]
    /\ UNCHANGED <<proven, accounts, opened, told>>

Tell(x, n) ==
    /\ <<x, n>> \in opened
    /\ told' = told \cup {<<x, n>>}
    /\ UNCHANGED <<proven, accounts, opened, printed>>

Next ==
    \/ \E x \in Sessions, what \in All : Verify(x, what)
    \/ Ask
    \/ \E x \in Sessions, n \in Cores : Open(x, n) \/ Tell(x, n)
    \/ \E x \in Sessions : PrintCard(x)

Spec == Init /\ [][Next]_vars
=============================================================================
