----------------------------- MODULE Onboarding -----------------------------
(***************************************************************************)
(* Opening an account: a session goes from the terms to REVIEW, one        *)
(* service per step, and Submit turns it into an account, an m-BCA user    *)
(* and a card.                                                             *)
(*                                                                         *)
(* Every service reads the session (Redis first), does its work, records   *)
(* what it found, and writes the step and the flags it READ back, with its *)
(* own flag added: the write has no condition, and two requests of one     *)
(* session interleave. The video call is the module VideoCall. Documents,  *)
(* validation, the counters behind OTP and liveness and the notifications  *)
(* are reduced to a refusal that may come at any step, and a session does  *)
(* not reach the end of its 24 hours here.                                 *)
(***************************************************************************)
EXTENDS Integers, FiniteSets

CONSTANTS Sessions,      \* sessions of one phone, all opened by one nasabah
          Procs,         \* requests in flight at the same time
          Does,          \* [Procs -> SUBSET Kinds] what each may be asked
          Cards,         \* card types of the catalogue
          Keys,          \* values of X-Idempotency-Key
          NoKey,         \* a submit that sends none
          MaxPerDevice,  \* maxSessionsPerDevice
          MaxCore,       \* bound: accounts core banking opens
          MaxOverlaps,   \* bound: requests that begin while another one runs
          MaxAborts,     \* bound: requests cut off half way
          Faults         \* a subset of AllFaults

Kinds == {"create", "ocr", "data", "otp", "bio", "video", "cred",
          "card", "cancel", "submit"}
AllFaults == {"redis", "evict", "ttl", "db"}

ASSUME OnboardingAssumption ==
    /\ Sessions # {}
    /\ Faults \subseteq AllFaults
    /\ NoKey \notin Keys
    /\ MaxPerDevice \in Nat /\ MaxCore \in Nat
    /\ MaxOverlaps \in Nat /\ MaxAborts \in Nat
    /\ "NONE" \notin Cards

VARIABLES
    row,       \* onboarding_sessions: step, steps_completed, card_type
    live,      \* the rows with deleted_at NULL
    cached,    \* onboarding:session:{id} in Redis
    ev,        \* what is on record: rows of OCR, data, biometric, calls, credentials
    code,      \* sessions with a stored OTP
    slot,      \* onboarding:idem:{session}:{key}
    core,      \* accounts opened at core banking, numbered
    users,     \* the committed users: <<session, account number>>
    issue,     \* onboarding_card_issuance, UNIQUE(session_id)
    prints,    \* history: cards core banking was asked to print
    answers,   \* history: <<session, account>> a submit was answered with
    at,        \* where each request is, and what it holds
    overlaps,
    aborts

vars == <<row, live, cached, ev, code, slot, core, users, issue, prints, answers, at, overlaps, aborts>>
session == <<row, live, cached>>
opening == <<slot, core, users, answers>>
card == <<issue, prints>>
bounds == <<overlaps, aborts>>

Steps == {"CARD_SELECTION", "OCR", "PERSONAL_DATA", "OTP_VERIFY", "BIOMETRIC",
          "VIDEO_CALL", "CREDENTIALS", "REVIEW", "COMPLETED"}
Verified == {"ocr", "data", "otp", "bio", "video", "cred"}
Flags == Verified \cup {"tnc", "card", "submitted"}
Required == Verified \cup {"tnc"}

SomeSession == CHOOSE s \in Sessions : TRUE
NoSession == [step |-> "NONE", done |-> {}, card |-> "NONE"]
Idle == [pc |-> "idle", kind |-> "none", s |-> SomeSession, ses |-> NoSession,
         key |-> NoKey, acct |-> 0]
Free == [state |-> "free", acct |-> 0]

s(p) == at[p].s
ses(p) == at[p].ses
Exists(x) == row[x] # NoSession
HasUser(x) == \E u \in users : u[1] = x

Init ==
    /\ row = [x \in Sessions |-> NoSession]
    /\ live = {}
    /\ cached = [x \in Sessions |-> NoSession]
    /\ ev = [x \in Sessions |-> {}]
    /\ code = {}
    /\ slot = [x \in Sessions |-> [k \in Keys |-> Free]]
    /\ core = 0
    /\ users = {}
    /\ issue = [x \in Sessions |-> "NONE"]
    /\ prints = [x \in Sessions |-> 0]
    /\ answers = {}
    /\ at = [p \in Procs |-> Idle]
    /\ overlaps = 0
    /\ aborts = 0

Goto(p, pc) == at' = [at EXCEPT ![p].pc = pc]
Hold(p, pc, held) == at' = [at EXCEPT ![p].pc = pc, ![p].ses = held]
Finish(p) == at' = [at EXCEPT ![p] = Idle]
Moved(held, step, flag) == [held EXCEPT !.step = step, !.done = @ \cup {flag}]

Others(p) == \E q \in Procs \ {p} : at[q].pc # "idle"

(* A request of the nasabah, or of the agent who has the session's call.   *)
(* Submit claims its slot, and the agent's result is recorded, before the  *)
(* session is read; the others begin with the session.                     *)
Start(p, kind, x, key) ==
    /\ at[p].pc = "idle"
    /\ kind \in Does[p]
    /\ kind = "create" \/ Exists(x)
    /\ kind = "video" => row[x].step = "VIDEO_CALL"
    /\ kind # "submit" => key = NoKey
    /\ overlaps' = IF Others(p) THEN overlaps + 1 ELSE overlaps
    /\ overlaps' <= MaxOverlaps
    /\ at' = [at EXCEPT ![p] = [Idle EXCEPT
                !.pc = CASE kind = "create" -> "count"
                         [] kind = "submit" -> "claim"
                         [] kind = "video"  -> "result"
                         [] OTHER -> "resolve",
                !.kind = kind, !.s = x, !.key = key]]
    /\ UNCHANGED <<session, ev, code, opening, card, aborts>>

-----------------------------------------------------------------------------
(* The session: creation, reading, writing, cancelling.                    *)

(* CreateSession counts the live sessions of the device; the row is        *)
(* inserted later, by another statement. The version of the terms and the  *)
(* card may be refused before either.                                      *)
CountActiveByDevice(p) ==
    /\ at[p].pc = "count"
    /\ \/ Cardinality(live) < MaxPerDevice /\ Goto(p, "insert")
       \/ Finish(p)
    /\ UNCHANGED <<session, ev, code, opening, card, bounds>>

(* With a card, or the catalogue unreadable or switched off: OCR.          *)
(* Otherwise the nasabah chooses a card first.                             *)
FirstStep(c) ==
    IF c # "NONE"
    THEN {[step |-> "OCR", done |-> {"tnc", "card"}, card |-> c]}
    ELSE {[step |-> st, done |-> {"tnc"}, card |-> "NONE"] : st \in {"OCR", "CARD_SELECTION"}}

CreateSession(p) ==
    /\ at[p].pc = "insert"
    /\ \/ \E x \in Sessions, c \in Cards \cup {"NONE"} :
            \E new \in FirstStep(c) :
              /\ ~Exists(x)
              /\ row' = [row EXCEPT ![x] = new]
              /\ live' = live \cup {x}
              /\ at' = [at EXCEPT ![p].pc = "store", ![p].s = x, ![p].ses = new]
       \/ (\A x \in Sessions : Exists(x)) /\ Finish(p) /\ UNCHANGED <<row, live>>
    /\ UNCHANGED <<cached, ev, code, opening, card, bounds>>

(* resolveOnboardingSession: a cached session is not compared with the     *)
(* row. On a miss the row is read, and put into the cache afterwards; a    *)
(* read of the cache that fails goes on as a miss does (see Evict).        *)
Resolve(p) ==
    /\ at[p].pc = "resolve"
    /\ \/ cached[s(p)] # NoSession /\ Hold(p, at[p].kind, cached[s(p)])
       \/ cached[s(p)] = NoSession /\ s(p) \in live /\ Hold(p, "backfill", row[s(p)])
    /\ UNCHANGED <<session, ev, code, opening, card, bounds>>

(* cache.Store, after a read that missed or after a write. Its failure is  *)
(* logged only.                                                            *)
Store(p) ==
    /\ at[p].pc \in {"backfill", "store"}
    /\ \/ cached' = [cached EXCEPT ![s(p)] = ses(p)]
       \/ "redis" \in Faults /\ UNCHANGED cached
    /\ \/ at[p].pc = "backfill" /\ Goto(p, at[p].kind)
       \/ at[p].pc = "store" /\ at[p].kind = "submit" /\ Goto(p, "issue")
       \/ at[p].pc = "store" /\ at[p].kind # "submit" /\ Finish(p)
    /\ UNCHANGED <<row, live, ev, code, opening, card, bounds>>

(* UpdateStep: step and flags as the request holds them, WHERE the session *)
(* is not deleted. The card is not among the columns.                      *)
WriteStep(p) ==
    row' = [row EXCEPT ![s(p)].step = ses(p).step, ![s(p)].done = ses(p).done]

UpdateStep(p) ==
    /\ at[p].pc = "advance"
    /\ \/ s(p) \in live /\ WriteStep(p) /\ Goto(p, "store")
       \/ s(p) \notin live /\ Finish(p) /\ UNCHANGED row
    /\ UNCHANGED <<live, cached, ev, code, opening, card, bounds>>

(* CancelSession: the row is soft-deleted, the cache entry after it. That  *)
(* the entry could not be deleted is logged only.                          *)
SoftDelete(p) ==
    /\ at[p].pc = "cancel"
    /\ \/ s(p) \in live /\ live' = live \ {s(p)} /\ Goto(p, "uncache")
       \/ s(p) \notin live /\ Finish(p) /\ UNCHANGED live
    /\ UNCHANGED <<row, cached, ev, code, opening, card, bounds>>

Uncache(p) ==
    /\ at[p].pc = "uncache"
    /\ \/ cached' = [cached EXCEPT ![s(p)] = NoSession]
       \/ "redis" \in Faults /\ UNCHANGED cached
    /\ Finish(p)
    /\ UNCHANGED <<row, live, ev, code, opening, card, bounds>>

-----------------------------------------------------------------------------
(* The steps. Each reads the session it holds, records what it verified,   *)
(* and goes on to write the step.                                          *)

Record(p, what) == ev' = [ev EXCEPT ![s(p)] = @ \cup {what}]
Advance(p, step, flag) == Hold(p, "advance", Moved(ses(p), step, flag))

(* A step out of order, a device that is not the session's, invalid data,  *)
(* a provider or a store that fails: an error, nothing written.            *)
Refuse(p) ==
    /\ at[p].pc \in {"resolve", "insert", "ocr", "data", "otp", "bio", "escalate",
                     "result", "video", "cred", "card", "cancel"}
    /\ at[p].kind # "submit"
    /\ Finish(p)
    /\ UNCHANGED <<session, ev, code, opening, card, bounds>>

ProcessKTP(p) ==
    /\ at[p].pc = "ocr" /\ ses(p).step = "OCR"
    /\ Record(p, "ocr")
    /\ Advance(p, "PERSONAL_DATA", "ocr")
    /\ UNCHANGED <<session, code, opening, card, bounds>>

(* The data is on record before the code is: no SMS left for this number,  *)
(* or a store that fails, ends the request with the data written.          *)
SavePersonalData(p) ==
    /\ at[p].pc = "data" /\ ses(p).step = "PERSONAL_DATA"
    /\ "ocr" \in ev[s(p)]
    /\ Record(p, "data")
    /\ \/ code' = code \cup {s(p)} /\ Advance(p, "OTP_VERIFY", "data")
       \/ Finish(p) /\ UNCHANGED code
    /\ UNCHANGED <<session, opening, card, bounds>>

(* The right code. That it could not be deleted is not looked at.          *)
VerifyOTP(p) ==
    /\ at[p].pc = "otp" /\ ses(p).step = "OTP_VERIFY"
    /\ s(p) \in code
    /\ code' = code \ {s(p)} \/ ("redis" \in Faults /\ UNCHANGED code)
    /\ Record(p, "otp")
    /\ Advance(p, "BIOMETRIC", "otp")
    /\ UNCHANGED <<session, opening, card, bounds>>

RecordPass(p) ==
    /\ at[p].pc = "bio" /\ ses(p).step = "BIOMETRIC"
    /\ Record(p, "bio")
    /\ Advance(p, "VIDEO_CALL", "bio")
    /\ UNCHANGED <<session, code, opening, card, bounds>>

(* The failure that blocks self-service: the session is read again and the *)
(* call is the next step. BIOMETRIC is not marked as verified, and whether *)
(* the session is still at BIOMETRIC is not asked.                         *)
RefuseVerdict(p) ==
    /\ at[p].pc = "bio" /\ ses(p).step = "BIOMETRIC"
    /\ at' = [at EXCEPT ![p].pc = "resolve", ![p].kind = "escalate"]
    /\ UNCHANGED <<session, ev, code, opening, card, bounds>>

\* mutant: the escalation marks the step it skips
EscalateVerified(p) ==
    /\ at[p].pc = "escalate"
    /\ Hold(p, "advance", Moved(ses(p), "VIDEO_CALL", "bio"))
    /\ UNCHANGED <<session, ev, code, opening, card, bounds>>

EscalateToVideoCall(p) ==
    /\ at[p].pc = "escalate"
    /\ Hold(p, "advance", [ses(p) EXCEPT !.step = "VIDEO_CALL"])
    /\ UNCHANGED <<session, ev, code, opening, card, bounds>>

(* The agent reports APPROVED: the call's row first, whatever becomes of   *)
(* the session.                                                            *)
SubmitResult(p) ==
    /\ at[p].pc = "result"
    /\ Record(p, "video")
    /\ Goto(p, "resolve")
    /\ UNCHANGED <<session, code, opening, card, bounds>>

(* CanTransition: a session past VIDEO_CALL is left alone.                 *)
PassVideoCall(p) ==
    /\ at[p].pc = "video"
    /\ IF ses(p).step = "VIDEO_CALL" THEN Advance(p, "CREDENTIALS", "video") ELSE Finish(p)
    /\ UNCHANGED <<session, ev, code, opening, card, bounds>>

(* Credentials that are on record are answered with the step as it is.     *)
(* UNIQUE(session_id) refuses a second row.                                *)
SetCredentials(p) ==
    /\ at[p].pc = "cred"
    /\ \/ "cred" \in ev[s(p)] /\ Finish(p) /\ UNCHANGED ev
       \/ /\ "cred" \notin ev[s(p)] /\ ses(p).step = "CREDENTIALS"
          /\ Record(p, "cred")
          /\ Advance(p, "REVIEW", "cred")
    /\ UNCHANGED <<session, code, opening, card, bounds>>

(* SetCard writes the card together with the step and flags it read.       *)
SetCard(p) ==
    /\ at[p].pc = "card"
    /\ "submitted" \notin ses(p).done
    /\ s(p) \in live
    /\ \E c \in Cards :
         LET step == IF ses(p).step = "CARD_SELECTION" THEN "OCR" ELSE ses(p).step
             new  == [Moved(ses(p), step, "card") EXCEPT !.card = c]
         IN  row' = [row EXCEPT ![s(p)] = new] /\ Hold(p, "store", new)
    /\ UNCHANGED <<live, cached, ev, code, opening, card, bounds>>

-----------------------------------------------------------------------------
(* Submit.                                                                 *)

SetSlot(p, v) ==
    slot' = IF at[p].key = NoKey THEN slot ELSE [slot EXCEPT ![s(p)][at[p].key] = v]
SlotOf(p) == IF at[p].key = NoKey THEN Free ELSE slot[s(p)][at[p].key]

(* SETNX: the slot is the request's, or somebody has it and it is read.    *)
Claim(p) ==
    /\ at[p].pc = "claim"
    /\ \/ /\ SlotOf(p) = Free
          /\ SetSlot(p, [state |-> "running", acct |-> 0])
          /\ Goto(p, "resolve")
       \/ SlotOf(p) # Free /\ Goto(p, "slot") /\ UNCHANGED slot
    /\ UNCHANGED <<session, ev, code, core, users, answers, card, bounds>>

\* mutant: what the slot holds is taken for an answer while submit still runs
ReadSlotAnswersRunning(p) ==
    /\ at[p].pc = "slot"
    /\ \/ SlotOf(p) # Free /\ answers' = answers \cup {<<s(p), SlotOf(p).acct>>}
       \/ SlotOf(p) = Free /\ UNCHANGED answers
    /\ Finish(p)
    /\ UNCHANGED <<session, ev, code, slot, core, users, card, bounds>>

(* GET, of what the slot holds by now. A stored answer is given again; a   *)
(* slot that runs, or expired since the SETNX, is a conflict, and a GET    *)
(* that fails an error: neither touches the slot, which is not this        *)
(* request's.                                                              *)
ReadSlot(p) ==
    /\ at[p].pc = "slot"
    /\ \/ SlotOf(p).state = "stored" /\ answers' = answers \cup {<<s(p), SlotOf(p).acct>>}
       \/ (SlotOf(p).state # "stored" \/ "redis" \in Faults) /\ UNCHANGED answers
    /\ Finish(p)
    /\ UNCHANGED <<session, ev, code, slot, core, users, card, bounds>>

(* Every error after the claim releases the slot, whoever holds it now.    *)
Fails(p) == SetSlot(p, Free) /\ Finish(p)

RefuseSubmit(p) ==
    /\ at[p].kind = "submit" /\ at[p].pc \in {"resolve", "submit"}
    /\ Fails(p)
    /\ UNCHANGED <<session, ev, code, core, users, answers, card, bounds>>

MayOpen(p) ==
    /\ ses(p).step = "REVIEW"
    /\ Required \subseteq ses(p).done
    /\ {"data", "cred"} \subseteq ev[s(p)]

\* mutant: the session is completed before the user is provisioned
CreateAccountCompletes(p) ==
    /\ at[p].pc = "submit" /\ MayOpen(p)
    /\ core < MaxCore
    /\ core' = core + 1
    /\ row' = [row EXCEPT ![s(p)].step = "COMPLETED", ![s(p)].done = @ \cup {"submitted"}]
    /\ at' = [at EXCEPT ![p].pc = "provision", ![p].acct = core']
    /\ UNCHANGED <<live, cached, ev, code, slot, users, answers, card, bounds>>

(* With the card feature on, a card must have been chosen too.             *)
CreateAccount(p) ==
    /\ at[p].pc = "submit" /\ MayOpen(p)
    /\ core < MaxCore
    /\ core' = core + 1
    /\ at' = [at EXCEPT ![p].pc = "provision", ![p].acct = core']
    /\ UNCHANGED <<session, ev, code, slot, users, answers, card, bounds>>

\* mutant: the phone is looked up before the transaction instead of being UNIQUE
ProvisionUnchecked(p) ==
    /\ at[p].pc = "provision"
    /\ users' = users \cup {<<s(p), at[p].acct>>}
    /\ Goto(p, "complete")
    /\ UNCHANGED <<session, ev, code, slot, core, answers, card, bounds>>

(* One transaction for the user, the device, the account and the limits.   *)
(* The phone is UNIQUE among users. A commit may succeed and be reported   *)
(* as failed.                                                              *)
ProvisionAccount(p) ==
    /\ at[p].pc = "provision"
    /\ \/ /\ users = {}
          /\ users' = {<<s(p), at[p].acct>>}
          /\ \/ Goto(p, "complete") /\ UNCHANGED slot
             \/ "db" \in Faults /\ Fails(p)
       \/ users # {} /\ Fails(p) /\ UNCHANGED users
    /\ UNCHANGED <<session, ev, code, core, answers, card, bounds>>

Complete(p) ==
    LET new == Moved(ses(p), "COMPLETED", "submitted")
    IN  /\ at[p].pc = "complete"
        /\ \/ /\ s(p) \in live
              /\ row' = [row EXCEPT ![s(p)].step = new.step, ![s(p)].done = new.done]
              /\ Hold(p, "store", new)
              /\ UNCHANGED slot
           \/ (s(p) \notin live \/ "db" \in Faults) /\ Fails(p) /\ UNCHANGED row
        /\ UNCHANGED <<live, cached, ev, code, core, users, answers, card, bounds>>

(* The card of the session as it was read. INSERT ... ON CONFLICT DO       *)
(* NOTHING decides who may ask for the print.                              *)
ClaimIssuance(p) ==
    /\ at[p].pc = "issue"
    /\ \/ /\ ses(p).card # "NONE" /\ issue[s(p)] = "NONE"
          /\ issue' = [issue EXCEPT ![s(p)] = "REQUESTED"]
          /\ Goto(p, "print")
       \/ /\ ses(p).card = "NONE" \/ issue[s(p)] # "NONE" \/ "db" \in Faults
          /\ Goto(p, "answer")
          /\ UNCHANGED issue
    /\ UNCHANGED <<session, ev, code, opening, prints, bounds>>

(* Whatever becomes of the print, and of the note about it, the submit is  *)
(* answered.                                                               *)
IssueCard(p) ==
    /\ at[p].pc = "print"
    /\ prints' = [prints EXCEPT ![s(p)] = @ + 1]
    /\ \/ \E st \in {"PRINTED", "FAILED"} : issue' = [issue EXCEPT ![s(p)] = st]
       \/ "db" \in Faults /\ UNCHANGED issue
    /\ Goto(p, "answer")
    /\ UNCHANGED <<session, ev, code, opening, bounds>>

Answer(p) ==
    /\ at[p].pc = "answer"
    /\ answers' = answers \cup {<<s(p), at[p].acct>>}
    /\ \/ SetSlot(p, [state |-> "stored", acct |-> at[p].acct])
       \/ "redis" \in Faults /\ UNCHANGED slot
    /\ Finish(p)
    /\ UNCHANGED <<session, ev, code, core, users, card, bounds>>

-----------------------------------------------------------------------------
(* The 60 s of a claim end, also under a submit that is still running; the *)
(* 24 h of a stored answer end; Redis evicts a session; a request stops.   *)
SlotExpires(x, k) ==
    /\ "ttl" \in Faults
    /\ slot[x][k] # Free
    /\ slot' = [slot EXCEPT ![x][k] = Free]
    /\ UNCHANGED <<session, ev, code, core, users, answers, card, at, bounds>>

(* Redis loses the cached session, or a read does not get to see it.       *)
Evict(x) ==
    /\ "evict" \in Faults
    /\ cached[x] # NoSession
    /\ cached' = [cached EXCEPT ![x] = NoSession]
    /\ UNCHANGED <<row, live, ev, code, opening, card, at, bounds>>

Abort(p) ==
    /\ at[p].pc # "idle" /\ aborts < MaxAborts
    /\ aborts' = aborts + 1
    /\ Finish(p)
    /\ UNCHANGED <<session, ev, code, opening, card, overlaps>>

Handle(p) ==
    \/ CountActiveByDevice(p) \/ CreateSession(p) \/ Resolve(p) \/ Store(p)
    \/ UpdateStep(p) \/ SoftDelete(p) \/ Uncache(p) \/ Refuse(p)
    \/ ProcessKTP(p) \/ SavePersonalData(p) \/ VerifyOTP(p) \/ RecordPass(p)
    \/ RefuseVerdict(p) \/ EscalateToVideoCall(p) \/ SubmitResult(p)
    \/ PassVideoCall(p) \/ SetCredentials(p) \/ SetCard(p)
    \/ Claim(p) \/ ReadSlot(p) \/ RefuseSubmit(p) \/ CreateAccount(p)
    \/ ProvisionAccount(p) \/ Complete(p) \/ ClaimIssuance(p) \/ IssueCard(p) \/ Answer(p)

Next ==
    \/ \E p \in Procs : Handle(p) \/ Abort(p)
    \/ \E p \in Procs, kind \in Kinds, x \in Sessions, k \in Keys \cup {NoKey} :
          Start(p, kind, x, k)
    \/ \E x \in Sessions, k \in Keys : SlotExpires(x, k)
    \/ \E x \in Sessions : Evict(x)

Spec == Init /\ [][Next]_vars

-----------------------------------------------------------------------------
SessionRecord == [step : Steps, done : SUBSET Flags, card : Cards \cup {"NONE"}]
Anything == SessionRecord \cup {NoSession}
PCs == {"idle", "count", "insert", "store", "backfill", "resolve", "advance", "uncache",
        "escalate", "result", "claim", "slot", "provision", "complete", "issue", "print", "answer"} \cup Kinds

(* Every variable keeps its shape: no handler leaves a request in a place  *)
(* nothing continues from, and no flag or step outside the catalogue is    *)
(* ever written.                                                           *)
TypeOK ==
    /\ row \in [Sessions -> Anything]
    /\ live \subseteq {x \in Sessions : Exists(x)}
    /\ cached \in [Sessions -> Anything]
    /\ ev \in [Sessions -> SUBSET Verified]
    /\ code \subseteq Sessions
    /\ slot \in [Sessions -> [Keys -> [state : {"free", "running", "stored"}, acct : 0..MaxCore]]]
    /\ core \in 0..MaxCore
    /\ users \subseteq Sessions \X (1..MaxCore)
    /\ issue \in [Sessions -> {"NONE", "REQUESTED", "PRINTED", "FAILED"}]
    /\ prints \in [Sessions -> 0..MaxCore]
    /\ answers \subseteq Sessions \X (1..MaxCore)
    /\ at \in [Procs -> [pc : PCs, kind : Kinds \cup {"none", "escalate"}, s : Sessions,
                         ses : Anything, key : Keys \cup {NoKey}, acct : 0..MaxCore]]
    /\ overlaps \in 0..MaxOverlaps /\ aborts \in 0..MaxAborts

(* A flag in the row, in the cache or in the hands of a request stands for *)
(* something that is on record, though every step is written from a copy   *)
(* that may be old (strengthens OpenedIsVerified).                         *)
Backed(held, x) == held.done \cap Verified \subseteq ev[x]
FlagsAreBacked ==
    /\ \A x \in Sessions : Backed(row[x], x) /\ Backed(cached[x], x)
    /\ \A p \in Procs : Backed(ses(p), s(p))

(* Nobody is a user who was not read, verified by OTP, seen alive and      *)
(* called by an agent, in whatever order the requests of the session, an   *)
(* escalation and a change of card wrote over one another.                 *)
OpenedIsVerified == \A u \in users : Verified \subseteq ev[u[1]]

(* However often submit is sent, with one key, another or none, and        *)
(* wherever it is cut off: one account becomes a user's, every answer      *)
(* names that account, and one card is asked for.                          *)
OpenedOnce ==
    /\ Cardinality(users) <= 1
    /\ answers \subseteq users
    /\ \A x \in Sessions : prints[x] <= 1 /\ (prints[x] = 1 => HasUser(x))

(* The steps, each written from a copy that may be old, promise together   *)
(* what AccountOpening does: whatever is verified was verified in order,   *)
(* and an account is asked for, given to a user, printed for and named in  *)
(* an answer only on the strength of what came before.                     *)
Abstract == INSTANCE AccountOpening WITH
    Cores <- 1 .. MaxCore,
    proven <- ev, accounts <- core, opened <- users, printed <- prints, told <- answers

RefinesOpening == Abstract!Spec

(* A session says it was submitted, in the row or in the cache, only when  *)
(* there is an account behind it.                                          *)
SubmittedIsOpened ==
    \A x \in Sessions : "submitted" \in row[x].done \cup cached[x].done => HasUser(x)

(* The step REVIEW is reached with every step before it done, also by an   *)
(* applicant whose liveness check failed for good and who was handed to an *)
(* agent: what is left to do at REVIEW is to submit.                       *)
RecoveredByAgent ==
    \A x \in Sessions : row[x].step = "REVIEW" => Required \subseteq row[x].done
=============================================================================
