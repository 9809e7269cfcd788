-------------------------- MODULE VideoCallProofs ---------------------------
(***************************************************************************)
(* Theorems about VideoCall, for any number of sessions, agents, calls,    *)
(* cases, requests at the same time and faults.                            *)
(***************************************************************************)
EXTENDS VideoCall, TLAPS

Pcs == {"idle", "get", "row", "store", "joinCase", "joinFind", "joinFree", "joinDrop", "joinPosition",
        "joinCreate", "joinAdd", "pickRead", "pickMark", "pickDrop", "resultRead", "resultWrite",
        "resultDrop", "stepWrite", "stepCache", "caseCreate", "caseRead", "caseWrite",
        "caseStep", "delete", "cancelFind", "release", "releaseDrop", "uncache", "list"}
CallPcs == {"list", "release", "releaseDrop", "joinFree", "joinDrop", "joinPosition", "joinAdd",
            "pickRead", "pickMark", "pickDrop", "resultRead", "resultWrite", "resultDrop", "caseCreate"}
CasePcs == {"caseRead", "caseWrite", "caseStep"}
ResolvePcs == {"get", "row", "store"}
CachedSteps == {"none", "VIDEO_CALL", "CREDENTIALS", "REVIEW"}

Requests == [pc : Pcs, kind : Kinds \cup {"none"}, row : Calls \cup Cases, session : Sessions,
             got : CachedSteps]
CallRows == [session : Sessions, agent : Agents \cup {NoOne},
             status : {"NONE", "QUEUED", "ACTIVE", "COMPLETED", "CANCELLED"},
             result : Results \cup {"NONE"}]
CaseRows == [session : Sessions, call : Calls \cup {0},
             status : {"NONE", "PENDING", "IN_REVIEW", "APPROVED", "REJECTED"},
             raisedBy : Agents \cup {NoOne}, claimedBy : Agents \cup {NoOne},
             resolvedBy : Agents \cup {NoOne}]

(* The verification PassedVerification asks for.                           *)
Verified(ses) ==
    \/ \E e \in Cases : esc[e].session = ses /\ esc[e].status = "APPROVED"
    \/ CallsOf(ses) \cap approved # {}

(* What a request knows where it stands, and nobody takes back: its call   *)
(* or case is one of its session; a case it will write was not raised by   *)
(* its agent; and a step is written only after a verification.             *)
Knows(p) ==
    /\ at[p].pc \in CallPcs => c(p) \in CallsOf(s(p))
    /\ at[p].pc \in CasePcs => /\ c(p) \in Cases /\ esc[c(p)].status # "NONE"
                               /\ esc[c(p)].session = s(p)
    /\ at[p].pc \in {"resultRead", "resultWrite", "resultDrop"} => at[p].kind \in Results
    /\ at[p].pc = "resultDrop" /\ at[p].kind = "APPROVED" => c(p) \in approved
    /\ at[p].pc \in {"caseRead", "caseWrite"} => at[p].kind \in CaseKinds
    /\ at[p].pc = "caseWrite" => esc[c(p)].raisedBy # Who[p]
    /\ at[p].pc = "caseStep" => esc[c(p)].status = "APPROVED"
    /\ at[p].pc = "stepWrite" => Verified(s(p))
    /\ at[p].pc \in ResolvePcs /\ at[p].kind \in Results => Verified(s(p))

SessionsTyped ==
    /\ step \in [Sessions -> {"VIDEO_CALL", "CREDENTIALS", "REVIEW", "GONE"}]
    /\ cached \in [Sessions -> CachedSteps]
CallsTyped ==
    /\ calls \in [Calls -> CallRows]
    /\ queue \subseteq Calls /\ old \subseteq Calls /\ approved \subseteq Calls

(* A case is empty until it is raised, and closed once it is decided: by   *)
(* the one who holds it, who is not the one who raised it.                 *)
CaseSound(k) ==
    /\ k.status = "NONE" => k = NoCase
    /\ k.resolvedBy # NoOne => /\ k.status \in {"APPROVED", "REJECTED"}
                               /\ k.resolvedBy # k.raisedBy
                               /\ k.claimedBy \in {NoOne, k.resolvedBy}
CasesSound == esc \in [Cases -> CaseRows] /\ \A e \in Cases : CaseSound(esc[e])

IInv ==
    /\ SessionsTyped /\ CallsTyped /\ CasesSound /\ PassedVerification
    /\ at \in [Procs -> Requests] /\ \A p \in Procs : Knows(p)

-----------------------------------------------------------------------------
LEMMA Somebody == SomeSession \in Sessions
BY VideoCallAssumption DEF SomeSession

LEMMA IdleTyped == Idle \in Requests /\ Idle.pc = "idle"
<1>1. 1 \in Calls \cup Cases
  BY VideoCallAssumption DEF Calls
<1> QED BY <1>1, Somebody DEF Idle, Requests, Pcs, CachedSteps

LEMMA Empty == NoCall \in CallRows /\ NoCase \in CaseRows /\ CaseSound(NoCase)
BY Somebody DEF NoCall, NoCase, CallRows, CaseRows, CaseSound

LEMMA InitHolds == Init => IInv
<1> SUFFICES ASSUME Init PROVE IInv
  OBVIOUS
<1>1. SessionsTyped /\ PassedVerification
  BY DEF Init, SessionsTyped, PassedVerification, CachedSteps
<1>2. CallsTyped /\ CasesSound
  BY Empty DEF Init, CallsTyped, CasesSound
<1>3. at \in [Procs -> Requests] /\ \A p \in Procs : Knows(p)
  BY IdleTyped DEF Init, Knows, CallPcs, CasePcs, ResolvePcs
<1> QED BY <1>1, <1>2, <1>3 DEF IInv

-----------------------------------------------------------------------------
(* How a step moves its request.                                           *)

LEMMA Rewritten ==
    ASSUME NEW S, NEW R, NEW f \in [S -> R], NEW x \in S, NEW r \in R
    PROVE  /\ [f EXCEPT ![x] = r] \in [S -> R]
           /\ [f EXCEPT ![x] = r][x] = r
           /\ \A y \in S : y # x => [f EXCEPT ![x] = r][y] = f[y]
OBVIOUS

Moved(p, pc, row) ==
    /\ at' \in [Procs -> Requests]
    /\ \A q \in Procs : q # p => at'[q] = at[q]
    /\ at'[p].pc = pc /\ at'[p].row = row
    /\ pc # "idle" => at'[p].kind = at[p].kind /\ at'[p].session = at[p].session

LEMMA RequestNow ==
    ASSUME IInv, NEW p \in Procs
    PROVE  /\ at \in [Procs -> Requests] /\ at[p] \in Requests /\ Knows(p)
           /\ c(p) \in Calls \cup Cases /\ s(p) \in Sessions
           /\ at[p].kind \in Kinds \cup {"none"}
<1>1. at[p] \in Requests /\ at \in [Procs -> Requests] /\ Knows(p)
  BY DEF IInv
<1> QED BY <1>1 DEF Requests, c, s

LEMMA GotoMoves ==
    ASSUME IInv, NEW p \in Procs, NEW pc \in Pcs, Goto(p, pc)
    PROVE  Moved(p, pc, c(p))
<1> DEFINE r == [at[p] EXCEPT !.pc = pc]
<1>1. at' = [at EXCEPT ![p] = r]
  BY DEF Goto
<1>2. at[p] \in Requests /\ at \in [Procs -> Requests]
  BY RequestNow
<1>3. /\ r \in Requests /\ r.pc = pc /\ r.kind = at[p].kind /\ r.row = at[p].row
      /\ r.session = at[p].session
  BY <1>2 DEF Requests
<1> HIDE DEF r
<1> QED BY <1>1, <1>2, <1>3, Rewritten DEF Moved, c

LEMMA GotoGotMoves ==
    ASSUME IInv, NEW p \in Procs, NEW pc \in Pcs, NEW ses \in CachedSteps, GotoGot(p, pc, ses)
    PROVE  Moved(p, pc, c(p))
<1> DEFINE r == [at[p] EXCEPT !.pc = pc, !.got = ses]
<1>1. at' = [at EXCEPT ![p] = r]
  BY DEF GotoGot
<1>2. at[p] \in Requests /\ at \in [Procs -> Requests]
  BY RequestNow
<1>3. /\ r \in Requests /\ r.pc = pc /\ r.kind = at[p].kind /\ r.row = at[p].row
      /\ r.session = at[p].session
  BY <1>2 DEF Requests
<1> HIDE DEF r
<1> QED BY <1>1, <1>2, <1>3, Rewritten DEF Moved, c

LEMMA GotoWithMoves ==
    ASSUME IInv, NEW p \in Procs, NEW pc \in Pcs, NEW row \in Calls \cup Cases,
           GotoWith(p, pc, row)
    PROVE  Moved(p, pc, row)
<1> DEFINE r == [at[p] EXCEPT !.pc = pc, !.row = row]
<1>1. at' = [at EXCEPT ![p] = r]
  BY DEF GotoWith
<1>2. at[p] \in Requests /\ at \in [Procs -> Requests]
  BY RequestNow
<1>3. /\ r \in Requests /\ r.pc = pc /\ r.kind = at[p].kind /\ r.row = row
      /\ r.session = at[p].session
  BY <1>2 DEF Requests
<1> HIDE DEF r
<1> QED BY <1>1, <1>2, <1>3, Rewritten DEF Moved

LEMMA FinishMoves ==
    ASSUME IInv, NEW p \in Procs, Finish(p)
    PROVE  Moved(p, "idle", 1)
<1>1. at \in [Procs -> Requests]
  BY RequestNow
<1> QED BY <1>1, IdleTyped, Rewritten DEF Finish, Moved, Idle

-----------------------------------------------------------------------------
(* What no step takes back.                                                *)
Lasting ==
    /\ \A d \in Calls : calls[d].status # "NONE" =>
         calls'[d].status # "NONE" /\ calls'[d].session = calls[d].session
    /\ approved \subseteq approved'
    /\ \A e \in Cases : esc[e].status # "NONE" =>
         /\ esc'[e].status # "NONE" /\ esc'[e].session = esc[e].session
         /\ esc'[e].raisedBy = esc[e].raisedBy
         /\ esc[e].status = "APPROVED" => esc'[e].status = "APPROVED"

LEMMA CallsLast ==
    ASSUME Lasting, NEW ses
    PROVE  CallsOf(ses) \subseteq CallsOf(ses)'
BY DEF Lasting, CallsOf

LEMMA VerifiedLasts ==
    ASSUME Lasting, NEW ses, Verified(ses)
    PROVE  Verified(ses)'
<1>1. CASE \E e \in Cases : esc[e].session = ses /\ esc[e].status = "APPROVED"
  BY <1>1 DEF Lasting, Verified
<1>2. CASE CallsOf(ses) \cap approved # {}
  BY <1>2, CallsLast DEF Lasting, Verified
<1> QED BY <1>1, <1>2 DEF Verified

LEMMA StillVerified ==
    ASSUME Lasting, NEW q \in Procs, s(q)' = s(q), Verified(s(q))
    PROVE  Verified(s(q))'
<1>1. PICK ses : ses = s(q)
  OBVIOUS
<1>2. Verified(ses)
  BY <1>1
<1>3. Verified(ses)'
  BY <1>2, VerifiedLasts
<1>4. s(q)' = ses
  BY <1>1
<1> HIDE <1>1
<1> QED BY <1>3, <1>4 DEF Verified, CallsOf

LEMMA Others ==
    ASSUME IInv, Lasting, NEW q \in Procs, at'[q] = at[q]
    PROVE  Knows(q)'
<1>1. Knows(q)
  BY DEF IInv
<1>2. c(q)' = c(q) /\ s(q)' = s(q)
  BY DEF c, s
<1>3. c(q) \in CallsOf(s(q)) => c(q)' \in CallsOf(s(q))'
  BY <1>2, CallsLast
<1>4. Verified(s(q)) => Verified(s(q))'
  BY <1>2, StillVerified
<1>5. /\ at[q].pc \in CasePcs => /\ c(q)' \in Cases /\ esc'[c(q)].status # "NONE"
                                 /\ esc'[c(q)].session = s(q)'
      /\ at[q].pc = "resultDrop" /\ at[q].kind = "APPROVED" => c(q)' \in approved'
      /\ at[q].pc = "caseWrite" => esc'[c(q)].raisedBy # Who[q]
      /\ at[q].pc = "caseStep" => esc'[c(q)].status = "APPROVED"
  BY <1>1, <1>2 DEF Knows, Lasting, CasePcs
<1> QED BY <1>1, <1>2, <1>3, <1>4, <1>5 DEF Knows

(* What a step of p has to show.                                           *)
LEMMA Keeps ==
    ASSUME IInv, Lasting, SessionsTyped', CallsTyped', CasesSound', PassedVerification',
           NEW p \in Procs, NEW pc, NEW row, Moved(p, pc, row), Knows(p)'
    PROVE  IInv'
BY Others DEF IInv, Moved

LEMMA Quiet ==
    ASSUME IInv, UNCHANGED <<calls, approved, esc>>
    PROVE  Lasting
BY DEF Lasting

(* A step that writes no table, or only what nobody relies on: the cached  *)
(* sessions, the queue, which calls are old.                               *)
Looks ==
    /\ UNCHANGED <<step, calls, approved, esc>>
    /\ cached' \in [Sessions -> CachedSteps]
    /\ queue' \subseteq Calls /\ old' \subseteq Calls

LEMMA LooksTyped ==
    ASSUME IInv, Looks
    PROVE  Lasting /\ SessionsTyped' /\ CallsTyped' /\ CasesSound' /\ PassedVerification'
<1>1. Lasting
  BY Quiet DEF Looks
<1>2. SessionsTyped' /\ CallsTyped'
  BY DEF IInv, SessionsTyped, CallsTyped, Looks
<1>3. CasesSound' /\ PassedVerification'
  BY DEF IInv, CasesSound, PassedVerification, CallsOf, Looks
<1> QED BY <1>1, <1>2, <1>3

LEMMA LooksAndMoves ==
    ASSUME IInv, Looks, NEW p \in Procs, NEW pc, NEW row, Moved(p, pc, row), Knows(p)'
    PROVE  IInv'
BY LooksTyped, Keeps

LEMMA IdleKnows ==
    ASSUME NEW p \in Procs, NEW row, Moved(p, "idle", row)
    PROVE  Knows(p)'
BY DEF Moved, Knows, CallPcs, CasePcs, ResolvePcs

LEMMA LooksAndFinishes ==
    ASSUME IInv, Looks, NEW p \in Procs, Finish(p)
    PROVE  IInv'
BY FinishMoves, IdleKnows, LooksAndMoves

(* Where a request goes that needs to know nothing.                        *)
PlainPcs == {"joinCase", "joinFind", "joinCreate", "stepCache", "delete",
             "cancelFind", "uncache"}

LEMMA PlainKnows ==
    ASSUME NEW p \in Procs, NEW pc \in PlainPcs, NEW row, Moved(p, pc, row)
    PROVE  Knows(p)'
BY DEF Moved, Knows, CallPcs, CasePcs, ResolvePcs, PlainPcs

(* A call of the session, for a request that has nothing else to know.     *)
LEMMA CallKnows ==
    ASSUME NEW p \in Procs, NEW pc \in CallPcs, NEW row, Moved(p, pc, row),
           row \in CallsOf(s(p))',
           pc \in {"resultRead", "resultWrite", "resultDrop"} => at[p].kind \in Results,
           pc = "resultDrop" /\ at[p].kind = "APPROVED" => row \in approved'
    PROVE  Knows(p)'
BY DEF Moved, Knows, CallPcs, CasePcs, ResolvePcs, c, s

LEMMA PcsNamed == PlainPcs \subseteq Pcs /\ CallPcs \subseteq Pcs /\ CasePcs \subseteq Pcs
BY DEF PlainPcs, CallPcs, CasePcs, Pcs

LEMMA LooksAndGoes ==
    ASSUME IInv, Looks, NEW p \in Procs, NEW pc \in PlainPcs, Goto(p, pc)
    PROVE  IInv'
BY GotoMoves, PcsNamed, PlainKnows, LooksAndMoves

LEMMA LooksAtCall ==
    ASSUME IInv, Looks, NEW p \in Procs, NEW pc \in CallPcs,
           at[p].pc \in CallPcs, Goto(p, pc),
           pc \in {"resultRead", "resultWrite", "resultDrop"} => at[p].kind \in Results,
           pc = "resultDrop" /\ at[p].kind = "APPROVED" => c(p) \in approved
    PROVE  IInv'
<1>1. Moved(p, pc, c(p))
  BY GotoMoves, PcsNamed
<1>2. pc # "idle" /\ s(p)' = s(p)
  BY <1>1 DEF Moved, CallPcs, s
<1>3. c(p) \in CallsOf(s(p))'
  BY <1>2 DEF IInv, Knows, Looks, CallsOf
<1>4. approved' = approved
  BY DEF Looks
<1>5. Knows(p)'
  BY <1>1, <1>3, <1>4, CallKnows
<1> QED BY <1>1, <1>5, LooksAndMoves

LEMMA NothingWritten ==
    ASSUME IInv, UNCHANGED <<step, cached, calls, queue, old, approved, esc>>
    PROVE  Looks
BY DEF IInv, SessionsTyped, CallsTyped, Looks

-----------------------------------------------------------------------------
(* What a request knows on its way to the step, and of its case.           *)
LEMMA StepKnows ==
    ASSUME NEW p \in Procs, NEW pc \in {"stepWrite", "get", "row", "store"}, NEW row,
           Moved(p, pc, row), Verified(s(p))'
    PROVE  Knows(p)'
BY DEF Moved, Knows, CallPcs, CasePcs, ResolvePcs

LEMMA CaseKnows ==
    ASSUME NEW p \in Procs, NEW pc \in CasePcs, NEW row, Moved(p, pc, row), row \in Cases,
           esc'[row].status # "NONE", esc'[row].session = s(p),
           at[p].kind \in CaseKinds,
           pc = "caseWrite" => esc'[row].raisedBy # Who[p],
           pc = "caseStep" => esc'[row].status = "APPROVED"
    PROVE  Knows(p)'
BY DEF Moved, Knows, CallPcs, CasePcs, ResolvePcs, c, s

LEMMA LooksAndSteps ==
    ASSUME IInv, Looks, NEW p \in Procs, NEW pc \in {"stepWrite", "get"}, Goto(p, pc),
           Verified(s(p))
    PROVE  IInv'
<1>1. Moved(p, pc, c(p))
  BY GotoMoves DEF Pcs
<1>2. s(p)' = s(p)
  BY <1>1 DEF Moved, s
<1>3. Verified(s(p))'
  BY <1>2, LooksTyped, StillVerified
<1> QED BY <1>1, <1>3, StepKnows, LooksAndMoves

(* Only the cached sessions or the queue are written.                      *)
LEMMA CacheLooks ==
    ASSUME IInv, UNCHANGED <<step, calls, queue, old, approved, esc>>,
           cached' \in [Sessions -> CachedSteps]
    PROVE  Looks
BY DEF IInv, CallsTyped, Looks

LEMMA QueueLooks ==
    ASSUME IInv, UNCHANGED <<step, cached, calls, old, approved, esc>>, queue' \subseteq Calls
    PROVE  Looks
BY DEF IInv, CallsTyped, SessionsTyped, Looks

LEMMA DropLooks ==
    ASSUME IInv, NEW p \in Procs, Drop(p)
    PROVE  Looks
<1>1. queue' \subseteq Calls
  BY DEF IInv, CallsTyped, Drop
<1> QED BY <1>1, QueueLooks DEF Drop, session

LEMMA AtCall ==
    ASSUME IInv, NEW p \in Procs, at[p].pc \in CallPcs
    PROVE  /\ c(p) \in CallsOf(s(p)) /\ c(p) \in Calls /\ calls[c(p)].status # "NONE"
           /\ calls[c(p)].session = s(p) /\ calls[c(p)] \in CallRows /\ s(p) \in Sessions
<1>1. c(p) \in CallsOf(s(p)) /\ s(p) \in Sessions
  BY RequestNow DEF Knows
<1>2. c(p) \in Calls /\ calls[c(p)].status # "NONE" /\ calls[c(p)].session = s(p)
  BY <1>1 DEF CallsOf
<1> QED BY <1>1, <1>2 DEF IInv, CallsTyped

LEMMA AtCase ==
    ASSUME IInv, NEW p \in Procs, at[p].pc \in CasePcs
    PROVE  /\ c(p) \in Cases /\ esc[c(p)].status # "NONE" /\ esc[c(p)].session = s(p)
           /\ esc[c(p)] \in CaseRows /\ CaseSound(esc[c(p)]) /\ s(p) \in Sessions
<1>1. c(p) \in Cases /\ esc[c(p)].status # "NONE" /\ esc[c(p)].session = s(p)
  BY RequestNow DEF Knows
<1> QED BY <1>1, RequestNow DEF IInv, CasesSound

(* The verifications that last keep everybody past VIDEO_CALL verified.    *)
LEMMA PassedLasts ==
    ASSUME IInv, Lasting,
           \A ses \in Sessions : step'[ses] \in {"CREDENTIALS", "REVIEW"} =>
               step[ses] \in {"CREDENTIALS", "REVIEW"} \/ Verified(ses)
    PROVE  PassedVerification'
<1>1. ASSUME NEW ses \in Sessions, step'[ses] \in {"CREDENTIALS", "REVIEW"}
      PROVE  Verified(ses)'
  <2>1. Verified(ses)
    BY <1>1 DEF IInv, PassedVerification, Verified
  <2> QED BY <2>1, VerifiedLasts
<1> QED BY <1>1 DEF PassedVerification, Verified

LEMMA NobodyMoves ==
    ASSUME IInv, Lasting, SessionsTyped', CallsTyped', CasesSound', PassedVerification',
           UNCHANGED at
    PROVE  IInv'
BY Others DEF IInv

-----------------------------------------------------------------------------
(* The steps that only look, or write the cached session.                  *)

(* The session a request resolves: what SubmitResult verified lasts.       *)
LEMMA ResolvingKnows ==
    ASSUME IInv, Looks, NEW p \in Procs, at[p].pc \in ResolvePcs, NEW pc \in ResolvePcs,
           Moved(p, pc, c(p))
    PROVE  IInv'
<1>1. s(p)' = s(p) /\ at'[p].kind = at[p].kind /\ at'[p].pc = pc
  BY DEF Moved, s, ResolvePcs
<1>2. CASE at[p].kind \in Results
  <2>1. Verified(s(p))
    BY <1>2, RequestNow DEF Knows
  <2>2. Verified(s(p))'
    BY <1>1, <2>1, LooksTyped, StillVerified
  <2> QED BY <2>2, StepKnows, LooksAndMoves DEF ResolvePcs
<1>3. CASE at[p].kind \notin Results
  <2>1. Knows(p)'
    BY <1>1, <1>3 DEF Knows, CallPcs, CasePcs, ResolvePcs
  <2> QED BY <2>1, LooksAndMoves
<1> QED BY <1>2, <1>3

LEMMA ResumeKeeps ==
    ASSUME IInv, Looks, NEW p \in Procs, NEW ses, at[p].pc \in ResolvePcs, Resume(p, ses)
    PROVE  IInv'
<1>1. "none" \in CachedSteps
  BY DEF CachedSteps
<1>2. ASSUME NEW pc \in PlainPcs, GotoGot(p, pc, "none") PROVE IInv'
  BY <1>1, <1>2, GotoGotMoves, PcsNamed, PlainKnows, LooksAndMoves
<1>3. CASE at[p].kind \in Results /\ GotoGot(p, "stepWrite", "none")
  <2>1. Moved(p, "stepWrite", c(p))
    BY <1>1, <1>3, GotoGotMoves DEF Pcs
  <2>2. Verified(s(p)) /\ s(p)' = s(p)
    BY <1>3, <2>1, RequestNow DEF Knows, Moved, s
  <2>3. Verified(s(p))'
    BY <2>2, LooksTyped, StillVerified
  <2> QED BY <2>1, <2>3, StepKnows, LooksAndMoves
<1> QED BY <1>2, <1>3, LooksAndFinishes DEF Resume, PlainPcs

LEMMA GetCachedKeeps ==
    ASSUME IInv, NEW p \in Procs, GetCached(p) PROVE IInv'
<1>1. Looks /\ at[p].pc \in ResolvePcs
  BY NothingWritten DEF GetCached, session, records, ResolvePcs
<1>2. CASE Goto(p, "row")
  <2>1. Moved(p, "row", c(p))
    BY <1>2, GotoMoves DEF Pcs
  <2> QED BY <1>1, <2>1, ResolvingKnows DEF ResolvePcs
<1> QED BY <1>1, <1>2, ResumeKeeps DEF GetCached

LEMMA FindRowKeeps ==
    ASSUME IInv, NEW p \in Procs, FindRow(p) PROVE IInv'
<1>1. Looks /\ at[p].pc \in ResolvePcs
  BY NothingWritten DEF FindRow, session, records, ResolvePcs
<1>2. CASE step[s(p)] # "GONE" /\ GotoGot(p, "store", step[s(p)])
  <2>1. step[s(p)] \in CachedSteps
    BY <1>2, RequestNow DEF IInv, SessionsTyped, CachedSteps
  <2>2. Moved(p, "store", c(p))
    BY <1>2, <2>1, GotoGotMoves DEF Pcs
  <2> QED BY <1>1, <2>2, ResolvingKnows DEF ResolvePcs
<1> QED BY <1>1, <1>2, LooksAndFinishes DEF FindRow

LEMMA StoreCachedKeeps ==
    ASSUME IInv, NEW p \in Procs, StoreCached(p) PROVE IInv'
<1>1. got(p) \in CachedSteps
  BY RequestNow DEF Requests, got
<1>2. cached' \in [Sessions -> CachedSteps]
  BY <1>1 DEF IInv, SessionsTyped, StoreCached
<1>3. Looks
  BY <1>2, CacheLooks DEF StoreCached, records
<1>4. at[p].pc \in ResolvePcs
  BY DEF StoreCached, ResolvePcs
<1> QED BY <1>3, <1>4, ResumeKeeps DEF StoreCached

LEMMA JoinCaseKeeps ==
    ASSUME IInv, NEW p \in Procs, JoinCase(p) PROVE IInv'
<1>1. Looks
  BY NothingWritten DEF JoinCase, session, records
<1>2. CASE Goto(p, "joinFind")
  BY <1>1, <1>2, LooksAndGoes DEF PlainPcs
<1> QED BY <1>1, <1>2, LooksAndFinishes DEF JoinCase

(* A request takes a call of its session up.                               *)
LEMMA LooksUpCall ==
    ASSUME IInv, Looks, NEW p \in Procs, NEW pc \in {"joinPosition", "joinFree", "release"},
           NEW d \in CallsOf(s(p)), GotoWith(p, pc, d)
    PROVE  IInv'
<1>1. d \in Calls \cup Cases
  BY DEF CallsOf
<1>2. Moved(p, pc, d)
  BY <1>1, GotoWithMoves DEF Pcs
<1>3. s(p)' = s(p)
  BY <1>2 DEF Moved, s
<1>4. d \in CallsOf(s(p))'
  BY <1>3 DEF CallsOf, Looks
<1>5. Knows(p)'
  BY <1>2, <1>4, CallKnows DEF CallPcs
<1> QED BY <1>2, <1>5, LooksAndMoves

LEMMA JoinFindKeeps ==
    ASSUME IInv, NEW p \in Procs, JoinFind(p) PROVE IInv'
<1>1. Looks
  BY NothingWritten DEF JoinFind, session, records
<1>2. CASE Goto(p, "joinCreate")
  BY <1>1, <1>2, LooksAndGoes DEF PlainPcs
<1>3. ASSUME NEW d \in CallsOf(s(p)), GotoWith(p, "joinPosition", d) PROVE IInv'
  BY <1>1, <1>3, LooksUpCall
<1>4. ASSUME NEW d \in CallsOf(s(p)), GotoWith(p, "joinFree", d) PROVE IInv'
  BY <1>1, <1>4, LooksUpCall
<1> QED BY <1>1, <1>2, <1>3, <1>4, LooksAndFinishes DEF JoinFind

LEMMA JoinPositionKeeps ==
    ASSUME IInv, NEW p \in Procs, JoinPosition(p) PROVE IInv'
<1>1. Looks
  BY NothingWritten DEF JoinPosition, session, records
<1>2. CASE Goto(p, "joinAdd")
  BY <1>1, <1>2, LooksAtCall DEF JoinPosition, CallPcs
<1> QED BY <1>1, <1>2, LooksAndFinishes DEF JoinPosition

LEMMA PickReadKeeps ==
    ASSUME IInv, NEW p \in Procs, PickRead(p) PROVE IInv'
<1>1. Looks
  BY NothingWritten DEF PickRead, session, records
<1>2. CASE Goto(p, "pickMark")
  BY <1>1, <1>2, LooksAtCall DEF PickRead, CallPcs
<1> QED BY <1>1, <1>2, LooksAndFinishes DEF PickRead

LEMMA ResultReadKeeps ==
    ASSUME IInv, NEW p \in Procs, ResultRead(p) PROVE IInv'
<1>1. Looks
  BY NothingWritten DEF ResultRead, session, records
<1>2. CASE Goto(p, "resultWrite")
  <2>1. at[p].pc = "resultRead" /\ at[p].kind \in Results
    BY RequestNow DEF ResultRead, Knows
  <2> QED BY <1>1, <1>2, <2>1, LooksAtCall DEF CallPcs
<1> QED BY <1>1, <1>2, LooksAndFinishes DEF ResultRead

LEMMA StepCacheKeeps ==
    ASSUME IInv, NEW p \in Procs, StepCache(p) PROVE IInv'
<1>1. cached' \in [Sessions -> CachedSteps]
  BY RequestNow DEF IInv, SessionsTyped, CachedSteps, StepCache
<1> QED BY <1>1, CacheLooks, LooksAndFinishes DEF StepCache, records

LEMMA UncacheKeeps ==
    ASSUME IInv, NEW p \in Procs, Uncache(p) PROVE IInv'
<1>1. cached' \in [Sessions -> CachedSteps]
  BY RequestNow DEF IInv, SessionsTyped, CachedSteps, Uncache
<1> QED BY <1>1, CacheLooks, LooksAndFinishes DEF Uncache, records

LEMMA CaseReadKeeps ==
    ASSUME IInv, NEW p \in Procs, CaseRead(p) PROVE IInv'
<1>1. Looks
  BY NothingWritten DEF CaseRead, session, records
<1>2. CASE esc[c(p)].raisedBy # Who[p] /\ Goto(p, "caseWrite")
  <2>1. Moved(p, "caseWrite", c(p))
    BY <1>2, GotoMoves DEF Pcs
  <2>2. at[p].pc = "caseRead" /\ at[p].kind \in CaseKinds
    BY RequestNow DEF CaseRead, Knows
  <2>3. c(p) \in Cases /\ esc[c(p)].status # "NONE" /\ esc[c(p)].session = s(p)
    BY <2>2, AtCase DEF CasePcs
  <2>4. esc' = esc
    BY <1>1 DEF Looks
  <2>5. Knows(p)'
    BY <1>2, <2>1, <2>2, <2>3, <2>4, CaseKnows DEF CasePcs
  <2> QED BY <1>1, <2>1, <2>5, LooksAndMoves
<1> QED BY <1>1, <1>2, LooksAndFinishes DEF CaseRead

LEMMA CaseStepKeeps ==
    ASSUME IInv, NEW p \in Procs, CaseStep(p) PROVE IInv'
<1>1. Looks
  BY NothingWritten DEF CaseStep, session, records
<1>2. CASE Goto(p, "stepWrite")
  <2>1. at[p].pc = "caseStep" /\ esc[c(p)].status = "APPROVED"
    BY RequestNow DEF CaseStep, Knows
  <2>2. Verified(s(p))
    BY <2>1, AtCase DEF CasePcs, Verified
  <2> QED BY <1>1, <1>2, <2>2, LooksAndSteps
<1> QED BY <1>1, <1>2, LooksAndFinishes DEF CaseStep

LEMMA CancelFindKeeps ==
    ASSUME IInv, NEW p \in Procs, CancelFind(p) PROVE IInv'
<1>1. Looks
  BY NothingWritten DEF CancelFind, session, records
<1>2. CASE Goto(p, "uncache")
  BY <1>1, <1>2, LooksAndGoes DEF PlainPcs
<1>3. ASSUME NEW d \in CallsOf(s(p)), GotoWith(p, "release", d) PROVE IInv'
  BY <1>1, <1>3, LooksUpCall
<1> QED BY <1>1, <1>2, <1>3 DEF CancelFind

LEMMA ListKeeps ==
    ASSUME IInv, NEW p \in Procs, List(p) PROVE IInv'
<1>1. Looks
  BY NothingWritten DEF List, session, records
<1>2. CASE Goto(p, "release")
  BY <1>1, <1>2, LooksAtCall DEF List, CallPcs
<1> QED BY <1>1, <1>2, LooksAndFinishes DEF List

LEMMA AbortKeeps ==
    ASSUME IInv, NEW p \in Procs, Abort(p) PROVE IInv'
BY NothingWritten, LooksAndFinishes DEF Abort, session, records

-----------------------------------------------------------------------------
(* The steps that write the sorted set.                                    *)

LEMMA JoinDropKeeps ==
    ASSUME IInv, NEW p \in Procs, JoinDrop(p) PROVE IInv'
BY DropLooks, LooksAndGoes DEF JoinDrop, PlainPcs

LEMMA PickDropKeeps ==
    ASSUME IInv, NEW p \in Procs, PickDrop(p) PROVE IInv'
BY DropLooks, LooksAndFinishes DEF PickDrop

LEMMA JoinAddKeeps ==
    ASSUME IInv, NEW p \in Procs, JoinAdd(p) PROVE IInv'
<1>1. c(p) \in Calls
  BY AtCall DEF JoinAdd, CallPcs
<1>2. queue' \subseteq Calls
  BY <1>1 DEF JoinAdd, IInv, CallsTyped
<1> QED BY <1>2, QueueLooks, LooksAndFinishes DEF JoinAdd, session

LEMMA ResultDropKeeps ==
    ASSUME IInv, NEW p \in Procs, ResultDrop(p) PROVE IInv'
<1>1. Looks
  BY DropLooks DEF ResultDrop
<1>2. at[p].pc = "resultDrop" /\ Knows(p)
  BY RequestNow DEF ResultDrop
<1>3. CASE at[p].kind = "APPROVED" /\ Goto(p, "get")
  <2>1. c(p) \in approved
    BY <1>2, <1>3 DEF Knows
  <2>2. c(p) \in CallsOf(s(p))
    BY <1>2, AtCall DEF CallPcs
  <2>3. Verified(s(p))
    BY <2>1, <2>2 DEF Verified
  <2> QED BY <1>1, <1>3, <2>3, LooksAndSteps
<1>4. CASE Goto(p, "caseCreate")
  BY <1>1, <1>2, <1>4, LooksAtCall DEF CallPcs
<1> QED BY <1>1, <1>3, <1>4, LooksAndFinishes DEF ResultDrop

LEMMA ReleaseDropKeeps ==
    ASSUME IInv, NEW p \in Procs, ReleaseDrop(p) PROVE IInv'
<1>1. Looks
  BY DropLooks DEF ReleaseDrop
<1>2. CASE Goto(p, "uncache")
  BY <1>1, <1>2, LooksAndGoes DEF PlainPcs
<1> QED BY <1>1, <1>2, LooksAndFinishes DEF ReleaseDrop, Released

-----------------------------------------------------------------------------
(* The steps that write the step of a session.                             *)

LEMMA StepOnly ==
    ASSUME IInv, NEW ses \in Sessions, NEW v \in {"CREDENTIALS", "REVIEW", "GONE"},
           step' = [step EXCEPT ![ses] = v],
           cached' \in [Sessions -> CachedSteps],
           v = "GONE" \/ step[ses] = "CREDENTIALS" \/ Verified(ses),
           UNCHANGED <<calls, queue, old, approved, esc>>
    PROVE  Lasting /\ SessionsTyped' /\ CallsTyped' /\ CasesSound' /\ PassedVerification'
<1>1. Lasting
  BY Quiet
<1>2. /\ SessionsTyped'
      /\ \A x \in Sessions : step'[x] \in {"CREDENTIALS", "REVIEW"} =>
              step[x] \in {"CREDENTIALS", "REVIEW"} \/ Verified(x)
  BY DEF IInv, SessionsTyped
<1>3. PassedVerification'
  BY <1>1, <1>2, PassedLasts
<1>4. CallsTyped' /\ CasesSound'
  BY DEF IInv, CallsTyped, CasesSound
<1> QED BY <1>1, <1>2, <1>3, <1>4

LEMMA StepWriteKeeps ==
    ASSUME IInv, NEW p \in Procs, StepWrite(p) PROVE IInv'
<1>1. CASE step' = [step EXCEPT ![s(p)] = "CREDENTIALS"] /\ Goto(p, "stepCache")
  <2>1. Verified(s(p)) /\ s(p) \in Sessions
    BY RequestNow DEF StepWrite, Knows
  <2>2. cached' \in [Sessions -> CachedSteps]
    BY DEF IInv, SessionsTyped, StepWrite
  <2>3. Lasting /\ SessionsTyped' /\ CallsTyped' /\ CasesSound' /\ PassedVerification'
    BY <1>1, <2>1, <2>2, StepOnly DEF StepWrite, records
  <2>4. Moved(p, "stepCache", c(p))
    BY <1>1, GotoMoves DEF Pcs
  <2>5. Knows(p)'
    BY <2>4, PlainKnows DEF PlainPcs
  <2> QED BY <2>3, <2>4, <2>5, Keeps
<1>2. CASE Finish(p) /\ UNCHANGED step
  BY <1>2, NothingWritten, LooksAndFinishes DEF StepWrite, records
<1> QED BY <1>1, <1>2 DEF StepWrite

LEMMA DeleteKeeps ==
    ASSUME IInv, NEW p \in Procs, Delete(p) PROVE IInv'
<1>1. CASE step' = [step EXCEPT ![s(p)] = "GONE"] /\ Goto(p, "cancelFind")
  <2>1. s(p) \in Sessions
    BY RequestNow
  <2>2. cached' \in [Sessions -> CachedSteps]
    BY DEF IInv, SessionsTyped, Delete
  <2>3. Lasting /\ SessionsTyped' /\ CallsTyped' /\ CasesSound' /\ PassedVerification'
    BY <1>1, <2>1, <2>2, StepOnly DEF Delete, records
  <2>4. Moved(p, "cancelFind", c(p))
    BY <1>1, GotoMoves DEF Pcs
  <2>5. Knows(p)'
    BY <2>4, PlainKnows DEF PlainPcs
  <2> QED BY <2>3, <2>4, <2>5, Keeps
<1>2. CASE Finish(p) /\ UNCHANGED step
  BY <1>2, NothingWritten, LooksAndFinishes DEF Delete, records
<1> QED BY <1>1, <1>2 DEF Delete

LEMMA AdvanceKeeps ==
    ASSUME IInv, NEW ses \in Sessions, Advance(ses) PROVE IInv'
<1>1. cached' \in [Sessions -> CachedSteps]
  BY DEF IInv, SessionsTyped, CachedSteps, Advance
<1>2. Lasting /\ SessionsTyped' /\ CallsTyped' /\ CasesSound' /\ PassedVerification'
  BY <1>1, StepOnly DEF Advance, records
<1> QED BY <1>2, NobodyMoves DEF Advance

-----------------------------------------------------------------------------
(* What happens to Redis and to time.                                      *)

LEMMA LooksAndStays ==
    ASSUME IInv, Looks, UNCHANGED at PROVE IInv'
BY LooksTyped, NobodyMoves

LEMMA CacheExpiresKeeps ==
    ASSUME IInv, NEW ses \in Sessions, CacheExpires(ses) PROVE IInv'
<1>1. cached' \in [Sessions -> CachedSteps]
  BY DEF IInv, SessionsTyped, CachedSteps, CacheExpires
<1> QED BY <1>1, CacheLooks, LooksAndStays DEF CacheExpires, records

LEMMA GrowsOldKeeps ==
    ASSUME IInv, NEW call \in Calls, GrowsOld(call) PROVE IInv'
<1>1. Looks
  BY DEF IInv, SessionsTyped, CallsTyped, GrowsOld, Looks, session
<1> QED BY <1>1, LooksAndStays DEF GrowsOld

LEMMA FlushKeeps ==
    ASSUME IInv, Flush PROVE IInv'
<1>1. Looks
  BY DEF IInv, CallsTyped, CachedSteps, Flush, Looks
<1> QED BY <1>1, LooksAndStays DEF Flush

-----------------------------------------------------------------------------
(* The steps that write a row of the calls.                                *)

LEMMA CallWritten ==
    ASSUME IInv, NEW d \in Calls, NEW r \in CallRows, calls' = [calls EXCEPT ![d] = r],
           calls[d].status # "NONE" => r.session = calls[d].session, r.status # "NONE",
           approved \subseteq approved', approved' \subseteq Calls,
           UNCHANGED <<step, cached, queue, old, esc>>
    PROVE  Lasting /\ SessionsTyped' /\ CallsTyped' /\ CasesSound' /\ PassedVerification'
<1>1. /\ calls' \in [Calls -> CallRows] /\ calls'[d] = r
      /\ \A x \in Calls : x # d => calls'[x] = calls[x]
  BY Rewritten DEF IInv, CallsTyped
<1>2. Lasting
  BY <1>1 DEF Lasting
<1>3. PassedVerification'
  BY <1>2, PassedLasts
<1>4. SessionsTyped' /\ CallsTyped' /\ CasesSound'
  BY <1>1 DEF IInv, SessionsTyped, CallsTyped, CasesSound
<1> QED BY <1>2, <1>3, <1>4

(* A live call is cancelled, any other stays as it is.                     *)
LEMMA CancelWrites ==
    ASSUME IInv, NEW p \in Procs, at[p].pc \in CallPcs, CancelRow(p),
           UNCHANGED <<step, cached, queue, old, approved, esc>>
    PROVE  /\ Lasting /\ SessionsTyped' /\ CallsTyped' /\ CasesSound' /\ PassedVerification'
           /\ \A x \in Calls : calls[x].status = "COMPLETED" => calls'[x].status = "COMPLETED"
<1> DEFINE row == [calls[c(p)] EXCEPT !.status = IF Live(c(p)) THEN "CANCELLED" ELSE @]
<1>1. /\ c(p) \in Calls /\ calls[c(p)].status # "NONE" /\ calls[c(p)] \in CallRows
      /\ calls \in [Calls -> CallRows] /\ approved \subseteq Calls
  BY AtCall DEF IInv, CallsTyped
<1>2. calls' = [calls EXCEPT ![c(p)] = row]
  BY DEF CancelRow
<1>3. /\ row \in CallRows /\ row.session = calls[c(p)].session /\ row.status # "NONE"
      /\ calls[c(p)].status = "COMPLETED" => row.status = "COMPLETED"
  BY <1>1 DEF CallRows, Live
<1> HIDE DEF row
<1>4. Lasting /\ SessionsTyped' /\ CallsTyped' /\ CasesSound' /\ PassedVerification'
  BY <1>1, <1>2, <1>3, CallWritten
<1> QED BY <1>1, <1>2, <1>3, <1>4

(* After that a request goes on with the same call.                        *)
LEMMA GoesOnWithCall ==
    ASSUME IInv, Lasting, SessionsTyped', CallsTyped', CasesSound', PassedVerification',
           NEW p \in Procs, NEW pc \in CallPcs, at[p].pc \in CallPcs, Goto(p, pc),
           pc \in {"resultRead", "resultWrite", "resultDrop"} => at[p].kind \in Results,
           pc = "resultDrop" /\ at[p].kind = "APPROVED" => c(p) \in approved'
    PROVE  IInv'
<1>1. Moved(p, pc, c(p))
  BY GotoMoves, PcsNamed
<1>2. s(p)' = s(p)
  BY <1>1 DEF Moved, CallPcs, s
<1>3. c(p) \in CallsOf(s(p))'
  BY <1>2, AtCall DEF Lasting, CallsOf
<1>4. Knows(p)'
  BY <1>1, <1>3, CallKnows
<1> QED BY <1>1, <1>4, Keeps

LEMMA GoesOnPlain ==
    ASSUME IInv, Lasting, SessionsTyped', CallsTyped', CasesSound', PassedVerification',
           NEW p \in Procs, NEW pc \in PlainPcs, Goto(p, pc)
    PROVE  IInv'
BY GotoMoves, PcsNamed, PlainKnows, Keeps

LEMMA GoesHome ==
    ASSUME IInv, Lasting, SessionsTyped', CallsTyped', CasesSound', PassedVerification',
           NEW p \in Procs, Finish(p)
    PROVE  IInv'
BY FinishMoves, IdleKnows, Keeps

LEMMA JoinFreeKeeps ==
    ASSUME IInv, NEW p \in Procs, JoinFree(p) PROVE IInv'
<1>1. at[p].pc \in CallPcs
  BY DEF JoinFree, CallPcs
<1>2. Lasting /\ SessionsTyped' /\ CallsTyped' /\ CasesSound' /\ PassedVerification'
  BY <1>1, CancelWrites DEF JoinFree, session
<1>3. CASE Goto(p, "joinDrop")
  BY <1>1, <1>2, <1>3, GoesOnWithCall DEF CallPcs
<1>4. CASE Goto(p, "joinCreate")
  BY <1>2, <1>4, GoesOnPlain DEF PlainPcs
<1> QED BY <1>3, <1>4 DEF JoinFree

LEMMA ReleaseKeeps ==
    ASSUME IInv, NEW p \in Procs, Release(p) PROVE IInv'
<1>1. at[p].pc \in CallPcs
  BY DEF Release, CallPcs
<1>2. Lasting /\ SessionsTyped' /\ CallsTyped' /\ CasesSound' /\ PassedVerification'
  BY <1>1, CancelWrites DEF Release, session
<1>3. CASE Goto(p, "releaseDrop")
  BY <1>1, <1>2, <1>3, GoesOnWithCall DEF CallPcs
<1>4. CASE Goto(p, "uncache")
  BY <1>2, <1>4, GoesOnPlain DEF PlainPcs
<1> QED BY <1>2, <1>3, <1>4, GoesHome DEF Release, Released

LEMMA PickMarkKeeps ==
    ASSUME IInv, NEW p \in Procs, PickMark(p) PROVE IInv'
<1>1. CASE /\ calls' = [calls EXCEPT ![c(p)].status = "ACTIVE", ![c(p)].agent = Who[p]]
           /\ Goto(p, "pickDrop")
  <2> DEFINE row == [calls[c(p)] EXCEPT !.status = "ACTIVE", !.agent = Who[p]]
  <2>1. /\ at[p].pc \in CallPcs /\ c(p) \in Calls /\ calls[c(p)] \in CallRows
        /\ calls \in [Calls -> CallRows] /\ approved \subseteq Calls /\ Who[p] \in Agents
    BY AtCall, VideoCallAssumption DEF PickMark, CallPcs, IInv, CallsTyped
  <2>2. calls' = [calls EXCEPT ![c(p)] = row]
    BY <1>1, <2>1
  <2>3. row \in CallRows /\ row.session = calls[c(p)].session /\ row.status # "NONE"
    BY <2>1 DEF CallRows
  <2> HIDE DEF row
  <2>4. Lasting /\ SessionsTyped' /\ CallsTyped' /\ CasesSound' /\ PassedVerification'
    BY <2>1, <2>2, <2>3, CallWritten DEF PickMark, session
  <2> QED BY <1>1, <2>1, <2>4, GoesOnWithCall DEF CallPcs
<1>2. CASE Finish(p) /\ UNCHANGED calls
  BY <1>2, NothingWritten, LooksAndFinishes DEF PickMark, session
<1> QED BY <1>1, <1>2 DEF PickMark

LEMMA ResultWriteKeeps ==
    ASSUME IInv, NEW p \in Procs, ResultWrite(p) PROVE IInv'
<1> DEFINE row == [calls[c(p)] EXCEPT !.status = "COMPLETED", !.result = at[p].kind,
                                      !.agent = IF @ = NoOne THEN Who[p] ELSE @]
<1>1. /\ at[p].pc \in CallPcs /\ c(p) \in Calls /\ calls[c(p)] \in CallRows
      /\ calls \in [Calls -> CallRows] /\ approved \subseteq Calls /\ Who[p] \in Agents
      /\ at[p].kind \in Results
  BY AtCall, RequestNow, VideoCallAssumption DEF ResultWrite, CallPcs, IInv, CallsTyped, Knows
<1>2. calls' = [calls EXCEPT ![c(p)] = row]
  BY <1>1 DEF ResultWrite
<1>3. row \in CallRows /\ row.session = calls[c(p)].session /\ row.status # "NONE"
  BY <1>1 DEF CallRows
<1> HIDE DEF row
<1>4. /\ approved \subseteq approved' /\ approved' \subseteq Calls
      /\ at[p].kind = "APPROVED" => c(p) \in approved'
  BY <1>1 DEF ResultWrite
<1>5. Lasting /\ SessionsTyped' /\ CallsTyped' /\ CasesSound' /\ PassedVerification'
  BY <1>1, <1>2, <1>3, <1>4, CallWritten DEF ResultWrite, session
<1> QED BY <1>1, <1>4, <1>5, GoesOnWithCall DEF CallPcs, ResultWrite

LEMMA JoinCreateKeeps ==
    ASSUME IInv, NEW p \in Procs, JoinCreate(p) PROVE IInv'
<1>1. CASE Finish(p) /\ UNCHANGED calls
  BY <1>1, NothingWritten, LooksAndFinishes DEF JoinCreate, session
<1>2. ASSUME NEW d \in Calls, {e \in Calls : calls[e].status = "NONE"} = d .. MaxCalls,
             calls' = [calls EXCEPT ![d] = [NoCall EXCEPT !.session = s(p), !.status = "QUEUED"]],
             GotoWith(p, "joinAdd", d)
      PROVE  IInv'
  <2> DEFINE row == [NoCall EXCEPT !.session = s(p), !.status = "QUEUED"]
  <2>1. d \in d .. MaxCalls
    BY VideoCallAssumption DEF Calls
  <2>2. calls[d].status = "NONE" /\ s(p) \in Sessions
    BY <1>2, <2>1, RequestNow
  <2>3. row \in CallRows /\ row.session = s(p) /\ row.status = "QUEUED"
    BY <2>2 DEF CallRows, NoCall
  <2>4. calls' = [calls EXCEPT ![d] = row]
    BY <1>2
  <2> HIDE DEF row
  <2>5. calls \in [Calls -> CallRows] /\ approved \subseteq Calls
    BY DEF IInv, CallsTyped
  <2>6. Lasting /\ SessionsTyped' /\ CallsTyped' /\ CasesSound' /\ PassedVerification'
    BY <2>2, <2>3, <2>4, <2>5, CallWritten DEF JoinCreate, session
  <2>7. Moved(p, "joinAdd", d)
    BY <1>2, GotoWithMoves DEF Pcs
  <2>8. s(p)' = s(p) /\ calls'[d] = row
    BY <2>3, <2>4, <2>5, <2>7, Rewritten DEF Moved, s
  <2>9. d \in CallsOf(s(p))'
    BY <2>3, <2>8 DEF CallsOf
  <2>10. Knows(p)'
    BY <2>7, <2>9, CallKnows DEF CallPcs
  <2> QED BY <2>6, <2>7, <2>10, Keeps
<1> QED BY <1>1, <1>2 DEF JoinCreate

-----------------------------------------------------------------------------
(* The steps that write a row of the cases.                                *)

LEMMA CaseWritten ==
    ASSUME IInv, NEW e \in Cases, NEW k \in CaseRows, CaseSound(k), esc' = [esc EXCEPT ![e] = k],
           k.status # "NONE",
           esc[e].status # "NONE" => k.session = esc[e].session /\ k.raisedBy = esc[e].raisedBy,
           esc[e].status = "APPROVED" => k.status = "APPROVED",
           UNCHANGED <<step, cached, calls, queue, old, approved>>
    PROVE  Lasting /\ SessionsTyped' /\ CallsTyped' /\ CasesSound' /\ PassedVerification'
<1>1. /\ esc' \in [Cases -> CaseRows] /\ esc'[e] = k
      /\ \A x \in Cases : x # e => esc'[x] = esc[x]
  BY Rewritten DEF IInv, CasesSound
<1>2. Lasting
  BY <1>1 DEF Lasting
<1>3. PassedVerification'
  BY <1>2, PassedLasts
<1>4. CasesSound'
  <2>1. \A x \in Cases : CaseSound(esc'[x])
    BY <1>1 DEF IInv, CasesSound
  <2> QED BY <1>1, <2>1 DEF CasesSound, CaseSound
<1>5. SessionsTyped' /\ CallsTyped'
  BY DEF IInv, SessionsTyped, CallsTyped
<1> QED BY <1>2, <1>3, <1>4, <1>5

LEMMA CaseCreateKeeps ==
    ASSUME IInv, NEW p \in Procs, CaseCreate(p) PROVE IInv'
<1>1. CASE UNCHANGED esc
  BY <1>1, NothingWritten, LooksAndFinishes DEF CaseCreate, session, records
<1>2. ASSUME NEW e \in Cases, {f \in Cases : esc[f] = NoCase} = e .. MaxCases,
             esc' = [esc EXCEPT ![e] = [NoCase EXCEPT !.session = s(p), !.call = c(p),
                                           !.status = "PENDING", !.raisedBy = Who[p]]]
      PROVE  IInv'
  <2> DEFINE k == [NoCase EXCEPT !.session = s(p), !.call = c(p),
                                 !.status = "PENDING", !.raisedBy = Who[p]]
  <2>1. e \in e .. MaxCases
    BY VideoCallAssumption DEF Cases
  <2>2. esc[e] = NoCase
    BY <1>2, <2>1
  <2>3. c(p) \in Calls /\ s(p) \in Sessions /\ Who[p] \in Agents
    BY AtCall, VideoCallAssumption DEF CaseCreate, CallPcs
  <2>4. k \in CaseRows /\ CaseSound(k) /\ k.status = "PENDING"
    BY <2>3 DEF CaseRows, NoCase, CaseSound
  <2>5. esc' = [esc EXCEPT ![e] = k]
    BY <1>2
  <2>6. esc[e].status = "NONE"
    BY <2>2 DEF NoCase
  <2> HIDE DEF k
  <2>7. Lasting /\ SessionsTyped' /\ CallsTyped' /\ CasesSound' /\ PassedVerification'
    BY <2>4, <2>5, <2>6, CaseWritten DEF CaseCreate, session, records
  <2> QED BY <2>7, GoesHome DEF CaseCreate
<1> QED BY <1>1, <1>2 DEF CaseCreate

LEMMA ClaimKeeps ==
    ASSUME IInv, NEW p \in Procs, Claim(p) PROVE IInv'
<1>1. CASE UNCHANGED esc
  BY <1>1, NothingWritten, LooksAndFinishes DEF Claim, session, records
<1>2. CASE /\ esc[c(p)].status = "PENDING"
           /\ esc' = [esc EXCEPT ![c(p)].status = "IN_REVIEW", ![c(p)].claimedBy = Who[p]]
  <2> DEFINE k == [esc[c(p)] EXCEPT !.status = "IN_REVIEW", !.claimedBy = Who[p]]
  <2>1. /\ c(p) \in Cases /\ esc[c(p)] \in CaseRows /\ CaseSound(esc[c(p)]) /\ Who[p] \in Agents
        /\ esc \in [Cases -> CaseRows]
    BY AtCase, VideoCallAssumption DEF Claim, CasePcs, IInv, CasesSound
  <2>2. esc' = [esc EXCEPT ![c(p)] = k]
    BY <1>2, <2>1
  <2>3. /\ k \in CaseRows /\ k.status = "IN_REVIEW" /\ k.session = esc[c(p)].session
        /\ k.raisedBy = esc[c(p)].raisedBy /\ k.resolvedBy = esc[c(p)].resolvedBy
    BY <2>1 DEF CaseRows
  <2> HIDE DEF k
  <2>4. CaseSound(k)
    BY <1>2, <2>1, <2>3 DEF CaseSound
  <2>5. Lasting /\ SessionsTyped' /\ CallsTyped' /\ CasesSound' /\ PassedVerification'
    BY <1>2, <2>1, <2>2, <2>3, <2>4, CaseWritten DEF Claim, session, records
  <2> QED BY <2>5, GoesHome DEF Claim
<1> QED BY <1>1, <1>2 DEF Claim

LEMMA ResolveKeeps ==
    ASSUME IInv, NEW p \in Procs, Resolve(p) PROVE IInv'
<1> DEFINE verdict == IF at[p].kind = "approveCase" THEN "APPROVED" ELSE "REJECTED"
<1>1. CASE UNCHANGED esc /\ Finish(p)
  BY <1>1, NothingWritten, LooksAndFinishes DEF Resolve, session, records
<1>2. CASE /\ OpenCase(c(p)) /\ esc[c(p)].claimedBy \in {NoOne, Who[p]}
           /\ esc' = [esc EXCEPT ![c(p)].status = verdict, ![c(p)].resolvedBy = Who[p]]
           /\ \/ at[p].kind = "approveCase" /\ Goto(p, "caseStep")
              \/ at[p].kind = "rejectCase" /\ Finish(p)
  <2> DEFINE k == [esc[c(p)] EXCEPT !.status = verdict, !.resolvedBy = Who[p]]
  <2>1. /\ c(p) \in Cases /\ esc[c(p)] \in CaseRows /\ Who[p] \in Agents
        /\ esc[c(p)].session = s(p) /\ esc \in [Cases -> CaseRows]
    BY AtCase, VideoCallAssumption DEF Resolve, CasePcs, IInv, CasesSound
  <2>2. esc[c(p)].raisedBy # Who[p] /\ at[p].kind \in CaseKinds
    BY RequestNow DEF Resolve, Knows
  <2>3. esc' = [esc EXCEPT ![c(p)] = k]
    BY <1>2, <2>1
  <2>4. verdict \in {"APPROVED", "REJECTED"} /\ (at[p].kind = "approveCase" => verdict = "APPROVED")
    OBVIOUS
  <2> HIDE DEF verdict
  <2>5. /\ k \in CaseRows /\ k.status = verdict /\ k.session = esc[c(p)].session
        /\ k.raisedBy = esc[c(p)].raisedBy /\ k.resolvedBy = Who[p]
        /\ k.claimedBy = esc[c(p)].claimedBy
    BY <2>1, <2>4 DEF CaseRows
  <2> HIDE DEF k
  <2>6. CaseSound(k)
    BY <1>2, <2>2, <2>4, <2>5 DEF CaseSound
  <2>7. esc[c(p)].status # "APPROVED" /\ k.status # "NONE"
    BY <1>2, <2>4, <2>5 DEF OpenCase
  <2>8. Lasting /\ SessionsTyped' /\ CallsTyped' /\ CasesSound' /\ PassedVerification'
    BY <2>1, <2>3, <2>5, <2>6, <2>7, CaseWritten DEF Resolve, session, records
  <2>9. CASE at[p].kind = "approveCase" /\ Goto(p, "caseStep")
    <3>1. Moved(p, "caseStep", c(p))
      BY <2>9, GotoMoves DEF Pcs
    <3>2. esc'[c(p)] = k
      BY <2>1, <2>3, <2>5, Rewritten
    <3>3. Knows(p)'
      BY <2>1, <2>2, <2>4, <2>5, <2>7, <2>9, <3>1, <3>2, CaseKnows DEF CasePcs
    <3> QED BY <2>8, <3>1, <3>3, Keeps
  <2>10. CASE Finish(p)
    BY <2>8, <2>10, GoesHome
  <2> QED BY <1>2, <2>9, <2>10
<1> QED BY <1>1, <1>2 DEF Resolve

-----------------------------------------------------------------------------
(* The next request of a process.                                          *)
LEMMA StartKeeps ==
    ASSUME IInv, NEW p \in Procs, NEW kind \in Kinds, NEW row \in Calls \cup Cases,
           Start(p, kind, row)
    PROVE  IInv'
<1>1. Looks
  BY NothingWritten DEF Start, session, records
<1>2. PICK ses \in Sessions :
        /\ \/ kind \in {"join", "cancelSession"} /\ row = 1
           \/ /\ kind \in {"list", "pickup"} \cup Results
              /\ row \in CallsOf(ses)
           \/ kind \in CaseKinds /\ row \in Cases /\ esc[row] # NoCase /\ esc[row].session = ses
        /\ at' = [at EXCEPT ![p] = [pc |-> First(kind), kind |-> kind,
                                    row |-> row, session |-> ses, got |-> "none"]]
  BY DEF Start
<1> DEFINE r == [pc |-> First(kind), kind |-> kind, row |-> row, session |-> ses,
              got |-> "none"]
<1>3. /\ kind \in {"join", "cancelSession"} => First(kind) = "get"
      /\ kind = "list" => First(kind) = "list"
      /\ kind = "pickup" => First(kind) = "pickRead"
      /\ kind \in Results => First(kind) = "resultRead"
      /\ kind \in CaseKinds => First(kind) = "caseRead"
  BY DEF First, Results, CaseKinds
<1>4. kind \in {"join", "cancelSession", "list", "pickup"} \cup Results \cup CaseKinds
  BY <1>2
<1> HIDE DEF First
<1>5. First(kind) \in Pcs
  BY <1>3, <1>4 DEF Pcs
<1>6. /\ r \in Requests /\ r.pc = First(kind) /\ r.kind = kind /\ r.row = row
      /\ r.session = ses
  BY <1>5 DEF Requests, CachedSteps
<1>7. at' = [at EXCEPT ![p] = r]
  BY <1>2
<1> HIDE DEF r
<1>8. /\ at' \in [Procs -> Requests] /\ at'[p] = r
      /\ \A q \in Procs : q # p => at'[q] = at[q]
  BY <1>6, <1>7, RequestNow, Rewritten
<1>9. c(p)' = row /\ s(p)' = ses /\ at'[p].pc = First(kind) /\ at'[p].kind = kind
  BY <1>6, <1>8 DEF c, s
<1>10. Knows(p)'
  <2>1. CASE kind \in {"join", "cancelSession"}
    BY <1>3, <1>9, <2>1 DEF Knows, CallPcs, CasePcs, ResolvePcs
  <2>2. CASE kind \in {"list", "pickup"} \cup Results
    <3>1. row \in CallsOf(ses) /\ CallsOf(ses)' = CallsOf(ses)
      BY <1>1, <1>2, <2>2 DEF Looks, CallsOf, CaseKinds, Results
    <3>2. c(p)' \in CallsOf(s(p))'
      BY <1>9, <3>1 DEF CallsOf
    <3>3. /\ First(kind) \in {"list", "pickRead", "resultRead"}
          /\ First(kind) = "resultRead" => kind \in Results
      BY <1>3, <2>2
    <3> QED BY <1>9, <3>2, <3>3 DEF Knows, CallPcs, CasePcs, ResolvePcs
  <2>3. CASE kind \in CaseKinds
    <3>1. row \in Cases /\ esc[row] # NoCase /\ esc[row].session = ses
      BY <1>2, <2>3 DEF CaseKinds, Results
    <3>2. esc[row].status # "NONE" /\ esc' = esc
      BY <1>1, <3>1 DEF IInv, CasesSound, CaseSound, Looks
    <3>3. First(kind) = "caseRead"
      BY <1>3, <2>3
    <3> QED BY <1>9, <2>3, <3>1, <3>2, <3>3 DEF Knows, CallPcs, CasePcs, ResolvePcs
  <2> QED BY <1>4, <2>1, <2>2, <2>3
<1>11. \A q \in Procs : Knows(q)'
  BY <1>1, <1>8, <1>10, LooksTyped, Others
<1> QED BY <1>1, <1>8, <1>11, LooksTyped DEF IInv

-----------------------------------------------------------------------------
LEMMA StepKeeps ==
    ASSUME IInv, NEW p \in Procs, Step(p) PROVE IInv'
<1>0. CASE ResolveSession(p)
  BY <1>0, GetCachedKeeps, FindRowKeeps, StoreCachedKeeps DEF ResolveSession
<1>1. CASE Join(p)
  BY <1>1, JoinCaseKeeps, JoinFindKeeps, JoinFreeKeeps, JoinDropKeeps,
     JoinPositionKeeps, JoinCreateKeeps, JoinAddKeeps DEF Join
<1>2. CASE Pickup(p)
  BY <1>2, PickReadKeeps, PickMarkKeeps, PickDropKeeps DEF Pickup
<1>3. CASE Submit(p)
  BY <1>3, ResultReadKeeps, ResultWriteKeeps, ResultDropKeeps, StepWriteKeeps,
     StepCacheKeeps, CaseCreateKeeps DEF Submit
<1>4. CASE Review(p)
  BY <1>4, CaseReadKeeps, ClaimKeeps, ResolveKeeps, CaseStepKeeps DEF Review
<1>5. CASE Clean(p)
  BY <1>5, DeleteKeeps, CancelFindKeeps, ListKeeps, ReleaseKeeps, ReleaseDropKeeps,
     UncacheKeeps DEF Clean
<1> QED BY <1>0, <1>1, <1>2, <1>3, <1>4, <1>5 DEF Step

LEMMA NextKeeps == IInv /\ [Next]_vars => IInv'
<1> SUFFICES ASSUME IInv, [Next]_vars PROVE IInv'
  OBVIOUS
<1>1. CASE UNCHANGED vars
  BY <1>1, NothingWritten, LooksAndStays DEF vars
<1>2. ASSUME NEW p \in Procs, Step(p) \/ Abort(p) PROVE IInv'
  BY <1>2, StepKeeps, AbortKeeps
<1>3. ASSUME NEW p \in Procs, NEW kind \in Kinds, NEW row \in Calls \cup Cases,
             Start(p, kind, row)
      PROVE  IInv'
  BY <1>3, StartKeeps
<1>4. ASSUME NEW ses \in Sessions, Advance(ses) \/ CacheExpires(ses) PROVE IInv'
  BY <1>4, AdvanceKeeps, CacheExpiresKeeps
<1>5. ASSUME NEW call \in Calls, GrowsOld(call) PROVE IInv'
  BY <1>5, GrowsOldKeeps
<1>6. CASE Flush
  BY <1>6, FlushKeeps
<1> QED BY <1>1, <1>2, <1>3, <1>4, <1>5, <1>6 DEF Next

(* The inductive invariant of the calls and the cases: the rows are of     *)
(* their types, a case is decided by its holder, and every request in      *)
(* flight still knows what its checks told it.                             *)
THEOREM Invariance == Spec => []IInv
BY InitHolds, NextKeeps, PTL DEF Spec

(* Sessions, calls, the sorted set and cases keep the values of their      *)
(* columns, whatever handlers cross.                                       *)
THEOREM TypeCorrect == Spec => []TypeOK
<1>1. IInv => TypeOK
  BY DEF IInv, SessionsTyped, CallsTyped, CasesSound, CallRows, CaseRows, CachedSteps, TypeOK
<1> QED BY <1>1, Invariance, PTL

(* EscalationService.Update: however the requests of reviewers cross, a    *)
(* case is decided by its holder, who never is the agent who raised it.    *)
THEOREM HolderDecided == Spec => []HolderDecides
<1>1. IInv => HolderDecides
  BY DEF IInv, CasesSound, CaseSound, HolderDecides
<1> QED BY <1>1, Invariance, PTL

(* SubmitResult and respond: no session is moved past VIDEO_CALL without   *)
(* an APPROVED of one of its own calls or an approved case of its own.     *)
THEOREM PassedVerified == Spec => []PassedVerification
<1>1. IInv => PassedVerification
  BY DEF IInv
<1> QED BY <1>1, Invariance, PTL

-----------------------------------------------------------------------------
(* Which steps write the calls, and which the cases.                       *)

LEMMA CallsWriters ==
    ASSUME Next
    PROVE  \/ UNCHANGED calls
           \/ \E p \in Procs : \/ JoinFree(p) \/ JoinCreate(p) \/ PickMark(p)
                               \/ ResultWrite(p) \/ Release(p)
<1>0. ASSUME NEW p \in Procs, ResolveSession(p) PROVE UNCHANGED calls
  BY <1>0 DEF ResolveSession, GetCached, FindRow, StoreCached, records
<1>1. ASSUME NEW p \in Procs, Join(p)
      PROVE  UNCHANGED calls \/ JoinFree(p) \/ JoinCreate(p)
  BY <1>1 DEF Join, JoinCase, JoinFind, JoinDrop, JoinPosition, JoinAdd, Drop, records
<1>2. ASSUME NEW p \in Procs, Pickup(p) PROVE UNCHANGED calls \/ PickMark(p)
  BY <1>2 DEF Pickup, PickRead, PickDrop, Drop, records
<1>3. ASSUME NEW p \in Procs, Submit(p) PROVE UNCHANGED calls \/ ResultWrite(p)
  BY <1>3 DEF Submit, ResultRead, ResultDrop, StepWrite, StepCache, CaseCreate,
              Drop, records
<1>4. ASSUME NEW p \in Procs, Review(p) PROVE UNCHANGED calls
  BY <1>4 DEF Review, CaseRead, Claim, Resolve, CaseStep, records
<1>5. ASSUME NEW p \in Procs, Clean(p) PROVE UNCHANGED calls \/ Release(p)
  BY <1>5 DEF Clean, Delete, CancelFind, List, ReleaseDrop, Uncache, Drop, records
<1>6. ASSUME NEW p \in Procs, Abort(p) PROVE UNCHANGED calls
  BY <1>6 DEF Abort, records
<1>7. ASSUME NEW p \in Procs, NEW kind \in Kinds, NEW row \in Calls \cup Cases,
             Start(p, kind, row)
      PROVE  UNCHANGED calls
  BY <1>7 DEF Start, records
<1>8. ASSUME NEW ses \in Sessions, Advance(ses) \/ CacheExpires(ses) PROVE UNCHANGED calls
  BY <1>8 DEF Advance, CacheExpires, records
<1>9. ASSUME NEW call \in Calls, GrowsOld(call) PROVE UNCHANGED calls
  BY <1>9 DEF GrowsOld
<1>10. CASE Flush
  BY <1>10 DEF Flush
<1> QED BY <1>0, <1>1, <1>2, <1>3, <1>4, <1>5, <1>6, <1>7, <1>8, <1>9, <1>10 DEF Next, Step

LEMMA CasesWriters ==
    ASSUME Next
    PROVE  UNCHANGED esc \/ \E p \in Procs : CaseCreate(p) \/ Claim(p) \/ Resolve(p)
<1>0. ASSUME NEW p \in Procs, ResolveSession(p) PROVE UNCHANGED esc
  BY <1>0 DEF ResolveSession, GetCached, FindRow, StoreCached
<1>1. ASSUME NEW p \in Procs, Join(p) PROVE UNCHANGED esc
  BY <1>1 DEF Join, JoinCase, JoinFind, JoinFree, JoinDrop, JoinPosition,
              JoinCreate, JoinAdd, Drop
<1>2. ASSUME NEW p \in Procs, Pickup(p) PROVE UNCHANGED esc
  BY <1>2 DEF Pickup, PickRead, PickMark, PickDrop, Drop
<1>3. ASSUME NEW p \in Procs, Submit(p) PROVE UNCHANGED esc \/ CaseCreate(p)
  BY <1>3 DEF Submit, ResultRead, ResultWrite, ResultDrop, StepWrite, StepCache, Drop
<1>4. ASSUME NEW p \in Procs, Review(p) PROVE UNCHANGED esc \/ Claim(p) \/ Resolve(p)
  BY <1>4 DEF Review, CaseRead, CaseStep
<1>5. ASSUME NEW p \in Procs, Clean(p) PROVE UNCHANGED esc
  BY <1>5 DEF Clean, Delete, CancelFind, List, Release, ReleaseDrop, Uncache, Drop
<1>6. ASSUME NEW p \in Procs, Abort(p) PROVE UNCHANGED esc
  BY <1>6 DEF Abort
<1>7. ASSUME NEW p \in Procs, NEW kind \in Kinds, NEW row \in Calls \cup Cases,
             Start(p, kind, row)
      PROVE  UNCHANGED esc
  BY <1>7 DEF Start
<1>8. ASSUME NEW ses \in Sessions, Advance(ses) \/ CacheExpires(ses) PROVE UNCHANGED esc
  BY <1>8 DEF Advance, CacheExpires
<1>9. ASSUME NEW call \in Calls, GrowsOld(call) PROVE UNCHANGED esc
  BY <1>9 DEF GrowsOld
<1>10. CASE Flush
  BY <1>10 DEF Flush
<1> QED BY <1>0, <1>1, <1>2, <1>3, <1>4, <1>5, <1>6, <1>7, <1>8, <1>9, <1>10 DEF Next, Step

(* A recorded call is neither cancelled nor taken up again nor created     *)
(* over: its writer either asks for another status or records it anew.     *)
LEMMA RecordedKept ==
    ASSUME IInv, Next, NEW call \in Calls, calls[call].status = "COMPLETED"
    PROVE  calls'[call].status = "COMPLETED"
<1>1. calls \in [Calls -> CallRows]
  BY DEF IInv, CallsTyped
<1>2. CASE UNCHANGED calls
  BY <1>2
<1>3. ASSUME NEW p \in Procs, JoinFree(p) PROVE calls'[call].status = "COMPLETED"
  BY <1>3, CancelWrites DEF JoinFree, session, CallPcs
<1>4. ASSUME NEW p \in Procs, Release(p) PROVE calls'[call].status = "COMPLETED"
  BY <1>4, CancelWrites DEF Release, session, CallPcs
<1>5. ASSUME NEW p \in Procs, PickMark(p) PROVE calls'[call].status = "COMPLETED"
  BY <1>1, <1>5 DEF PickMark
<1>6. ASSUME NEW p \in Procs, ResultWrite(p) PROVE calls'[call].status = "COMPLETED"
  BY <1>1, <1>6 DEF ResultWrite, CallRows
<1>7. ASSUME NEW p \in Procs, JoinCreate(p) PROVE calls'[call].status = "COMPLETED"
  <2>1. ASSUME NEW d \in Calls, {e \in Calls : calls[e].status = "NONE"} = d .. MaxCalls
        PROVE  d # call
    <3>1. d \in d .. MaxCalls
      BY VideoCallAssumption DEF Calls
    <3> QED BY <2>1, <3>1
  <2> QED BY <1>1, <1>7, <2>1 DEF JoinCreate
<1> QED BY <1>2, <1>3, <1>4, <1>5, <1>6, <1>7, CallsWriters

(* A case that was decided is not raised, claimed or decided again.        *)
LEMMA DecidedKept ==
    ASSUME IInv, Next, NEW e \in Cases, esc[e].resolvedBy # NoOne
    PROVE  esc'[e] = esc[e]
<1>1. esc \in [Cases -> CaseRows] /\ esc[e].status \in {"APPROVED", "REJECTED"}
  BY DEF IInv, CasesSound, CaseSound
<1>2. CASE UNCHANGED esc
  BY <1>2
<1>3. ASSUME NEW p \in Procs, CaseCreate(p) PROVE esc'[e] = esc[e]
  <2>1. ASSUME NEW d \in Cases, {f \in Cases : esc[f] = NoCase} = d .. MaxCases
        PROVE  d # e
    <3>1. d \in d .. MaxCases
      BY VideoCallAssumption DEF Cases
    <3>2. esc[d] = NoCase
      BY <2>1, <3>1
    <3> QED BY <1>1, <3>2 DEF NoCase
  <2> QED BY <1>1, <1>3, <2>1 DEF CaseCreate
<1>4. ASSUME NEW p \in Procs, Claim(p) PROVE esc'[e] = esc[e]
  BY <1>1, <1>4 DEF Claim
<1>5. ASSUME NEW p \in Procs, Resolve(p) PROVE esc'[e] = esc[e]
  BY <1>1, <1>5 DEF Resolve, OpenCase
<1> QED BY <1>2, <1>3, <1>4, <1>5, CasesWriters

(* CancelForSession, the release of a stale call and a late pickup: none   *)
(* takes a recorded verification back.                                     *)
THEOREM RecordedForGood == Spec => RecordedStays
<1>1. IInv /\ [Next]_vars =>
        [\A call \in Calls : calls[call].status = "COMPLETED" =>
             calls'[call].status = "COMPLETED"]_calls
  BY RecordedKept DEF vars
<1> QED BY <1>1, Invariance, PTL DEF Spec, RecordedStays

(* The write of EscalationService.Update asks again for an open case: a    *)
(* case is decided once, and nothing of its row changes after that.        *)
THEOREM DecidedForGood == Spec => DecidedOnce
<1>1. IInv /\ [Next]_vars =>
        [\A e \in Cases : esc[e].resolvedBy # NoOne => esc'[e] = esc[e]]_esc
  BY DecidedKept DEF vars
<1> QED BY <1>1, Invariance, PTL DEF Spec, DecidedOnce
=============================================================================
