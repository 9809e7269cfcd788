----------------------------- MODULE VideoCall ------------------------------
(***************************************************************************)
(* The e-KYC video call of the account opening: the nasabah queues, an     *)
(* agent picks the call up and submits its result, NEED_REVIEW becomes a   *)
(* case a second agent decides (VideoCallService, EscalationService).      *)
(*                                                                         *)
(* Nothing here runs in a transaction: a handler is a sequence of single   *)
(* statements on Postgres and commands on Redis, each an action, and any   *)
(* two handlers interleave. Notifications, audit and the schedule are left *)
(* out; the signaling sockets are another module's matter.                 *)
(***************************************************************************)
EXTENDS Integers, FiniteSets

CONSTANTS Sessions, Agents,
          Procs,        \* requests in flight at the same time
          Who,          \* [Procs -> Agents], read for the requests of agents
          Does,         \* [Procs -> SUBSET Kinds] what each may be asked
          MaxCalls,     \* bound: rows of onboarding_video_calls
          MaxCases,     \* bound: rows of onboarding_video_call_escalations
          MaxAborts,    \* bound: requests cut off half way
          Faults        \* a subset of AllFaults

Kinds == {"join", "cancelSession", "list", "pickup",
          "APPROVED", "REJECTED", "NEED_REVIEW",        \* SubmitResult with that result
          "CLAIM", "approveCase", "rejectCase"}         \* EscalationService.Update
Results == {"APPROVED", "REJECTED", "NEED_REVIEW"}
AllFaults == {"flush", "redis"}

NoOne == "noone"

ASSUME VideoCallAssumption ==
    /\ Sessions # {} /\ NoOne \notin Agents
    /\ Who \in [Procs -> Agents] /\ Does \in [Procs -> SUBSET Kinds]
    /\ MaxCalls \in Nat \ {0} /\ MaxCases \in Nat
    /\ Faults \subseteq AllFaults

VARIABLES
    step,       \* onboarding_sessions.current_step; "GONE" once deleted
    cached,     \* the session in Redis, or "none"
    calls,      \* onboarding_video_calls, numbered by joined_at
    queue,      \* the members of the sorted set onboarding:queue:active
    old,        \* ACTIVE calls that started more than activeCallMaxAge ago
    esc,        \* onboarding_video_call_escalations, numbered by raised_at
    approved,   \* history: calls an agent reported APPROVED
    at,         \* where each request is, and what it was asked
    aborts

vars == <<step, cached, calls, queue, old, esc, approved, at, aborts>>
session == <<step, cached>>
records == <<calls, queue, old, approved>>

Calls == 1 .. MaxCalls
Cases == 1 .. MaxCases
CaseKinds == {"CLAIM", "approveCase", "rejectCase"}
SomeSession == CHOOSE s \in Sessions : TRUE
NoCall == [session |-> SomeSession, status |-> "NONE", agent |-> NoOne, result |-> "NONE"]
NoCase == [session |-> SomeSession, call |-> 0, status |-> "NONE",
           raisedBy |-> NoOne, claimedBy |-> NoOne, resolvedBy |-> NoOne]
Idle == [pc |-> "idle", kind |-> "none", row |-> 1, session |-> SomeSession, got |-> "none"]

Live(c) == calls[c].status \in {"QUEUED", "ACTIVE"}
CallsOf(s) == {c \in Calls : calls[c].status # "NONE" /\ calls[c].session = s}
Latest(s) == CHOOSE c \in CallsOf(s) : \A d \in CallsOf(s) : d <= c
OpenCase(e) == esc[e].status \in {"PENDING", "IN_REVIEW"}
UnderReview(s) == \E e \in Cases : esc[e].session = s /\ OpenCase(e)

Init ==
    /\ step = [s \in Sessions |-> "VIDEO_CALL"]
    /\ cached = [s \in Sessions |-> "VIDEO_CALL"]
    /\ calls = [c \in Calls |-> NoCall]
    /\ queue = {}
    /\ old = {}
    /\ esc = [e \in Cases |-> NoCase]
    /\ approved = {}
    /\ at = [p \in Procs |-> Idle]
    /\ aborts = 0

Goto(p, pc) == at' = [at EXCEPT ![p].pc = pc]
GotoGot(p, pc, ses) == at' = [at EXCEPT ![p].pc = pc, ![p].got = ses]
GotoWith(p, pc, row) == at' = [at EXCEPT ![p].pc = pc, ![p].row = row]
Finish(p) == at' = [at EXCEPT ![p] = Idle]
Keep == UNCHANGED aborts

(* The call or the case, and the session, a request is about; the session  *)
(* it has read from Postgres and not yet put into the cache.               *)
c(p) == at[p].row
s(p) == at[p].session
got(p) == at[p].got

First(kind) ==
    CASE kind \in {"join", "cancelSession"} -> "get"
      [] kind = "list" -> "list"
      [] kind = "pickup" -> "pickRead"
      [] kind \in Results -> "resultRead"
      [] OTHER -> "caseRead"

(* The nasabah and the agents ask for what they know of: their session, a  *)
(* call that was queued once, a member of the sorted set, a case.          *)
Start(p, kind, row) ==
    /\ at[p].pc = "idle"
    /\ kind \in Does[p]
    /\ \E ses \in Sessions :
         /\ \/ kind \in {"join", "cancelSession"} /\ row = 1
            \/ /\ kind \in {"list", "pickup"} \cup Results
               /\ row \in CallsOf(ses)
               /\ kind = "list" => row \in queue
            \/ /\ kind \in CaseKinds
               /\ row \in Cases /\ esc[row] # NoCase /\ esc[row].session = ses
         /\ at' = [at EXCEPT ![p] = [pc |-> First(kind), kind |-> kind,
                                     row |-> row, session |-> ses,
                                     got |-> "none"]]
    /\ UNCHANGED <<session, records, esc>> /\ Keep

CancelAny(p) == calls' = [calls EXCEPT ![c(p)].status = "CANCELLED"]     \* mutant

(* Cancel: only what is QUEUED or ACTIVE.                                  *)
CancelRow(p) == calls' = [calls EXCEPT ![c(p)].status = IF Live(c(p)) THEN "CANCELLED" ELSE @]

(* ZREM. Its failure is logged only.                                       *)
Drop(p) ==
    /\ \/ queue' = queue \ {c(p)}
       \/ "redis" \in Faults /\ UNCHANGED queue
    /\ UNCHANGED <<session, calls, old, approved, esc>> /\ Keep

-----------------------------------------------------------------------------
(* resolveSession: the cached session, else the row, which is put into the *)
(* cache. By then the row may have changed. What the cache fails to do is  *)
(* only logged.                                                            *)

(* The caller goes on with the session it was given.                       *)
Resume(p, ses) ==
    \/ at[p].kind = "cancelSession" /\ GotoGot(p, "delete", "none")
    \/ at[p].kind = "join" /\ ses = "VIDEO_CALL" /\ GotoGot(p, "joinCase", "none")
    \/ at[p].kind \in Results /\ ses = "VIDEO_CALL" /\ GotoGot(p, "stepWrite", "none")
    \/ at[p].kind # "cancelSession" /\ ses # "VIDEO_CALL" /\ Finish(p)

GetCached(p) ==
    /\ at[p].pc = "get"
    /\ \/ cached[s(p)] # "none" /\ Resume(p, cached[s(p)])
       \/ /\ cached[s(p)] # "none" => "redis" \in Faults
          /\ Goto(p, "row")
    /\ UNCHANGED <<session, records, esc>> /\ Keep

FindRowDeleted(p) ==        \* mutant: deleted_at is not asked for
    /\ at[p].pc = "row"
    /\ GotoGot(p, "store", step[s(p)])
    /\ UNCHANGED <<session, records, esc>> /\ Keep

FindRow(p) ==
    /\ at[p].pc = "row"
    /\ \/ /\ step[s(p)] # "GONE"
          /\ GotoGot(p, "store", step[s(p)])
       \/ /\ step[s(p)] = "GONE"
          /\ Finish(p)
    /\ UNCHANGED <<session, records, esc>> /\ Keep

StoreCached(p) ==
    /\ at[p].pc = "store"
    /\ Resume(p, got(p))
    /\ \/ cached' = [cached EXCEPT ![s(p)] = got(p)]
       \/ "redis" \in Faults /\ UNCHANGED cached
    /\ UNCHANGED <<step, records, esc>> /\ Keep

ResolveSession(p) == GetCached(p) \/ FindRow(p) \/ StoreCached(p)

-----------------------------------------------------------------------------
(* JoinQueue, the session resolved: it is at VIDEO_CALL.                   *)

(* An open case keeps the nasabah out. The hours are operating hours here. *)
JoinCase(p) ==
    /\ at[p].pc = "joinCase"
    /\ \/ ~UnderReview(s(p)) /\ Goto(p, "joinFind")
       \/ UnderReview(s(p)) /\ Finish(p)
    /\ UNCHANGED <<session, records, esc>> /\ Keep

JoinFindKeepsStale(p) ==    \* mutant
    /\ at[p].pc = "joinFind"
    /\ \/ /\ \A d \in CallsOf(s(p)) : d = Latest(s(p)) => ~Live(d)
          /\ Goto(p, "joinCreate")
       \/ \E d \in CallsOf(s(p)) :
            /\ d = Latest(s(p)) /\ Live(d)
            /\ IF calls[d].status = "QUEUED" THEN GotoWith(p, "joinPosition", d) ELSE Finish(p)
    /\ UNCHANGED <<session, records, esc>> /\ Keep

JoinFind(p) ==
    /\ at[p].pc = "joinFind"
    /\ \/ /\ \A d \in CallsOf(s(p)) : d = Latest(s(p)) => ~Live(d)
          /\ Goto(p, "joinCreate")
       \/ \E d \in CallsOf(s(p)) :
            /\ d = Latest(s(p)) /\ Live(d)
            /\ \/ calls[d].status = "QUEUED" /\ GotoWith(p, "joinPosition", d)
               \/ calls[d].status = "ACTIVE" /\ d \in old /\ GotoWith(p, "joinFree", d)
               \/ calls[d].status = "ACTIVE" /\ d \notin old /\ Finish(p)
    /\ UNCHANGED <<session, records, esc>> /\ Keep

(* The stale call of an agent who is gone is released here and nowhere else. *)
JoinFree(p) ==
    /\ at[p].pc = "joinFree"
    /\ CancelRow(p)
    /\ Goto(p, IF Live(c(p)) THEN "joinDrop" ELSE "joinCreate")
    /\ UNCHANGED <<session, queue, old, approved, esc>> /\ Keep

JoinDrop(p) ==
    /\ at[p].pc = "joinDrop"
    /\ Goto(p, "joinCreate")
    /\ Drop(p)

JoinPositionOnly(p) ==      \* mutant
    /\ at[p].pc = "joinPosition"
    /\ Finish(p)
    /\ UNCHANGED <<session, records, esc>> /\ Keep

(* A QUEUED call without a rank, or whose rank could not be read, is taken *)
(* to have lost its member: it is put back.                                *)
JoinPosition(p) ==
    /\ at[p].pc = "joinPosition"
    /\ \/ c(p) \in queue /\ Finish(p)
       \/ /\ c(p) \in queue => "redis" \in Faults
          /\ Goto(p, "joinAdd")
    /\ UNCHANGED <<session, records, esc>> /\ Keep

(* INSERT; idx_vc_session_active_unique refuses a second live call.        *)
JoinCreate(p) ==
    /\ at[p].pc = "joinCreate"
    /\ \/ /\ \E d \in CallsOf(s(p)) : Live(d)
          /\ Finish(p)
          /\ UNCHANGED calls
       \/ /\ \A d \in CallsOf(s(p)) : ~Live(d)
          /\ \E d \in Calls :
               /\ {e \in Calls : calls[e].status = "NONE"} = d .. MaxCalls
               /\ calls' = [calls EXCEPT ![d] = [NoCall EXCEPT !.session = s(p),
                                                               !.status = "QUEUED"]]
               /\ GotoWith(p, "joinAdd", d)
    /\ UNCHANGED <<session, queue, old, approved, esc>> /\ Keep

JoinAdd(p) ==
    /\ at[p].pc = "joinAdd"
    /\ \/ queue' = queue \cup {c(p)}
       \/ "redis" \in Faults /\ UNCHANGED queue
    /\ Finish(p)
    /\ UNCHANGED <<session, calls, old, approved, esc>> /\ Keep

Join(p) ==
    \/ JoinCase(p) \/ JoinFind(p) \/ JoinFree(p) \/ JoinDrop(p)
    \/ JoinPosition(p) \/ JoinCreate(p) \/ JoinAdd(p)

-----------------------------------------------------------------------------
(* AgentSignalingURL: read the row, mark it ACTIVE, leave the queue.       *)
PickRead(p) ==
    /\ at[p].pc = "pickRead"
    /\ \/ /\ Live(c(p))
          /\ calls[c(p)].status = "ACTIVE" => calls[c(p)].agent \in {NoOne, Who[p]}
          /\ Goto(p, "pickMark")
       \/ /\ ~Live(c(p)) \/ calls[c(p)].agent \notin {NoOne, Who[p]}
          /\ Finish(p)
    /\ UNCHANGED <<session, records, esc>> /\ Keep

PickMark(p) ==
    /\ at[p].pc = "pickMark"
    /\ \/ /\ calls[c(p)].status \notin {"COMPLETED", "CANCELLED"}
          /\ calls' = [calls EXCEPT ![c(p)].status = "ACTIVE", ![c(p)].agent = Who[p]]
          /\ Goto(p, "pickDrop")
       \/ /\ calls[c(p)].status \in {"COMPLETED", "CANCELLED"}
          /\ Finish(p)
          /\ UNCHANGED calls
    /\ UNCHANGED <<session, queue, old, approved, esc>> /\ Keep

PickDrop(p) ==
    /\ at[p].pc = "pickDrop"
    /\ Finish(p)
    /\ Drop(p)

Pickup(p) == PickRead(p) \/ PickMark(p) \/ PickDrop(p)

-----------------------------------------------------------------------------
(* SubmitResult. A recorded result is replayed; only the agent of an       *)
(* ACTIVE call may report one.                                             *)
ResultRead(p) ==
    /\ at[p].pc = "resultRead"
    /\ \/ /\ calls[c(p)].status = "ACTIVE"
          /\ calls[c(p)].agent \in {NoOne, Who[p]}
          /\ Goto(p, "resultWrite")
       \/ /\ calls[c(p)].status # "ACTIVE" \/ calls[c(p)].agent \notin {NoOne, Who[p]}
          /\ Finish(p)
    /\ UNCHANGED <<session, records, esc>> /\ Keep

(* UpdateResult asks for no status; the agent on record stays.             *)
ResultWrite(p) ==
    /\ at[p].pc = "resultWrite"
    /\ calls' = [calls EXCEPT ![c(p)].status = "COMPLETED",
                              ![c(p)].result = at[p].kind,
                              ![c(p)].agent = IF @ = NoOne THEN Who[p] ELSE @]
    /\ approved' = IF at[p].kind = "APPROVED" THEN approved \cup {c(p)} ELSE approved
    /\ Goto(p, "resultDrop")
    /\ UNCHANGED <<session, queue, old, esc>> /\ Keep

ResultDropSteps(p) ==       \* mutant
    /\ at[p].pc = "resultDrop"
    /\ \/ at[p].kind # "NEED_REVIEW" /\ Goto(p, "get")
       \/ at[p].kind = "NEED_REVIEW" /\ Goto(p, "caseCreate")
    /\ Drop(p)

ResultDrop(p) ==
    /\ at[p].pc = "resultDrop"
    /\ \/ at[p].kind = "APPROVED" /\ Goto(p, "get")
       \/ at[p].kind = "NEED_REVIEW" /\ Goto(p, "caseCreate")
       \/ at[p].kind = "REJECTED" /\ Finish(p)
    /\ Drop(p)

(* The session is resolved and CanTransition asked: to CREDENTIALS from     *)
(* VIDEO_CALL alone.                                                       *)

(* UpdateStep asks only that the session is not deleted.                   *)
StepWrite(p) ==
    /\ at[p].pc = "stepWrite"
    /\ \/ /\ step[s(p)] # "GONE"
          /\ step' = [step EXCEPT ![s(p)] = "CREDENTIALS"]
          /\ Goto(p, "stepCache")
       \/ /\ step[s(p)] = "GONE"
          /\ Finish(p)
          /\ UNCHANGED step
    /\ UNCHANGED <<cached, records, esc>> /\ Keep

StepCache(p) ==
    /\ at[p].pc = "stepCache"
    /\ \/ cached' = [cached EXCEPT ![s(p)] = "CREDENTIALS"]
       \/ "redis" \in Faults /\ UNCHANGED cached
    /\ Finish(p)
    /\ UNCHANGED <<step, records, esc>> /\ Keep

(* idx_vc_escalations_one_open refuses a second open case of the session.  *)
CaseCreate(p) ==
    /\ at[p].pc = "caseCreate"
    /\ \/ /\ ~UnderReview(s(p))
          /\ \E e \in Cases :
               /\ {f \in Cases : esc[f] = NoCase} = e .. MaxCases
               /\ esc' = [esc EXCEPT ![e] = [NoCase EXCEPT !.session = s(p), !.call = c(p),
                                                !.status = "PENDING", !.raisedBy = Who[p]]]
       \/ UnderReview(s(p)) /\ UNCHANGED esc
    /\ Finish(p)
    /\ UNCHANGED <<session, records>> /\ Keep

Submit(p) ==
    \/ ResultRead(p) \/ ResultWrite(p) \/ ResultDrop(p)
    \/ StepWrite(p) \/ StepCache(p) \/ CaseCreate(p)

-----------------------------------------------------------------------------
(* EscalationService.Update: four eyes, then the holder, then a write that *)
(* asks again.                                                             *)
CaseRead(p) ==
    /\ at[p].pc = "caseRead"
    /\ \/ /\ OpenCase(c(p))
          /\ esc[c(p)].raisedBy # Who[p]
          /\ esc[c(p)].status = "IN_REVIEW" =>
               esc[c(p)].claimedBy = Who[p] /\ at[p].kind # "CLAIM"
          /\ Goto(p, "caseWrite")
       \/ /\ \/ ~OpenCase(c(p))
             \/ esc[c(p)].raisedBy = Who[p]
             \/ esc[c(p)].status = "IN_REVIEW" /\ esc[c(p)].claimedBy # Who[p]
             \/ esc[c(p)].status = "IN_REVIEW" /\ at[p].kind = "CLAIM"
          /\ Finish(p)
    /\ UNCHANGED <<session, records, esc>> /\ Keep

Claim(p) ==
    /\ at[p].pc = "caseWrite"
    /\ at[p].kind = "CLAIM"
    /\ \/ /\ esc[c(p)].status = "PENDING"
          /\ esc' = [esc EXCEPT ![c(p)].status = "IN_REVIEW", ![c(p)].claimedBy = Who[p]]
       \/ esc[c(p)].status # "PENDING" /\ UNCHANGED esc
    /\ Finish(p)
    /\ UNCHANGED <<session, records>> /\ Keep

ResolveUnguarded(p) ==      \* mutant
    /\ at[p].pc = "caseWrite"
    /\ at[p].kind # "CLAIM"
    /\ esc' = [esc EXCEPT ![c(p)].status =
                              IF at[p].kind = "approveCase" THEN "APPROVED" ELSE "REJECTED",
                          ![c(p)].resolvedBy = Who[p]]
    /\ IF at[p].kind = "approveCase" THEN Goto(p, "caseStep") ELSE Finish(p)
    /\ UNCHANGED <<session, records>> /\ Keep

Resolve(p) ==
    /\ at[p].pc = "caseWrite"
    /\ at[p].kind # "CLAIM"
    /\ \/ /\ OpenCase(c(p)) /\ esc[c(p)].claimedBy \in {NoOne, Who[p]}
          /\ esc' = [esc EXCEPT ![c(p)].status =
                                    IF at[p].kind = "approveCase" THEN "APPROVED" ELSE "REJECTED",
                                ![c(p)].resolvedBy = Who[p]]
          /\ \/ at[p].kind = "approveCase" /\ Goto(p, "caseStep")
             \/ at[p].kind = "rejectCase" /\ Finish(p)
       \/ /\ ~OpenCase(c(p)) \/ esc[c(p)].claimedBy \notin {NoOne, Who[p]}
          /\ Finish(p)
          /\ UNCHANGED esc
    /\ UNCHANGED <<session, records>> /\ Keep

(* respond reads the session from Postgres, past the cache.                *)
CaseStep(p) ==
    /\ at[p].pc = "caseStep"
    /\ \/ step[s(p)] = "VIDEO_CALL" /\ Goto(p, "stepWrite")
       \/ step[s(p)] # "VIDEO_CALL" /\ Finish(p)
    /\ UNCHANGED <<session, records, esc>> /\ Keep

Review(p) == CaseRead(p) \/ Claim(p) \/ Resolve(p) \/ CaseStep(p)

-----------------------------------------------------------------------------
(* CancelSession, the session resolved: soft delete, CancelForSession,     *)
(* then the cache.                                                         *)
Delete(p) ==
    /\ at[p].pc = "delete"
    /\ \/ /\ step[s(p)] # "GONE"
          /\ step' = [step EXCEPT ![s(p)] = "GONE"]
          /\ Goto(p, "cancelFind")
       \/ /\ step[s(p)] = "GONE"
          /\ Finish(p)
          /\ UNCHANGED step
    /\ UNCHANGED <<cached, records, esc>> /\ Keep

CancelFind(p) ==
    /\ at[p].pc = "cancelFind"
    /\ \/ \E d \in CallsOf(s(p)) :
            /\ d = Latest(s(p)) /\ Live(d)
            /\ GotoWith(p, "release", d)
       \/ /\ \A d \in CallsOf(s(p)) : d = Latest(s(p)) => ~Live(d)
          /\ Goto(p, "uncache")
    /\ UNCHANGED <<session, records, esc>> /\ Keep

ListSkips(p) ==             \* mutant
    /\ at[p].pc = "list"
    /\ Finish(p)
    /\ UNCHANGED <<session, records, esc>> /\ Keep

(* ListQueued, for one member: a session that is gone takes its call along. *)
List(p) ==
    /\ at[p].pc = "list"
    /\ \/ step[s(p)] = "GONE" /\ Goto(p, "release")
       \/ step[s(p)] # "GONE" /\ Finish(p)
    /\ UNCHANGED <<session, records, esc>> /\ Keep

Released(p) ==
    \/ at[p].kind = "cancelSession" /\ Goto(p, "uncache")
    \/ at[p].kind = "list" /\ Finish(p)

(* releaseCall: a call that is no longer live is left as it is.            *)
Release(p) ==
    /\ at[p].pc = "release"
    /\ CancelRow(p)
    /\ \/ Live(c(p)) /\ Goto(p, "releaseDrop")
       \/ ~Live(c(p)) /\ Released(p)
    /\ UNCHANGED <<session, queue, old, approved, esc>> /\ Keep

ReleaseDrop(p) ==
    /\ at[p].pc = "releaseDrop"
    /\ Released(p)
    /\ Drop(p)

Uncache(p) ==
    /\ at[p].pc = "uncache"
    /\ \/ cached' = [cached EXCEPT ![s(p)] = "none"]
       \/ "redis" \in Faults /\ UNCHANGED cached
    /\ Finish(p)
    /\ UNCHANGED <<step, records, esc>> /\ Keep

Clean(p) ==
    Delete(p) \/ CancelFind(p) \/ List(p) \/ Release(p) \/ ReleaseDrop(p) \/ Uncache(p)

-----------------------------------------------------------------------------
(* The steps after the call, of other services: they need CREDENTIALS. The *)
(* row and its cached copy are written as one, which Onboarding separates. *)
Advance(ses) ==
    /\ step[ses] = "CREDENTIALS"
    /\ step' = [step EXCEPT ![ses] = "REVIEW"]
    /\ cached' = [cached EXCEPT ![ses] = "REVIEW"]
    /\ UNCHANGED <<records, esc, at>> /\ Keep

CacheExpires(ses) ==
    /\ "redis" \in Faults
    /\ cached[ses] # "none"
    /\ cached' = [cached EXCEPT ![ses] = "none"]
    /\ UNCHANGED <<step, records, esc, at>> /\ Keep

GrowsOld(call) ==
    /\ calls[call].status = "ACTIVE" /\ call \notin old
    /\ old' = old \cup {call}
    /\ UNCHANGED <<session, calls, queue, approved, esc, at>> /\ Keep

(* Redis comes back empty.                                                 *)
Flush ==
    /\ "flush" \in Faults
    /\ queue # {}
    /\ queue' = {}
    /\ cached' = [ses \in Sessions |-> "none"]
    /\ UNCHANGED <<step, calls, old, approved, esc, at>> /\ Keep

(* A statement fails, the request times out or the process dies: what was  *)
(* written stays, and nothing that was to follow happens.                  *)
Abort(p) ==
    /\ at[p].pc # "idle"
    /\ aborts < MaxAborts
    /\ aborts' = aborts + 1
    /\ Finish(p)
    /\ UNCHANGED <<session, records, esc>>

Step(p) == ResolveSession(p) \/ Join(p) \/ Pickup(p) \/ Submit(p) \/ Review(p) \/ Clean(p)

Next ==
    \/ \E p \in Procs : Step(p) \/ Abort(p)
    \/ \E p \in Procs, kind \in Kinds, row \in Calls \cup Cases : Start(p, kind, row)
    \/ \E ses \in Sessions : Advance(ses) \/ CacheExpires(ses)
    \/ \E call \in Calls : GrowsOld(call)
    \/ Flush

Spec == Init /\ [][Next]_vars

(* Requests run to their end, a nasabah asks again and again for the place *)
(* in the queue, and the agents' screen for the list: each time for every  *)
(* member of it.                                                           *)
FairSpec ==
    /\ Spec
    /\ \A p \in Procs :
         /\ WF_vars(Step(p))
         /\ WF_vars(Start(p, "join", 1))
         /\ \A call \in Calls : SF_vars(Start(p, "list", call))

-----------------------------------------------------------------------------
TypeOK ==
    /\ step \in [Sessions -> {"VIDEO_CALL", "CREDENTIALS", "REVIEW", "GONE"}]
    /\ cached \in [Sessions -> {"none", "VIDEO_CALL", "CREDENTIALS", "REVIEW"}]
    /\ calls \in [Calls -> [session : Sessions, agent : Agents \cup {NoOne},
                            status : {"NONE", "QUEUED", "ACTIVE", "COMPLETED", "CANCELLED"},
                            result : Results \cup {"NONE"}]]
    /\ queue \subseteq Calls /\ old \subseteq Calls
    /\ esc \in [Cases -> [session : Sessions, call : Calls \cup {0}, status : {"NONE", "PENDING", "IN_REVIEW",
                                      "APPROVED", "REJECTED"}, raisedBy : Agents \cup {NoOne}, claimedBy : Agents \cup {NoOne},
                          resolvedBy : Agents \cup {NoOne}]]
    /\ approved \subseteq Calls

(* A verification that was recorded is never taken back by cleaning up:    *)
(* not by a nasabah cancelling, a stale call released or a late pickup.    *)
RecordedStays ==
    [][\A call \in Calls : calls[call].status = "COMPLETED" =>
            calls'[call].status = "COMPLETED"]_calls

(* A case is decided once, by its holder if it has one, and never by the   *)
(* agent who raised it, however the reviewers' requests cross.             *)
DecidedOnce ==
    [][\A e \in Cases : esc[e].resolvedBy # NoOne => esc'[e] = esc[e]]_esc
HolderDecides ==
    \A e \in Cases : esc[e].resolvedBy # NoOne =>
        /\ esc[e].resolvedBy # esc[e].raisedBy
        /\ esc[e].claimedBy \in {NoOne, esc[e].resolvedBy}

(* Nobody gets past VIDEO_CALL without a verification: an agent's APPROVED *)
(* of a call of this session, or an approved case.                         *)
PassedVerification ==
    \A ses \in Sessions : step[ses] \in {"CREDENTIALS", "REVIEW"} =>
        \/ \E e \in Cases : esc[e].session = ses /\ esc[e].status = "APPROVED"
        \/ CallsOf(ses) \cap approved # {}

(* A queued call that no agent can see comes back into view as long as its *)
(* nasabah keeps asking, whatever Redis lost or a request left undone.     *)
Waiting(ses) == step[ses] = "VIDEO_CALL" /\ ~UnderReview(ses)
SeenAgain ==
    \A call \in Calls :
        calls[call].status = "QUEUED" /\ call \notin queue ~>
            calls[call].status # "QUEUED" \/ call \in queue \/ ~Waiting(calls[call].session)

(* A call whose agent is gone does not lock its nasabah out: the rule of   *)
(* activeCallMaxAge.                                                       *)
StaleReleased ==
    \A call \in Calls :
        calls[call].status = "ACTIVE" /\ call \in old ~>
            calls[call].status # "ACTIVE" \/ ~Waiting(calls[call].session)

(* The agents are not shown for ever a call whose session is gone, even if *)
(* it was queued while the session was being deleted.                      *)
GoneTakesCall ==
    \A call \in Calls :
        call \in queue /\ calls[call].status = "QUEUED" /\ step[calls[call].session] = "GONE" ~>
            call \notin queue \/ calls[call].status # "QUEUED"

-----------------------------------------------------------------------------
(* "Satu panggilan, satu petugas" (line 750): a call that an agent has     *)
(* taken is not taken by another.                                          *)
OneAgentPerCall ==
    [][\A call \in Calls : calls[call].agent # NoOne =>
            calls'[call].agent = calls[call].agent]_calls
=============================================================================
