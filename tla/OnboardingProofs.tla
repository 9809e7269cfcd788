-------------------------- MODULE OnboardingProofs --------------------------
(***************************************************************************)
(* Theorems about Onboarding, for any number of sessions, requests, cards  *)
(* and keys, and under any faults.                                         *)
(***************************************************************************)
EXTENDS Onboarding, FiniteSetTheorems, TLAPS

(* What a copy of a session says of session x is true, and stays true: it  *)
(* may be old, but what is on record and who is a user only grows.         *)
Sound(held, x) ==
    /\ Backed(held, x)
    /\ "submitted" \in held.done => HasUser(x)

SubmitPcs == {"idle", "claim", "slot", "resolve", "backfill", "submit", "provision", "complete",
              "store", "issue", "print", "answer"}
OpenedPcs == {"complete", "issue", "print", "answer"}

(* Where a request holds a session that exists.                            *)
Holding == Kinds \cup {"backfill", "advance"}

(* What a request knows where it stands: its copy is sound, core banking   *)
(* is asked for an account only for somebody verified, past the            *)
(* provisioning the account is a user's, and whoever prints a card is the  *)
(* first to.                                                               *)
Knows(p) ==
    /\ Sound(ses(p), s(p))
    /\ at[p].pc # "idle" => at[p].kind # "none"
    /\ at[p].kind = "submit" => at[p].pc \in SubmitPcs
    /\ at[p].pc \in {"count", "insert"} => at[p].kind = "create"
    /\ at[p].pc \in Holding => ses(p).step # "NONE"
    /\ at[p].kind = "video" => at[p].pc = "result" \/ "video" \in ev[s(p)]
    /\ at[p].pc = "video" => "video" \in ev[s(p)]
    /\ at[p].pc = "provision" => Verified \subseteq ev[s(p)] /\ at[p].acct \in 1..MaxCore
    /\ (at[p].pc \in OpenedPcs \/ (at[p].pc = "store" /\ at[p].kind = "submit"))
          => <<s(p), at[p].acct>> \in users
    /\ at[p].pc = "print" => issue[s(p)] # "NONE" /\ prints[s(p)] = 0

OnePrinter ==
    \A p, q \in Procs : at[p].pc = "print" /\ at[q].pc = "print" /\ s(p) = s(q) => p = q

(* The types of everything but the requests.                               *)
TablesTyped ==
    /\ row \in [Sessions -> Anything]
    /\ live \subseteq {x \in Sessions : Exists(x)}
    /\ cached \in [Sessions -> Anything]
    /\ ev \in [Sessions -> SUBSET Verified]
    /\ code \subseteq Sessions
    /\ slot \in [Sessions -> [Keys -> [state : {"free", "running", "stored"}, acct : 0..MaxCore]]]
    /\ core \in 0..MaxCore
    /\ users \subseteq Sessions \X (1..MaxCore)
    /\ issue \in [Sessions -> {"NONE", "REQUESTED", "PRINTED", "FAILED"}]
    /\ prints \in [Sessions -> 0..MaxCore]
    /\ overlaps \in 0..MaxOverlaps /\ aborts \in 0..MaxAborts

Requests == [pc : PCs, kind : Kinds \cup {"none", "escalate"}, s : Sessions,
             ses : Anything, key : Keys \cup {NoKey}, acct : 0..MaxCore]

CopiesSound == \A x \in Sessions : Sound(row[x], x) /\ Sound(cached[x], x)

OneUser ==
    /\ users = {} \/ \E u \in users : users = {u}
    /\ answers \subseteq users
    /\ \A x \in Sessions, k \in Keys :
          slot[x][k].state = "stored" => <<x, slot[x][k].acct>> \in users

CardsOnce ==
    \A x \in Sessions : /\ prints[x] \in {0, 1}
                        /\ issue[x] = "NONE" => prints[x] = 0
                        /\ prints[x] = 1 => HasUser(x)

Tables == TablesTyped /\ CopiesSound /\ OneUser /\ OpenedIsVerified /\ CardsOnce

IInv ==
    /\ Tables
    /\ at \in [Procs -> Requests]
    /\ \A p \in Procs : Knows(p)
    /\ OnePrinter

-----------------------------------------------------------------------------
LEMMA Somebody == SomeSession \in Sessions
BY OnboardingAssumption DEF OnboardingAssumption, SomeSession

LEMMA NoSessionSays == NoSession \in Anything /\ NoSession.done = {} /\ NoSession.step = "NONE"
BY DEF NoSession, Anything

LEMMA IdleTyped == Idle \in Requests /\ Idle.pc = "idle" /\ Idle.kind = "none" /\ Idle.ses = NoSession
BY Somebody, NoSessionSays, OnboardingAssumption DEF Idle, Requests, PCs, OnboardingAssumption

LEMMA NothingIsSound == \A x \in Sessions : Sound(NoSession, x)
BY NoSessionSays DEF Sound, Backed

LEMMA InitHolds == Init => IInv
<1> SUFFICES ASSUME Init PROVE IInv
  OBVIOUS
<1>1. 0 \in 0..MaxCore /\ 0 \in 0..MaxOverlaps /\ 0 \in 0..MaxAborts
  BY OnboardingAssumption DEF OnboardingAssumption
<1>2. Free \in [state : {"free", "running", "stored"}, acct : 0..MaxCore] /\ Free.state = "free"
  BY <1>1 DEF Free
<1>3. TablesTyped
  BY <1>1, <1>2, NoSessionSays DEF Init, TablesTyped
<1>4. CopiesSound
  BY NothingIsSound DEF Init, CopiesSound
<1>5. OneUser /\ OpenedIsVerified /\ CardsOnce
  BY <1>2 DEF Init, OneUser, OpenedIsVerified, CardsOnce, HasUser
<1>6. at \in [Procs -> Requests] /\ \A p \in Procs : at[p] = Idle
  BY IdleTyped DEF Init
<1>7. \A p \in Procs : Knows(p)
  BY <1>6, IdleTyped, NothingIsSound DEF Knows, ses, s, Requests, OpenedPcs, Holding, Kinds
<1>8. OnePrinter
  BY <1>6, IdleTyped DEF OnePrinter
<1> QED BY <1>3, <1>4, <1>5, <1>6, <1>7, <1>8 DEF IInv, Tables

-----------------------------------------------------------------------------
(* How a request moves.                                                    *)

LEMMA Rewritten ==
    ASSUME NEW S, NEW R, NEW f \in [S -> R], NEW x \in S, NEW r \in R
    PROVE  /\ [f EXCEPT ![x] = r] \in [S -> R]
           /\ [f EXCEPT ![x] = r][x] = r
           /\ \A y \in S : y # x => [f EXCEPT ![x] = r][y] = f[y]
OBVIOUS

LEMMA GotoMoves ==
    ASSUME at \in [Procs -> Requests], NEW p \in Procs, NEW pc \in PCs, Goto(p, pc)
    PROVE  /\ at' \in [Procs -> Requests]
           /\ at'[p].pc = pc /\ at'[p].kind = at[p].kind /\ s(p)' = s(p) /\ ses(p)' = ses(p)
           /\ at'[p].acct = at[p].acct /\ at'[p].key = at[p].key
           /\ \A q \in Procs : q # p => at'[q] = at[q]
<1> DEFINE r == [at[p] EXCEPT !.pc = pc]
<1>1. at' = [at EXCEPT ![p] = r] /\ at[p] \in Requests
  BY DEF Goto
<1>2. /\ r \in Requests /\ r.pc = pc /\ r.kind = at[p].kind /\ r.s = at[p].s
      /\ r.ses = at[p].ses /\ r.acct = at[p].acct /\ r.key = at[p].key
  BY <1>1 DEF Requests
<1> HIDE DEF r
<1> QED BY <1>1, <1>2, Rewritten DEF s, ses

LEMMA HoldMoves ==
    ASSUME at \in [Procs -> Requests], NEW p \in Procs, NEW pc \in PCs, NEW held \in Anything,
           Hold(p, pc, held)
    PROVE  /\ at' \in [Procs -> Requests]
           /\ at'[p].pc = pc /\ at'[p].kind = at[p].kind /\ s(p)' = s(p) /\ ses(p)' = held
           /\ at'[p].acct = at[p].acct /\ at'[p].key = at[p].key
           /\ \A q \in Procs : q # p => at'[q] = at[q]
<1> DEFINE r == [at[p] EXCEPT !.pc = pc, !.ses = held]
<1>1. at' = [at EXCEPT ![p] = r] /\ at[p] \in Requests
  BY DEF Hold
<1>2. /\ r \in Requests /\ r.pc = pc /\ r.kind = at[p].kind /\ r.s = at[p].s
      /\ r.ses = held /\ r.acct = at[p].acct /\ r.key = at[p].key
  BY <1>1 DEF Requests
<1> HIDE DEF r
<1> QED BY <1>1, <1>2, Rewritten DEF s, ses

LEMMA FinishMoves ==
    ASSUME at \in [Procs -> Requests], NEW p \in Procs, Finish(p)
    PROVE  /\ at' \in [Procs -> Requests]
           /\ at'[p].pc = "idle" /\ Knows(p)'
           /\ \A q \in Procs : q # p => at'[q] = at[q]
<1>1. at' \in [Procs -> Requests] /\ at'[p] = Idle /\ \A q \in Procs : q # p => at'[q] = at[q]
  BY IdleTyped DEF Finish
<1>2. Idle.s \in Sessions
  BY IdleTyped DEF Requests
<1>3. Sound(NoSession, Idle.s)'
  BY <1>2, NoSessionSays DEF Sound, Backed
<1> QED BY <1>1, <1>3, IdleTyped DEF Knows, ses, s, SubmitPcs, OpenedPcs, Holding, Kinds

(* What is known lasts: records and users are only added.                  *)
Lasting == users \subseteq users' /\ \A x \in Sessions : ev[x] \subseteq ev'[x]

LEMMA SoundLasts ==
    ASSUME Lasting, NEW held, NEW x \in Sessions, Sound(held, x)
    PROVE  /\ held.done \cap Verified \subseteq ev'[x]
           /\ "submitted" \in held.done => \E u \in users' : u[1] = x
BY DEF Lasting, Sound, Backed, HasUser

LEMMA OthersKeep ==
    ASSUME IInv, Lasting, NEW q \in Procs, at'[q] = at[q],
           at[q].pc = "print" => issue'[s(q)] # "NONE" /\ prints'[s(q)] = 0
    PROVE  Knows(q)'
<1>1. Knows(q) /\ s(q) \in Sessions
  BY DEF IInv, Requests, s
<1>2. Sound(ses(q), s(q))'
  BY <1>1, SoundLasts DEF Knows, Sound, Backed, HasUser, ses, s
<1> QED BY <1>1, <1>2 DEF Knows, Lasting, ses, s

LEMMA Keeps ==
    ASSUME IInv, Tables', Lasting, UNCHANGED card, NEW p \in Procs,
           at' \in [Procs -> Requests], \A q \in Procs : q # p => at'[q] = at[q],
           Knows(p)', at'[p].pc # "print"
    PROVE  IInv'
<1>1. \A q \in Procs : q # p => Knows(q)'
  BY OthersKeep DEF IInv, Knows, card
<1>2. OnePrinter'
  BY DEF IInv, OnePrinter, s
<1> QED BY <1>1, <1>2 DEF IInv

(* The tables, when nothing is written but what is named.                  *)
LEMMA QuietTables ==
    ASSUME IInv, UNCHANGED <<session, ev, code, opening, card>>,
           overlaps' \in 0..MaxOverlaps, aborts' \in 0..MaxAborts
    PROVE  Tables' /\ Lasting
BY DEF IInv, Tables, TablesTyped, CopiesSound, OneUser, OpenedIsVerified, CardsOnce, Lasting,
       Sound, Backed, HasUser, Exists, session, opening, card

LEMMA Finishes ==
    ASSUME IInv, Tables', Lasting, UNCHANGED card, NEW p \in Procs, Finish(p)
    PROVE  IInv'
BY FinishMoves, Keeps DEF IInv

-----------------------------------------------------------------------------
(* What a request knows after a move that needs no more than a sound copy. *)

SoundNext(held, x) ==
    /\ held.done \cap Verified \subseteq ev'[x]
    /\ "submitted" \in held.done => \E u \in users' : u[1] = x

PlainPcs == PCs \ ({"idle", "count", "insert", "provision", "print"} \cup OpenedPcs)

LEMMA KnowsAfter ==
    ASSUME IInv, NEW p \in Procs, NEW held \in Anything, NEW pc \in PlainPcs,
           at[p].pc # "idle",
           at'[p].pc = pc, at'[p].kind = at[p].kind, s(p)' = s(p), ses(p)' = held,
           SoundNext(held, s(p)),
           at[p].kind = "submit" => pc \in SubmitPcs /\ pc # "store",
           pc \in Holding => held.step # "NONE",
           at[p].kind = "video" \/ pc = "video" => "video" \in ev'[s(p)]
    PROVE  Knows(p)'
<1>1. Sound(ses(p), s(p))'
  BY DEF SoundNext, Sound, Backed, HasUser, s, ses
<1>2. at[p].kind # "none"
  BY DEF IInv, Knows
<1> QED BY <1>1, <1>2 DEF Knows, PlainPcs

LEMMA RequestNow ==
    ASSUME IInv, NEW p \in Procs
    PROVE  /\ s(p) \in Sessions /\ ses(p) \in Anything /\ Sound(ses(p), s(p))
           /\ at[p].kind \in Kinds \cup {"none", "escalate"} /\ at[p].acct \in 0..MaxCore
           /\ at[p].key \in Keys \cup {NoKey} /\ at[p].pc \in PCs
           /\ ses(p).done \subseteq Flags
<1>1. at[p] \in Requests /\ Knows(p)
  BY DEF IInv
<1>2. /\ s(p) \in Sessions /\ ses(p) \in Anything
      /\ at[p].kind \in Kinds \cup {"none", "escalate"} /\ at[p].acct \in 0..MaxCore
      /\ at[p].key \in Keys \cup {NoKey} /\ at[p].pc \in PCs
  BY <1>1 DEF Requests, s, ses
<1>3. \A held \in Anything : held.done \subseteq Flags
  BY DEF Anything, SessionRecord, NoSession
<1> QED BY <1>1, <1>2, <1>3 DEF Knows

(* A request that changes nothing but itself.                              *)
LEMMA QuietHold ==
    ASSUME IInv, NEW p \in Procs, UNCHANGED <<session, ev, code, opening, card, bounds>>,
           at[p].pc # "idle",
           NEW pc \in PlainPcs, NEW held \in Anything, Hold(p, pc, held), Sound(held, s(p)),
           at[p].kind = "submit" => pc \in SubmitPcs /\ pc # "store",
           pc \in Holding => held.step # "NONE",
           at[p].pc # "result", pc = "video" => at[p].kind = "video"
    PROVE  IInv'
<1>1. overlaps' \in 0..MaxOverlaps /\ aborts' \in 0..MaxAborts
  BY DEF IInv, Tables, TablesTyped, bounds
<1>2. Tables' /\ Lasting
  BY <1>1, QuietTables
<1>3. pc \in PCs /\ pc # "print"
  BY DEF PlainPcs
<1>4. SoundNext(held, s(p))
  BY <1>2, RequestNow, SoundLasts DEF SoundNext
<1>5. /\ at' \in [Procs -> Requests]
      /\ at'[p].pc = pc /\ at'[p].kind = at[p].kind /\ s(p)' = s(p) /\ ses(p)' = held
      /\ \A q \in Procs : q # p => at'[q] = at[q]
  BY <1>3, HoldMoves DEF IInv
<1>6. at[p].kind = "video" \/ pc = "video" => "video" \in ev'[s(p)]
  BY <1>2, RequestNow DEF IInv, Knows, Lasting
<1>7. Knows(p)'
  BY <1>4, <1>5, <1>6, KnowsAfter
<1> QED BY <1>2, <1>3, <1>5, <1>7, Keeps

LEMMA QuietFinish ==
    ASSUME IInv, NEW p \in Procs, UNCHANGED <<session, ev, code, opening, card, overlaps>>,
           aborts' \in 0..MaxAborts, Finish(p)
    PROVE  IInv'
<1>1. Tables' /\ Lasting
  BY QuietTables DEF IInv, Tables, TablesTyped
<1> QED BY <1>1, Finishes

LEMMA BoundsNow ==
    ASSUME IInv PROVE overlaps \in 0..MaxOverlaps /\ aborts \in 0..MaxAborts
BY DEF IInv, Tables, TablesTyped

-----------------------------------------------------------------------------
(* The steps, in the order of the module.                                  *)

LEMMA StartStep ==
    ASSUME IInv, NEW p \in Procs, NEW kind \in Kinds, NEW x \in Sessions,
           NEW key \in Keys \cup {NoKey}, Start(p, kind, x, key)
    PROVE  IInv'
<1> DEFINE pc == CASE kind = "create" -> "count"
                   [] kind = "submit" -> "claim"
                   [] kind = "video"  -> "result"
                   [] OTHER           -> "resolve"
           r == [Idle EXCEPT !.pc = pc, !.kind = kind, !.s = x, !.key = key]
<1>1. at' = [at EXCEPT ![p] = r]
  BY DEF Start
<1>2. /\ pc \in {"count", "claim", "result", "resolve"}
      /\ kind = "submit" => pc = "claim"
      /\ kind = "video" => pc = "result"
      /\ pc = "count" => kind = "create"
  OBVIOUS
<1>3. /\ r \in Requests /\ r.pc = pc /\ r.kind = kind /\ r.s = x /\ r.ses = NoSession
  <2> HIDE DEF pc
  <2> QED BY <1>2, IdleTyped DEF Requests, PCs
<1>4. at' \in [Procs -> Requests] /\ at'[p] = r /\ \A q \in Procs : q # p => at'[q] = at[q]
  <2> HIDE DEF r
  <2> QED BY <1>1, <1>3 DEF IInv
<1>5. overlaps' \in 0..MaxOverlaps
  BY BoundsNow, OnboardingAssumption DEF Start, OnboardingAssumption
<1>6. Tables' /\ Lasting
  BY <1>5, BoundsNow, QuietTables DEF Start
<1>7. Sound(NoSession, x)'
  BY NoSessionSays DEF Sound, Backed
<1>8. kind # "none"
  BY DEF Kinds
<1>9. Knows(p)'
  <2> HIDE DEF pc, r
  <2> QED BY <1>2, <1>3, <1>4, <1>7, <1>8 DEF Knows, SubmitPcs, OpenedPcs, Holding, Kinds, ses, s
<1>10. at'[p].pc # "print"
  <2> HIDE DEF pc, r
  <2> QED BY <1>2, <1>3, <1>4
<1> QED BY <1>4, <1>6, <1>9, <1>10, Keeps DEF Start, card

LEMMA AbortStep ==
    ASSUME IInv, NEW p \in Procs, Abort(p)
    PROVE  IInv'
BY QuietFinish, BoundsNow, OnboardingAssumption DEF Abort, OnboardingAssumption

LEMMA CountStep ==
    ASSUME IInv, NEW p \in Procs, CountActiveByDevice(p)
    PROVE  IInv'
<1>1. CASE Finish(p)
  BY <1>1, QuietFinish, BoundsNow DEF CountActiveByDevice, bounds
<1>2. CASE Goto(p, "insert")
  <2>1. "insert" \in PCs /\ at[p].kind = "create"
    BY DEF PCs, IInv, Knows, CountActiveByDevice
  <2>2. /\ at' \in [Procs -> Requests]
        /\ at'[p].pc = "insert" /\ at'[p].kind = "create" /\ s(p)' = s(p) /\ ses(p)' = ses(p)
        /\ \A q \in Procs : q # p => at'[q] = at[q]
    BY <1>2, <2>1, GotoMoves DEF IInv
  <2>3. Tables' /\ Lasting
    BY QuietTables, BoundsNow DEF CountActiveByDevice, bounds
  <2>4. Sound(ses(p), s(p))'
    BY <2>2, <2>3, RequestNow, SoundLasts DEF Sound, Backed, HasUser, s, ses
  <2>5. Knows(p)'
    BY <2>2, <2>4 DEF Knows, OpenedPcs, Holding, Kinds
  <2> QED BY <2>2, <2>3, <2>5, Keeps DEF CountActiveByDevice, card
<1> QED BY <1>1, <1>2 DEF CountActiveByDevice

LEMMA StepsNamed ==
    /\ "NONE" \notin Steps
    /\ SessionRecord \subseteq Anything
    /\ \A held \in SessionRecord : held.step # "NONE" /\ held # NoSession
    /\ Verified \subseteq Flags /\ "submitted" \in Flags /\ "submitted" \notin Verified
    /\ "tnc" \notin Verified /\ "card" \notin Verified
BY DEF Steps, SessionRecord, Anything, NoSession, Verified, Flags

LEMMA ResolveStep ==
    ASSUME IInv, NEW p \in Procs, Resolve(p)
    PROVE  IInv'
<1>1. /\ s(p) \in Sessions /\ row[s(p)] \in Anything /\ cached[s(p)] \in Anything
      /\ Sound(row[s(p)], s(p)) /\ Sound(cached[s(p)], s(p))
  BY RequestNow DEF IInv, Tables, TablesTyped, CopiesSound
<1>2. at[p].kind \in PlainPcs /\ at[p].kind # "store"
  BY RequestNow DEF IInv, Knows, Resolve, Kinds, PlainPcs, PCs, OpenedPcs
<1>3. at[p].kind = "submit" => at[p].kind \in SubmitPcs
  BY DEF SubmitPcs
<1>4. CASE Hold(p, at[p].kind, cached[s(p)]) /\ cached[s(p)] # NoSession
  <2>1. cached[s(p)].step # "NONE"
    BY <1>1, <1>4, StepsNamed DEF Anything
  <2> QED BY <1>1, <1>2, <1>3, <1>4, <2>1, QuietHold DEF Resolve
<1>5. CASE Hold(p, "backfill", row[s(p)]) /\ s(p) \in live
  <2>2. row[s(p)].step # "NONE"
    BY <1>1, <1>5, StepsNamed DEF Anything, IInv, Tables, TablesTyped, Exists
  <2>1. "backfill" \in PlainPcs /\ "backfill" \in SubmitPcs
    BY DEF PlainPcs, PCs, OpenedPcs, SubmitPcs
  <2> QED BY <1>1, <1>5, <2>1, <2>2, QuietHold DEF Resolve
<1> QED BY <1>4, <1>5 DEF Resolve

LEMMA RefuseSteps ==
    ASSUME IInv, NEW p \in Procs, Refuse(p) \/ RefuseVerdict(p)
    PROVE  IInv'
<1>1. CASE Refuse(p)
  BY <1>1, QuietFinish, BoundsNow DEF Refuse, bounds
<1>2. CASE RefuseVerdict(p)
  <2>1. /\ at' \in [Procs -> Requests] /\ at'[p].pc = "resolve" /\ at'[p].kind = "escalate"
        /\ s(p)' = s(p) /\ ses(p)' = ses(p) /\ \A q \in Procs : q # p => at'[q] = at[q]
    <3> DEFINE r == [at[p] EXCEPT !.pc = "resolve", !.kind = "escalate"]
    <3>1. at' = [at EXCEPT ![p] = r]
      BY <1>2 DEF RefuseVerdict
    <3>2. at \in [Procs -> Requests] /\ at[p] \in Requests /\ "resolve" \in PCs
      BY DEF IInv, PCs
    <3>3. /\ r \in Requests /\ r.pc = "resolve" /\ r.kind = "escalate"
          /\ r.s = at[p].s /\ r.ses = at[p].ses
      BY <3>2 DEF Requests
    <3> HIDE DEF r
    <3> QED BY <3>1, <3>2, <3>3, Rewritten DEF s, ses
  <2>2. Tables' /\ Lasting
    BY <1>2, QuietTables, BoundsNow DEF RefuseVerdict, bounds
  <2>3. Sound(ses(p), s(p))'
    BY <2>1, <2>2, RequestNow, SoundLasts DEF Sound, Backed, HasUser, s, ses
  <2>4. Knows(p)'
    BY <2>1, <2>3 DEF Knows, OpenedPcs, Holding, Kinds
  <2> QED BY <1>2, <2>1, <2>2, <2>4, Keeps DEF RefuseVerdict, card
<1> QED BY <1>1, <1>2

(* The copy a step goes on to write: a flag more, and what it stands for   *)
(* on record.                                                              *)
LEMMA MovedCopy ==
    ASSUME NEW old \in Anything, NEW step \in Steps, NEW flag \in Flags, NEW held,
           held = Moved(old, step, flag)
    PROVE  /\ held \in SessionRecord /\ held.step = step
           /\ held.done = old.done \cup {flag} /\ held.card = old.card
<1>1. old.done \subseteq Flags /\ old.card \in Cards \cup {"NONE"}
  BY DEF Anything, SessionRecord, NoSession
<1>2. held = [step |-> step, done |-> old.done \cup {flag}, card |-> old.card]
  BY DEF Moved, Anything, SessionRecord, NoSession
<1>3. held.done \subseteq Flags
  BY <1>1, <1>2
<1> QED BY <1>1, <1>2, <1>3 DEF SessionRecord

LEMMA EscalateStep ==
    ASSUME IInv, NEW p \in Procs, EscalateToVideoCall(p)
    PROVE  IInv'
<1> DEFINE held == [ses(p) EXCEPT !.step = "VIDEO_CALL"]
<1>1. held \in SessionRecord /\ held.done = ses(p).done
  BY RequestNow DEF Anything, SessionRecord, NoSession, Steps
<1>2. Sound(held, s(p)) /\ held \in Anything /\ held.step # "NONE"
  BY <1>1, RequestNow, StepsNamed DEF Sound, Backed
<1>3. "advance" \in PlainPcs /\ at[p].kind # "submit"
  BY DEF PlainPcs, PCs, OpenedPcs, IInv, Knows, EscalateToVideoCall, SubmitPcs
<1>4. Hold(p, "advance", held) /\ at[p].pc # "idle"
  BY DEF EscalateToVideoCall
<1> HIDE DEF held
<1> QED BY <1>2, <1>3, <1>4, QuietHold DEF EscalateToVideoCall

(* A step writes what it verified on record and goes on with a copy that   *)
(* says so.                                                                *)
LEMMA Recorded ==
    ASSUME IInv, NEW p \in Procs, NEW what \in Verified, Record(p, what),
           code' \subseteq Sessions, UNCHANGED <<session, opening, card, bounds>>
    PROVE  Tables' /\ Lasting /\ what \in ev'[s(p)]
<1>1. s(p) \in Sessions /\ ev \in [Sessions -> SUBSET Verified]
  BY RequestNow DEF IInv, Tables, TablesTyped
<1>2. /\ ev' \in [Sessions -> SUBSET Verified] /\ what \in ev'[s(p)]
      /\ \A x \in Sessions : ev[x] \subseteq ev'[x]
  BY <1>1 DEF Record
<1>3. Lasting
  BY <1>2 DEF Lasting, opening
<1>4. TablesTyped'
  BY <1>2 DEF IInv, Tables, TablesTyped, session, opening, card, bounds, Exists
<1>5. CopiesSound'
  BY <1>2 DEF IInv, Tables, CopiesSound, Sound, Backed, HasUser, session, opening
<1>6. \A u \in users : u[1] \in Sessions
  BY DEF IInv, Tables, TablesTyped
<1>7. OpenedIsVerified'
  BY <1>2, <1>6 DEF IInv, Tables, OpenedIsVerified, opening
<1>8. OneUser' /\ CardsOnce'
  BY DEF IInv, Tables, OneUser, CardsOnce, HasUser, opening, card
<1> QED BY <1>2, <1>3, <1>4, <1>5, <1>7, <1>8 DEF Tables

LEMMA AdvanceSteps ==
    ASSUME IInv, Tables', Lasting, UNCHANGED card, NEW p \in Procs,
           at[p].pc # "idle", at[p].kind # "submit",
           NEW step \in Steps, NEW flag \in Verified, Advance(p, step, flag),
           flag \in ev'[s(p)], at[p].kind = "video" => "video" \in ev'[s(p)]
    PROVE  IInv'
<1> DEFINE held == Moved(ses(p), step, flag)
<1>1. /\ held \in SessionRecord /\ held.step = step /\ held.done = ses(p).done \cup {flag}
  BY RequestNow, StepsNamed, MovedCopy
<1>2. Hold(p, "advance", held)
  BY DEF Advance
<1> HIDE DEF held
<1>3. "advance" \in PlainPcs /\ "advance" \in PCs /\ held \in Anything /\ held.step # "NONE"
  BY <1>1, StepsNamed DEF PlainPcs, PCs, OpenedPcs
<1>4. SoundNext(held, s(p))
  BY <1>1, RequestNow, SoundLasts, StepsNamed DEF SoundNext
<1>5. /\ at' \in [Procs -> Requests]
      /\ at'[p].pc = "advance" /\ at'[p].kind = at[p].kind /\ s(p)' = s(p) /\ ses(p)' = held
      /\ \A q \in Procs : q # p => at'[q] = at[q]
  BY <1>2, <1>3, HoldMoves DEF IInv
<1>6. Knows(p)'
  BY <1>3, <1>4, <1>5, KnowsAfter
<1> QED BY <1>5, <1>6, Keeps

(* The requests of a step's own kind only.                                 *)
LEMMA NotSubmitting ==
    ASSUME IInv, NEW p \in Procs, at[p].pc \notin SubmitPcs
    PROVE  at[p].kind # "submit" /\ at[p].pc # "idle"
BY DEF IInv, Knows, SubmitPcs

LEMMA VerifySteps ==
    ASSUME IInv, NEW p \in Procs, ProcessKTP(p) \/ VerifyOTP(p) \/ RecordPass(p)
    PROVE  IInv'
<1>1. at[p].pc \in {"ocr", "otp", "bio"}
  BY DEF ProcessKTP, VerifyOTP, RecordPass
<1>2. at[p].kind # "submit" /\ at[p].pc # "idle"
  BY <1>1, NotSubmitting DEF SubmitPcs
<1>3. at[p].kind = "video" => "video" \in ev[s(p)]
  BY <1>1 DEF IInv, Knows
<1>4. PICK what \in {"ocr", "otp", "bio"}, step \in Steps : Record(p, what) /\ Advance(p, step, what)
  BY DEF ProcessKTP, VerifyOTP, RecordPass, Steps
<1>5. what \in Verified
  BY DEF Verified
<1>6. code \subseteq Sessions
  BY DEF IInv, Tables, TablesTyped
<1>7. code' \subseteq Sessions /\ UNCHANGED <<session, opening, card, bounds>>
  BY <1>6 DEF ProcessKTP, VerifyOTP, RecordPass
<1>8. Tables' /\ Lasting /\ what \in ev'[s(p)]
  BY <1>4, <1>5, <1>7, Recorded
<1>9. at[p].kind = "video" => "video" \in ev'[s(p)]
  BY <1>3, <1>8, RequestNow DEF Lasting
<1> QED BY <1>2, <1>4, <1>5, <1>7, <1>8, <1>9, AdvanceSteps

LEMMA PersonalDataStep ==
    ASSUME IInv, NEW p \in Procs, SavePersonalData(p)
    PROVE  IInv'
<1>1. at[p].kind # "submit" /\ at[p].pc # "idle"
  BY NotSubmitting DEF SavePersonalData, SubmitPcs
<1>2. "data" \in Verified /\ "OTP_VERIFY" \in Steps
  BY DEF Verified, Steps
<1>3. code' \subseteq Sessions
  BY RequestNow DEF IInv, Tables, TablesTyped, SavePersonalData
<1>4. Tables' /\ Lasting /\ "data" \in ev'[s(p)]
  BY <1>2, <1>3, Recorded DEF SavePersonalData
<1>5. at[p].kind = "video" => "video" \in ev'[s(p)]
  BY <1>4, RequestNow DEF Lasting, IInv, Knows, SavePersonalData
<1>6. CASE Advance(p, "OTP_VERIFY", "data")
  BY <1>1, <1>2, <1>4, <1>5, <1>6, AdvanceSteps DEF SavePersonalData
<1>7. CASE Finish(p)
  BY <1>4, <1>7, Finishes DEF SavePersonalData
<1> QED BY <1>6, <1>7 DEF SavePersonalData

LEMMA CallSteps ==
    ASSUME IInv, NEW p \in Procs, SubmitResult(p) \/ PassVideoCall(p)
    PROVE  IInv'
<1>1. at[p].kind # "submit" /\ at[p].pc # "idle"
  BY NotSubmitting DEF SubmitResult, PassVideoCall, SubmitPcs
<1>2. "video" \in Verified /\ "CREDENTIALS" \in Steps
  BY DEF Verified, Steps
<1>3. CASE SubmitResult(p)
  <2>1. Tables' /\ Lasting /\ "video" \in ev'[s(p)]
    BY <1>2, <1>3, Recorded DEF SubmitResult, IInv, Tables, TablesTyped
  <2>2. "resolve" \in PlainPcs /\ "resolve" \in PCs /\ "resolve" \notin Holding
    BY DEF PlainPcs, PCs, OpenedPcs, Holding, Kinds
  <2>3. /\ at' \in [Procs -> Requests]
        /\ at'[p].pc = "resolve" /\ at'[p].kind = at[p].kind /\ s(p)' = s(p) /\ ses(p)' = ses(p)
        /\ \A q \in Procs : q # p => at'[q] = at[q]
    BY <1>3, <2>2, GotoMoves DEF SubmitResult, IInv
  <2>4. SoundNext(ses(p), s(p)) /\ ses(p) \in Anything
    BY <2>1, RequestNow, SoundLasts DEF SoundNext
  <2>5. Knows(p)'
    BY <1>1, <2>1, <2>2, <2>3, <2>4, KnowsAfter
  <2> QED BY <1>3, <2>1, <2>3, <2>5, Keeps DEF SubmitResult
<1>4. CASE PassVideoCall(p)
  <2>1. Tables' /\ Lasting
    BY <1>4, QuietTables, BoundsNow DEF PassVideoCall, bounds
  <2>2. "video" \in ev'[s(p)]
    BY <1>4, <2>1, RequestNow DEF PassVideoCall, IInv, Knows, Lasting
  <2>3. CASE Advance(p, "CREDENTIALS", "video")
    BY <1>1, <1>2, <1>4, <2>1, <2>2, <2>3, AdvanceSteps DEF PassVideoCall
  <2>4. CASE Finish(p)
    BY <1>4, <2>1, <2>4, Finishes DEF PassVideoCall
  <2> QED BY <1>4, <2>3, <2>4 DEF PassVideoCall
<1> QED BY <1>3, <1>4

LEMMA CredentialsStep ==
    ASSUME IInv, NEW p \in Procs, SetCredentials(p)
    PROVE  IInv'
<1>1. at[p].kind # "submit" /\ at[p].pc # "idle"
  BY NotSubmitting DEF SetCredentials, SubmitPcs
<1>2. "cred" \in Verified /\ "REVIEW" \in Steps
  BY DEF Verified, Steps
<1>3. CASE Finish(p) /\ UNCHANGED ev
  BY <1>3, QuietFinish, BoundsNow DEF SetCredentials, bounds
<1>4. CASE Record(p, "cred") /\ Advance(p, "REVIEW", "cred")
  <2>1. Tables' /\ Lasting /\ "cred" \in ev'[s(p)]
    BY <1>2, <1>4, Recorded DEF SetCredentials, IInv, Tables, TablesTyped
  <2>2. at[p].kind = "video" => "video" \in ev'[s(p)]
    BY <2>1, RequestNow DEF Lasting, IInv, Knows, SetCredentials
  <2> QED BY <1>1, <1>2, <1>4, <2>1, <2>2, AdvanceSteps DEF SetCredentials
<1> QED BY <1>3, <1>4 DEF SetCredentials

-----------------------------------------------------------------------------
(* Writes of the row and of the cache.                                     *)

LEMMA RowWritten ==
    ASSUME IInv, NEW x \in Sessions, NEW new \in SessionRecord, Sound(new, x),
           row' = [row EXCEPT ![x] = new], live' \subseteq live \cup {x},
           UNCHANGED <<cached, ev, code, opening, card, bounds>>
    PROVE  Tables' /\ Lasting
<1>1. new \in Anything /\ new # NoSession
  BY StepsNamed
<1>2. row' \in [Sessions -> Anything] /\ row'[x] = new /\ \A y \in Sessions \ {x} : row'[y] = row[y]
  BY <1>1 DEF IInv, Tables, TablesTyped
<1>3. live' \subseteq {y \in Sessions : row'[y] # NoSession}
  BY <1>1, <1>2 DEF IInv, Tables, TablesTyped, Exists
<1>4. TablesTyped'
  BY <1>2, <1>3 DEF IInv, Tables, TablesTyped, opening, card, bounds, Exists
<1>5. CopiesSound'
  BY <1>2 DEF IInv, Tables, CopiesSound, Sound, Backed, HasUser, opening
<1>6. OneUser' /\ OpenedIsVerified' /\ CardsOnce'
  BY DEF IInv, Tables, OneUser, OpenedIsVerified, CardsOnce, HasUser, opening, card
<1> QED BY <1>4, <1>5, <1>6 DEF Tables, Lasting, opening

LEMMA CacheWritten ==
    ASSUME IInv, NEW x \in Sessions, NEW new \in Anything, Sound(new, x),
           cached' = [cached EXCEPT ![x] = new],
           UNCHANGED <<row, live, ev, code, opening, card, bounds>>
    PROVE  Tables' /\ Lasting
<1>1. /\ cached' \in [Sessions -> Anything] /\ cached'[x] = new
      /\ \A y \in Sessions \ {x} : cached'[y] = cached[y]
  BY DEF IInv, Tables, TablesTyped
<1>2. TablesTyped'
  BY <1>1 DEF IInv, Tables, TablesTyped, opening, card, bounds, Exists
<1>3. CopiesSound'
  BY <1>1 DEF IInv, Tables, CopiesSound, Sound, Backed, HasUser, opening
<1>4. OneUser' /\ OpenedIsVerified' /\ CardsOnce'
  BY DEF IInv, Tables, OneUser, OpenedIsVerified, CardsOnce, HasUser, opening, card
<1> QED BY <1>2, <1>3, <1>4 DEF Tables, Lasting, opening

(* A request that goes on where it needs no more than a sound copy.        *)
LEMMA HoldOn ==
    ASSUME IInv, Tables', Lasting, UNCHANGED card, NEW p \in Procs,
           at[p].pc \notin {"idle", "result"}, NEW pc \in PlainPcs, NEW held \in Anything,
           Hold(p, pc, held), SoundNext(held, s(p)),
           at[p].kind = "submit" => pc \in SubmitPcs /\ pc # "store",
           pc \in Holding => held.step # "NONE", pc = "video" => at[p].kind = "video"
    PROVE  IInv'
<1>1. pc \in PCs /\ pc # "print"
  BY DEF PlainPcs
<1>2. /\ at' \in [Procs -> Requests]
      /\ at'[p].pc = pc /\ at'[p].kind = at[p].kind /\ s(p)' = s(p) /\ ses(p)' = held
      /\ \A q \in Procs : q # p => at'[q] = at[q]
  BY <1>1, HoldMoves DEF IInv
<1>3. at[p].kind = "video" \/ pc = "video" => "video" \in ev'[s(p)]
  BY RequestNow DEF IInv, Knows, Lasting
<1>4. Knows(p)'
  BY <1>2, <1>3, KnowsAfter
<1> QED BY <1>1, <1>2, <1>4, Keeps

LEMMA SoundCopy ==
    ASSUME IInv, Lasting, NEW p \in Procs
    PROVE  SoundNext(ses(p), s(p)) /\ ses(p) \in Anything
BY RequestNow, SoundLasts DEF SoundNext

LEMMA GotoOn ==
    ASSUME IInv, Tables', Lasting, UNCHANGED card, NEW p \in Procs,
           at[p].pc \notin {"idle", "result"}, NEW pc \in PlainPcs, Goto(p, pc),
           pc \in Holding => ses(p).step # "NONE",
           at[p].kind = "submit" => pc \in SubmitPcs /\ pc # "store",
           pc = "video" => at[p].kind = "video"
    PROVE  IInv'
<1>1. Hold(p, pc, ses(p))
  BY DEF Goto, Hold, ses, IInv, Requests
<1> QED BY <1>1, SoundCopy, HoldOn

LEMMA UpdateStepStep ==
    ASSUME IInv, NEW p \in Procs, UpdateStep(p)
    PROVE  IInv'
<1>1. at[p].kind # "submit" /\ at[p].pc = "advance"
  BY NotSubmitting DEF UpdateStep, SubmitPcs
<1>2. CASE Finish(p) /\ UNCHANGED row
  BY <1>2, QuietFinish, BoundsNow DEF UpdateStep, bounds, session
<1>3. CASE s(p) \in live /\ WriteStep(p) /\ Goto(p, "store")
  <2> DEFINE new == [row[s(p)] EXCEPT !.step = ses(p).step, !.done = ses(p).done]
  <2>1. /\ s(p) \in Sessions /\ row \in [Sessions -> Anything] /\ row[s(p)] # NoSession
        /\ ses(p) \in Anything /\ ses(p).step # "NONE" /\ Sound(ses(p), s(p))
    BY <1>1, <1>3, RequestNow DEF IInv, Tables, TablesTyped, Exists, Knows, Holding
  <2>2. ses(p) \in SessionRecord /\ row[s(p)] \in SessionRecord
    BY <2>1 DEF Anything, NoSession
  <2>3. new \in SessionRecord /\ new.done = ses(p).done
    BY <2>2 DEF SessionRecord
  <2>4. row' = [row EXCEPT ![s(p)] = new]
    BY <1>3, <2>1 DEF WriteStep
  <2>5. Sound(new, s(p))
    BY <2>1, <2>3 DEF Sound, Backed
  <2> HIDE DEF new
  <2>6. Tables' /\ Lasting
    BY <2>1, <2>3, <2>4, <2>5, RowWritten DEF UpdateStep
  <2>7. "store" \in PlainPcs /\ "store" \notin Holding
    BY DEF PlainPcs, PCs, OpenedPcs, Holding, Kinds
  <2> QED BY <1>1, <1>3, <2>6, <2>7, GotoOn DEF UpdateStep
<1> QED BY <1>2, <1>3 DEF UpdateStep

LEMMA CancelSteps ==
    ASSUME IInv, NEW p \in Procs, SoftDelete(p) \/ Uncache(p)
    PROVE  IInv'
<1>1. at[p].kind # "submit" /\ at[p].pc \in {"cancel", "uncache"}
  BY NotSubmitting DEF SoftDelete, Uncache, SubmitPcs
<1>2. CASE SoftDelete(p)
  <2>1. live' \subseteq live
    BY <1>2 DEF SoftDelete
  <2>2. Tables' /\ Lasting
    BY <1>2, <2>1 DEF SoftDelete, IInv, Tables, TablesTyped, CopiesSound, OneUser,
       OpenedIsVerified, CardsOnce, Lasting, Sound, Backed, HasUser, Exists, opening, card, bounds
  <2>3. "uncache" \in PlainPcs /\ "uncache" \notin Holding
    BY DEF PlainPcs, PCs, OpenedPcs, Holding, Kinds
  <2>4. CASE Goto(p, "uncache")
    BY <1>1, <1>2, <2>2, <2>3, <2>4, GotoOn DEF SoftDelete
  <2>5. CASE Finish(p)
    BY <1>2, <2>2, <2>5, Finishes DEF SoftDelete
  <2> QED BY <1>2, <2>4, <2>5 DEF SoftDelete
<1>3. CASE Uncache(p)
  <2>1. CASE cached' = [cached EXCEPT ![s(p)] = NoSession]
    <3>1. Tables' /\ Lasting
      BY <1>3, <2>1, RequestNow, NoSessionSays, NothingIsSound, CacheWritten DEF Uncache
    <3> QED BY <1>3, <3>1, Finishes DEF Uncache
  <2>2. CASE UNCHANGED cached
    <3>1. Tables' /\ Lasting
      BY <1>3, <2>2 DEF Uncache, IInv, Tables, TablesTyped, CopiesSound, OneUser,
         OpenedIsVerified, CardsOnce, Lasting, Sound, Backed, HasUser, Exists, opening, card,
         bounds
    <3> QED BY <1>3, <3>1, Finishes DEF Uncache
  <2> QED BY <1>3, <2>1, <2>2 DEF Uncache
<1> QED BY <1>2, <1>3

LEMMA EvictStep ==
    ASSUME IInv, NEW x \in Sessions, Evict(x)
    PROVE  IInv'
<1>1. Tables' /\ Lasting
  BY NoSessionSays, NothingIsSound, CacheWritten DEF Evict
<1>2. \A q \in Procs : Knows(q)'
  BY <1>1, OthersKeep DEF Evict, IInv, Knows, card
<1> QED BY <1>1, <1>2 DEF Evict, IInv, OnePrinter, s

LEMMA CreateStep ==
    ASSUME IInv, NEW p \in Procs, CreateSession(p)
    PROVE  IInv'
<1>1. at[p].kind # "submit" /\ at[p].pc = "insert"
  BY NotSubmitting DEF CreateSession, SubmitPcs
<1>2. CASE Finish(p) /\ UNCHANGED <<row, live>>
  BY <1>2, QuietFinish, BoundsNow DEF CreateSession, bounds, session
<1>3. CASE ~(Finish(p) /\ UNCHANGED <<row, live>>)
  <2>1. PICK x \in Sessions, c \in Cards \cup {"NONE"} : \E new \in FirstStep(c) :
           /\ row' = [row EXCEPT ![x] = new] /\ live' = live \cup {x}
           /\ at' = [at EXCEPT ![p].pc = "store", ![p].s = x, ![p].ses = new]
    BY <1>3 DEF CreateSession
  <2>2. PICK new \in FirstStep(c) :
           /\ row' = [row EXCEPT ![x] = new] /\ live' = live \cup {x}
           /\ at' = [at EXCEPT ![p].pc = "store", ![p].s = x, ![p].ses = new]
    BY <2>1
  <2>3. new \in SessionRecord /\ new.done \subseteq {"tnc", "card"}
    BY DEF FirstStep, SessionRecord, Steps, Flags, Verified
  <2>4. Sound(new, x) /\ new \in Anything
    BY <2>3, StepsNamed DEF Sound, Backed
  <2>5. Tables' /\ Lasting
    BY <2>2, <2>3, <2>4, RowWritten DEF CreateSession
  <2>6. at[p] \in Requests /\ at \in [Procs -> Requests]
    BY DEF IInv
  <2>7. /\ at' \in [Procs -> Requests] /\ at'[p].pc = "store" /\ at'[p].kind = at[p].kind
        /\ s(p)' = x /\ ses(p)' = new /\ \A q \in Procs : q # p => at'[q] = at[q]
    BY <2>2, <2>4, <2>6 DEF Requests, PCs, s, ses
  <2>8. Sound(new, x)'
    BY <2>4, <2>5, SoundLasts DEF Sound, Backed, HasUser
  <2>9. at[p].kind = "create"
    BY <1>1 DEF IInv, Knows
  <2>10. Knows(p)'
    BY <1>1, <2>7, <2>8, <2>9 DEF Knows, OpenedPcs, Holding, Kinds
  <2> QED BY <2>5, <2>7, <2>10, Keeps DEF CreateSession
<1> QED BY <1>2, <1>3

LEMMA StoreStep ==
    ASSUME IInv, NEW p \in Procs, Store(p)
    PROVE  IInv'
<1>1. s(p) \in Sessions /\ ses(p) \in Anything /\ Sound(ses(p), s(p)) /\ at[p].kind \in Kinds \cup {"none", "escalate"}
  BY RequestNow
<1>2. Tables' /\ Lasting
  <2>1. CASE cached' = [cached EXCEPT ![s(p)] = ses(p)]
    BY <1>1, <2>1, CacheWritten DEF Store
  <2>2. CASE UNCHANGED cached
    BY <2>2, QuietTables, BoundsNow DEF Store, session, bounds
  <2> QED BY <2>1, <2>2 DEF Store
<1>3. CASE at[p].pc = "backfill"
  <2>1. at[p].kind \in PlainPcs /\ at[p].kind # "store"
    BY <1>1, <1>3 DEF IInv, Knows, Kinds, PlainPcs, PCs, OpenedPcs
  <2>4. ses(p).step # "NONE"
    BY <1>3 DEF IInv, Knows, Holding
  <2>2. at[p].kind = "submit" => at[p].kind \in SubmitPcs
    BY DEF SubmitPcs
  <2>3. Goto(p, at[p].kind)
    BY <1>3 DEF Store
  <2> QED BY <1>2, <1>3, <2>1, <2>2, <2>3, <2>4, GotoOn DEF Store
<1>4. CASE at[p].pc = "store" /\ at[p].kind = "submit"
  <2>1. Goto(p, "issue") /\ "issue" \in PCs
    BY <1>4 DEF Store, PCs
  <2>2. /\ at' \in [Procs -> Requests] /\ at'[p].acct = at[p].acct
        /\ at'[p].pc = "issue" /\ at'[p].kind = at[p].kind /\ s(p)' = s(p) /\ ses(p)' = ses(p)
        /\ \A q \in Procs : q # p => at'[q] = at[q]
    BY <2>1, GotoMoves DEF IInv
  <2>3. <<s(p), at[p].acct>> \in users'
    BY <1>2, <1>4 DEF IInv, Knows, Lasting
  <2>4. Sound(ses(p), s(p))'
    BY <1>1, <1>2, <2>2, SoundLasts DEF Sound, Backed, HasUser, s, ses
  <2>5. Knows(p)'
    BY <1>4, <2>2, <2>3, <2>4 DEF Knows, SubmitPcs, Holding, Kinds, s
  <2> QED BY <1>2, <2>2, <2>5, Keeps DEF Store
<1>5. CASE at[p].pc = "store" /\ at[p].kind # "submit"
  BY <1>2, <1>5, Finishes DEF Store
<1> QED BY <1>3, <1>4, <1>5 DEF Store

LEMMA CardStep ==
    ASSUME IInv, NEW p \in Procs, SetCard(p)
    PROVE  IInv'
<1>1. at[p].kind # "submit" /\ at[p].pc = "card"
  BY NotSubmitting DEF SetCard, SubmitPcs
<1>2. s(p) \in Sessions /\ ses(p) \in Anything /\ Sound(ses(p), s(p)) /\ s(p) \in live
  BY RequestNow DEF SetCard
<1> DEFINE step == IF ses(p).step = "CARD_SELECTION" THEN "OCR" ELSE ses(p).step
           new(c) == [Moved(ses(p), step, "card") EXCEPT !.card = c]
<1>3. PICK c \in Cards : row' = [row EXCEPT ![s(p)] = new(c)] /\ Hold(p, "store", new(c))
  BY DEF SetCard
<1>4. ses(p) \in SessionRecord
  <2>1. Knows(p) /\ "card" \in Holding
    BY DEF IInv, Holding, Kinds
  <2>2. ses(p).step # "NONE"
    BY <1>1, <2>1 DEF Knows
  <2> QED BY <1>2, <2>2, NoSessionSays DEF Anything
<1>5. step \in Steps
  BY <1>4 DEF SessionRecord, Steps
<1>6. new(c) \in SessionRecord /\ new(c).done = ses(p).done \cup {"card"}
  BY <1>4, <1>5 DEF SessionRecord, Moved, Flags
<1>7. Sound(new(c), s(p)) /\ new(c) \in Anything
  BY <1>2, <1>6, StepsNamed DEF Sound, Backed
<1> HIDE DEF new, step
<1>8. Tables' /\ Lasting
  BY <1>2, <1>3, <1>6, <1>7, RowWritten DEF SetCard
<1>9. SoundNext(new(c), s(p))
  BY <1>2, <1>7, <1>8, SoundLasts DEF SoundNext
<1>10. "store" \in PlainPcs /\ "store" \notin Holding
  BY DEF PlainPcs, PCs, OpenedPcs, Holding, Kinds
<1> QED BY <1>1, <1>3, <1>7, <1>8, <1>9, <1>10, HoldOn DEF SetCard

-----------------------------------------------------------------------------
(* Submit.                                                                 *)

(* What a slot may be set to: nothing, a claim, or a user's account.       *)
LEMMA SlotWritten ==
    ASSUME IInv, NEW p \in Procs, NEW st \in {"free", "running", "stored"},
           NEW acct \in 0..MaxCore, SetSlot(p, [state |-> st, acct |-> acct]),
           users \subseteq users', st = "stored" => <<s(p), acct>> \in users'
    PROVE  /\ slot' \in [Sessions -> [Keys -> [state : {"free", "running", "stored"}, acct : 0..MaxCore]]]
           /\ \A x \in Sessions, k \in Keys :
                 slot'[x][k].state = "stored" => <<x, slot'[x][k].acct>> \in users'
<1> DEFINE v == [state |-> st, acct |-> acct]
           Values == [state : {"free", "running", "stored"}, acct : 0..MaxCore]
<1>1. /\ slot \in [Sessions -> [Keys -> Values]] /\ s(p) \in Sessions /\ v \in Values
      /\ at[p].key \in Keys \cup {NoKey}
      /\ \A x \in Sessions, k \in Keys :
            slot[x][k].state = "stored" => <<x, slot[x][k].acct>> \in users'
  BY RequestNow DEF IInv, Tables, TablesTyped, OneUser
<1>2. CASE at[p].key = NoKey
  BY <1>1, <1>2 DEF SetSlot
<1>3. CASE at[p].key \in Keys /\ at[p].key # NoKey
  <2>1. slot' = [slot EXCEPT ![s(p)][at[p].key] = v] /\ v.state = st /\ v.acct = acct
    BY <1>3 DEF SetSlot
  <2> HIDE DEF v, Values
  <2> DEFINE slots == [slot[s(p)] EXCEPT ![at[p].key] = v]
  <2>2. slot' = [slot EXCEPT ![s(p)] = slots]
    BY <2>1
  <2>3. /\ slots \in [Keys -> Values] /\ slots[at[p].key] = v
        /\ \A k \in Keys : k # at[p].key => slots[k] = slot[s(p)][k]
    BY <1>1, <1>3, Rewritten
  <2> HIDE DEF slots
  <2>4. /\ slot' \in [Sessions -> [Keys -> Values]] /\ slot'[s(p)] = slots
        /\ \A x \in Sessions : x # s(p) => slot'[x] = slot[x]
    BY <1>1, <2>2, <2>3, Rewritten
  <2>5. \A x \in Sessions, k \in Keys :
           slot'[x][k] = IF x = s(p) /\ k = at[p].key THEN v ELSE slot[x][k]
    BY <2>3, <2>4
  <2>6. \A x \in Sessions, k \in Keys :
           slot'[x][k].state = "stored" => <<x, slot'[x][k].acct>> \in users'
    <3> SUFFICES ASSUME NEW x \in Sessions, NEW k \in Keys, slot'[x][k].state = "stored"
                 PROVE  <<x, slot'[x][k].acct>> \in users'
      OBVIOUS
    <3>1. CASE x = s(p) /\ k = at[p].key
      <4>1. slot'[x][k] = v
        BY <2>5, <3>1
      <4> QED BY <2>1, <3>1, <4>1
    <3>2. CASE ~(x = s(p) /\ k = at[p].key)
      <4>1. slot'[x][k] = slot[x][k]
        BY <2>5, <3>2
      <4> QED BY <1>1, <4>1
    <3> QED BY <3>1, <3>2
  <2> QED BY <2>4, <2>6 DEF Values
<1> QED BY <1>1, <1>2, <1>3

(* The tables, when only the slot is written.                              *)
LEMMA SlotTables ==
    ASSUME IInv, NEW p \in Procs, NEW st \in {"free", "running"},
           SetSlot(p, [state |-> st, acct |-> 0]),
           UNCHANGED <<session, ev, code, core, users, answers, card, bounds>>
    PROVE  Tables' /\ Lasting
<1>1. 0 \in 0..MaxCore
  BY OnboardingAssumption DEF OnboardingAssumption
<1>2. /\ slot' \in [Sessions -> [Keys -> [state : {"free", "running", "stored"}, acct : 0..MaxCore]]]
      /\ \A x \in Sessions, k \in Keys :
            slot'[x][k].state = "stored" => <<x, slot'[x][k].acct>> \in users'
  BY <1>1, SlotWritten
<1> QED BY <1>2 DEF IInv, Tables, TablesTyped, CopiesSound, OneUser, OpenedIsVerified, CardsOnce,
        Lasting, Sound, Backed, HasUser, Exists, session, card, bounds

LEMMA FailsStep ==
    ASSUME IInv, NEW p \in Procs, Fails(p),
           UNCHANGED <<session, ev, code, core, users, answers, card, bounds>>
    PROVE  IInv'
BY SlotTables, Finishes DEF Fails, Free

LEMMA RefuseSubmitStep ==
    ASSUME IInv, NEW p \in Procs, RefuseSubmit(p)
    PROVE  IInv'
BY FailsStep DEF RefuseSubmit

LEMMA ClaimStep ==
    ASSUME IInv, NEW p \in Procs, Claim(p)
    PROVE  IInv'
<1>1. CASE SetSlot(p, [state |-> "running", acct |-> 0]) /\ Goto(p, "resolve")
  <2>1. Tables' /\ Lasting
    BY <1>1, SlotTables DEF Claim
  <2>2. "resolve" \in PlainPcs /\ "resolve" \in SubmitPcs /\ "resolve" \notin Holding
    BY DEF PlainPcs, PCs, OpenedPcs, Holding, Kinds, SubmitPcs
  <2> QED BY <1>1, <2>1, <2>2, GotoOn DEF Claim
<1>2. CASE Goto(p, "slot") /\ UNCHANGED slot
  <2>1. Tables' /\ Lasting
    BY <1>2 DEF Claim, IInv, Tables, TablesTyped, CopiesSound, OneUser, OpenedIsVerified,
       CardsOnce, Lasting, Sound, Backed, HasUser, Exists, session, card, bounds
  <2>2. "slot" \in PlainPcs /\ "slot" \in SubmitPcs /\ "slot" \notin Holding
    BY DEF PlainPcs, PCs, OpenedPcs, Holding, Kinds, SubmitPcs
  <2> QED BY <1>2, <2>1, <2>2, GotoOn DEF Claim
<1> QED BY <1>1, <1>2 DEF Claim

LEMMA ReadSlotStep ==
    ASSUME IInv, NEW p \in Procs, ReadSlot(p)
    PROVE  IInv'
<1>1. SlotOf(p).state = "stored" => <<s(p), SlotOf(p).acct>> \in users
  BY RequestNow DEF SlotOf, IInv, Tables, OneUser, Free
<1>2. answers' \subseteq users'
  BY <1>1 DEF ReadSlot, IInv, Tables, OneUser
<1>3. Tables' /\ Lasting
  BY <1>2 DEF ReadSlot, IInv, Tables, TablesTyped, CopiesSound, OneUser, OpenedIsVerified,
     CardsOnce, Lasting, Sound, Backed, HasUser, Exists, session, card, bounds
<1> QED BY <1>3, Finishes DEF ReadSlot

LEMMA CreateAccountStep ==
    ASSUME IInv, NEW p \in Procs, CreateAccount(p)
    PROVE  IInv'
<1>1. core \in 0..MaxCore /\ core < MaxCore /\ core' = core + 1 /\ MaxCore \in Nat
  BY OnboardingAssumption DEF CreateAccount, IInv, Tables, TablesTyped, OnboardingAssumption
<1>2. core' \in 1..MaxCore /\ core' \in 0..MaxCore
  BY <1>1
<1>3. Tables' /\ Lasting
  BY <1>2 DEF CreateAccount, IInv, Tables, TablesTyped, CopiesSound, OneUser, OpenedIsVerified,
     CardsOnce, Lasting, Sound, Backed, HasUser, Exists, session, card, bounds
<1>4. at[p] \in Requests /\ at \in [Procs -> Requests] /\ at[p].pc = "submit" /\ Knows(p)
  BY DEF CreateAccount, IInv
<1>5. /\ at' \in [Procs -> Requests] /\ at'[p].pc = "provision" /\ at'[p].kind = at[p].kind
      /\ at'[p].acct = core' /\ s(p)' = s(p) /\ ses(p)' = ses(p)
      /\ \A q \in Procs : q # p => at'[q] = at[q]
  BY <1>2, <1>4 DEF CreateAccount, Requests, PCs, s, ses
<1>6. Sound(ses(p), s(p))'
  BY <1>3, <1>5, RequestNow, SoundLasts DEF Sound, Backed, HasUser, s, ses
<1>7. Verified \subseteq ev'[s(p)]
  BY <1>5, <1>6 DEF CreateAccount, MayOpen, Required, Sound, Backed, ses, s
<1>8. "video" \in ev'[s(p)]
  BY <1>7 DEF Verified
<1>9. Knows(p)'
  BY <1>2, <1>4, <1>5, <1>6, <1>7, <1>8 DEF Knows, OpenedPcs, Holding, Kinds, SubmitPcs, Verified, s
<1> QED BY <1>3, <1>5, <1>9, Keeps DEF CreateAccount

(* A submit past the provisioning, at a place that asks for no more.       *)
LEMMA OpenedOn ==
    ASSUME IInv, Tables', Lasting, UNCHANGED card, NEW p \in Procs,
           at[p].pc \notin {"idle", "result"}, NEW pc \in {"complete", "store", "issue", "answer"},
           NEW held \in Anything, Hold(p, pc, held), SoundNext(held, s(p)),
           <<s(p), at[p].acct>> \in users'
    PROVE  IInv'
<1>1. pc \in PCs /\ pc \notin Holding /\ pc \in SubmitPcs
  BY DEF PCs, Holding, Kinds, SubmitPcs
<1>2. /\ at' \in [Procs -> Requests] /\ at'[p].acct = at[p].acct
      /\ at'[p].pc = pc /\ at'[p].kind = at[p].kind /\ s(p)' = s(p) /\ ses(p)' = held
      /\ \A q \in Procs : q # p => at'[q] = at[q]
  BY <1>1, HoldMoves DEF IInv
<1>3. Sound(ses(p), s(p))'
  BY <1>2 DEF SoundNext, Sound, Backed, HasUser, s, ses
<1>4. at[p].kind # "none" /\ (at[p].kind = "video" => "video" \in ev'[s(p)])
  BY RequestNow DEF IInv, Knows, Lasting
<1>5. Knows(p)'
  BY <1>1, <1>2, <1>3, <1>4 DEF Knows, s
<1> QED BY <1>2, <1>5, Keeps

LEMMA ProvisionStep ==
    ASSUME IInv, NEW p \in Procs, ProvisionAccount(p)
    PROVE  IInv'
<1>1. /\ s(p) \in Sessions /\ at[p].acct \in 1..MaxCore /\ Verified \subseteq ev[s(p)]
      /\ at[p].pc = "provision" /\ ses(p) \in Anything
  BY RequestNow DEF IInv, Knows, ProvisionAccount
<1>2. CASE users # {} /\ Fails(p) /\ UNCHANGED users
  BY <1>2, FailsStep DEF ProvisionAccount
<1>3. CASE users = {} /\ users' = {<<s(p), at[p].acct>>}
  <2>1. slot' \in [Sessions -> [Keys -> [state : {"free", "running", "stored"}, acct : 0..MaxCore]]]
        /\ \A x \in Sessions, k \in Keys :
              slot'[x][k].state = "stored" => <<x, slot'[x][k].acct>> \in users'
    <3>1. CASE UNCHANGED slot
      BY <1>3, <3>1 DEF IInv, Tables, TablesTyped, OneUser
    <3>2. CASE Fails(p)
      <4>1. SetSlot(p, [state |-> "free", acct |-> 0]) /\ 0 \in 0..MaxCore
        BY <3>2, OnboardingAssumption DEF Fails, Free, OnboardingAssumption
      <4> QED BY <1>3, <4>1, SlotWritten
    <3> QED BY <1>3, <3>1, <3>2 DEF ProvisionAccount
  <2>2. TablesTyped'
    BY <1>1, <1>3, <2>1 DEF ProvisionAccount, IInv, Tables, TablesTyped, Exists, session, card, bounds
  <2>3. Lasting
    BY <1>3 DEF Lasting, ProvisionAccount
  <2>4. CopiesSound'
    BY <1>3 DEF ProvisionAccount, IInv, Tables, CopiesSound, Sound, Backed, HasUser, session
  <2>5. OneUser'
    BY <1>3, <2>1 DEF ProvisionAccount, IInv, Tables, OneUser
  <2>6. OpenedIsVerified'
    BY <1>1, <1>3 DEF ProvisionAccount, OpenedIsVerified
  <2>7. CardsOnce'
    BY <1>3 DEF ProvisionAccount, IInv, Tables, CardsOnce, HasUser, card
  <2>8. Tables' /\ UNCHANGED card
    BY <2>2, <2>4, <2>5, <2>6, <2>7 DEF Tables, ProvisionAccount
  <2>9. CASE Goto(p, "complete")
    <3>1. Hold(p, "complete", ses(p))
      BY <2>9 DEF Goto, Hold, ses, IInv, Requests
    <3> QED BY <1>1, <1>3, <2>3, <2>8, <3>1, SoundCopy, OpenedOn
  <2>10. CASE Fails(p)
    BY <2>3, <2>8, <2>10, Finishes DEF Fails
  <2> QED BY <1>3, <2>9, <2>10 DEF ProvisionAccount
<1> QED BY <1>2, <1>3 DEF ProvisionAccount

LEMMA CompleteStep ==
    ASSUME IInv, NEW p \in Procs, Complete(p)
    PROVE  IInv'
<1> DEFINE new == Moved(ses(p), "COMPLETED", "submitted")
<1>1. /\ s(p) \in Sessions /\ ses(p) \in Anything /\ Sound(ses(p), s(p))
      /\ at[p].pc = "complete" /\ <<s(p), at[p].acct>> \in users
  BY RequestNow DEF IInv, Knows, OpenedPcs, Complete
<1>2. CASE Fails(p) /\ UNCHANGED row
  BY <1>2, FailsStep DEF Complete, session
<1>3. CASE /\ s(p) \in live
           /\ row' = [row EXCEPT ![s(p)].step = new.step, ![s(p)].done = new.done]
           /\ Hold(p, "store", new)
           /\ UNCHANGED slot
  <2>1. new \in SessionRecord /\ new.done = ses(p).done \cup {"submitted"}
    BY <1>1, MovedCopy DEF Steps, Flags
  <2>2. HasUser(s(p))
    BY <1>1 DEF HasUser
  <2>3. Sound(new, s(p)) /\ new \in Anything
    BY <1>1, <2>1, <2>2, StepsNamed DEF Sound, Backed
  <2> DEFINE written == [row[s(p)] EXCEPT !.step = new.step, !.done = new.done]
  <2> HIDE DEF new
  <2>4. row \in [Sessions -> Anything] /\ row[s(p)] \in SessionRecord
    BY <1>1, <1>3 DEF IInv, Tables, TablesTyped, Exists, Anything
  <2>5. written \in SessionRecord /\ written.done = new.done
    BY <2>1, <2>4 DEF SessionRecord
  <2>6. row' = [row EXCEPT ![s(p)] = written] /\ Sound(written, s(p))
    BY <1>1, <1>3, <2>3, <2>4, <2>5 DEF Sound, Backed
  <2> HIDE DEF written
  <2>7. Tables' /\ Lasting
    BY <1>1, <1>3, <2>5, <2>6, RowWritten DEF Complete, opening
  <2>8. SoundNext(new, s(p)) /\ <<s(p), at[p].acct>> \in users'
    BY <1>1, <2>3, <2>7, SoundLasts DEF SoundNext, Lasting
  <2> QED BY <1>1, <1>3, <2>3, <2>7, <2>8, OpenedOn DEF Complete
<1> QED BY <1>2, <1>3 DEF Complete

LEMMA ClaimIssuanceStep ==
    ASSUME IInv, NEW p \in Procs, ClaimIssuance(p)
    PROVE  IInv'
<1>1. /\ s(p) \in Sessions /\ at[p].pc = "issue" /\ <<s(p), at[p].acct>> \in users
  BY RequestNow DEF IInv, Knows, OpenedPcs, ClaimIssuance
<1>2. CASE Goto(p, "answer") /\ UNCHANGED issue
  <2>1. Tables' /\ Lasting /\ UNCHANGED card
    BY <1>2, QuietTables, BoundsNow DEF ClaimIssuance, card, bounds
  <2>2. Hold(p, "answer", ses(p)) /\ <<s(p), at[p].acct>> \in users'
    BY <1>1, <1>2, <2>1 DEF Goto, Hold, ses, IInv, Requests, Lasting
  <2> QED BY <1>1, <2>1, <2>2, SoundCopy, OpenedOn
<1>3. CASE issue[s(p)] = "NONE" /\ issue' = [issue EXCEPT ![s(p)] = "REQUESTED"] /\ Goto(p, "print")
  <2>1. /\ issue' \in [Sessions -> {"NONE", "REQUESTED", "PRINTED", "FAILED"}]
        /\ issue'[s(p)] = "REQUESTED" /\ \A x \in Sessions \ {s(p)} : issue'[x] = issue[x]
    BY <1>1, <1>3 DEF IInv, Tables, TablesTyped
  <2>2. TablesTyped'
    BY <2>1 DEF ClaimIssuance, IInv, Tables, TablesTyped, Exists, session, opening, bounds
  <2>3. CardsOnce'
    BY <2>1 DEF ClaimIssuance, IInv, Tables, CardsOnce, HasUser, opening
  <2>4. CopiesSound' /\ OneUser' /\ OpenedIsVerified' /\ Lasting
    BY DEF ClaimIssuance, IInv, Tables, CopiesSound, OneUser, OpenedIsVerified, Lasting, Sound,
       Backed, HasUser, session, opening
  <2>6. "print" \in PCs
    BY DEF PCs
  <2>7. /\ at' \in [Procs -> Requests] /\ at'[p].acct = at[p].acct
        /\ at'[p].pc = "print" /\ at'[p].kind = at[p].kind /\ s(p)' = s(p) /\ ses(p)' = ses(p)
        /\ \A q \in Procs : q # p => at'[q] = at[q]
    BY <1>3, <2>6, GotoMoves DEF IInv
  <2>8. Sound(ses(p), s(p))'
    BY <2>4, <2>7, RequestNow, SoundLasts DEF Sound, Backed, HasUser, s, ses
  <2>9. prints'[s(p)] = 0
    BY <1>1, <1>3 DEF ClaimIssuance, IInv, Tables, CardsOnce
  <2>10. at[p].kind # "none" /\ (at[p].kind = "video" => "video" \in ev'[s(p)])
    BY <1>1, <2>4 DEF IInv, Knows, Lasting
  <2>11. <<s(p), at[p].acct>> \in users' /\ issue'[s(p)] # "NONE"
    BY <1>1, <2>1, <2>4 DEF Lasting
  <2>12. Knows(p)'
    BY <2>7, <2>8, <2>9, <2>10, <2>11 DEF Knows, SubmitPcs, Holding, Kinds, s
  <2>13. \A q \in Procs : at[q].pc = "print" => s(q) # s(p) /\ s(q) \in Sessions
    BY <1>3, RequestNow DEF IInv, Knows
  <2>14. \A q \in Procs : q # p => Knows(q)'
    <3> SUFFICES ASSUME NEW q \in Procs, q # p PROVE Knows(q)'
      OBVIOUS
    <3>1. at[q].pc = "print" => issue'[s(q)] # "NONE" /\ prints'[s(q)] = 0
      BY <2>1, <2>13 DEF ClaimIssuance, IInv, Knows
    <3> QED BY <2>4, <2>7, <3>1, OthersKeep
  <2>15. OnePrinter'
    BY <2>7, <2>13 DEF IInv, OnePrinter, s
  <2> QED BY <2>2, <2>3, <2>4, <2>7, <2>12, <2>14, <2>15 DEF IInv, Tables
<1> QED BY <1>2, <1>3 DEF ClaimIssuance

LEMMA IssueStep ==
    ASSUME IInv, NEW p \in Procs, IssueCard(p)
    PROVE  IInv'
<1>1. /\ s(p) \in Sessions /\ at[p].pc = "print" /\ <<s(p), at[p].acct>> \in users
      /\ issue[s(p)] # "NONE" /\ prints[s(p)] = 0 /\ ses(p) \in Anything
  BY RequestNow DEF IInv, Knows, OpenedPcs, IssueCard
<1>2. at[p].acct \in 1..MaxCore /\ MaxCore \in Nat
  BY <1>1, OnboardingAssumption DEF IInv, Tables, TablesTyped, OnboardingAssumption
<1>3. 1 \in 0..MaxCore
  BY <1>2
<1>4. /\ prints' \in [Sessions -> 0..MaxCore] /\ prints'[s(p)] = 1
      /\ \A x \in Sessions \ {s(p)} : prints'[x] = prints[x]
  <2>1. prints' = [prints EXCEPT ![s(p)] = 1]
    BY <1>1 DEF IssueCard, IInv, Tables, TablesTyped
  <2> QED BY <1>1, <1>3, <2>1 DEF IInv, Tables, TablesTyped
<1>5. /\ issue' \in [Sessions -> {"NONE", "REQUESTED", "PRINTED", "FAILED"}]
      /\ issue'[s(p)] # "NONE" /\ \A x \in Sessions \ {s(p)} : issue'[x] = issue[x]
  BY <1>1 DEF IssueCard, IInv, Tables, TablesTyped
<1>6. TablesTyped'
  BY <1>4, <1>5 DEF IssueCard, IInv, Tables, TablesTyped, Exists, session, opening, bounds
<1>7. HasUser(s(p))
  BY <1>1 DEF HasUser
<1>8. CardsOnce'
  BY <1>1, <1>4, <1>5, <1>7 DEF IssueCard, IInv, Tables, CardsOnce, HasUser, opening
<1>9. CopiesSound' /\ OneUser' /\ OpenedIsVerified' /\ Lasting
  BY DEF IssueCard, IInv, Tables, CopiesSound, OneUser, OpenedIsVerified, Lasting, Sound,
     Backed, HasUser, session, opening
<1>10. "answer" \in PCs /\ "answer" \in SubmitPcs /\ "answer" \notin Holding
  BY DEF PCs, SubmitPcs, Holding, Kinds
<1>11. /\ at' \in [Procs -> Requests] /\ at'[p].acct = at[p].acct
       /\ at'[p].pc = "answer" /\ at'[p].kind = at[p].kind /\ s(p)' = s(p) /\ ses(p)' = ses(p)
       /\ \A q \in Procs : q # p => at'[q] = at[q]
  BY <1>10, GotoMoves DEF IInv, IssueCard
<1>12. Sound(ses(p), s(p))'
  BY <1>9, <1>11, RequestNow, SoundLasts DEF Sound, Backed, HasUser, s, ses
<1>13. /\ at[p].kind # "none"
       /\ at[p].kind = "video" => "video" \in ev'[s(p)]
       /\ <<s(p), at[p].acct>> \in users'
  BY <1>1, <1>9 DEF IInv, Knows, Lasting
<1>14. Knows(p)'
  BY <1>10, <1>11, <1>12, <1>13 DEF Knows, s
<1>15. \A q \in Procs : q # p /\ at[q].pc = "print" => s(q) # s(p) /\ s(q) \in Sessions
  BY <1>1, RequestNow DEF IInv, OnePrinter
<1>16. \A q \in Procs : q # p => Knows(q)'
  <2> SUFFICES ASSUME NEW q \in Procs, q # p PROVE Knows(q)'
    OBVIOUS
  <2>1. at[q].pc = "print" => issue'[s(q)] # "NONE" /\ prints'[s(q)] = 0
    BY <1>4, <1>5, <1>15 DEF IInv, Knows
  <2> QED BY <1>9, <1>11, <2>1, OthersKeep
<1>17. OnePrinter'
  BY <1>11 DEF IInv, OnePrinter, s
<1> QED BY <1>6, <1>8, <1>9, <1>11, <1>14, <1>16, <1>17 DEF IInv, Tables

LEMMA AnswerStep ==
    ASSUME IInv, NEW p \in Procs, Answer(p)
    PROVE  IInv'
<1>1. /\ s(p) \in Sessions /\ <<s(p), at[p].acct>> \in users /\ at[p].acct \in 0..MaxCore
  BY RequestNow DEF IInv, Knows, OpenedPcs, Answer
<1>2. /\ slot' \in [Sessions -> [Keys -> [state : {"free", "running", "stored"}, acct : 0..MaxCore]]]
      /\ \A x \in Sessions, k \in Keys :
            slot'[x][k].state = "stored" => <<x, slot'[x][k].acct>> \in users'
  <2>1. CASE UNCHANGED slot
    BY <2>1 DEF Answer, IInv, Tables, TablesTyped, OneUser
  <2>2. CASE SetSlot(p, [state |-> "stored", acct |-> at[p].acct])
    BY <1>1, <2>2, SlotWritten DEF Answer
  <2> QED BY <2>1, <2>2 DEF Answer
<1>3. TablesTyped'
  BY <1>2 DEF Answer, IInv, Tables, TablesTyped, Exists, session, card, bounds
<1>4. OneUser'
  BY <1>1, <1>2 DEF Answer, IInv, Tables, OneUser
<1>5. CopiesSound' /\ OpenedIsVerified' /\ CardsOnce' /\ Lasting
  BY DEF Answer, IInv, Tables, CopiesSound, OpenedIsVerified, CardsOnce, Lasting, Sound,
     Backed, HasUser, session, card
<1>6. Tables'
  BY <1>3, <1>4, <1>5 DEF Tables
<1> QED BY <1>5, <1>6, Finishes DEF Answer

LEMMA SlotExpiresStep ==
    ASSUME IInv, NEW x \in Sessions, NEW k \in Keys, SlotExpires(x, k)
    PROVE  IInv'
<1>1. 0 \in 0..MaxCore /\ Free.state = "free"
      /\ Free \in [state : {"free", "running", "stored"}, acct : 0..MaxCore]
  BY OnboardingAssumption DEF OnboardingAssumption, Free
<1>2. slot' \in [Sessions -> [Keys -> [state : {"free", "running", "stored"}, acct : 0..MaxCore]]]
  BY <1>1 DEF SlotExpires, IInv, Tables, TablesTyped
<1>3. \A y \in Sessions, j \in Keys : slot'[y][j] = Free \/ slot'[y][j] = slot[y][j]
  BY DEF SlotExpires, IInv, Tables, TablesTyped
<1>4. OneUser'
  BY <1>1, <1>3 DEF SlotExpires, IInv, Tables, OneUser
<1>5. Tables' /\ Lasting
  BY <1>2, <1>4 DEF SlotExpires, IInv, Tables, TablesTyped, CopiesSound, OpenedIsVerified,
     CardsOnce, Lasting, Sound, Backed, HasUser, Exists, session, card, bounds
<1>6. \A q \in Procs : Knows(q)'
  BY <1>5, OthersKeep DEF SlotExpires, IInv, Knows, card
<1> QED BY <1>5, <1>6 DEF SlotExpires, IInv, OnePrinter, s

-----------------------------------------------------------------------------
LEMMA NextKeeps ==
    ASSUME IInv, [Next]_vars
    PROVE  IInv'
<1>1. CASE UNCHANGED vars
  <2> USE <1>1 DEF vars, session, opening, card, bounds
  <2>1. TablesTyped'
    BY DEF IInv, Tables, TablesTyped, Exists
  <2>2. CopiesSound'
    BY DEF IInv, Tables, CopiesSound, Sound, Backed, HasUser, Exists
  <2>3. OneUser' /\ OpenedIsVerified' /\ CardsOnce'
    BY DEF IInv, Tables, OneUser, OpenedIsVerified, CardsOnce, HasUser
  <2>4. Lasting
    BY DEF Lasting, Exists, HasUser
  <2>5. \A q \in Procs : Knows(q)'
    BY <2>4, OthersKeep DEF IInv, Knows
  <2>6. OnePrinter'
    BY DEF IInv, OnePrinter, s
  <2> QED BY <2>1, <2>2, <2>3, <2>5, <2>6 DEF IInv, Tables
<1>2. CASE \E p \in Procs : Handle(p) \/ Abort(p)
  <2>1. PICK p \in Procs : Handle(p) \/ Abort(p)
    BY <1>2
  <2> QED BY <2>1, AbortStep, CountStep, CreateStep, ResolveStep, StoreStep, UpdateStepStep,
       CancelSteps, RefuseSteps, VerifySteps, PersonalDataStep, EscalateStep, CallSteps,
       CredentialsStep, CardStep, ClaimStep, ReadSlotStep, RefuseSubmitStep, CreateAccountStep,
       ProvisionStep,
       CompleteStep, ClaimIssuanceStep, IssueStep, AnswerStep DEF Handle
<1>3. CASE \E p \in Procs, kind \in Kinds, x \in Sessions, k \in Keys \cup {NoKey} :
              Start(p, kind, x, k)
  BY <1>3, StartStep
<1>4. CASE \E x \in Sessions, k \in Keys : SlotExpires(x, k)
  BY <1>4, SlotExpiresStep
<1>5. CASE \E x \in Sessions : Evict(x)
  BY <1>5, EvictStep
<1> QED BY <1>1, <1>2, <1>3, <1>4, <1>5 DEF Next

(* In every reachable state: what the session, the cache and the requests  *)
(* say is true, one user at most, every answer and every stored slot names *)
(* that user, and a session's card is asked for by one request, once.      *)
THEOREM Invariance == Spec => []IInv
<1>1. IInv /\ [Next]_vars => IInv'
  BY NextKeeps
<1> QED BY InitHolds, <1>1, PTL DEF Spec

(* The tables and the requests keep their types under every interleaving.  *)
THEOREM TypeCorrect == Spec => []TypeOK
<1>1. IInv => TypeOK
  <2> SUFFICES ASSUME IInv PROVE TypeOK
    OBVIOUS
  <2>1. answers \subseteq Sessions \X (1..MaxCore)
    BY DEF IInv, Tables, TablesTyped, OneUser
  <2> QED BY <2>1 DEF IInv, Tables, TablesTyped, TypeOK, Requests
<1> QED BY <1>1, Invariance, PTL

(* A flag never says more than what is on record.                          *)
THEOREM FlagsBacked == Spec => []FlagsAreBacked
<1>1. IInv => FlagsAreBacked
  BY DEF IInv, Tables, CopiesSound, Knows, Sound, FlagsAreBacked
<1> QED BY <1>1, Invariance, PTL

(* Nobody becomes a user without every verification on record, whatever    *)
(* the services of the session wrote over one another.                     *)
THEOREM OpenedVerified == Spec => []OpenedIsVerified
<1>1. IInv => OpenedIsVerified
  BY DEF IInv, Tables
<1> QED BY <1>1, Invariance, PTL

(* Submit opens one account, answers with it alone and asks for one card,  *)
(* with any number of submits, keys and aborted requests.                  *)
THEOREM OpenedOnceEver == Spec => []OpenedOnce
<1>1. IInv => OpenedOnce
  <2> SUFFICES ASSUME IInv PROVE OpenedOnce
    OBVIOUS
  <2>1. Cardinality(users) <= 1
    <3>1. CASE users = {}
      BY <3>1, FS_EmptySet
    <3>2. CASE \E u \in users : users = {u}
      BY <3>2, FS_Singleton
    <3> QED BY <3>1, <3>2 DEF IInv, Tables, OneUser
  <2> QED BY <2>1 DEF IInv, Tables, OneUser, CardsOnce, OpenedOnce
<1> QED BY <1>1, Invariance, PTL

(* A session that says it was submitted has its user.                      *)
THEOREM SubmittedOpened == Spec => []SubmittedIsOpened
<1>1. IInv => SubmittedIsOpened
  BY DEF IInv, Tables, CopiesSound, Sound, SubmittedIsOpened
<1> QED BY <1>1, Invariance, PTL
-----------------------------------------------------------------------------
(* The order of the verifications. A copy of a session may be old and its  *)
(* step as well, but the step is one for which what comes before it is on  *)
(* record, and stays so.                                                   *)
Ready(held, proven) ==
    /\ held.step = "PERSONAL_DATA" => "ocr" \in proven
    /\ held.step = "OTP_VERIFY" => "data" \in proven
    /\ held.step \in {"BIOMETRIC", "VIDEO_CALL"} => "otp" \in proven
    /\ held.step = "CREDENTIALS" => "video" \in proven

TablesOrder ==
    \A x \in Sessions : /\ Ready(row[x], ev[x])
                        /\ Ready(cached[x], ev[x])
                        /\ x \in code => "data" \in ev[x]

OrderOf(p) ==
    /\ Ready(ses(p), ev[s(p)])
    /\ at[p].kind \in {"video", "escalate"} => "otp" \in ev[s(p)]
    /\ at[p].pc = "escalate" => at[p].kind = "escalate"
    /\ at[p].pc = "result" => at[p].kind = "video"
    /\ at[p].pc = "provision" => at[p].acct \in 1..core

InOrder == TablesOrder /\ \A p \in Procs : OrderOf(p)

RInv == IInv /\ InOrder

(* Records and accounts are only added.                                    *)
Grows ==
    /\ \A x \in Sessions : ev[x] \subseteq ev'[x]
    /\ core \in Nat /\ core' \in Nat /\ core <= core'

LEMMA CoreNat == IInv => core \in Nat
BY OnboardingAssumption DEF IInv, Tables, TablesTyped, OnboardingAssumption

LEMMA InitOrder == Init => InOrder
BY NoSessionSays, IdleTyped DEF Init, InOrder, TablesOrder, OrderOf, Ready, ses, s

LEMMA StillGrows == IInv /\ UNCHANGED <<ev, core>> => Grows
BY CoreNat DEF Grows

LEMMA OrderKeeps ==
    ASSUME RInv, NEW p \in Procs, Grows, TablesOrder', OrderOf(p)',
           \A q \in Procs : q # p => at'[q] = at[q]
    PROVE  InOrder'
<1> SUFFICES ASSUME NEW q \in Procs, q # p PROVE OrderOf(q)'
  BY DEF InOrder
<1>1. OrderOf(q) /\ at'[q] = at[q] /\ s(q) \in Sessions
  BY RequestNow DEF RInv, InOrder
<1>2. ev[s(q)] \subseteq ev'[s(q)] /\ (1..core) \subseteq 1..core'
  BY <1>1 DEF Grows
<1> QED BY <1>1, <1>2 DEF OrderOf, Ready, s, ses

LEMMA TablesKeep ==
    ASSUME RInv, Grows, UNCHANGED <<row, cached, code>>
    PROVE  TablesOrder'
BY DEF RInv, InOrder, TablesOrder, Grows, Ready

(* A request that ends, or goes on with a copy that is ready.              *)
LEMMA FinishOrder ==
    ASSUME RInv, NEW p \in Procs, Finish(p), Grows, TablesOrder'
    PROVE  InOrder'
<1>1. at'[p] = Idle /\ \A q \in Procs : q # p => at'[q] = at[q]
  BY DEF RInv, IInv, Finish
<1>2. OrderOf(p)'
  BY <1>1, IdleTyped, NoSessionSays DEF OrderOf, Ready, ses, s
<1> QED BY <1>1, <1>2, OrderKeeps

LEMMA MoveOrder ==
    ASSUME RInv, NEW p \in Procs, NEW pc \in PCs \ {"provision"}, Grows, TablesOrder',
           at'[p].pc = pc, at'[p].kind = at[p].kind, s(p)' = s(p),
           \A q \in Procs : q # p => at'[q] = at[q],
           Ready(ses(p)', ev'[s(p)]),
           pc = "escalate" => at[p].kind = "escalate",
           pc = "result" => at[p].kind = "video"
    PROVE  InOrder'
<1>1. OrderOf(p) /\ s(p) \in Sessions
  BY RequestNow DEF RInv, InOrder
<1>2. OrderOf(p)'
  BY <1>1 DEF OrderOf, Grows
<1> QED BY <1>2, OrderKeeps

LEMMA HoldOrder ==
    ASSUME RInv, NEW p \in Procs, NEW pc \in PCs \ {"provision"}, NEW held \in Anything,
           Hold(p, pc, held), Grows, TablesOrder', Ready(held, ev'[s(p)]),
           pc = "escalate" => at[p].kind = "escalate",
           pc = "result" => at[p].kind = "video"
    PROVE  InOrder'
<1>1. /\ at'[p].pc = pc /\ at'[p].kind = at[p].kind /\ s(p)' = s(p) /\ ses(p)' = held
      /\ \A q \in Procs : q # p => at'[q] = at[q]
  BY HoldMoves DEF RInv, IInv
<1> QED BY <1>1, MoveOrder

LEMMA ReadyLasts ==
    ASSUME RInv, NEW p \in Procs, Grows
    PROVE  Ready(ses(p), ev'[s(p)])
<1>1. Ready(ses(p), ev[s(p)]) /\ s(p) \in Sessions
  BY RequestNow DEF RInv, InOrder, OrderOf
<1> QED BY <1>1 DEF Ready, Grows

LEMMA GotoOrder ==
    ASSUME RInv, NEW p \in Procs, NEW pc \in PCs \ {"provision"}, Goto(p, pc),
           Grows, TablesOrder',
           pc = "escalate" => at[p].kind = "escalate",
           pc = "result" => at[p].kind = "video"
    PROVE  InOrder'
<1>1. /\ at'[p].pc = pc /\ at'[p].kind = at[p].kind /\ s(p)' = s(p) /\ ses(p)' = ses(p)
      /\ \A q \in Procs : q # p => at'[q] = at[q]
  BY GotoMoves DEF RInv, IInv
<1> QED BY <1>1, ReadyLasts, MoveOrder

(* Where a request goes on from the reading of its session.                *)
LEMMA KindGoes ==
    ASSUME RInv, NEW p \in Procs, at[p].pc \in {"resolve", "backfill"}
    PROVE  /\ at[p].kind \in PCs \ {"provision", "result"}
           /\ at[p].kind = "escalate" => at[p].kind = "escalate"
<1>1. at[p].kind \in Kinds \cup {"escalate"}
  BY RequestNow DEF RInv, IInv, Knows
<1> QED BY <1>1 DEF PCs, Kinds

-----------------------------------------------------------------------------
(* What each statement is to AccountOpening.                               *)
Hidden == UNCHANGED <<ev, core, users, prints, answers>>

LEMMA HiddenStutters == Hidden => UNCHANGED Abstract!vars
BY DEF Hidden, Abstract!vars

LEMMA HiddenKeeps ==
    ASSUME RInv, Hidden PROVE Grows
BY StillGrows DEF RInv, Hidden

(* Statements that change neither the tables nor what AccountOpening sees. *)
LEMMA ReadingSteps ==
    ASSUME RInv, NEW p \in Procs,
           \/ CountActiveByDevice(p) \/ Resolve(p) \/ SoftDelete(p) \/ Refuse(p)
           \/ RefuseVerdict(p) \/ EscalateToVideoCall(p) \/ PassVideoCall(p)
           \/ RefuseSubmit(p) \/ Claim(p) \/ ClaimIssuance(p) \/ Abort(p)
    PROVE  InOrder' /\ Hidden
<1>0. Hidden /\ UNCHANGED <<row, cached, code>>
  BY DEF Hidden, session, opening, card, CountActiveByDevice, Resolve, SoftDelete, Refuse,
         RefuseVerdict, EscalateToVideoCall, PassVideoCall, RefuseSubmit, Claim, ClaimIssuance, Abort
<1>1. Grows /\ TablesOrder' /\ s(p) \in Sessions /\ ses(p) \in Anything /\ OrderOf(p) /\ IInv
      /\ ev' = ev
  BY <1>0, HiddenKeeps, TablesKeep, RequestNow DEF RInv, InOrder, Hidden
<1>2. CASE CountActiveByDevice(p) \/ SoftDelete(p) \/ Refuse(p) \/ RefuseSubmit(p)
           \/ Claim(p) \/ ClaimIssuance(p) \/ Abort(p)
  <2>1. \/ Finish(p)
        \/ \E pc \in {"insert", "uncache", "resolve", "slot", "print", "answer"} : Goto(p, pc)
    BY <1>2 DEF CountActiveByDevice, SoftDelete, Refuse, RefuseSubmit, Fails, Claim, ClaimIssuance,
       Abort
  <2> QED BY <1>0, <1>1, <2>1, FinishOrder, GotoOrder DEF PCs
<1>3. CASE Resolve(p)
  <2>1. /\ cached[s(p)] \in Anything /\ row[s(p)] \in Anything
        /\ Ready(cached[s(p)], ev'[s(p)]) /\ Ready(row[s(p)], ev'[s(p)])
    BY <1>1 DEF RInv, InOrder, TablesOrder, IInv, Tables, TablesTyped
  <2>2. \/ Hold(p, at[p].kind, cached[s(p)]) \/ Hold(p, "backfill", row[s(p)])
    BY <1>3 DEF Resolve
  <2>3. at[p].kind \in PCs \ {"provision", "result"}
    BY <1>3, KindGoes DEF Resolve
  <2> QED BY <1>0, <1>1, <2>1, <2>2, <2>3, HoldOrder DEF PCs
<1>4. CASE RefuseVerdict(p)
  <2>1. at' = [at EXCEPT ![p].pc = "resolve", ![p].kind = "escalate"] /\ "otp" \in ev[s(p)]
    BY <1>1, <1>4 DEF RefuseVerdict, OrderOf, Ready
  <2>2. /\ at'[p].pc = "resolve" /\ at'[p].kind = "escalate" /\ s(p)' = s(p) /\ ses(p)' = ses(p)
        /\ \A q \in Procs : q # p => at'[q] = at[q]
    BY <2>1 DEF RInv, IInv, Requests, s, ses
  <2>3. OrderOf(p)'
    BY <1>1, <2>1, <2>2 DEF OrderOf, Ready
  <2> QED BY <1>0, <1>1, <2>2, <2>3, OrderKeeps
<1>5. CASE EscalateToVideoCall(p)
  <2> DEFINE held == [ses(p) EXCEPT !.step = "VIDEO_CALL"]
  <2>1. held \in Anything /\ held.step = "VIDEO_CALL" /\ Hold(p, "advance", held)
    BY <1>1, <1>5 DEF EscalateToVideoCall, Anything, SessionRecord, NoSession, Steps
  <2>2. "otp" \in ev'[s(p)]
    BY <1>1, <1>5 DEF EscalateToVideoCall, OrderOf
  <2> HIDE DEF held
  <2>3. Ready(held, ev'[s(p)])
    BY <2>1, <2>2 DEF Ready
  <2> QED BY <1>0, <1>1, <2>1, <2>3, HoldOrder DEF PCs
<1>6. CASE PassVideoCall(p)
  <2>1. CASE Finish(p)
    BY <1>0, <1>1, <2>1, FinishOrder
  <2>2. CASE Advance(p, "CREDENTIALS", "video")
    <3> DEFINE held == Moved(ses(p), "CREDENTIALS", "video")
    <3>1. held \in Anything /\ held.step = "CREDENTIALS" /\ Hold(p, "advance", held)
      BY <1>1, <2>2, MovedCopy DEF Advance, Steps, Flags, Verified, Anything
    <3>2. "video" \in ev'[s(p)]
      BY <1>1, <1>6 DEF PassVideoCall, IInv, Knows
    <3> HIDE DEF held
    <3>3. Ready(held, ev'[s(p)])
      BY <3>1, <3>2 DEF Ready
    <3> QED BY <1>0, <1>1, <3>1, <3>3, HoldOrder DEF PCs
  <2> QED BY <1>6, <2>1, <2>2 DEF PassVideoCall
<1> QED BY <1>0, <1>2, <1>3, <1>4, <1>5, <1>6

(* Statements that write the session or its copy in Redis.                 *)
LEMMA RowOrder ==
    ASSUME RInv, NEW x \in Sessions, NEW held, row' = [row EXCEPT ![x] = held],
           Grows, UNCHANGED <<cached, code>>, Ready(held, ev'[x])
    PROVE  TablesOrder'
BY DEF RInv, IInv, Tables, TablesTyped, InOrder, TablesOrder, Grows, Ready

LEMMA CachedOrder ==
    ASSUME RInv, NEW x \in Sessions, NEW held, cached' = [cached EXCEPT ![x] = held],
           Grows, UNCHANGED <<row, code>>, Ready(held, ev'[x])
    PROVE  TablesOrder'
BY DEF RInv, IInv, Tables, TablesTyped, InOrder, TablesOrder, Grows, Ready

LEMMA WritingSteps ==
    ASSUME RInv, NEW p \in Procs,
           \/ CreateSession(p) \/ Store(p) \/ UpdateStep(p) \/ Uncache(p) \/ SetCard(p)
           \/ Complete(p)
    PROVE  InOrder' /\ Hidden
<1>0. Hidden /\ UNCHANGED code
  BY DEF Hidden, session, opening, card, CreateSession, Store, UpdateStep, Uncache, SetCard,
         Complete
<1>1. Grows /\ s(p) \in Sessions /\ ses(p) \in Anything /\ OrderOf(p) /\ IInv /\ ev' = ev
      /\ Ready(ses(p), ev'[s(p)])
  BY <1>0, HiddenKeeps, ReadyLasts, RequestNow DEF RInv, InOrder, Hidden
<1>2. CASE CreateSession(p)
  <2>1. CASE Finish(p) /\ UNCHANGED <<row, cached>>
    BY <1>0, <1>1, <2>1, TablesKeep, FinishOrder
  <2>2. CASE \E x \in Sessions, c \in Cards \cup {"NONE"} : \E new \in FirstStep(c) :
                /\ row' = [row EXCEPT ![x] = new] /\ UNCHANGED cached
                /\ at' = [at EXCEPT ![p].pc = "store", ![p].s = x, ![p].ses = new]
    <3>0. PICK x \in Sessions, c \in Cards \cup {"NONE"} : \E new \in FirstStep(c) :
                /\ row' = [row EXCEPT ![x] = new] /\ UNCHANGED cached
                /\ at' = [at EXCEPT ![p].pc = "store", ![p].s = x, ![p].ses = new]
      BY <2>2
    <3>1. PICK new \in FirstStep(c) :
                /\ row' = [row EXCEPT ![x] = new] /\ UNCHANGED cached
                /\ at' = [at EXCEPT ![p].pc = "store", ![p].s = x, ![p].ses = new]
      BY <3>0
    <3>2. new.step \in {"OCR", "CARD_SELECTION"}
      BY DEF FirstStep
    <3>3. Ready(new, ev'[x])
      BY <3>2 DEF Ready
    <3>4. TablesOrder'
      BY <1>0, <1>1, <3>1, <3>3, RowOrder
    <3>5. /\ at'[p].pc = "store" /\ at'[p].kind = at[p].kind /\ s(p)' = x /\ ses(p)' = new
          /\ \A q \in Procs : q # p => at'[q] = at[q]
      BY <3>1 DEF RInv, IInv, Requests, s, ses
    <3>6. at[p].kind = "create"
      BY <1>1, <1>2 DEF CreateSession, IInv, Knows
    <3>7. OrderOf(p)'
      BY <3>3, <3>5, <3>6 DEF OrderOf
    <3> QED BY <1>0, <1>1, <3>4, <3>5, <3>7, OrderKeeps
  <2> QED BY <1>0, <1>2, <2>1, <2>2 DEF CreateSession
<1>3. CASE Store(p)
  <2>1. TablesOrder'
    <3>1. CASE cached' = [cached EXCEPT ![s(p)] = ses(p)]
      BY <1>0, <1>1, <1>3, <3>1, CachedOrder DEF Store
    <3>2. CASE UNCHANGED cached
      BY <1>0, <1>1, <1>3, <3>2, TablesKeep DEF Store
    <3> QED BY <1>3, <3>1, <3>2 DEF Store
  <2>2. CASE at[p].pc = "backfill" /\ Goto(p, at[p].kind)
    BY <1>0, <1>1, <2>1, <2>2, KindGoes, GotoOrder
  <2>3. CASE Goto(p, "issue")
    BY <1>0, <1>1, <2>1, <2>3, GotoOrder DEF PCs
  <2>4. CASE Finish(p)
    BY <1>0, <1>1, <2>1, <2>4, FinishOrder
  <2> QED BY <1>0, <1>3, <2>2, <2>3, <2>4 DEF Store
<1>4. CASE UpdateStep(p)
  <2>1. CASE s(p) \in live /\ WriteStep(p) /\ Goto(p, "store")
    <3> DEFINE held == [[row[s(p)] EXCEPT !.step = ses(p).step] EXCEPT !.done = ses(p).done]
    <3>1. row[s(p)] \in Anything
      BY <1>1 DEF IInv, Tables, TablesTyped
    <3>2. held.step = ses(p).step
      BY <3>1 DEF Anything, SessionRecord, NoSession
    <3>3. row' = [row EXCEPT ![s(p)] = held]
      BY <1>1, <2>1 DEF WriteStep, IInv, Tables, TablesTyped
    <3> HIDE DEF held
    <3>4. Ready(held, ev'[s(p)])
      BY <1>1, <3>2 DEF Ready
    <3>5. TablesOrder'
      BY <1>0, <1>1, <1>4, <3>3, <3>4, RowOrder DEF UpdateStep
    <3> QED BY <1>0, <1>1, <2>1, <3>5, GotoOrder DEF PCs
  <2>2. CASE Finish(p) /\ UNCHANGED row
    BY <1>0, <1>1, <1>4, <2>2, TablesKeep, FinishOrder DEF UpdateStep
  <2> QED BY <1>4, <2>1, <2>2 DEF UpdateStep
<1>5. CASE Uncache(p)
  <2>1. Ready(NoSession, ev'[s(p)])
    BY NoSessionSays DEF Ready
  <2>2. TablesOrder'
    <3>1. CASE cached' = [cached EXCEPT ![s(p)] = NoSession]
      BY <1>0, <1>1, <1>5, <2>1, <3>1, CachedOrder DEF Uncache
    <3>2. CASE UNCHANGED cached
      BY <1>0, <1>1, <1>5, <3>2, TablesKeep DEF Uncache
    <3> QED BY <1>5, <3>1, <3>2 DEF Uncache
  <2> QED BY <1>0, <1>1, <1>5, <2>2, FinishOrder DEF Uncache
<1>6. CASE SetCard(p)
  <2> DEFINE step == IF ses(p).step = "CARD_SELECTION" THEN "OCR" ELSE ses(p).step
             new(c) == [Moved(ses(p), step, "card") EXCEPT !.card = c]
  <2>1. PICK c \in Cards : row' = [row EXCEPT ![s(p)] = new(c)] /\ Hold(p, "store", new(c))
    BY <1>6 DEF SetCard
  <2>2. ses(p) \in SessionRecord
    <3>1. at[p].pc = "card" /\ Knows(p)
      BY <1>1, <1>6 DEF SetCard, IInv
    <3>2. ses(p).step # "NONE"
      BY <3>1 DEF Knows, Holding, Kinds
    <3> QED BY <1>1, <3>2 DEF Anything, NoSession
  <2>3. new(c) \in SessionRecord /\ new(c).step = step /\ step \in {"OCR", ses(p).step}
    BY <2>2 DEF Moved, SessionRecord, Steps, Flags
  <2> HIDE DEF new, step
  <2>4. Ready(new(c), ev'[s(p)])
    BY <1>1, <2>3 DEF Ready
  <2>5. TablesOrder'
    BY <1>0, <1>1, <1>6, <2>1, <2>4, RowOrder DEF SetCard
  <2> QED BY <1>0, <1>1, <2>1, <2>3, <2>4, <2>5, HoldOrder DEF PCs, Anything
<1>7. CASE Complete(p)
  <2> DEFINE new == Moved(ses(p), "COMPLETED", "submitted")
             held == [[row[s(p)] EXCEPT !.step = new.step] EXCEPT !.done = new.done]
  <2>1. new \in Anything /\ new.step = "COMPLETED"
    BY <1>1, MovedCopy DEF Steps, Flags, Anything
  <2>2. CASE row' = [row EXCEPT ![s(p)].step = new.step, ![s(p)].done = new.done]
             /\ Hold(p, "store", new)
    <3>1. row[s(p)] \in Anything
      BY <1>1 DEF IInv, Tables, TablesTyped
    <3>2. held.step = new.step
      BY <3>1 DEF Anything, SessionRecord, NoSession
    <3>3. row' = [row EXCEPT ![s(p)] = held]
      BY <1>1, <2>2 DEF IInv, Tables, TablesTyped
    <3> HIDE DEF held, new
    <3>4. Ready(held, ev'[s(p)]) /\ Ready(new, ev'[s(p)])
      BY <2>1, <3>2 DEF Ready
    <3>5. TablesOrder'
      BY <1>0, <1>1, <1>7, <3>3, <3>4, RowOrder DEF Complete
    <3> QED BY <1>0, <1>1, <2>1, <2>2, <3>4, <3>5, HoldOrder DEF PCs
  <2>3. CASE Fails(p) /\ UNCHANGED row
    BY <1>0, <1>1, <1>7, <2>3, TablesKeep, FinishOrder DEF Complete, Fails
  <2> QED BY <1>7, <2>2, <2>3 DEF Complete
<1> QED BY <1>0, <1>2, <1>3, <1>4, <1>5, <1>6, <1>7

-----------------------------------------------------------------------------
(* Statements that put a verification on record.                           *)
LEMMA Verifies ==
    ASSUME RInv, NEW p \in Procs, NEW what \in Verified, Record(p, what),
           Abstract!Before[what] \subseteq ev[s(p)],
           UNCHANGED <<row, cached, core, users, prints, answers>>,
           code' \subseteq code \cup {s(p)}, s(p) \in code' \ code => what = "data"
    PROVE  /\ Grows /\ TablesOrder' /\ what \in ev'[s(p)]
           /\ s(p) \in Sessions /\ ses(p) \in Anything
           /\ Abstract!Verify(s(p), what)
<1>1. s(p) \in Sessions /\ ses(p) \in Anything /\ ev \in [Sessions -> SUBSET Verified] /\ core \in Nat
  BY RequestNow, CoreNat DEF RInv, IInv, Tables, TablesTyped
<1>2. Grows /\ what \in ev'[s(p)]
  BY <1>1 DEF Record, Grows
<1>3. TablesOrder'
  BY <1>1, <1>2 DEF RInv, InOrder, TablesOrder, Grows, Ready
<1> QED BY <1>1, <1>2, <1>3 DEF Abstract!Verify, Record

LEMMA AdvanceOrder ==
    ASSUME RInv, NEW p \in Procs, NEW what \in Verified, NEW step \in Steps,
           Grows, TablesOrder', what \in ev'[s(p)], Advance(p, step, what),
           s(p) \in Sessions, ses(p) \in Anything,
           \/ step = "PERSONAL_DATA" /\ what = "ocr"
           \/ step = "OTP_VERIFY" /\ what = "data"
           \/ step = "BIOMETRIC" /\ what = "otp"
           \/ step = "VIDEO_CALL" /\ "otp" \in ev'[s(p)]
           \/ step = "REVIEW"
    PROVE  InOrder'
<1> DEFINE held == Moved(ses(p), step, what)
<1>1. what \in Flags /\ held = Moved(ses(p), step, what)
  BY DEF Flags, Verified
<1>2. Hold(p, "advance", held)
  BY DEF Advance
<1> HIDE DEF held
<1>3. held \in SessionRecord /\ held.step = step
  BY <1>1, MovedCopy
<1>4. Ready(held, ev'[s(p)])
  BY <1>3 DEF Ready
<1> QED BY <1>2, <1>3, <1>4, HoldOrder DEF PCs, Anything

LEMMA RecordingSteps ==
    ASSUME RInv, NEW p \in Procs,
           \/ ProcessKTP(p) \/ SavePersonalData(p) \/ VerifyOTP(p) \/ RecordPass(p)
           \/ SubmitResult(p) \/ SetCredentials(p)
    PROVE  InOrder' /\ (Abstract!Next \/ Hidden)
<1>0. /\ UNCHANGED <<row, cached, core, users, prints, answers>>
      /\ OrderOf(p) /\ s(p) \in Sessions /\ Verified = Abstract!All
  BY RequestNow DEF RInv, InOrder, session, opening, card, ProcessKTP, SavePersonalData, VerifyOTP,
     RecordPass, SubmitResult, SetCredentials, Verified, Abstract!All
<1>1. CASE ProcessKTP(p)
  <2>1. Record(p, "ocr") /\ Advance(p, "PERSONAL_DATA", "ocr") /\ "ocr" \in Verified /\ code' = code
    BY <1>1 DEF ProcessKTP, Verified
  <2>2. Grows /\ TablesOrder' /\ "ocr" \in ev'[s(p)] /\ Abstract!Verify(s(p), "ocr")
        /\ ses(p) \in Anything
    BY <1>0, <2>1, Verifies DEF Abstract!Before
  <2> QED BY <1>0, <2>1, <2>2, AdvanceOrder DEF Steps, Abstract!Next
<1>2. CASE SavePersonalData(p)
  <2>1. Record(p, "data") /\ "data" \in Verified /\ code' \subseteq code \cup {s(p)}
        /\ "ocr" \in ev[s(p)]
    BY <1>2 DEF SavePersonalData, Verified
  <2>2. Grows /\ TablesOrder' /\ "data" \in ev'[s(p)] /\ Abstract!Verify(s(p), "data")
        /\ ses(p) \in Anything
    BY <1>0, <2>1, Verifies DEF Abstract!Before
  <2>3. CASE Advance(p, "OTP_VERIFY", "data")
    BY <1>0, <2>1, <2>2, <2>3, AdvanceOrder DEF Steps, Abstract!Next
  <2>4. CASE Finish(p)
    BY <1>0, <2>1, <2>2, <2>4, FinishOrder DEF Abstract!Next
  <2> QED BY <1>2, <2>3, <2>4 DEF SavePersonalData
<1>3. CASE VerifyOTP(p)
  <2>1. Record(p, "otp") /\ Advance(p, "BIOMETRIC", "otp") /\ "otp" \in Verified
        /\ code' \subseteq code /\ "data" \in ev[s(p)]
    BY <1>0, <1>3 DEF VerifyOTP, Verified, RInv, InOrder, TablesOrder
  <2>2. Grows /\ TablesOrder' /\ "otp" \in ev'[s(p)] /\ Abstract!Verify(s(p), "otp")
        /\ ses(p) \in Anything
    BY <1>0, <2>1, Verifies DEF Abstract!Before
  <2> QED BY <1>0, <2>1, <2>2, AdvanceOrder DEF Steps, Abstract!Next
<1>4. CASE RecordPass(p)
  <2>1. Record(p, "bio") /\ Advance(p, "VIDEO_CALL", "bio") /\ "bio" \in Verified /\ code' = code
        /\ "otp" \in ev[s(p)]
    BY <1>0, <1>4 DEF RecordPass, Verified, OrderOf, Ready
  <2>2. Grows /\ TablesOrder' /\ "bio" \in ev'[s(p)] /\ Abstract!Verify(s(p), "bio")
        /\ ses(p) \in Anything
    BY <1>0, <2>1, Verifies DEF Abstract!Before
  <2>3. "otp" \in ev'[s(p)]
    BY <1>0, <2>1, <2>2 DEF Grows
  <2> QED BY <1>0, <2>1, <2>2, <2>3, AdvanceOrder DEF Steps, Abstract!Next
<1>5. CASE SubmitResult(p)
  <2>1. Record(p, "video") /\ Goto(p, "resolve") /\ "video" \in Verified /\ code' = code
        /\ "otp" \in ev[s(p)]
    BY <1>0, <1>5 DEF SubmitResult, Verified, OrderOf
  <2>2. Grows /\ TablesOrder' /\ Abstract!Verify(s(p), "video")
    BY <1>0, <2>1, Verifies DEF Abstract!Before
  <2> QED BY <1>0, <2>1, <2>2, GotoOrder DEF PCs, Abstract!Next
<1>6. CASE SetCredentials(p)
  <2>1. code' = code
    BY <1>6 DEF SetCredentials
  <2>2. CASE Finish(p) /\ UNCHANGED ev
    <3>1. Hidden
      BY <1>0, <2>2 DEF Hidden
    <3> QED BY <1>0, <2>1, <2>2, <3>1, HiddenKeeps, TablesKeep, FinishOrder
  <2>3. CASE ses(p).step = "CREDENTIALS" /\ Record(p, "cred") /\ Advance(p, "REVIEW", "cred")
    <3>1. "cred" \in Verified /\ "video" \in ev[s(p)]
      BY <1>0, <2>3 DEF Verified, OrderOf, Ready
    <3>2. Grows /\ TablesOrder' /\ "cred" \in ev'[s(p)] /\ Abstract!Verify(s(p), "cred")
          /\ ses(p) \in Anything
      BY <1>0, <2>1, <2>3, <3>1, Verifies DEF Abstract!Before
    <3> QED BY <1>0, <2>3, <3>1, <3>2, AdvanceOrder DEF Steps, Abstract!Next
  <2> QED BY <1>6, <2>2, <2>3 DEF SetCredentials
<1> QED BY <1>1, <1>2, <1>3, <1>4, <1>5, <1>6

-----------------------------------------------------------------------------
(* Statements of Submit.                                                   *)
LEMMA SubmittingSteps ==
    ASSUME RInv, NEW p \in Procs,
           ReadSlot(p) \/ CreateAccount(p) \/ ProvisionAccount(p) \/ IssueCard(p) \/ Answer(p)
    PROVE  InOrder' /\ (Abstract!Next \/ UNCHANGED Abstract!vars)
<1>0. /\ UNCHANGED <<row, cached, code, ev>>
      /\ OrderOf(p) /\ s(p) \in Sessions /\ Verified = Abstract!All
      /\ IInv /\ Knows(p) /\ core \in Nat
      /\ at[p].acct \in 0..MaxCore
  BY RequestNow, CoreNat DEF RInv, IInv, InOrder, session, ReadSlot, CreateAccount, ProvisionAccount,
     IssueCard, Answer, Verified, Abstract!All
<1>1. CASE core' = core
  <2>1. Grows /\ TablesOrder'
    BY <1>0, <1>1, StillGrows, TablesKeep
  <2>2. CASE ReadSlot(p)
    <3>1. UNCHANGED <<ev, core, users, prints>> /\ Finish(p)
      BY <2>2 DEF ReadSlot, card
    <3>2. InOrder'
      BY <2>1, <3>1, FinishOrder
    <3>3. CASE answers' = answers
      BY <3>1, <3>2, <3>3 DEF Abstract!vars
    <3>4. CASE SlotOf(p).state = "stored" /\ answers' = answers \cup {<<s(p), SlotOf(p).acct>>}
      <4>1. at[p].key \in Keys /\ SlotOf(p) = slot[s(p)][at[p].key]
        BY <1>0, <3>4, RequestNow DEF SlotOf, Free
      <4>2. <<s(p), SlotOf(p).acct>> \in users
        BY <1>0, <3>4, <4>1 DEF IInv, Tables, OneUser
      <4>3. SlotOf(p).acct \in 1..MaxCore
        BY <1>0, <4>2 DEF IInv, Tables, TablesTyped
      <4>4. Abstract!Tell(s(p), SlotOf(p).acct)
        BY <3>1, <3>4, <4>2 DEF Abstract!Tell
      <4> QED BY <1>0, <3>2, <4>3, <4>4 DEF Abstract!Next
    <3> QED BY <2>2, <3>3, <3>4 DEF ReadSlot
  <2>3. CASE ProvisionAccount(p)
    <3>1. UNCHANGED <<ev, core, prints, answers>>
          /\ (Finish(p) \/ Goto(p, "complete"))
      BY <2>3 DEF ProvisionAccount, card, Fails
    <3>2. InOrder'
      BY <2>1, <3>1, FinishOrder, GotoOrder DEF PCs
    <3>3. CASE users' = users
      BY <3>1, <3>2, <3>3 DEF Abstract!vars
    <3>4. CASE users = {} /\ users' = {<<s(p), at[p].acct>>}
      <4>1. Verified \subseteq ev[s(p)] /\ at[p].acct \in 1..MaxCore /\ at[p].acct \in 1..core
        BY <1>0, <2>3 DEF ProvisionAccount, Knows, OrderOf
      <4>2. Abstract!Open(s(p), at[p].acct)
        BY <1>0, <3>1, <3>4, <4>1 DEF Abstract!Open
      <4> QED BY <1>0, <3>2, <4>1, <4>2 DEF Abstract!Next
    <3> QED BY <2>3, <3>3, <3>4 DEF ProvisionAccount
  <2>4. CASE IssueCard(p)
    <3>1. UNCHANGED <<ev, core, users, answers>> /\ Goto(p, "answer")
          /\ prints' = [prints EXCEPT ![s(p)] = @ + 1]
      BY <2>4 DEF IssueCard, opening
    <3>2. InOrder'
      BY <2>1, <3>1, GotoOrder DEF PCs
    <3>3. <<s(p), at[p].acct>> \in users /\ prints[s(p)] = 0
      BY <1>0, <2>4 DEF IssueCard, Knows, OpenedPcs
    <3>4. at[p].acct \in 1..MaxCore
      BY <1>0, <3>3 DEF IInv, Tables, TablesTyped
    <3>5. prints' = [prints EXCEPT ![s(p)] = 1]
      BY <3>1, <3>3
    <3>6. Abstract!PrintCard(s(p))
      BY <3>1, <3>3, <3>4, <3>5 DEF Abstract!PrintCard
    <3> QED BY <1>0, <3>2, <3>6 DEF Abstract!Next
  <2>5. CASE Answer(p)
    <3>1. UNCHANGED <<ev, core, users, prints>> /\ Finish(p)
          /\ answers' = answers \cup {<<s(p), at[p].acct>>}
      BY <2>5 DEF Answer, card
    <3>2. InOrder'
      BY <2>1, <3>1, FinishOrder
    <3>3. <<s(p), at[p].acct>> \in users
      BY <1>0, <2>5 DEF Answer, Knows, OpenedPcs
    <3>4. at[p].acct \in 1..MaxCore
      BY <1>0, <3>3 DEF IInv, Tables, TablesTyped
    <3>5. Abstract!Tell(s(p), at[p].acct)
      BY <3>1, <3>3 DEF Abstract!Tell
    <3> QED BY <1>0, <3>2, <3>4, <3>5 DEF Abstract!Next
  <2>6. CASE CreateAccount(p)
    BY <1>0, <1>1, <2>6 DEF CreateAccount
  <2> QED BY <2>2, <2>3, <2>4, <2>5, <2>6
<1>2. CASE CreateAccount(p)
  <2>1. /\ MayOpen(p) /\ core' = core + 1 /\ UNCHANGED <<ev, users, prints, answers>>
        /\ at' = [at EXCEPT ![p].pc = "provision", ![p].acct = core']
    BY <1>2 DEF CreateAccount, card
  <2>2. Grows /\ TablesOrder'
    BY <1>0, <2>1, TablesKeep DEF Grows
  <2>3. Verified \subseteq ev[s(p)]
    BY <1>0, <2>1 DEF MayOpen, Required, Knows, Sound, Backed
  <2>4. /\ at'[p].pc = "provision" /\ at'[p].kind = at[p].kind /\ s(p)' = s(p) /\ ses(p)' = ses(p)
        /\ at'[p].acct = core'
        /\ \A q \in Procs : q # p => at'[q] = at[q]
    BY <2>1 DEF RInv, IInv, Requests, s, ses
  <2>5. core' \in 1..core'
    BY <1>0, <2>1
  <2>6. OrderOf(p)'
    BY <1>0, <2>4, <2>5 DEF OrderOf
  <2>7. InOrder'
    BY <2>2, <2>4, <2>6, OrderKeeps
  <2>8. Abstract!Ask
    BY <1>0, <2>1, <2>3 DEF Abstract!Ask
  <2> QED BY <2>7, <2>8 DEF Abstract!Next
<1>3. core' = core \/ CreateAccount(p)
  BY DEF ReadSlot, ProvisionAccount, IssueCard, Answer, opening
<1> QED BY <1>1, <1>2, <1>3

-----------------------------------------------------------------------------
LEMMA StartOrder ==
    ASSUME RInv, NEW p \in Procs, NEW kind \in Kinds, NEW x \in Sessions,
           NEW key \in Keys \cup {NoKey}, Start(p, kind, x, key)
    PROVE  InOrder' /\ Hidden
<1> DEFINE pc == CASE kind = "create" -> "count"
                   [] kind = "submit" -> "claim"
                   [] kind = "video"  -> "result"
                   [] OTHER           -> "resolve"
           r == [Idle EXCEPT !.pc = pc, !.kind = kind, !.s = x, !.key = key]
<1>0. Hidden /\ UNCHANGED <<row, cached, code>>
  BY DEF Start, Hidden, session, opening, card
<1>1. Grows /\ TablesOrder'
  BY <1>0, HiddenKeeps, TablesKeep
<1>2. at' = [at EXCEPT ![p] = r]
  BY DEF Start
<1>3. pc \in {"count", "claim", "result", "resolve"} /\ (pc = "result" => kind = "video")
  OBVIOUS
<1>4. r.pc = pc /\ r.kind = kind /\ r.s = x /\ r.ses = NoSession
  <2> HIDE DEF pc
  <2> QED BY IdleTyped DEF Requests
<1>5. at'[p] = r /\ \A q \in Procs : q # p => at'[q] = at[q]
  <2> HIDE DEF r
  <2> QED BY <1>2 DEF RInv, IInv
<1>6. kind \in {"video", "escalate"} => "otp" \in ev'[x]
  BY <1>0 DEF Start, Kinds, RInv, InOrder, TablesOrder, Ready, Hidden
<1>7. OrderOf(p)'
  <2> HIDE DEF pc, r
  <2> QED BY <1>3, <1>4, <1>5, <1>6, NoSessionSays DEF OrderOf, Ready, ses, s
<1> QED BY <1>0, <1>1, <1>5, <1>7, OrderKeeps

LEMMA NextRefines ==
    ASSUME RInv, [Next]_vars
    PROVE  InOrder' /\ [Abstract!Next]_(Abstract!vars)
<1>1. ASSUME NEW p \in Procs, Handle(p) \/ Abort(p)
      PROVE  InOrder' /\ [Abstract!Next]_(Abstract!vars)
  BY <1>1, ReadingSteps, WritingSteps, RecordingSteps, SubmittingSteps, HiddenStutters DEF Handle
<1>2. CASE \E p \in Procs, kind \in Kinds, x \in Sessions, k \in Keys \cup {NoKey} :
              Start(p, kind, x, k)
  BY <1>2, StartOrder, HiddenStutters
<1>3. ASSUME UNCHANGED at, Hidden, TablesOrder' PROVE InOrder' /\ [Abstract!Next]_(Abstract!vars)
  BY <1>3, HiddenStutters DEF RInv, InOrder, OrderOf, ses, s, Hidden
<1>4. CASE UNCHANGED vars \/ \E x \in Sessions, k \in Keys : SlotExpires(x, k)
  <2>1. UNCHANGED at /\ Hidden /\ UNCHANGED <<row, cached, code>>
    BY <1>4 DEF vars, SlotExpires, session, card, Hidden
  <2> QED BY <1>3, <2>1, HiddenKeeps, TablesKeep
<1>5. ASSUME NEW x \in Sessions, Evict(x)
      PROVE  InOrder' /\ [Abstract!Next]_(Abstract!vars)
  <2>1. UNCHANGED at /\ Hidden /\ UNCHANGED <<row, code>>
        /\ cached' = [cached EXCEPT ![x] = NoSession]
    BY <1>5 DEF Evict, opening, card, Hidden
  <2>2. Ready(NoSession, ev'[x])
    BY NoSessionSays DEF Ready
  <2> QED BY <1>3, <2>1, <2>2, HiddenKeeps, CachedOrder
<1> QED BY <1>1, <1>2, <1>4, <1>5 DEF Next

(* Onboarding implements AccountOpening: with steps, flags, copies, slots  *)
(* and requests hidden, whatever is verified is verified in order, core    *)
(* banking is asked only for one who is, and users, cards and answers come *)
(* once, of one account.                                                   *)
THEOREM StepsImplementOpening == Spec => RefinesOpening
<1>1. Init => RInv /\ Abstract!Init
  BY InitHolds, InitOrder DEF RInv, Init, Abstract!Init
<1>2. RInv /\ [Next]_vars => RInv' /\ [Abstract!Next]_(Abstract!vars)
  BY NextKeeps, NextRefines DEF RInv
<1> QED BY <1>1, <1>2, PTL DEF Spec, RefinesOpening, Abstract!Spec
=============================================================================
