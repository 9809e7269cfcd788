---------------------------- MODULE CSDeskProofs ----------------------------
(***************************************************************************)
(* Theorems about CSDesk, for any number of agents, terminals, sessions,   *)
(* gates and requests at the same time.                                    *)
(***************************************************************************)
EXTENDS CSDesk, FiniteSetTheorems, TLAPS

LoginPcs == {"login", "wrong", "supersede", "insert", "clear"}
ShiftPcs == SessionKinds \cup {"resolve", "status", "gates", "promote", "online", "release"}

(* A session that was never opened belongs to nobody.                      *)
FreeSessions ==
    \A j \in Ids : sess[j].state = "none" => sess[j].agent = NoAgent /\ sess[j].term = NoAgent

(* What a request knows where it stands: whoever is being logged in has a  *)
(* password (from the count of a wrong one on); what is done at a terminal *)
(* is done in the name of a session's agent; Activate comes after a look   *)
(* at the gates of that session, and a gate is never taken away again.     *)
Knows(p) ==
    /\ at[p].pc # "idle" => a(p) \in Agents
    /\ at[p].pc \in {"wrong", "supersede", "insert", "clear"} => agent[a(p)].pwd
    /\ at[p].pc \in ShiftPcs => /\ i(p) \in Ids /\ t(p) \in Terminals
                                /\ sess[i(p)].agent = a(p) /\ sess[i(p)].term = t(p)
    /\ at[p].pc = "resolve" => at[p].kind \in SessionKinds
    /\ at[p].pc = "online" => \A g \in Gates : gate[i(p)][g] # "none"

IInv == TypeOK /\ FreeSessions /\ OneDesk /\ OnlineIsVouched /\ \A p \in Procs : Knows(p)

(* What a request can be.                                                  *)
Requests == [pc : Pcs, agent : Agents \cup {NoAgent}, term : Terminals \cup {NoAgent},
             id : Ids \cup {NoAgent}, kind : {"none", "online"} \cup Kinds]

LEMMA IdleTyped == Idle \in Requests /\ Idle.pc = "idle"
BY DEF Idle, Requests, Pcs

LEMMA InitHolds == Init => IInv
<1> SUFFICES ASSUME Init PROVE IInv
  OBVIOUS
<1>1. TypeOK
  BY CSDeskAssumption, IdleTyped DEF Init, TypeOK, NoTerminal, NoSession, Requests
<1>2. FreeSessions /\ OneDesk /\ OnlineIsVouched
  BY CSDeskAssumption DEF Init, FreeSessions, OneDesk, OnlineIsVouched, NoTerminal, NoSession, Open, Held
<1>3. \A p \in Procs : Knows(p)
  BY DEF Init, Knows, Idle, ShiftPcs, SessionKinds
<1> QED BY <1>1, <1>2, <1>3 DEF IInv

-----------------------------------------------------------------------------
(* A step ends the request or moves it on; nothing else of it changes.     *)

LEMMA Rewritten ==
    ASSUME NEW S, NEW R, NEW f \in [S -> R], NEW x \in S, NEW r \in R
    PROVE  /\ [f EXCEPT ![x] = r] \in [S -> R]
           /\ [f EXCEPT ![x] = r][x] = r
           /\ \A y \in S : y # x => [f EXCEPT ![x] = r][y] = f[y]
OBVIOUS

LEMMA RequestRewritten ==
    ASSUME TypeOK, NEW p \in Procs, NEW r \in Requests, at' = [at EXCEPT ![p] = r]
    PROVE  /\ at' \in [Procs -> Requests]
           /\ at'[p] = r
           /\ \A q \in Procs : q # p => at'[q] = at[q]
<1>1. at \in [Procs -> Requests]
  BY DEF TypeOK, Requests
<1> QED BY <1>1, Rewritten

LEMMA RequestRow ==
    ASSUME TypeOK, NEW p \in Procs
    PROVE  at[p] \in Requests
BY DEF TypeOK, Requests

LEMMA GotoMoves ==
    ASSUME TypeOK, NEW p \in Procs, NEW pc \in Pcs, Goto(p, pc)
    PROVE  /\ at' \in [Procs -> Requests]
           /\ at'[p].pc = pc /\ a(p)' = a(p) /\ t(p)' = t(p) /\ i(p)' = i(p)
           /\ at'[p].kind = at[p].kind
           /\ \A q \in Procs : q # p => at'[q] = at[q]
<1> DEFINE r == [at[p] EXCEPT !.pc = pc]
<1>1. at' = [at EXCEPT ![p] = r]
  BY DEF Goto
<1>2. at[p] \in Requests
  BY RequestRow
<1>3. /\ r \in Requests /\ r.pc = pc /\ r.agent = at[p].agent
      /\ r.term = at[p].term /\ r.id = at[p].id /\ r.kind = at[p].kind
  BY <1>2 DEF Requests
<1> HIDE DEF r
<1> QED BY <1>1, <1>3, RequestRewritten DEF a, t, i

LEMMA FinishIdles ==
    ASSUME TypeOK, NEW p \in Procs, Finish(p)
    PROVE  /\ at' \in [Procs -> Requests]
           /\ at'[p].pc = "idle"
           /\ \A q \in Procs : q # p => at'[q] = at[q]
BY IdleTyped, RequestRewritten DEF Finish

(* Who knows something of the account, of a session or of the gates keeps  *)
(* knowing it while passwords stay, sessions stay whose they are, and      *)
(* gates are not taken away.                                               *)
Lasting ==
    /\ \A x \in Agents : agent[x].pwd => agent'[x].pwd
    /\ \A j \in Ids : sess[j].state # "none" => /\ sess'[j].state # "none"
                                               /\ sess'[j].agent = sess[j].agent
                                               /\ sess'[j].term = sess[j].term
    /\ \A j \in Ids, g \in Gates : gate[j][g] # "none" => gate'[j][g] # "none"

LEMMA Opened ==
    ASSUME FreeSessions, TypeOK, NEW p \in Procs, Knows(p), at[p].pc \in ShiftPcs
    PROVE  sess[i(p)].state # "none" /\ a(p) \in Agents
BY CSDeskAssumption DEF FreeSessions, TypeOK, Knows, ShiftPcs, SessionKinds

LEMMA Others ==
    ASSUME IInv, Lasting, NEW q \in Procs, at'[q] = at[q]
    PROVE  Knows(q)'
<1>1. Knows(q) /\ TypeOK /\ FreeSessions
  BY DEF IInv
<1>2. at[q].pc \in ShiftPcs => sess[i(q)].state # "none"
  BY <1>1, Opened
<1> QED BY <1>1, <1>2 DEF Knows, Lasting, a, t, i, ShiftPcs, SessionKinds

(* The sessions that are open or vouch for a terminal, after such a step.  *)
LEMMA VouchedLasts ==
    ASSUME IInv, Lasting,
           \A c \in Terminals : term'[c] # term[c] => term'[c].status # "ONLINE"
    PROVE  OnlineIsVouched'
<1> SUFFICES ASSUME NEW c \in Terminals, term'[c].status = "ONLINE"
             PROVE  \E j \in Ids : /\ sess'[j].agent = term'[c].by /\ sess'[j].term = c
                                   /\ \A g \in Gates : gate'[j][g] # "none"
  BY DEF OnlineIsVouched
<1>1. term'[c] = term[c]
  OBVIOUS
<1>2. PICK j \in Ids : /\ sess[j].agent = term[c].by /\ sess[j].term = c
                       /\ \A g \in Gates : gate[j][g] # "none"
  BY <1>1 DEF IInv, OnlineIsVouched
<1>3. sess[j].state # "none"
  BY <1>2, CSDeskAssumption DEF IInv, TypeOK, FreeSessions
<1> QED BY <1>1, <1>2, <1>3 DEF Lasting

(* What a step of p has to show.                                           *)
LEMMA Keeps ==
    ASSUME IInv, TypeOK', FreeSessions', OneDesk', OnlineIsVouched', Lasting,
           NEW p \in Procs, \A q \in Procs : q # p => at'[q] = at[q], Knows(p)'
    PROVE  IInv'
BY Others DEF IInv

(* Most steps leave terminals, sessions and gates alone.                   *)
LEMMA QuietDesk ==
    ASSUME IInv, UNCHANGED <<desk, sess>>, \A x \in Agents : agent[x].pwd => agent'[x].pwd
    PROVE  FreeSessions' /\ OneDesk' /\ OnlineIsVouched' /\ Lasting
BY DEF IInv, desk, FreeSessions, OneDesk, OnlineIsVouched, Lasting, Open, Held

(* The types of everything but the requests.                               *)
TablesTyped ==
    /\ agent \in [Agents -> [state : {"none", "active", "inactive"}, pwd : BOOLEAN,
                             fails : 0..MaxFailed, locked : BOOLEAN]]
    /\ term \in [Terminals -> [status : {"NONE", "REGISTERED", "READY", "ONLINE", "OFFLINE"},
                               by : Agents \cup {NoAgent}]]
    /\ sess \in [Ids -> [state : {"none", "live", "expired", "ended"},
                         agent : Agents \cup {NoAgent}, term : Terminals \cup {NoAgent}]]
    /\ gate \in [Ids -> [Gates -> {"none", "valid", "expired"}]]
    /\ guesses \in [Agents -> Nat]
    /\ mishaps \in 0..MaxMishaps /\ overlaps \in 0..MaxOverlaps
    /\ \A x \in Agents : agent[x].fails > 0 \/ agent[x].locked => agent[x].pwd

LEMMA Types ==
    ASSUME TablesTyped', at' \in [Procs -> Requests]
    PROVE  TypeOK'
BY DEF TypeOK, TablesTyped, Requests

LEMMA QuietTables ==
    ASSUME TypeOK, UNCHANGED <<account, desk, sess, bounds>>
    PROVE  TablesTyped'
BY DEF TypeOK, TablesTyped, account, desk, bounds

(* A step that only moves its request on, or ends it.                      *)
LEMMA QuietMove ==
    ASSUME IInv, NEW p \in Procs, UNCHANGED <<account, desk, sess, bounds>>,
           \/ Finish(p)
           \/ \E pc \in Pcs : Goto(p, pc) /\ Knows(p)'
    PROVE  IInv'
<1> USE DEF IInv
<1>1. /\ at' \in [Procs -> Requests]
      /\ \A q \in Procs : q # p => at'[q] = at[q]
      /\ Knows(p)'
  <2>1. CASE Finish(p)
    BY <2>1, FinishIdles DEF Knows, ShiftPcs, SessionKinds
  <2>2. ASSUME NEW pc \in Pcs, Goto(p, pc), Knows(p)' PROVE <1>1!1 /\ <1>1!2 /\ Knows(p)'
    BY <2>2, GotoMoves
  <2> QED BY <2>1, <2>2
<1>2. TypeOK'
  BY <1>1, QuietTables, Types
<1>3. FreeSessions' /\ OneDesk' /\ OnlineIsVouched' /\ Lasting
  BY QuietDesk DEF account
<1> QED BY <1>1, <1>2, <1>3, Keeps

LEMMA FindForLoginStep ==
    ASSUME IInv, NEW p \in Procs, FindForLogin(p)
    PROVE  IInv'
<1>1. CASE Finish(p)
  BY <1>1, QuietMove DEF FindForLogin
<1>2. ASSUME NEW pc \in {"wrong", "supersede"}, Goto(p, pc), agent[a(p)].pwd
      PROVE  IInv'
  <2>1. pc \in Pcs
    BY DEF Pcs
  <2>2. Knows(p)'
    BY <1>2, <2>1, GotoMoves DEF IInv, FindForLogin, Knows, ShiftPcs, SessionKinds, account
  <2> QED BY <1>2, <2>1, <2>2, QuietMove DEF FindForLogin
<1> QED BY <1>1, <1>2 DEF FindForLogin

LEMMA FindForPasswordStep ==
    ASSUME IInv, NEW p \in Procs, FindForPassword(p)
    PROVE  IInv'
<1>1. CASE Finish(p)
  BY <1>1, QuietMove DEF FindForPassword
<1>2. CASE Goto(p, "setpwd")
  <2>1. "setpwd" \in Pcs
    BY DEF Pcs
  <2>2. Knows(p)'
    BY <1>2, <2>1, GotoMoves DEF IInv, FindForPassword, Knows, ShiftPcs, SessionKinds
  <2> QED BY <1>2, <2>1, <2>2, QuietMove DEF FindForPassword
<1> QED BY <1>1, <1>2 DEF FindForPassword

LEMMA ResolveStep ==
    ASSUME IInv, NEW p \in Procs, Resolve(p)
    PROVE  IInv'
<1>1. CASE Finish(p)
  BY <1>1, QuietMove DEF Resolve
<1>2. CASE Goto(p, at[p].kind)
  <2>1. at[p].kind \in SessionKinds /\ at[p].kind \in Pcs
    BY DEF IInv, Knows, Resolve, Pcs
  <2>2. Knows(p)'
    BY <1>2, <2>1, GotoMoves DEF IInv, Resolve, Knows, ShiftPcs, SessionKinds, account, desk
  <2> QED BY <1>2, <2>1, <2>2, QuietMove DEF Resolve
<1> QED BY <1>1, <1>2 DEF Resolve

(* The look at the status and the gates before a terminal becomes READY or *)
(* goes ONLINE.                                                            *)
LEMMA LookStep ==
    ASSUME IInv, NEW p \in Procs, ReadStatus(p) \/ ReadGates(p) \/ Readiness(p)
    PROVE  IInv'
<1>1. UNCHANGED <<account, desk, sess, bounds>>
  BY DEF ReadStatus, ReadGates, Readiness
<1>2. CASE Finish(p)
  BY <1>1, <1>2, QuietMove
<1>3. ASSUME NEW pc \in {"gates", "promote", "online"}, Goto(p, pc), at[p].pc \in ShiftPcs,
             pc = "online" => CanActivate(i(p))
      PROVE  IInv'
  <2>1. pc \in Pcs
    BY DEF Pcs
  <2>2. pc = "online" => \A g \in Gates : gate[i(p)][g] # "none"
    BY <1>3 DEF CanActivate
  <2>3. Knows(p)'
    BY <1>1, <1>3, <2>1, <2>2, GotoMoves DEF IInv, Knows, ShiftPcs, SessionKinds, account, desk
  <2> QED BY <1>1, <1>3, <2>1, <2>3, QuietMove
<1> QED BY <1>2, <1>3 DEF ReadStatus, ReadGates, Readiness, ShiftPcs, SessionKinds

LEMMA SupersedeStep ==
    ASSUME IInv, NEW p \in Procs, Supersede(p)
    PROVE  IInv'
<1>1. CASE Finish(p)
  BY <1>1, QuietMove DEF Supersede
<1>2. CASE Goto(p, "insert")
  <2>1. "insert" \in Pcs
    BY DEF Pcs
  <2>2. Knows(p)'
    BY <1>2, <2>1, GotoMoves DEF IInv, Supersede, Knows, ShiftPcs, SessionKinds, account
  <2> QED BY <1>2, <2>1, <2>2, QuietMove DEF Supersede
<1>3. ASSUME NEW j \in Ids, at' = [at EXCEPT ![p].pc = "insert", ![p].id = j]
      PROVE  IInv'
  <2>1. /\ at' \in [Procs -> Requests]
        /\ \A q \in Procs : q # p => at'[q] = at[q]
        /\ at'[p].pc = "insert" /\ a(p)' = a(p)
    <3> DEFINE r == [at[p] EXCEPT !.pc = "insert", !.id = j]
    <3>1. "insert" \in Pcs /\ TypeOK
      BY DEF Pcs, IInv
    <3>2. at' = [at EXCEPT ![p] = r]
      BY <1>3
    <3>3. at[p] \in Requests
      BY <3>1, RequestRow
    <3>4. r \in Requests /\ r.pc = "insert" /\ r.agent = at[p].agent
      BY <3>1, <3>3 DEF Requests
    <3> HIDE DEF r
    <3> QED BY <3>1, <3>2, <3>4, RequestRewritten DEF a
  <2>2. Knows(p)'
    BY <2>1 DEF IInv, Supersede, Knows, ShiftPcs, SessionKinds, account
  <2>3. TypeOK'
    BY <2>1, QuietTables, Types DEF IInv, Supersede
  <2>4. FreeSessions' /\ OneDesk' /\ OnlineIsVouched' /\ Lasting
    BY QuietDesk DEF account, Supersede
  <2> QED BY <2>1, <2>2, <2>3, <2>4, Keeps
<1> QED BY <1>1, <1>2, <1>3 DEF Supersede, Open

LEMMA TakeStep ==
    ASSUME IInv, NEW p \in Procs, AgentSignalingURL(p) \/ Respond(p)
    PROVE  IInv'
<1>1. UNCHANGED <<account, desk, sess, bounds>>
  BY DEF AgentSignalingURL, Respond
<1>2. CASE Finish(p)
  BY <1>1, <1>2, QuietMove
<1>3. ASSUME NEW k \in {"online", "take"}, at' = [at EXCEPT ![p].pc = "took", ![p].kind = k],
             at[p].pc = "take"
      PROVE  IInv'
  <2>1. /\ at' \in [Procs -> Requests]
        /\ \A q \in Procs : q # p => at'[q] = at[q]
        /\ at'[p].pc = "took" /\ a(p)' = a(p)
    <3> DEFINE r == [at[p] EXCEPT !.pc = "took", !.kind = k]
    <3>1. "took" \in Pcs /\ k \in {"none", "online"} \cup Kinds /\ TypeOK
      BY DEF Pcs, Kinds, IInv
    <3>2. at' = [at EXCEPT ![p] = r]
      BY <1>3
    <3>3. at[p] \in Requests
      BY <3>1, RequestRow
    <3>4. r \in Requests /\ r.pc = "took" /\ r.agent = at[p].agent
      BY <3>1, <3>3 DEF Requests
    <3> HIDE DEF r
    <3> QED BY <3>1, <3>2, <3>4, RequestRewritten DEF a
  <2>2. Knows(p)'
    BY <1>3, <2>1 DEF IInv, Knows, ShiftPcs, SessionKinds
  <2>3. TypeOK'
    BY <1>1, <2>1, QuietTables, Types DEF IInv
  <2>4. FreeSessions' /\ OneDesk' /\ OnlineIsVouched' /\ Lasting
    BY <1>1, QuietDesk DEF account
  <2> QED BY <2>1, <2>2, <2>3, <2>4, Keeps
<1> QED BY <1>2, <1>3 DEF AgentSignalingURL, Respond

-----------------------------------------------------------------------------
LEMMA TablesNow == IInv => TablesTyped
BY DEF IInv, TypeOK, TablesTyped

(* A step that writes, and ends its request, or has none.                  *)
LEMMA Writes ==
    ASSUME IInv, TablesTyped', Lasting, FreeSessions', OneDesk', OnlineIsVouched',
           UNCHANGED at \/ \E p \in Procs : Finish(p)
    PROVE  IInv'
<1>1. CASE UNCHANGED at
  BY <1>1, Others, Types DEF IInv, TypeOK, Requests
<1>2. ASSUME NEW p \in Procs, Finish(p) PROVE IInv'
  <2>1. /\ at' \in [Procs -> Requests] /\ at'[p].pc = "idle"
        /\ \A q \in Procs : q # p => at'[q] = at[q]
    BY <1>2, FinishIdles DEF IInv
  <2>2. Knows(p)'
    BY <2>1 DEF Knows, ShiftPcs, SessionKinds
  <2> QED BY <2>1, <2>2, Types, Keeps
<1> QED BY <1>1, <1>2

(* What leaves terminals, sessions and gates alone, and no password goes.  *)
LEMMA AccountWrites ==
    ASSUME IInv, TablesTyped', UNCHANGED <<desk, sess>>,
           \A x \in Agents : agent[x].pwd => agent'[x].pwd,
           UNCHANGED at \/ \E p \in Procs : Finish(p)
    PROVE  IInv'
BY QuietDesk, Writes

(* One row of cs_agents is written: an agent stays one with a password, and *)
(* none is locked without.                                                 *)
AgentRows == [state : {"none", "active", "inactive"}, pwd : BOOLEAN,
              fails : 0..MaxFailed, locked : BOOLEAN]

LEMMA AgentWritten ==
    ASSUME IInv, NEW x \in Agents, NEW r \in AgentRows,
           agent' = [agent EXCEPT ![x] = r],
           agent[x].pwd => r.pwd, r.fails > 0 \/ r.locked => r.pwd,
           guesses' \in [Agents -> Nat],
           mishaps' \in 0..MaxMishaps, overlaps' \in 0..MaxOverlaps,
           UNCHANGED <<desk, sess>>,
           UNCHANGED at \/ \E p \in Procs : Finish(p)
    PROVE  IInv'
<1>1. agent \in [Agents -> AgentRows]
  BY TablesNow DEF TablesTyped, AgentRows
<1>2. /\ agent' \in [Agents -> AgentRows] /\ agent'[x] = r
      /\ \A y \in Agents : y # x => agent'[y] = agent[y]
  BY <1>1, Rewritten
<1>3. \A y \in Agents : agent[y].pwd => agent'[y].pwd
  BY <1>2
<1>4. \A y \in Agents : agent'[y].fails > 0 \/ agent'[y].locked => agent'[y].pwd
  BY <1>2, TablesNow DEF TablesTyped
<1>5. TablesTyped'
  BY <1>2, <1>4, TablesNow DEF TablesTyped, AgentRows, desk
<1> QED BY <1>3, <1>5, AccountWrites

LEMMA AgentRow ==
    ASSUME IInv, NEW x \in Agents
    PROVE  /\ agent[x] \in AgentRows
           /\ agent[x].fails > 0 \/ agent[x].locked => agent[x].pwd
           /\ guesses \in [Agents -> Nat]
           /\ mishaps \in 0..MaxMishaps /\ overlaps \in 0..MaxOverlaps
BY TablesNow DEF TablesTyped, AgentRows

LEMMA AccountSteps ==
    ASSUME IInv, NEW x \in Agents, RegisterAgent(x) \/ UpdateAgent(x) \/ LockExpires(x)
    PROVE  IInv'
<1>1. CASE RegisterAgent(x)
  <2> DEFINE r == [agent[x] EXCEPT !.state = "active"]
  <2>1. agent' = [agent EXCEPT ![x] = r]
    BY <1>1, TablesNow DEF RegisterAgent, TablesTyped
  <2>2. /\ r \in AgentRows /\ r.pwd = agent[x].pwd /\ r.fails = agent[x].fails
        /\ r.locked = agent[x].locked
    BY AgentRow DEF AgentRows
  <2>3. UNCHANGED <<desk, sess, at, guesses, mishaps, overlaps>>
    BY <1>1 DEF RegisterAgent, bounds
  <2> HIDE DEF r
  <2> QED BY <2>1, <2>2, <2>3, AgentRow, AgentWritten
<1>2. CASE UpdateAgent(x)
  <2> DEFINE s == IF agent[x].state = "active" THEN "inactive" ELSE "active"
             r == [agent[x] EXCEPT !.state = s]
  <2>1. agent' = [agent EXCEPT ![x] = r]
    BY <1>2, TablesNow DEF UpdateAgent, TablesTyped
  <2>2. guesses' \in [Agents -> Nat] /\ mishaps' \in 0..MaxMishaps
    BY <1>2, AgentRow, CSDeskAssumption DEF UpdateAgent, Mishap
  <2>3. s \in {"none", "active", "inactive"}
    OBVIOUS
  <2> HIDE DEF s
  <2>4. /\ r \in AgentRows /\ r.pwd = agent[x].pwd /\ r.fails = agent[x].fails
        /\ r.locked = agent[x].locked
    BY <2>3, AgentRow DEF AgentRows
  <2>5. UNCHANGED <<desk, sess, at, overlaps>>
    BY <1>2 DEF UpdateAgent
  <2> HIDE DEF r
  <2> QED BY <2>1, <2>2, <2>4, <2>5, AgentRow, AgentWritten
<1>3. CASE LockExpires(x)
  <2> DEFINE r == [agent[x] EXCEPT !.locked = FALSE]
  <2>1. agent' = [agent EXCEPT ![x] = r]
    BY <1>3, TablesNow DEF LockExpires, TablesTyped
  <2>2. guesses' \in [Agents -> Nat] /\ mishaps' \in 0..MaxMishaps
    BY <1>3, AgentRow, CSDeskAssumption DEF LockExpires, Mishap
  <2>3. /\ r \in AgentRows /\ r.pwd = agent[x].pwd /\ r.fails = agent[x].fails
        /\ ~r.locked
    BY AgentRow DEF AgentRows
  <2>4. UNCHANGED <<desk, sess, at, overlaps>>
    BY <1>3 DEF LockExpires
  <2> HIDE DEF r
  <2> QED BY <2>1, <2>2, <2>3, <2>4, AgentRow, AgentWritten
<1> QED BY <1>1, <1>2, <1>3

LEMMA PasswordSteps ==
    ASSUME IInv, NEW p \in Procs,
           SetPassword(p) \/ RecordLoginFailure(p) \/ ClearLoginFailures(p)
    PROVE  IInv'
<1>1. a(p) \in Agents
  BY DEF IInv, Knows, SetPassword, RecordLoginFailure, ClearLoginFailures
<1>2. Finish(p) /\ UNCHANGED <<desk, sess>>
  BY DEF SetPassword, RecordLoginFailure, ClearLoginFailures
<1>3. CASE SetPassword(p) /\ agent[a(p)].state = "active"
  <2> DEFINE r == [agent[a(p)] EXCEPT !.pwd = TRUE, !.fails = 0, !.locked = FALSE]
  <2>1. agent' = [agent EXCEPT ![a(p)] = r]
    BY <1>1, <1>3, TablesNow DEF SetPassword, TablesTyped
  <2>2. 0 \in 0..MaxFailed
    BY CSDeskAssumption
  <2>3. r \in AgentRows /\ r.pwd
    BY <1>1, <2>2, AgentRow DEF AgentRows
  <2>4. guesses' \in [Agents -> Nat]
    BY <1>1, <1>3, AgentRow DEF SetPassword
  <2>5. UNCHANGED <<mishaps, overlaps>>
    BY <1>3 DEF SetPassword, bounds
  <2> HIDE DEF r
  <2> QED BY <1>1, <1>2, <2>1, <2>3, <2>4, <2>5, AgentRow, AgentWritten
<1>4. ASSUME RecordLoginFailure(p), UNCHANGED mishaps,
             agent' = [agent EXCEPT
                ![a(p)].fails  = IF @ < MaxFailed THEN @ + 1 ELSE @,
                ![a(p)].locked = @ \/ agent[a(p)].fails + 1 >= MaxFailed],
             guesses' = [guesses EXCEPT ![a(p)] = @ + 1]
      PROVE  IInv'
  <2> DEFINE fails == IF agent[a(p)].fails < MaxFailed THEN agent[a(p)].fails + 1 ELSE agent[a(p)].fails
             locked == agent[a(p)].locked \/ agent[a(p)].fails + 1 >= MaxFailed
             r == [agent[a(p)] EXCEPT !.fails = fails, !.locked = locked]
  <2>1. agent' = [agent EXCEPT ![a(p)] = r]
    BY <1>1, <1>4, TablesNow DEF TablesTyped
  <2>2. fails \in 0..MaxFailed
    BY <1>1, AgentRow, CSDeskAssumption DEF AgentRows
  <2>3. locked \in BOOLEAN
    BY <1>1, AgentRow
  <2>4. agent[a(p)].pwd
    BY <1>4 DEF IInv, Knows, RecordLoginFailure
  <2>5. r \in AgentRows /\ r.pwd
    <3> HIDE DEF fails, locked
    <3> QED BY <1>1, <2>2, <2>3, <2>4, AgentRow DEF AgentRows
  <2>6. guesses' \in [Agents -> Nat]
    BY <1>1, <1>4, AgentRow
  <2>7. UNCHANGED overlaps
    BY <1>4 DEF RecordLoginFailure
  <2> HIDE DEF r
  <2> QED BY <1>1, <1>2, <1>4, <2>1, <2>5, <2>6, <2>7, AgentRow, AgentWritten
<1>5. ASSUME ClearLoginFailures(p), UNCHANGED mishaps,
             agent' = [agent EXCEPT ![a(p)].fails = 0, ![a(p)].locked = @ /\ agent[a(p)].fails = 0],
             guesses' = [guesses EXCEPT ![a(p)] = 0]
      PROVE  IInv'
  <2> DEFINE locked == agent[a(p)].locked /\ agent[a(p)].fails = 0
             r == [agent[a(p)] EXCEPT !.fails = 0, !.locked = locked]
  <2>1. agent' = [agent EXCEPT ![a(p)] = r]
    BY <1>1, <1>5, TablesNow DEF TablesTyped
  <2>2. 0 \in 0..MaxFailed
    BY CSDeskAssumption
  <2>3. locked \in BOOLEAN
    OBVIOUS
  <2>4. agent[a(p)].pwd
    BY <1>5 DEF IInv, Knows, ClearLoginFailures
  <2>5. r \in AgentRows /\ r.pwd
    <3> HIDE DEF locked
    <3> QED BY <1>1, <2>2, <2>3, <2>4, AgentRow DEF AgentRows
  <2>6. guesses' \in [Agents -> Nat]
    BY <1>1, <1>5, AgentRow
  <2>7. UNCHANGED overlaps
    BY <1>5 DEF ClearLoginFailures
  <2> HIDE DEF r
  <2> QED BY <1>1, <1>2, <1>5, <2>1, <2>5, <2>6, <2>7, AgentRow, AgentWritten
<1>6. ASSUME UNCHANGED account, mishaps' \in 0..MaxMishaps, overlaps' \in 0..MaxOverlaps
      PROVE  IInv'
  <2>1. TablesTyped'
    BY <1>2, <1>6, TablesNow DEF TablesTyped, account, desk
  <2> QED BY <1>2, <1>6, <2>1, AccountWrites DEF account
<1>7. mishaps' = mishaps \/ Mishap => mishaps' \in 0..MaxMishaps
  BY AgentRow, CSDeskAssumption, TablesNow DEF Mishap, TablesTyped
<1>8. overlaps \in 0..MaxOverlaps /\ mishaps \in 0..MaxMishaps
  BY TablesNow DEF TablesTyped
<1>9. CASE SetPassword(p)
  BY <1>3, <1>6, <1>8, <1>9 DEF SetPassword, bounds
<1>10. CASE RecordLoginFailure(p)
  BY <1>4, <1>6, <1>7, <1>8, <1>10 DEF RecordLoginFailure
<1>11. CASE ClearLoginFailures(p)
  BY <1>5, <1>6, <1>7, <1>8, <1>11 DEF ClearLoginFailures
<1> QED BY <1>9, <1>10, <1>11

(* One row of cs_terminals is written.                                     *)
Statuses == {"NONE", "REGISTERED", "READY", "ONLINE", "OFFLINE"}
TermRows == [status : Statuses, by : Agents \cup {NoAgent}]

LEMMA TermRow ==
    ASSUME IInv
    PROVE  term \in [Terminals -> TermRows]
BY TablesNow DEF TablesTyped, TermRows, Statuses

LEMMA StatusWritten ==
    ASSUME IInv, NEW c \in Terminals, NEW s \in Statuses,
           term' = [term EXCEPT ![c].status = s], s # "ONLINE"
    PROVE  /\ term' \in [Terminals -> TermRows]
           /\ \A d \in Terminals : term'[d] # term[d] => term'[d].status # "ONLINE"
<1> DEFINE r == [term[c] EXCEPT !.status = s]
<1>1. term' = [term EXCEPT ![c] = r]
  OBVIOUS
<1>2. term[c] \in TermRows
  BY TermRow
<1>3. r \in TermRows /\ r.status = s
  BY <1>2 DEF TermRows
<1> HIDE DEF r
<1> QED BY <1>1, <1>3, TermRow, Rewritten

LEMMA MishapBound ==
    ASSUME IInv, UNCHANGED mishaps \/ Mishap
    PROVE  mishaps' \in 0..MaxMishaps
BY CSDeskAssumption, TablesNow DEF Mishap, TablesTyped

LEMMA TermTables ==
    ASSUME IInv, term' \in [Terminals -> TermRows], mishaps' \in 0..MaxMishaps,
           UNCHANGED <<account, gate, sess, overlaps>>
    PROVE  TablesTyped'
BY TablesNow DEF TablesTyped, TermRows, Statuses, account

LEMMA RegisterTerminalStep ==
    ASSUME IInv, NEW c \in Terminals, RegisterTerminal(c)
    PROVE  IInv'
<1>1. TablesTyped' /\ UNCHANGED at
  <2>1. "REGISTERED" \in Statuses
    BY DEF Statuses
  <2>2. term' \in [Terminals -> TermRows]
    BY <2>1, StatusWritten DEF RegisterTerminal
  <2>3. mishaps' \in 0..MaxMishaps
    BY MishapBound DEF RegisterTerminal, bounds
  <2> QED BY <2>2, <2>3, TermTables DEF RegisterTerminal, account, bounds
<1>2. Lasting /\ FreeSessions'
  BY DEF RegisterTerminal, IInv, Lasting, FreeSessions, account
<1>3. \A d \in Terminals : term'[d] # term[d] => term'[d].status # "ONLINE"
  BY StatusWritten DEF RegisterTerminal, Statuses
<1>4. OneDesk'
  BY <1>3 DEF RegisterTerminal, IInv, OneDesk, Open, Held
<1> QED BY <1>1, <1>2, <1>3, <1>4, VouchedLasts, Writes

(* One row of cs_agent_sessions is written.                                *)
SessStates == {"none", "live", "expired", "ended"}
SessRows == [state : SessStates, agent : Agents \cup {NoAgent}, term : Terminals \cup {NoAgent}]

LEMMA SessRow ==
    ASSUME IInv
    PROVE  sess \in [Ids -> SessRows]
BY TablesNow DEF TablesTyped, SessRows, SessStates

LEMMA SessStateWritten ==
    ASSUME IInv, NEW j \in Ids, NEW s \in SessStates, sess' = [sess EXCEPT ![j].state = s]
    PROVE  sess' \in [Ids -> SessRows]
<1> DEFINE r == [sess[j] EXCEPT !.state = s]
<1>1. sess' = [sess EXCEPT ![j] = r]
  OBVIOUS
<1>2. sess[j] \in SessRows
  BY SessRow
<1>3. r \in SessRows
  BY <1>2 DEF SessRows
<1> HIDE DEF r
<1> QED BY <1>1, <1>3, SessRow, Rewritten

LEMMA SessionExpiresStep ==
    ASSUME IInv, NEW j \in Ids, SessionExpires(j)
    PROVE  IInv'
<1>1. TablesTyped' /\ UNCHANGED at
  <2>1. mishaps' \in 0..MaxMishaps
    BY MishapBound DEF SessionExpires
  <2>2. sess' \in [Ids -> SessRows]
    BY SessStateWritten DEF SessionExpires, SessStates
  <2> QED BY <2>1, <2>2, TablesNow DEF SessionExpires, TablesTyped, SessRows, SessStates, account, desk
<1>2. Lasting /\ FreeSessions'
  BY DEF SessionExpires, IInv, TypeOK, Lasting, FreeSessions, account, desk
<1>3. OneDesk'
  BY DEF SessionExpires, IInv, TypeOK, OneDesk, Open, Held, desk
<1> QED BY <1>1, <1>2, <1>3, VouchedLasts, Writes DEF SessionExpires, desk

LEMMA GateExpiresStep ==
    ASSUME IInv, NEW j \in Ids, NEW g \in Gates, GateExpires(j, g)
    PROVE  IInv'
<1>1. TablesTyped' /\ UNCHANGED at
  BY CSDeskAssumption, TablesNow DEF GateExpires, Mishap, TablesTyped, account, bounds
<1>2. Lasting /\ FreeSessions'
  BY DEF GateExpires, IInv, TypeOK, Lasting, FreeSessions, account
<1>3. OneDesk'
  BY DEF GateExpires, IInv, OneDesk, Open, Held
<1> QED BY <1>1, <1>2, <1>3, VouchedLasts, Writes DEF GateExpires

LEMMA SetStatusStep ==
    ASSUME IInv, NEW p \in Procs, SetStatus(p)
    PROVE  IInv'
<1>1. TablesTyped' /\ Finish(p)
  <2>1. "READY" \in Statuses /\ t(p) \in Terminals
    BY DEF Statuses, IInv, Knows, SetStatus, ShiftPcs
  <2>2. term' \in [Terminals -> TermRows]
    BY <2>1, StatusWritten DEF SetStatus
  <2>3. mishaps' \in 0..MaxMishaps
    BY MishapBound DEF SetStatus, bounds
  <2> QED BY <2>2, <2>3, TermTables DEF SetStatus, account, bounds
<1>2. Lasting /\ FreeSessions'
  BY DEF SetStatus, IInv, Lasting, FreeSessions, account
<1>3. \A d \in Terminals : term'[d] # term[d] => term'[d].status # "ONLINE"
  BY DEF SetStatus, IInv, TypeOK
<1>4. OneDesk'
  BY <1>3 DEF SetStatus, IInv, OneDesk, Open, Held
<1> QED BY <1>1, <1>2, <1>3, <1>4, VouchedLasts, Writes

LEMMA DeactivateStep ==
    ASSUME IInv, NEW p \in Procs, Deactivate(p)
    PROVE  IInv'
<1>1. TablesTyped' /\ Finish(p)
  <2>1. [status |-> "OFFLINE", by |-> NoAgent] \in TermRows
    BY DEF Statuses, TermRows
  <2>2. t(p) \in Terminals
    BY DEF IInv, Knows, Deactivate, ShiftPcs, SessionKinds
  <2>3. term' \in [Terminals -> TermRows]
    BY <2>1, <2>2, TermRow, Rewritten DEF Deactivate
  <2>4. mishaps' \in 0..MaxMishaps
    BY MishapBound DEF Deactivate
  <2> QED BY <2>3, <2>4, TermTables DEF Deactivate, account
<1>2. Lasting /\ FreeSessions'
  BY DEF Deactivate, IInv, Lasting, FreeSessions, account
<1>3. \A d \in Terminals : term'[d] # term[d] => term'[d].status # "ONLINE"
  BY DEF Deactivate, IInv, TypeOK
<1>4. OneDesk'
  BY <1>3 DEF Deactivate, IInv, OneDesk, Open, Held
<1> QED BY <1>1, <1>2, <1>3, <1>4, VouchedLasts, Writes

-----------------------------------------------------------------------------
(* The steps the two properties turn on.                                   *)

LEMMA StartStep ==
    ASSUME IInv, NEW p \in Procs, NEW kind \in Kinds, NEW x \in Agents,
           NEW c \in Terminals, NEW j \in Ids, Start(p, kind, x, c, j)
    PROVE  IInv'
<1> DEFINE pc == CASE kind \in SessionKinds -> "resolve"
                   [] kind = "guess" -> "login"
                   [] OTHER -> kind
           r == [Idle EXCEPT !.agent = x, !.pc = pc, !.kind = kind,
                             !.term = IF kind \in SessionKinds \cup {"login"} THEN c ELSE NoAgent,
                             !.id = IF kind \in SessionKinds THEN j ELSE NoAgent]
<1>1. at' = [at EXCEPT ![p] = r]
  BY DEF Start
<1>2. /\ pc \in {"resolve", "login", "password", "take"}
      /\ pc = "resolve" <=> kind \in SessionKinds
  BY DEF Kinds, SessionKinds
<1>3. r \in Requests /\ r.pc = pc /\ r.agent = x
  <2> HIDE DEF pc
  <2> QED BY <1>2, IdleTyped DEF Idle, Requests, Pcs
<1>4. kind \in SessionKinds => r.kind = kind /\ r.term = c /\ r.id = j
  BY DEF Idle
<1>5. at'[p] = r /\ at' \in [Procs -> Requests] /\ \A q \in Procs : q # p => at'[q] = at[q]
  <2> HIDE DEF r
  <2> QED BY <1>1, <1>3 DEF IInv, TypeOK, Requests
<1>6. Knows(p)'
  <2> HIDE DEF r, pc
  <2>1. kind \in SessionKinds => sess'[j].agent = x /\ sess'[j].term = c
    BY DEF Start
  <2> QED BY <1>2, <1>3, <1>4, <1>5, <2>1 DEF Knows, ShiftPcs, SessionKinds, a, t, i
<1>7. overlaps' \in 0..MaxOverlaps
  BY CSDeskAssumption, TablesNow DEF Start, TablesTyped
<1>8. TypeOK'
  BY <1>5, <1>7, TablesNow, Types DEF Start, TablesTyped, account, desk
<1>9. FreeSessions' /\ OneDesk' /\ OnlineIsVouched' /\ Lasting
  BY QuietDesk DEF Start, account
<1> QED BY <1>5, <1>6, <1>8, <1>9, Keeps

(* The unique index: the new session is opened only when the one it was    *)
(* seen to supersede is the only open one.                                 *)
LEMMA InsertStep ==
    ASSUME IInv, NEW p \in Procs, Insert(p)
    PROVE  IInv'
<1>1. CASE Finish(p) /\ UNCHANGED sess
  BY <1>1, QuietMove DEF Insert
<1>2. ASSUME NEW j \in Ids, sess[j].state = "none", Open(a(p)) \subseteq {i(p)},
             sess' = [k \in Ids |->
                 IF k = j THEN [state |-> "live", agent |-> a(p), term |-> t(p)]
                 ELSE IF k = i(p) THEN [sess[k] EXCEPT !.state = "ended"] ELSE sess[k]],
             at' = [at EXCEPT ![p].pc = "clear", ![p].id = NoAgent]
      PROVE  IInv'
  <2>1. /\ at' \in [Procs -> Requests]
        /\ \A q \in Procs : q # p => at'[q] = at[q]
        /\ at'[p].pc = "clear" /\ a(p)' = a(p)
    <3> DEFINE r == [at[p] EXCEPT !.pc = "clear", !.id = NoAgent]
    <3>1. "clear" \in Pcs /\ TypeOK
      BY DEF Pcs, IInv
    <3>2. at' = [at EXCEPT ![p] = r]
      BY <1>2
    <3>3. at[p] \in Requests
      BY <3>1, RequestRow
    <3>4. r \in Requests /\ r.pc = "clear" /\ r.agent = at[p].agent
      BY <3>1, <3>3 DEF Requests
    <3> HIDE DEF r
    <3> QED BY <3>1, <3>2, <3>4, RequestRewritten DEF a
  <2>2. Knows(p)'
    BY <2>1 DEF IInv, Insert, Knows, ShiftPcs, SessionKinds, account
  <2>3. a(p) \in Agents /\ t(p) \in Terminals \cup {NoAgent}
    BY DEF IInv, TypeOK, Knows, Insert, a, t
  <2>4. sess \in [Ids -> [state : {"none", "live", "expired", "ended"},
                          agent : Agents \cup {NoAgent}, term : Terminals \cup {NoAgent}]]
    BY DEF IInv, TypeOK
  <2>5. sess' \in [Ids -> [state : {"none", "live", "expired", "ended"},
                           agent : Agents \cup {NoAgent}, term : Terminals \cup {NoAgent}]]
    BY <1>2, <2>3, <2>4
  <2>6. TypeOK'
    BY <2>1, <2>5, TablesNow, Types DEF Insert, TablesTyped, account, desk, bounds
  <2>7. Lasting /\ FreeSessions'
    BY <1>2, <2>4 DEF Insert, IInv, Lasting, FreeSessions, account, desk
  <2>8. OneDesk'
    <3>1. \A x \in Agents : \A k, l \in Open(x)' : k = l
      <4> SUFFICES ASSUME NEW x \in Agents, NEW k \in Open(x)', NEW l \in Open(x)'
                   PROVE  k = l
        OBVIOUS
      <4>1. CASE x = a(p)
        <5>1. \A m \in Open(x)' : m = j
          BY <1>2, <2>4, <4>1 DEF Open
        <5> QED BY <5>1
      <4>2. CASE x # a(p)
        <5>1. Open(x)' \subseteq Open(x)
          BY <1>2, <2>4, <4>2 DEF Open
        <5> QED BY <5>1 DEF IInv, OneDesk
      <4> QED BY <4>1, <4>2
    <3>2. \A x \in Agents : Held(x)' = Held(x)
      BY DEF Insert, Held, desk
    <3> QED BY <3>1, <3>2 DEF IInv, OneDesk
  <2>9. OnlineIsVouched'
    BY <2>7, VouchedLasts DEF Insert, desk
  <2> QED BY <2>1, <2>2, <2>6, <2>7, <2>8, <2>9, Keeps
<1> QED BY <1>1, <1>2 DEF Insert

LEMMA UpsertGateStep ==
    ASSUME IInv, NEW p \in Procs, UpsertGate(p)
    PROVE  IInv'
<1>1. "status" \in Pcs
  BY DEF Pcs
<1>2. /\ at' \in [Procs -> Requests]
      /\ \A q \in Procs : q # p => at'[q] = at[q]
      /\ at'[p].pc = "status" /\ a(p)' = a(p) /\ t(p)' = t(p) /\ i(p)' = i(p)
  BY <1>1, GotoMoves DEF IInv, UpsertGate
<1>3. Knows(p)'
  BY <1>2 DEF IInv, UpsertGate, Knows, ShiftPcs, SessionKinds
<1>4. /\ gate' \in [Ids -> [Gates -> {"none", "valid", "expired"}]]
      /\ \A j \in Ids, g \in Gates : gate[j][g] # "none" => gate'[j][g] # "none"
  <2>1. PICK h \in Gates : gate' = [gate EXCEPT ![i(p)][h] = "valid"]
    BY DEF UpsertGate
  <2>2. i(p) \in Ids
    BY DEF IInv, UpsertGate, Knows, ShiftPcs, SessionKinds
  <2>3. gate \in [Ids -> [Gates -> {"none", "valid", "expired"}]]
    BY DEF IInv, TypeOK
  <2>4. gate' = [gate EXCEPT ![i(p)] = [gate[i(p)] EXCEPT ![h] = "valid"]]
    BY <2>1
  <2>5. [gate[i(p)] EXCEPT ![h] = "valid"] \in [Gates -> {"none", "valid", "expired"}]
    BY <2>2, <2>3
  <2>6. \A j \in Ids : j # i(p) => gate'[j] = gate[j]
    BY <2>3, <2>4
  <2>7. \A g \in Gates : gate'[i(p)][g] = IF g = h THEN "valid" ELSE gate[i(p)][g]
    BY <2>2, <2>3, <2>4
  <2> QED BY <2>3, <2>4, <2>5, <2>6, <2>7
<1>5. TypeOK'
  BY <1>2, <1>4, TablesNow, Types DEF UpsertGate, TablesTyped, account, bounds
<1>6. Lasting /\ FreeSessions' /\ OneDesk'
  BY <1>4 DEF UpsertGate, IInv, Lasting, FreeSessions, OneDesk, Open, Held, account
<1>7. OnlineIsVouched'
  BY <1>6, VouchedLasts DEF UpsertGate
<1> QED BY <1>2, <1>3, <1>5, <1>6, <1>7, Keeps

(* The unique index on terminals, and the look at the gates that came      *)
(* before: what goes ONLINE is vouched for by the session of the request.  *)
LEMMA ActivateStep ==
    ASSUME IInv, NEW p \in Procs, Activate(p)
    PROVE  IInv'
<1>1. /\ i(p) \in Ids /\ t(p) \in Terminals /\ a(p) \in Agents
      /\ sess[i(p)].agent = a(p) /\ sess[i(p)].term = t(p)
      /\ \A g \in Gates : gate[i(p)][g] # "none"
  BY DEF IInv, Knows, Activate, ShiftPcs, SessionKinds
<1>2. TablesTyped' /\ Finish(p)
  <2>1. [status |-> "ONLINE", by |-> a(p)] \in TermRows
    BY <1>1 DEF Statuses, TermRows
  <2>2. term' \in [Terminals -> TermRows]
    BY <1>1, <2>1, TermRow, Rewritten DEF Activate
  <2>3. mishaps' \in 0..MaxMishaps
    BY MishapBound DEF Activate, bounds
  <2> QED BY <2>2, <2>3, TermTables DEF Activate, account, bounds
<1>3. Lasting /\ FreeSessions'
  BY DEF Activate, IInv, Lasting, FreeSessions, account
<1>4. CASE UNCHANGED term
  <2>1. OneDesk'
    BY <1>4 DEF Activate, IInv, OneDesk, Open, Held
  <2> QED BY <1>2, <1>3, <1>4, <2>1, VouchedLasts, Writes
<1>5. CASE /\ Held(a(p)) \subseteq {t(p)}
           /\ term' = [term EXCEPT ![t(p)] = [status |-> "ONLINE", by |-> a(p)]]
  <2>1. /\ term'[t(p)] = [status |-> "ONLINE", by |-> a(p)]
        /\ \A c \in Terminals : c # t(p) => term'[c] = term[c]
    BY <1>1, <1>5 DEF IInv, TypeOK
  <2>2. \A x \in Agents : \A c, d \in Held(x)' : c = d
    <3> SUFFICES ASSUME NEW x \in Agents, NEW c \in Held(x)', NEW d \in Held(x)'
                 PROVE  c = d
      OBVIOUS
    <3>1. CASE x = a(p)
      <4>1. \A e \in Held(x)' : e = t(p)
        BY <1>5, <2>1, <3>1 DEF Held
      <4> QED BY <4>1
    <3>2. CASE x # a(p)
      <4>1. Held(x)' \subseteq Held(x)
        BY <2>1, <3>2 DEF Held
      <4> QED BY <4>1 DEF IInv, OneDesk
    <3> QED BY <3>1, <3>2
  <2>3. \A x \in Agents : Open(x)' = Open(x)
    BY DEF Activate, Open
  <2>4. OneDesk'
    BY <2>2, <2>3 DEF IInv, OneDesk
  <2>5. OnlineIsVouched'
    BY <1>1, <2>1 DEF IInv, OnlineIsVouched, Activate
  <2> QED BY <1>2, <1>3, <2>4, <2>5, Writes
<1> QED BY <1>4, <1>5 DEF Activate

LEMMA EndStep ==
    ASSUME IInv, NEW p \in Procs, End(p)
    PROVE  IInv'
<1>1. CASE Finish(p) /\ UNCHANGED sess
  BY <1>1, QuietMove DEF End
<1>2. CASE sess' = [sess EXCEPT ![i(p)].state = "ended"] /\ Goto(p, "release")
  <2>1. "release" \in Pcs
    BY DEF Pcs
  <2>2. /\ at' \in [Procs -> Requests]
        /\ \A q \in Procs : q # p => at'[q] = at[q]
        /\ at'[p].pc = "release" /\ a(p)' = a(p) /\ t(p)' = t(p) /\ i(p)' = i(p)
    BY <1>2, <2>1, GotoMoves DEF IInv
  <2>3. Lasting /\ FreeSessions'
    BY <1>2 DEF End, IInv, TypeOK, Lasting, FreeSessions, account, desk
  <2>4. i(p) \in Ids /\ sess'[i(p)].agent = sess[i(p)].agent /\ sess'[i(p)].term = sess[i(p)].term
    BY <1>2 DEF End, IInv, TypeOK, Knows, ShiftPcs, SessionKinds
  <2>5. Knows(p)'
    BY <2>2, <2>4 DEF IInv, End, Knows, ShiftPcs, SessionKinds
  <2>6. TypeOK'
    <3>1. sess' \in [Ids -> [state : {"none", "live", "expired", "ended"},
                             agent : Agents \cup {NoAgent}, term : Terminals \cup {NoAgent}]]
      <4>1. sess \in [Ids -> [state : {"none", "live", "expired", "ended"},
                              agent : Agents \cup {NoAgent}, term : Terminals \cup {NoAgent}]]
        BY DEF IInv, TypeOK
      <4>2. sess' = [sess EXCEPT ![i(p)] = [sess[i(p)] EXCEPT !.state = "ended"]]
        BY <1>2
      <4>3. [sess[i(p)] EXCEPT !.state = "ended"] \in
                [state : {"none", "live", "expired", "ended"},
                 agent : Agents \cup {NoAgent}, term : Terminals \cup {NoAgent}]
        BY <2>4, <4>1
      <4> QED BY <4>1, <4>2, <4>3
    <3> QED BY <2>2, <3>1, TablesNow, Types DEF End, TablesTyped, account, desk, bounds
  <2>7. OneDesk'
    BY <1>2 DEF End, IInv, TypeOK, OneDesk, Open, Held, desk
  <2>8. OnlineIsVouched'
    BY <2>3, VouchedLasts DEF End, desk
  <2> QED BY <2>2, <2>3, <2>5, <2>6, <2>7, <2>8, Keeps
<1> QED BY <1>1, <1>2 DEF End

-----------------------------------------------------------------------------
(* IInv is inductive.                                                      *)
LEMMA NextKeeps ==
    ASSUME IInv, [Next]_vars
    PROVE  IInv'
<1>1. CASE UNCHANGED vars
  BY <1>1 DEF vars, IInv, TypeOK, FreeSessions, OneDesk, OnlineIsVouched, Knows, Open, Held,
              account, desk, bounds, a, t, i
<1>2. CASE Next
  BY <1>2, StartStep, AccountSteps, PasswordSteps, FindForPasswordStep, FindForLoginStep,
     SupersedeStep, InsertStep,
     ResolveStep, UpsertGateStep, LookStep, SetStatusStep, ActivateStep, DeactivateStep,
     EndStep, TakeStep, RegisterTerminalStep, SessionExpiresStep, GateExpiresStep DEF Next
<1> QED BY <1>1, <1>2

(* The inductive invariant holds of every run of the desk.                 *)
THEOREM Invariance == Spec => []IInv
<1> QED BY InitHolds, NextKeeps, PTL DEF Spec

(* The tables of cs_repo.go, cs_session_repo.go and cs_terminal_repo.go    *)
(* keep their shape, and no agent without a password is ever locked.       *)
THEOREM TypeCorrect == Spec => []TypeOK
<1>1. IInv => TypeOK
  BY DEF IInv
<1> QED BY <1>1, Invariance, PTL

(* Whatever logins, activations, logouts and takeovers run at the same     *)
(* time, an agent has at most one session that is not ended and at most    *)
(* one terminal ONLINE: Create and Activate need no transaction around     *)
(* what was read before them, the two unique indexes are enough.           *)
THEOREM OneDeskEach == Spec => []OneDesk
<1>1. IInv => OneDesk
  BY DEF IInv
<1> QED BY <1>1, Invariance, PTL

(* No terminal is ONLINE in the name of an agent whose own session at that *)
(* terminal has not passed every gate, although Activate writes what it    *)
(* decided from gates read before: the rows of a session are only added.   *)
THEOREM OnlineVouched == Spec => []OnlineIsVouched
<1>1. IInv => OnlineIsVouched
  BY DEF IInv
<1> QED BY <1>1, Invariance, PTL

-----------------------------------------------------------------------------
(* The lockout, when logins run at the same time.                          *)

(* The wrong passwords that have passed the look at the lock and are not   *)
(* counted yet.                                                            *)
Uncounted(x) == {p \in Procs : at[p].pc = "wrong" /\ at[p].agent = x}

(* While the account is not locked, the guesses are in its count, below    *)
(* the limit. Once it is, nothing joins those that wait to be counted.     *)
Guarded(x) ==
    /\ ~agent[x].locked => guesses[x] <= agent[x].fails /\ guesses[x] < MaxFailed
    /\ agent[x].locked =>
         guesses[x] + Cardinality(Uncounted(x)) <= MaxFailed + Cardinality(Procs) - 1

GInv == \A x \in Agents : Guarded(x)

LEMMA UncountedFinite ==
    ASSUME NEW x
    PROVE  /\ IsFiniteSet(Uncounted(x)) /\ Cardinality(Uncounted(x)) \in Nat
           /\ Cardinality(Procs) \in Nat /\ Cardinality(Uncounted(x)) <= Cardinality(Procs)
<1>1. Uncounted(x) \in SUBSET Procs /\ IsFiniteSet(Procs)
  BY CSDeskAssumption DEF Uncounted
<1> QED BY <1>1, FS_Subset, FS_CardinalityType

LEMMA FewerUncounted ==
    ASSUME NEW x, Uncounted(x)' \subseteq Uncounted(x)
    PROVE  /\ Cardinality(Uncounted(x)') \in Nat
           /\ Cardinality(Uncounted(x)') <= Cardinality(Uncounted(x))
<1>1. Uncounted(x)' \in SUBSET Uncounted(x) /\ IsFiniteSet(Uncounted(x))
  BY UncountedFinite
<1> QED BY <1>1, FS_Subset, FS_CardinalityType

(* The two ways for one that was counted to make room for its own count.   *)
LEMMA OneCounted ==
    ASSUME NEW x, NEW p \in Uncounted(x), Uncounted(x)' \subseteq Uncounted(x) \ {p}
    PROVE  /\ Cardinality(Uncounted(x)') \in Nat
           /\ Cardinality(Uncounted(x)') <= Cardinality(Uncounted(x)) - 1
           /\ Cardinality(Uncounted(x)') <= Cardinality(Procs) - 1
<1>1. /\ IsFiniteSet(Uncounted(x)) /\ Cardinality(Uncounted(x)) \in Nat
      /\ Cardinality(Procs) \in Nat /\ Cardinality(Uncounted(x)) <= Cardinality(Procs)
  BY UncountedFinite
<1>2. /\ IsFiniteSet(Uncounted(x) \ {p})
      /\ Cardinality(Uncounted(x) \ {p}) = Cardinality(Uncounted(x)) - 1
  BY <1>1, FS_RemoveElement
<1>3. Uncounted(x)' \in SUBSET (Uncounted(x) \ {p})
  OBVIOUS
<1>4. /\ IsFiniteSet(Uncounted(x)')
      /\ Cardinality(Uncounted(x)') <= Cardinality(Uncounted(x) \ {p})
  BY <1>2, <1>3, FS_Subset
<1>5. Cardinality(Uncounted(x)') \in Nat
  BY <1>4, FS_CardinalityType
<1> QED BY <1>1, <1>2, <1>4, <1>5

LEMMA CountTypes ==
    ASSUME IInv, NEW x \in Agents
    PROVE  /\ guesses[x] \in Nat /\ agent[x].fails \in 0..MaxFailed
           /\ agent[x].locked \in BOOLEAN /\ MaxFailed \in Nat \ {0}
BY AgentRow, CSDeskAssumption DEF AgentRows

(* A count that is cleared, or an end of the lock, starts from nothing.    *)
LEMMA Cleared ==
    ASSUME IInv, IInv', NEW x \in Agents, guesses'[x] = 0
    PROVE  Guarded(x)'
<1>1. agent'[x].fails \in 0..MaxFailed /\ MaxFailed \in Nat \ {0}
  BY CSDeskAssumption DEF IInv, TypeOK
<1>2. Uncounted(x)' \in SUBSET Procs /\ IsFiniteSet(Procs)
  BY CSDeskAssumption DEF Uncounted
<1>3. /\ Cardinality(Uncounted(x)') \in Nat /\ Cardinality(Procs) \in Nat
      /\ Cardinality(Uncounted(x)') <= Cardinality(Procs)
  BY <1>2, FS_Subset, FS_CardinalityType
<1> QED BY <1>1, <1>3 DEF Guarded

(* An agent whose count is left alone, and whose lock nobody passes.       *)
LEMMA LeftAlone ==
    ASSUME IInv, GInv, NEW x \in Agents, guesses'[x] = guesses[x],
           agent'[x].locked = agent[x].locked, agent'[x].fails = agent[x].fails,
           agent[x].locked => Uncounted(x)' \subseteq Uncounted(x)
    PROVE  Guarded(x)'
<1>1. Guarded(x)
  BY DEF GInv
<1>2. CASE ~agent[x].locked
  BY <1>1, <1>2 DEF Guarded
<1>3. CASE agent[x].locked
  <2>1. /\ Cardinality(Uncounted(x)') \in Nat
        /\ Cardinality(Uncounted(x)') <= Cardinality(Uncounted(x))
    BY <1>3, FewerUncounted
  <2> QED BY <1>1, <1>3, <2>1, UncountedFinite, CountTypes DEF Guarded
<1> QED BY <1>2, <1>3

(* Where a step leaves its request, and all the others.                    *)
LEMMA StepMoves ==
    ASSUME IInv, Next
    PROVE  \/ UNCHANGED at
           \/ \E p \in Procs : /\ \A q \in Procs : q # p => at'[q] = at[q]
                               /\ at'[p].pc # "wrong" \/ FindForLogin(p)
<1>1. TypeOK /\ at \in [Procs -> Requests]
  BY DEF IInv, TypeOK, Requests
<1>2. \A p \in Procs : at[p].pc = "resolve" => at[p].kind \in SessionKinds
  BY DEF IInv, Knows
<1>3. ASSUME NEW p \in Procs, Finish(p)
      PROVE  at'[p].pc # "wrong" /\ \A q \in Procs : q # p => at'[q] = at[q]
  BY <1>1, <1>3, FinishIdles
<1>4. ASSUME NEW p \in Procs, NEW r, at' = [at EXCEPT ![p] = r]
      PROVE  at'[p] = r /\ \A q \in Procs : q # p => at'[q] = at[q]
  BY <1>1, <1>4
<1>5. ASSUME NEW p \in Procs, NEW pc \in Pcs \ {"wrong"}, Goto(p, pc)
      PROVE  at'[p].pc # "wrong" /\ \A q \in Procs : q # p => at'[q] = at[q]
  BY <1>1, <1>5, GotoMoves
<1>6. ASSUME NEW p \in Procs, NEW kind \in Kinds, NEW x \in Agents, NEW c \in Terminals,
             NEW j \in Ids, Start(p, kind, x, c, j)
      PROVE  at'[p].pc # "wrong" /\ \A q \in Procs : q # p => at'[q] = at[q]
  BY <1>1, <1>6 DEF Start, Idle, Kinds, SessionKinds
<1>7. ASSUME NEW p \in Procs, Supersede(p) \/ Insert(p) \/ AgentSignalingURL(p)
      PROVE  at'[p].pc # "wrong" /\ \A q \in Procs : q # p => at'[q] = at[q]
  BY <1>1, <1>3, <1>7 DEF Supersede, Insert, AgentSignalingURL, Requests, Goto
<1>8. ASSUME NEW p \in Procs,
             \/ Resolve(p) \/ UpsertGate(p) \/ ReadStatus(p) \/ ReadGates(p)
             \/ Readiness(p) \/ End(p)
      PROVE  at'[p].pc # "wrong" /\ \A q \in Procs : q # p => at'[q] = at[q]
  <2>1. {"status", "gates", "promote", "online", "release"} \cup SessionKinds \subseteq Pcs \ {"wrong"}
    BY DEF Pcs, SessionKinds
  <2> QED BY <1>2, <1>3, <1>5, <1>8, <2>1
          DEF Resolve, UpsertGate, ReadStatus, ReadGates, Readiness, End
<1>9. ASSUME NEW p \in Procs, FindForLogin(p)
      PROVE  \A q \in Procs : q # p => at'[q] = at[q]
  BY <1>1, <1>9 DEF FindForLogin, Goto, Finish
<1>10. ASSUME NEW p \in Procs, FindForPassword(p)
      PROVE  at'[p].pc # "wrong" /\ \A q \in Procs : q # p => at'[q] = at[q]
  <2>1. "setpwd" \in Pcs \ {"wrong"}
    BY DEF Pcs
  <2> QED BY <1>3, <1>5, <1>10, <2>1 DEF FindForPassword
<1> QED BY <1>3, <1>6, <1>7, <1>8, <1>9, <1>10
       DEF Next, SetPassword, RecordLoginFailure, ClearLoginFailures, SetStatus, Activate,
           Deactivate, Respond, RegisterAgent, UpdateAgent, LockExpires, RegisterTerminal,
           SessionExpires, GateExpires

(* Who is counted later has passed the lock by now.                        *)
LEMMA LockKeepsOut ==
    ASSUME IInv, Next, NEW x \in Agents, agent[x].locked
    PROVE  Uncounted(x)' \subseteq Uncounted(x)
<1>1. CASE UNCHANGED at
  BY <1>1 DEF Uncounted
<1>2. ASSUME NEW p \in Procs, \A q \in Procs : q # p => at'[q] = at[q],
             at'[p].pc # "wrong" \/ FindForLogin(p)
      PROVE  Uncounted(x)' \subseteq Uncounted(x)
  <2>1. FindForLogin(p) /\ a(p) = x => at'[p].pc # "wrong"
    BY FinishIdles DEF IInv, FindForLogin, Goto
  <2>2. FindForLogin(p) /\ a(p) # x => at'[p].pc # "wrong" \/ at'[p].agent # x
    BY FinishIdles, GotoMoves DEF IInv, FindForLogin, Pcs, a
  <2> QED BY <1>2, <2>1, <2>2 DEF Uncounted
<1> QED BY <1>1, <1>2, StepMoves

(* The count of a wrong password: it locks at the limit, and after that    *)
(* only those are counted that had passed.                                 *)
LEMMA Counts ==
    ASSUME IInv, GInv, Next, NEW p \in Procs, RecordLoginFailure(p), NEW x \in Agents
    PROVE  Guarded(x)'
<1>1. a(p) \in Agents /\ at[p].pc = "wrong"
  BY DEF IInv, Knows, RecordLoginFailure
<1>2. agent \in [Agents -> AgentRows] /\ guesses \in [Agents -> Nat]
  BY TablesNow DEF TablesTyped, AgentRows
<1>3. CASE UNCHANGED account
  BY <1>3, LeftAlone, LockKeepsOut DEF account
<1>4. ASSUME agent' = [agent EXCEPT
                ![a(p)].fails  = IF @ < MaxFailed THEN @ + 1 ELSE @,
                ![a(p)].locked = @ \/ agent[a(p)].fails + 1 >= MaxFailed],
             guesses' = [guesses EXCEPT ![a(p)] = @ + 1]
      PROVE  Guarded(x)'
  <2>1. CASE x # a(p)
    <3>1. agent'[x] = agent[x] /\ guesses'[x] = guesses[x]
      BY <1>1, <1>2, <1>4, <2>1
    <3> QED BY <3>1, LeftAlone, LockKeepsOut
  <2>2. CASE x = a(p)
    <3>1. /\ guesses'[x] = guesses[x] + 1
          /\ agent'[x].fails = IF agent[x].fails < MaxFailed THEN agent[x].fails + 1 ELSE agent[x].fails
          /\ agent'[x].locked <=> agent[x].locked \/ agent[x].fails + 1 >= MaxFailed
      BY <1>1, <1>2, <1>4, <2>2 DEF AgentRows
    <3>2. Guarded(x)
      BY DEF GInv
    <3>3. CASE agent'[x].locked
      <4>1. p \in Uncounted(x)
        BY <1>1, <2>2 DEF Uncounted, a
      <4>2. Uncounted(x)' \subseteq Uncounted(x) \ {p}
        <5>1. /\ at'[p].pc = "idle"
              /\ \A q \in Procs : q # p => at'[q] = at[q]
          BY FinishIdles DEF IInv, RecordLoginFailure
        <5> QED BY <5>1 DEF Uncounted
      <4>3. /\ Cardinality(Uncounted(x)') \in Nat
            /\ Cardinality(Uncounted(x)') <= Cardinality(Uncounted(x)) - 1
            /\ Cardinality(Uncounted(x)') <= Cardinality(Procs) - 1
        BY <4>1, <4>2, OneCounted
      <4> QED BY <3>1, <3>2, <3>3, <4>3, CountTypes, UncountedFinite DEF Guarded
    <3>4. CASE ~agent'[x].locked
      BY <3>1, <3>2, <3>4, CountTypes DEF Guarded
    <3> QED BY <3>3, <3>4
  <2> QED BY <2>1, <2>2
<1> QED BY <1>3, <1>4 DEF RecordLoginFailure

(* One row of cs_agents is written, and its count cleared or left alone.   *)
LEMMA ClearsOne ==
    ASSUME IInv, IInv', GInv, Next, NEW y \in Agents, NEW r, agent' = [agent EXCEPT ![y] = r],
           \/ guesses' = [guesses EXCEPT ![y] = 0]
           \/ guesses' = guesses /\ r.locked = agent[y].locked /\ r.fails = agent[y].fails,
           NEW x \in Agents
    PROVE  Guarded(x)'
<1>1. agent \in [Agents -> AgentRows] /\ guesses \in [Agents -> Nat]
  BY TablesNow DEF TablesTyped, AgentRows
<1>2. CASE x = y /\ guesses' = [guesses EXCEPT ![y] = 0]
  BY <1>1, <1>2, Cleared
<1>3. CASE x # y
  <2>1. guesses'[x] = guesses[x] /\ agent'[x] = agent[x]
    BY <1>1, <1>3
  <2> QED BY <2>1, LeftAlone, LockKeepsOut
<1>4. CASE x = y /\ guesses' = guesses /\ r.locked = agent[y].locked /\ r.fails = agent[y].fails
  <2>1. guesses'[x] = guesses[x] /\ agent'[x] = r
    BY <1>1, <1>4
  <2> QED BY <1>4, <2>1, LeftAlone, LockKeepsOut
<1> QED BY <1>2, <1>3, <1>4

LEMMA OtherAccountSteps ==
    ASSUME IInv, IInv', GInv, Next,
           \/ \E y \in Agents : RegisterAgent(y) \/ UpdateAgent(y) \/ LockExpires(y)
           \/ \E p \in Procs : SetPassword(p) \/ ClearLoginFailures(p),
           NEW x \in Agents
    PROVE  Guarded(x)'
<1>1. agent \in [Agents -> AgentRows]
  BY TablesNow DEF TablesTyped, AgentRows
<1>2. CASE UNCHANGED account
  BY <1>2, LeftAlone, LockKeepsOut DEF account
<1>3. ASSUME NEW y \in Agents, RegisterAgent(y)
      PROVE  Guarded(x)'
  <2> DEFINE r == [agent[y] EXCEPT !.state = "active"]
  <2>1. agent' = [agent EXCEPT ![y] = r] /\ guesses' = guesses
    BY <1>3 DEF RegisterAgent
  <2>2. r.locked = agent[y].locked /\ r.fails = agent[y].fails
    BY <1>1 DEF AgentRows
  <2> HIDE DEF r
  <2> QED BY <2>1, <2>2, ClearsOne
<1>4. ASSUME NEW y \in Agents, LockExpires(y)
      PROVE  Guarded(x)'
  <2>1. PICK r : agent' = [agent EXCEPT ![y] = r]
    BY <1>4 DEF LockExpires
  <2>2. guesses' = [guesses EXCEPT ![y] = 0]
    BY <1>4 DEF LockExpires
  <2> QED BY <2>1, <2>2, ClearsOne
<1>5. ASSUME NEW y \in Agents, UpdateAgent(y)
      PROVE  Guarded(x)'
  <2> DEFINE s == IF agent[y].state = "active" THEN "inactive" ELSE "active"
             r == [agent[y] EXCEPT !.state = s]
  <2>1. agent' = [agent EXCEPT ![y] = r] /\ guesses' = guesses
    BY <1>5 DEF UpdateAgent
  <2> HIDE DEF s
  <2>2. r.locked = agent[y].locked /\ r.fails = agent[y].fails
    BY <1>1 DEF AgentRows
  <2> HIDE DEF r
  <2> QED BY <2>1, <2>2, ClearsOne
<1>6. ASSUME NEW p \in Procs, SetPassword(p) \/ ClearLoginFailures(p), ~UNCHANGED account
      PROVE  Guarded(x)'
  <2>1. a(p) \in Agents
    BY <1>6 DEF IInv, Knows, SetPassword, ClearLoginFailures
  <2>2. PICK r : agent' = [agent EXCEPT ![a(p)] = r]
    <3>1. CASE SetPassword(p)
      <4>1. agent' = [agent EXCEPT ![a(p)] = [agent[a(p)] EXCEPT !.pwd = TRUE, !.fails = 0, !.locked = FALSE]]
        BY <1>1, <1>6, <2>1, <3>1 DEF SetPassword
      <4> QED BY <4>1
    <3>2. CASE ClearLoginFailures(p)
      <4> DEFINE l == agent[a(p)].locked /\ agent[a(p)].fails = 0
      <4>1. agent' = [agent EXCEPT ![a(p)] = [agent[a(p)] EXCEPT !.fails = 0, !.locked = l]]
        BY <1>1, <1>6, <2>1, <3>2 DEF ClearLoginFailures
      <4> QED BY <4>1
    <3> QED BY <1>6, <3>1, <3>2
  <2>3. guesses' = [guesses EXCEPT ![a(p)] = 0]
    BY <1>6 DEF SetPassword, ClearLoginFailures
  <2> QED BY <2>1, <2>2, <2>3, ClearsOne
<1> QED BY <1>2, <1>3, <1>4, <1>5, <1>6

LEMMA GuardedNext ==
    ASSUME IInv, IInv', GInv, [Next]_vars
    PROVE  GInv'
<1> SUFFICES ASSUME NEW x \in Agents PROVE Guarded(x)'
  BY DEF GInv
<1>1. CASE UNCHANGED vars
  BY <1>1 DEF vars, GInv, Guarded, Uncounted
<1>2. CASE Next /\ UNCHANGED account
  BY <1>2, LeftAlone, LockKeepsOut DEF account
<1>3. CASE Next /\ ~UNCHANGED account
  <2>1. \/ \E y \in Agents : RegisterAgent(y) \/ UpdateAgent(y) \/ LockExpires(y)
        \/ \E p \in Procs : SetPassword(p) \/ ClearLoginFailures(p)
        \/ \E p \in Procs : RecordLoginFailure(p)
    <3>1. ASSUME NEW p \in Procs, NEW kind \in Kinds, NEW y \in Agents, NEW c \in Terminals, NEW j \in Ids,
                 Start(p, kind, y, c, j)
          PROVE  UNCHANGED account
      BY <3>1 DEF Start
    <3>2. ASSUME NEW p \in Procs,
                 \/ FindForPassword(p) \/ FindForLogin(p) \/ Supersede(p) \/ Insert(p)
                 \/ Resolve(p) \/ UpsertGate(p) \/ ReadStatus(p) \/ ReadGates(p) \/ SetStatus(p)
          PROVE  UNCHANGED account
      BY <3>2 DEF FindForPassword, FindForLogin, Supersede, Insert, Resolve, UpsertGate, ReadStatus, ReadGates, SetStatus
    <3>3. ASSUME NEW p \in Procs,
                 \/ Readiness(p) \/ Activate(p) \/ Deactivate(p) \/ End(p)
                 \/ AgentSignalingURL(p) \/ Respond(p)
          PROVE  UNCHANGED account
      BY <3>3 DEF Readiness, Activate, Deactivate, End, AgentSignalingURL, Respond
    <3>4. ASSUME \/ \E c \in Terminals : RegisterTerminal(c)
                 \/ \E j \in Ids : SessionExpires(j) \/ \E g \in Gates : GateExpires(j, g)
          PROVE  UNCHANGED account
      BY <3>4 DEF RegisterTerminal, SessionExpires, GateExpires
    <3> HIDE DEF account
    <3> QED BY <1>3, <3>1, <3>2, <3>3, <3>4 DEF Next
  <2>2. CASE \E p \in Procs : RecordLoginFailure(p)
    BY <1>3, <2>2, Counts
  <2> QED BY <1>3, <2>1, <2>2, OtherAccountSteps
<1> QED BY <1>1, <1>2, <1>3

(* MaxFailedLogins of domain/cs: between a cleared count, or the end of a  *)
(* lock, and the next lock, no more wrong passwords are counted than the   *)
(* limit and the requests that passed the lock before it closed.           *)
THEOREM GuessesBounded == Spec => []GuessBound
<1>1. Init => GInv
  <2> SUFFICES ASSUME Init, NEW x \in Agents PROVE Guarded(x)
    BY DEF GInv
  <2>1. guesses[x] = 0 /\ agent[x].fails = 0 /\ ~agent[x].locked
    BY DEF Init
  <2> QED BY <2>1, CSDeskAssumption DEF Guarded
<1>2. IInv /\ GInv => GuessBound
  <2> SUFFICES ASSUME IInv, GInv, NEW x \in Agents
               PROVE  guesses[x] <= MaxFailed + Cardinality(Procs) - 1
    BY DEF GuessBound
  <2> QED BY CountTypes, UncountedFinite DEF GInv, Guarded
<1> QED BY <1>1, <1>2, Invariance, GuardedNext, PTL DEF Spec
=============================================================================
