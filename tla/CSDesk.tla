------------------------------- MODULE CSDesk -------------------------------
(***************************************************************************)
(* The desk of a CS agent: the agent's account and password, the session   *)
(* of one shift at one terminal, the three gates of readiness, and the     *)
(* terminal that goes ONLINE. Every request reads and writes in separate   *)
(* statements; the database keeps one open session per agent and one       *)
(* ONLINE terminal per agent by partial unique indexes.                    *)
(*                                                                         *)
(* Tokens and keys are taken as right; a supervisor's token, a probe and a *)
(* pact are reduced to a refusal that may come. The call itself is the     *)
(* module VideoCall: here it is only asked from where it was taken.        *)
(***************************************************************************)
EXTENDS Integers, FiniteSets

CONSTANTS Agents,      \* NPPs
          Terminals,   \* counters of the branch
          Ids,         \* ids of sessions
          Procs,       \* requests in flight at the same time
          Does,        \* [Agents -> SUBSET Kinds] what is asked in whose name
          MaxFailed,   \* MaxFailedLogins
          Gates,       \* AllGates
          MaxMishaps,  \* bound: expiries, changes of is_active and writes that fail
          MaxOverlaps  \* bound: requests that begin while another one runs

Kinds == {"login", "guess", "password", "gate", "activate", "deactivate", "logout", "take"}
SessionKinds == {"gate", "activate", "deactivate", "logout"}

NoAgent == "none"

ASSUME CSDeskAssumption ==
    /\ NoAgent \notin Agents \cup Terminals \cup Ids
    /\ MaxFailed \in Nat \ {0} /\ MaxMishaps \in Nat /\ MaxOverlaps \in Nat
    /\ IsFiniteSet(Procs)

VARIABLES
    agent,    \* cs_agents: active, password, failed_login_attempts, locked_until
    term,     \* cs_terminals: status, active_agent_id
    sess,     \* cs_agent_sessions; a session past its 9 hours is not ended
    gate,     \* cs_terminal_readiness, one row per session and gate
    at,       \* where each request is, and what it holds
    guesses,  \* history: wrong passwords counted since the count was cleared or the lock ended
    mishaps,
    overlaps

vars == <<agent, term, sess, gate, at, guesses, mishaps, overlaps>>
account == <<agent, guesses>>
desk == <<term, gate>>
bounds == <<mishaps, overlaps>>

NoTerminal == [status |-> "NONE", by |-> NoAgent]
NoSession == [state |-> "none", agent |-> NoAgent, term |-> NoAgent]
Idle == [pc |-> "idle", agent |-> NoAgent, term |-> NoAgent, id |-> NoAgent, kind |-> "none"]

a(p) == at[p].agent
t(p) == at[p].term
i(p) == at[p].id
Open(x) == {j \in Ids : sess[j].agent = x /\ sess[j].state \in {"live", "expired"}}
Held(x) == {c \in Terminals : term[c] = [status |-> "ONLINE", by |-> x]}
CanActivate(j) == \A g \in Gates : gate[j][g] = "valid"

Init ==
    /\ agent = [x \in Agents |-> [state |-> "none", pwd |-> FALSE, fails |-> 0, locked |-> FALSE]]
    /\ term = [c \in Terminals |-> NoTerminal]
    /\ sess = [j \in Ids |-> NoSession]
    /\ gate = [j \in Ids |-> [g \in Gates |-> "none"]]
    /\ at = [p \in Procs |-> Idle]
    /\ guesses = [x \in Agents |-> 0]
    /\ mishaps = 0
    /\ overlaps = 0

Goto(p, pc) == at' = [at EXCEPT ![p].pc = pc]
Mishap == mishaps < MaxMishaps /\ mishaps' = mishaps + 1
Finish(p) == at' = [at EXCEPT ![p] = Idle]

(* A login names an agent and a terminal, a guess is one with a wrong      *)
(* password; what is done at the terminal carries a session's token.       *)
Start(p, kind, x, c, j) ==
    /\ at[p].pc = "idle"
    /\ kind \in Does[x]
    /\ kind \in SessionKinds => sess[j].agent = x /\ sess[j].term = c
    /\ overlaps' = IF \E q \in Procs \ {p} : at[q].pc # "idle" THEN overlaps + 1 ELSE overlaps
    /\ overlaps' <= MaxOverlaps
    /\ at' = [at EXCEPT ![p] =
                [Idle EXCEPT !.agent = x,
                             !.pc = CASE kind \in SessionKinds -> "resolve"
                                      [] kind = "guess" -> "login"
                                      [] OTHER -> kind,
                             !.kind = kind,
                             !.term = IF kind \in SessionKinds \cup {"login"} THEN c ELSE NoAgent,
                             !.id = IF kind \in SessionKinds THEN j ELSE NoAgent]]
    /\ UNCHANGED <<account, desk, sess, mishaps>>

-----------------------------------------------------------------------------
(* The agent's account.                                                    *)

(* RegisterAgent and TerminalService.Register: one INSERT each, a second   *)
(* one is refused by the primary key.                                      *)
RegisterAgent(x) ==
    /\ agent[x].state = "none"
    /\ agent' = [agent EXCEPT ![x].state = "active"]
    /\ UNCHANGED <<desk, sess, at, guesses, bounds>>

RegisterTerminal(c) ==
    /\ term[c] = NoTerminal
    /\ term' = [term EXCEPT ![c].status = "REGISTERED"]
    /\ UNCHANGED <<account, gate, sess, at, bounds>>

(* UpdateAgent, under FOR UPDATE. Sessions, terminals, the count and the   *)
(* lock stay as they are.                                                  *)
UpdateAgent(x) ==
    /\ agent[x].state # "none"
    /\ agent' = [agent EXCEPT ![x].state = IF @ = "active" THEN "inactive" ELSE "active"]
    /\ Mishap
    /\ UNCHANGED <<desk, sess, at, guesses, overlaps>>

(* SetPassword reads the agent. The current password is asked for when     *)
(* there is one; a wrong one is refused and not counted.                   *)
FindForPassword(p) ==
    /\ at[p].pc = "password"
    /\ \/ agent[a(p)].state = "active" /\ Goto(p, "setpwd")
       \/ (agent[a(p)].state # "active" \/ agent[a(p)].pwd) /\ Finish(p)
    /\ UNCHANGED <<account, desk, sess, bounds>>

(* One UPDATE, of an agent who is active by then: the hash, and nothing is *)
(* left of count and lock, whatever was counted since.                     *)
SetPassword(p) ==
    /\ at[p].pc = "setpwd"
    /\ IF agent[a(p)].state = "active"
       THEN /\ agent' = [agent EXCEPT ![a(p)].pwd = TRUE, ![a(p)].fails = 0, ![a(p)].locked = FALSE]
            /\ guesses' = [guesses EXCEPT ![a(p)] = 0]
       ELSE UNCHANGED account
    /\ Finish(p)
    /\ UNCHANGED <<desk, sess, bounds>>

-----------------------------------------------------------------------------
(* Login.                                                                  *)

\* mutant: an agent who has no password yet is answered as one who mistypes it
FindAnyForLogin(p) ==
    /\ at[p].pc = "login"
    /\ LET x == agent[a(p)]
           open == x.state = "active" /\ ~x.locked
       IN  \/ ~open /\ Finish(p)
           \/ open /\ Goto(p, IF at[p].kind = "guess" THEN "wrong" ELSE "supersede")
    /\ UNCHANGED <<account, desk, sess, bounds>>

(* The lock is read before the password is verified, and not again. A      *)
(* right password at a terminal that is not registered is refused, and     *)
(* clears nothing.                                                         *)
FindForLogin(p) ==
    /\ at[p].pc = "login"
    /\ LET x == agent[a(p)]
           open == x.state = "active" /\ ~x.locked /\ x.pwd
       IN  \/ ~open /\ Finish(p)
           \/ open /\ Goto(p, IF at[p].kind = "guess" THEN "wrong" ELSE "supersede")
    /\ UNCHANGED <<account, desk, sess, bounds>>

\* mutant: one more failure before the lock
RecordFailureLate(p) ==
    /\ at[p].pc = "wrong"
    /\ IF agent[a(p)].state = "active"
       THEN /\ agent' = [agent EXCEPT
                  ![a(p)].fails  = IF @ < MaxFailed THEN @ + 1 ELSE @,
                  ![a(p)].locked = @ \/ agent[a(p)].fails + 1 > MaxFailed]
            /\ guesses' = [guesses EXCEPT ![a(p)] = @ + 1]
       ELSE UNCHANGED account
    /\ Finish(p)
    /\ UNCHANGED <<desk, sess, bounds>>

(* One UPDATE counts and locks. When it fails, the answer is the same and  *)
(* the guess was free: the history has only those that were counted.       *)
RecordLoginFailure(p) ==
    /\ at[p].pc = "wrong"
    /\ \/ /\ agent[a(p)].state = "active"
          /\ agent' = [agent EXCEPT
                ![a(p)].fails  = IF @ < MaxFailed THEN @ + 1 ELSE @,
                ![a(p)].locked = @ \/ agent[a(p)].fails + 1 >= MaxFailed]
          /\ guesses' = [guesses EXCEPT ![a(p)] = @ + 1]
          /\ UNCHANGED mishaps
       \/ agent[a(p)].state # "active" /\ UNCHANGED <<account, mishaps>>
       \/ Mishap /\ UNCHANGED account
    /\ Finish(p)
    /\ UNCHANGED <<desk, sess, overlaps>>

(* A terminal that is not registered is refused. Create, its first         *)
(* statement: the open session this transaction can see.                   *)
Supersede(p) ==
    /\ at[p].pc = "supersede"
    /\ \/ term[t(p)].status = "NONE" /\ Finish(p)
       \/ /\ term[t(p)].status # "NONE"
          /\ \/ Open(a(p)) = {} /\ Goto(p, "insert")
             \/ \E j \in Open(a(p)) : at' = [at EXCEPT ![p].pc = "insert", ![p].id = j]
    /\ UNCHANGED <<account, desk, sess, bounds>>

\* mutant: no unique index, the sessions seen before are the ones that are ended
InsertSeen(p) ==
    /\ at[p].pc = "insert"
    /\ \E j \in Ids :
         /\ sess[j].state = "none"
         /\ sess' = [k \in Ids |->
              IF k = j THEN [state |-> "live", agent |-> a(p), term |-> t(p)]
              ELSE IF k = i(p) THEN [sess[k] EXCEPT !.state = "ended"] ELSE sess[k]]
         /\ Goto(p, "clear")
    /\ UNCHANGED <<account, desk, bounds>>

(* Create, the INSERT and the commit. A session opened since by another    *)
(* login is not among the superseded: the unique index refuses.            *)
Insert(p) ==
    /\ at[p].pc = "insert"
    /\ \/ \E j \in Ids :
            /\ sess[j].state = "none"
            /\ Open(a(p)) \subseteq {i(p)}
            /\ sess' = [k \in Ids |->
                 IF k = j THEN [state |-> "live", agent |-> a(p), term |-> t(p)]
                 ELSE IF k = i(p) THEN [sess[k] EXCEPT !.state = "ended"] ELSE sess[k]]
            /\ at' = [at EXCEPT ![p].pc = "clear", ![p].id = NoAgent]
       \/ ~(Open(a(p)) \subseteq {i(p)}) /\ Finish(p) /\ UNCHANGED sess
       \/ (\A j \in Ids : sess[j].state # "none") /\ Finish(p) /\ UNCHANGED sess
    /\ UNCHANGED <<account, desk, bounds>>

(* Its failure does not fail the login.                                    *)
ClearLoginFailures(p) ==
    /\ at[p].pc = "clear"
    /\ \/ /\ agent' = [agent EXCEPT ![a(p)].fails = 0,
                                    ![a(p)].locked = @ /\ agent[a(p)].fails = 0]
          /\ guesses' = [guesses EXCEPT ![a(p)] = 0]
          /\ UNCHANGED mishaps
       \/ Mishap /\ UNCHANGED account
    /\ Finish(p)
    /\ UNCHANGED <<desk, sess, overlaps>>

-----------------------------------------------------------------------------
(* At the terminal, with a session.                                        *)

(* FindByToken: what it finds is not looked up again in this request.      *)
Resolve(p) ==
    /\ at[p].pc = "resolve"
    /\ \/ sess[i(p)].state = "live" /\ agent[a(p)].state = "active" /\ Goto(p, at[p].kind)
       \/ Finish(p)
    /\ UNCHANGED <<account, desk, sess, bounds>>

UpsertGate(p) ==
    /\ at[p].pc = "gate"
    /\ \E g \in Gates : gate' = [gate EXCEPT ![i(p)][g] = "valid"]
    /\ Goto(p, "status")
    /\ UNCHANGED <<account, term, sess, bounds>>

(* promoteIfReady: the terminal is read, then the gates, then the status   *)
(* is written, whatever it has become.                                     *)
ReadStatus(p) ==
    /\ at[p].pc = "status"
    /\ IF term[t(p)].status \in {"ONLINE", "READY"} THEN Finish(p) ELSE Goto(p, "gates")
    /\ UNCHANGED <<account, desk, sess, bounds>>

ReadGates(p) ==
    /\ at[p].pc = "gates"
    /\ IF CanActivate(i(p)) THEN Goto(p, "promote") ELSE Finish(p)
    /\ UNCHANGED <<account, desk, sess, bounds>>

SetStatus(p) ==
    /\ at[p].pc = "promote"
    /\ term' = [term EXCEPT ![t(p)].status = "READY"]
    /\ Finish(p)
    /\ UNCHANGED <<account, gate, sess, bounds>>

\* mutant: a terminal that is READY needs no second look at the gates
ReadinessByStatus(p) ==
    /\ at[p].pc = "activate"
    /\ IF term[t(p)].status \in {"READY", "ONLINE"} \/ CanActivate(i(p))
       THEN Goto(p, "online") ELSE Finish(p)
    /\ UNCHANGED <<account, desk, sess, bounds>>

(* Activate reads the readiness of the session ...                         *)
Readiness(p) ==
    /\ at[p].pc = "activate"
    /\ IF CanActivate(i(p)) THEN Goto(p, "online") ELSE Finish(p)
    /\ UNCHANGED <<account, desk, sess, bounds>>

(* ... and takes the terminal over from whoever has it, unless the agent   *)
(* is ONLINE at another one.                                               *)
Activate(p) ==
    /\ at[p].pc = "online"
    /\ term' = IF Held(a(p)) \subseteq {t(p)}
               THEN [term EXCEPT ![t(p)] = [status |-> "ONLINE", by |-> a(p)]] ELSE term
    /\ Finish(p)
    /\ UNCHANGED <<account, gate, sess, bounds>>

(* Deactivate: WHERE terminal_id, whoever holds it.                        *)
Deactivate(p) ==
    /\ at[p].pc \in {"deactivate", "release"}
    /\ \/ /\ term' = [term EXCEPT ![t(p)] = [status |-> "OFFLINE", by |-> NoAgent]]
          /\ UNCHANGED mishaps
       \/ Mishap /\ UNCHANGED term
    /\ Finish(p)
    /\ UNCHANGED <<account, gate, sess, overlaps>>

(* Logout ends the session, then its terminal.                             *)
End(p) ==
    /\ at[p].pc = "logout"
    /\ IF sess[i(p)].state = "ended" THEN Finish(p) /\ UNCHANGED sess
       ELSE sess' = [sess EXCEPT ![i(p)].state = "ended"] /\ Goto(p, "release")
    /\ UNCHANGED <<account, desk, bounds>>

(* AgentSignalingURL, reached with the agent's key: the gate on terminals  *)
(* is nil as the router builds the service, so AssertOnline is not asked.  *)
AssertOnline(x) == Held(x) # {}

AgentSignalingURL(p) ==
    /\ at[p].pc = "take"
    /\ IF agent[a(p)].state = "active"
       THEN at' = [at EXCEPT ![p].pc = "took",
                             ![p].kind = IF AssertOnline(a(p)) THEN "online" ELSE "take"]
       ELSE Finish(p)
    /\ UNCHANGED <<account, desk, sess, bounds>>

Respond(p) ==
    /\ at[p].pc = "took"
    /\ Finish(p)
    /\ UNCHANGED <<account, desk, sess, bounds>>

-----------------------------------------------------------------------------
(* Time: 9 hours of a session, 8 of a gate, 15 minutes of a lock.          *)
SessionExpires(j) ==
    /\ Mishap
    /\ sess[j].state = "live"
    /\ sess' = [sess EXCEPT ![j].state = "expired"]
    /\ UNCHANGED <<account, desk, at, overlaps>>

GateExpires(j, g) ==
    /\ Mishap
    /\ gate[j][g] = "valid"
    /\ gate' = [gate EXCEPT ![j][g] = "expired"]
    /\ UNCHANGED <<account, term, sess, at, overlaps>>

LockExpires(x) ==
    /\ Mishap
    /\ agent[x].locked
    /\ agent' = [agent EXCEPT ![x].locked = FALSE]
    /\ guesses' = [guesses EXCEPT ![x] = 0]
    /\ UNCHANGED <<desk, sess, at, overlaps>>

Next ==
    \/ \E p \in Procs, kind \in Kinds, x \in Agents, c \in Terminals, j \in Ids :
         Start(p, kind, x, c, j)
    \/ \E p \in Procs :
         \/ FindForPassword(p) \/ SetPassword(p) \/ FindForLogin(p) \/ RecordLoginFailure(p)
         \/ Supersede(p) \/ Insert(p) \/ ClearLoginFailures(p)
         \/ Resolve(p) \/ UpsertGate(p)
         \/ ReadStatus(p) \/ ReadGates(p) \/ SetStatus(p)
         \/ Readiness(p) \/ Activate(p) \/ Deactivate(p) \/ End(p)
         \/ AgentSignalingURL(p) \/ Respond(p)
    \/ \E x \in Agents : RegisterAgent(x) \/ UpdateAgent(x) \/ LockExpires(x)
    \/ \E c \in Terminals : RegisterTerminal(c)
    \/ \E j \in Ids : SessionExpires(j) \/ \E g \in Gates : GateExpires(j, g)

Spec == Init /\ [][Next]_vars

-----------------------------------------------------------------------------
Pcs == {"idle", "password", "setpwd", "login", "wrong", "supersede", "insert", "clear",
        "resolve", "status", "gates", "promote", "online", "release", "take", "took"} \cup SessionKinds

(* The tables and the requests keep their shape: an agent without a        *)
(* password is not locked, and a request that carries a session is made at *)
(* that session's terminal in its agent's name, whatever became of it.     *)
TypeOK ==
    /\ agent \in [Agents -> [state : {"none", "active", "inactive"}, pwd : BOOLEAN,
                             fails : 0..MaxFailed, locked : BOOLEAN]]
    /\ term \in [Terminals -> [status : {"NONE", "REGISTERED", "READY", "ONLINE", "OFFLINE"},
                               by : Agents \cup {NoAgent}]]
    /\ sess \in [Ids -> [state : {"none", "live", "expired", "ended"},
                         agent : Agents \cup {NoAgent}, term : Terminals \cup {NoAgent}]]
    /\ gate \in [Ids -> [Gates -> {"none", "valid", "expired"}]]
    /\ at \in [Procs -> [pc : Pcs, agent : Agents \cup {NoAgent}, term : Terminals \cup {NoAgent},
                         id : Ids \cup {NoAgent}, kind : {"none", "online"} \cup Kinds]]
    /\ guesses \in [Agents -> Nat]
    /\ mishaps \in 0..MaxMishaps /\ overlaps \in 0..MaxOverlaps
    /\ \A x \in Agents : agent[x].fails > 0 \/ agent[x].locked => agent[x].pwd

(* One desk per agent: at most one session of an agent is not ended, and   *)
(* at most one terminal is ONLINE in an agent's name, however many logins  *)
(* and activations run at the same time.                                   *)
OneDesk ==
    \A x \in Agents : /\ \A j, k \in Open(x) : j = k
                      /\ \A c, d \in Held(x) : c = d

(* Rule 3: a terminal is ONLINE in an agent's name only after a session of *)
(* that agent at that terminal has passed all three gates; what another    *)
(* session passed there, or the agent passed elsewhere, does not count.    *)
OnlineIsVouched ==
    \A c \in Terminals : term[c].status = "ONLINE" =>
        \E j \in Ids : /\ sess[j].agent = term[c].by /\ sess[j].term = c
                       /\ \A g \in Gates : gate[j][g] # "none"

(* The lockout bounds guessing also when logins run at the same time, and  *)
(* across a change of is_active: between a cleared count, or the end of a  *)
(* lock, and the next lock, the wrong passwords counted exceed the limit   *)
(* at most by the requests that had already read "not locked".             *)
GuessBound ==
    \A x \in Agents : guesses[x] <= MaxFailed + Cardinality(Procs) - 1

(* Rule 4, as domain/cs and the API specification state it: only an agent  *)
(* at an ONLINE terminal takes a call from the queue.                      *)
OnlyOnlineTakes ==
    \A p \in Procs : at[p].pc = "took" => at[p].kind = "online"
=============================================================================
