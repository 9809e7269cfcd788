---------------------------- MODULE SignalingHub ----------------------------
(***************************************************************************)
(* The room of one video call: the sockets of the customer and of the      *)
(* agent, the hub that knows the latest of each side, the two pumps of     *)
(* every socket with the buffer between them, and the service that tells   *)
(* the customer that an agent came and both sides that the call is over.   *)
(*                                                                         *)
(* The pumps, the handler's goroutine before Run, and the requests of the  *)
(* service run concurrently; the hub's mutex makes one action of a         *)
(* Register, an Unregister and a delivery. The call record is reduced to   *)
(* its status: who may take it and decide it is the module VideoCall.      *)
(***************************************************************************)
EXTENDS Integers

CONSTANTS Nasabah,    \* tickets of the customer, each good for one socket
          Agents,     \* tickets of the agent
          Cap         \* room in a send buffer: 64 in NewClient

Tickets == Nasabah \cup Agents
Sides == {"nasabah", "agent"}
None == "none"

ASSUME SignalingAssumption ==
    /\ Nasabah \cap Agents = {} /\ None \notin Tickets
    /\ Cap \in Nat \ {0}

VARIABLES
    sock,     \* per ticket: its socket, the pumps' positions and the send buffer
    room,     \* Hub.rooms of this session: the socket of each side
    call,     \* status of the call record
    taking,   \* requests of the agent between their UPDATE and their notice
    ending,   \* SubmitResult between its UPDATE and its notices
    latest    \* history: the socket registered last on each side

vars == <<sock, room, call, taking, ending, latest>>
service == <<call, taking, ending>>

(* read: where the handler's goroutine is, which becomes the read pump.    *)
(* heard, a history: whether agent_assigned was put in this socket's       *)
(* buffer, or could not be (a lookup that failed, a buffer that was full). *)
Fresh == [read |-> "none", write |-> "off", line |-> "up", done |-> FALSE,
          buf |-> 0, heard |-> "no"]
Gone == [Fresh EXCEPT !.read = "gone", !.write = "gone", !.line = "closed"]

Side(c) == IF c \in Nasabah THEN "nasabah" ELSE "agent"
Other(c) == IF c \in Nasabah THEN "agent" ELSE "nasabah"

Init ==
    /\ sock = [c \in Tickets |-> Fresh]
    /\ room = [s \in Sides |-> None]
    /\ call = "QUEUED"
    /\ taking = {}
    /\ ending = "no"
    /\ latest = [s \in Sides |-> None]

Became(c, read) == sock' = [sock EXCEPT ![c].read = read]

(* Client.Send on a socket of the room: a full buffer drops the message,   *)
(* and nobody reads the buffer of a write pump that has ended. What a      *)
(* message says is left out; the channel keeps the order.                  *)
Send(k) == [k EXCEPT !.buf = IF @ < Cap /\ k.write # "gone" THEN @ + 1 ELSE @]

(* SendToSession, and RelayToPeer from the other side.                     *)
SendToSession(socks, side) ==
    IF room[side] = None THEN socks ELSE [socks EXCEPT ![room[side]] = Send(@)]

(* notifyNasabah with agent_assigned.                                      *)
SendAgentAssigned(socks) ==
    LET c == room["nasabah"]
    IN IF c = None THEN socks
       ELSE [SendToSession(socks, "nasabah") EXCEPT
                ![c].heard = IF socks[c].buf < Cap THEN "told" ELSE "deaf"]

-----------------------------------------------------------------------------
(* A socket: HandleSignaling up to Run.                                    *)

(* JoinQueue answers a call that already waits, or runs, with a new ticket. *)
JoinAgain(c) ==
    /\ c \in Nasabah /\ sock[c].read = "none"
    /\ call # "ENDED"
    /\ Became(c, "ticket")
    /\ UNCHANGED <<room, service, latest>>

(* ConsumeSignalingToken spends the ticket; the upgrade may still fail.    *)
Refused(c) ==
    /\ sock[c].read = "ticket"
    /\ sock' = [sock EXCEPT ![c] = Gone]
    /\ UNCHANGED <<room, service, latest>>

(* Register puts the socket in the room and tells the one it replaces.     *)
Register(c) ==
    /\ sock[c].read = "ticket"
    /\ LET old == room[Side(c)]
           next == [sock EXCEPT ![c].read = IF c \in Nasabah THEN "lookup" ELSE "run"]
       IN sock' = IF old = None THEN next ELSE [next EXCEPT ![old].done = TRUE]
    /\ room' = [room EXCEPT ![Side(c)] = c]
    /\ latest' = [latest EXCEPT ![Side(c)] = c]
    /\ UNCHANGED service

\* mutant: a customer who comes back is only told the position in the queue
LookUpPosition(c) ==
    /\ sock[c].read = "lookup"
    /\ Became(c, "update")
    /\ UNCHANGED <<room, service, latest>>

(* OnNasabahConnected reads the call, and sends what it read later.        *)
LookUp(c) ==
    /\ sock[c].read = "lookup"
    /\ Became(c, IF call = "ACTIVE" THEN "announce" ELSE "update")
    /\ UNCHANGED <<room, service, latest>>

LookUpFails(c) ==
    /\ sock[c].read \in {"lookup", "update"}
    /\ sock' = [sock EXCEPT ![c].read = "run",
                            ![c].heard = IF sock[c].read = "lookup" /\ @ = "no" THEN "deaf" ELSE @]
    /\ UNCHANGED <<room, service, latest>>

(* The notice goes to whoever is in the room by now.                       *)
Welcome(c) ==
    /\ sock[c].read \in {"announce", "update"}
    /\ LET next == [sock EXCEPT ![c].read = "run"]
       IN sock' = IF sock[c].read = "announce" THEN SendAgentAssigned(next)
                  ELSE SendToSession(next, "nasabah")
    /\ UNCHANGED <<room, service, latest>>

Run(c) ==
    /\ sock[c].read = "run"
    /\ sock' = [sock EXCEPT ![c].read = "reading", ![c].write = "on"]
    /\ UNCHANGED <<room, service, latest>>

-----------------------------------------------------------------------------
(* The pumps.                                                              *)

(* readPump: offer, answer, ice_candidate, media_control, and the agent's  *)
(* instruction go to the peer. A socket that was replaced still relays.    *)
ReadMessage(c) ==
    /\ sock[c].read = "reading" /\ sock[c].line = "up"
    /\ sock' = SendToSession(sock, Other(c))
    /\ UNCHANGED <<room, service, latest>>

(* The peer closed, was silent for pongWait, or the write pump closed.     *)
ReadFails(c) ==
    /\ sock[c].read = "reading"
    /\ sock[c].line # "up"
    /\ Became(c, "left")
    /\ UNCHANGED <<room, service, latest>>

(* What a pump leaves: nothing, when it is the second to go.               *)
Leave(k) == IF k.write = "gone" THEN Gone ELSE [k EXCEPT !.read = "gone", !.line = "closed"]
Stop(k) == IF k.read = "gone" THEN Gone
           ELSE [k EXCEPT !.write = "gone", !.line = "closed", !.buf = 0]

\* mutant: only the connection is closed, the room keeps the socket
CloseOnly(c) ==
    /\ sock[c].read = "left"
    /\ sock' = [sock EXCEPT ![c] = Leave(@)]
    /\ UNCHANGED <<room, service, latest>>

(* Unregister, then conn.Close: a replaced socket leaves its place alone.  *)
Unregister(c) ==
    /\ sock[c].read = "left"
    /\ room' = [room EXCEPT ![Side(c)] = IF @ = c THEN None ELSE @]
    /\ sock' = [sock EXCEPT ![c] = Leave(@)]
    /\ UNCHANGED <<service, latest>>

(* writePump takes the next message; the socket may take it or not.        *)
Write(c) ==
    /\ sock[c].write = "on" /\ sock[c].line # "closed" /\ sock[c].buf > 0
    /\ sock' = [sock EXCEPT ![c].buf = @ - 1]
    /\ UNCHANGED <<room, service, latest>>

\* mutant: no ticker, a pump that has nothing to write stays
WriteFailsUnpinged(c) ==
    /\ sock[c].write = "on"
    /\ sock[c].line # "up" /\ sock[c].buf > 0
    /\ sock' = [sock EXCEPT ![c] = Stop(@)]
    /\ UNCHANGED <<room, service, latest>>

(* A write may fail once the peer has left. One on a socket the read pump  *)
(* has closed always does, and if there is no message, the ticker's ping.  *)
WriteFails(c) ==
    /\ sock[c].write = "on"
    /\ sock[c].line = "closed" \/ (sock[c].line = "left" /\ sock[c].buf > 0)
    /\ sock' = [sock EXCEPT ![c] = Stop(@)]
    /\ UNCHANGED <<room, service, latest>>

(* done is closed: select takes it among what is ready, in any order.      *)
DoneSeen(c) ==
    /\ sock[c].write = "on" /\ sock[c].done
    /\ sock' = [sock EXCEPT ![c] = Stop(@)]
    /\ UNCHANGED <<room, service, latest>>

(* The network's: the app closes, crashes or loses its line.               *)
PeerLeaves(c) ==
    /\ sock[c].read \in {"lookup", "announce", "update", "run", "reading"}
    /\ sock[c].line = "up"
    /\ sock' = [sock EXCEPT ![c].line = "left"]
    /\ UNCHANGED <<room, service, latest>>

-----------------------------------------------------------------------------
(* The service.                                                            *)

(* AgentSignalingURL up to MarkActive, of a call that waits or that the    *)
(* agent already holds. A request is named by the ticket it may end in.    *)
TakeCall(c) ==
    /\ c \in Agents \ taking /\ sock[c].read = "none"
    /\ call # "ENDED"
    /\ call' = "ACTIVE"
    /\ taking' = taking \cup {c}
    /\ UNCHANGED <<sock, room, ending, latest>>

(* The UPDATE took effect and was answered with an error, the request was  *)
(* cut off, or no ticket could be signed: the call is taken and nobody is  *)
(* told. The agent may ask again.                                          *)
TakeFails(c) ==
    /\ c \in taking
    /\ taking' = taking \ {c}
    /\ UNCHANGED <<sock, room, call, ending, latest>>

(* The ticket, and the notice to the socket in the room by then.           *)
Announce(c) ==
    /\ c \in taking
    /\ taking' = taking \ {c}
    /\ sock' = SendAgentAssigned([sock EXCEPT ![c].read = "ticket"])
    /\ UNCHANGED <<room, call, ending, latest>>

(* SubmitResult: the record first, then call_ended to each side, unless a  *)
(* statement between them fails.                                           *)
SubmitResult ==
    /\ call = "ACTIVE"
    /\ call' = "ENDED"
    /\ ending' \in {"nasabah", "no"}
    /\ UNCHANGED <<sock, room, taking, latest>>

CallEnded(side) ==
    /\ ending = side
    /\ ending' = IF side = "nasabah" THEN "agent" ELSE "no"
    /\ sock' = SendToSession(sock, side)
    /\ UNCHANGED <<room, call, taking, latest>>

(* broadcastQueuePositions: another call left the queue. It lists the      *)
(* calls that wait and tells each afterwards: this one may be on, or over. *)
TellPosition ==
    /\ room["nasabah"] # None
    /\ sock' = SendToSession(sock, "nasabah")
    /\ UNCHANGED <<room, service, latest>>

-----------------------------------------------------------------------------
Handler(c) == LookUp(c) \/ LookUpFails(c) \/ Welcome(c) \/ Run(c)

Next ==
    \/ \E c \in Tickets : \/ JoinAgain(c) \/ Refused(c) \/ Register(c) \/ Handler(c)
                          \/ ReadMessage(c) \/ ReadFails(c) \/ Unregister(c)
                          \/ Write(c) \/ WriteFails(c) \/ DoneSeen(c)
                          \/ PeerLeaves(c)
                          \/ TakeCall(c) \/ TakeFails(c) \/ Announce(c)
    \/ \E side \in Sides : CallEnded(side)
    \/ SubmitResult \/ TellPosition

(* The goroutines of a socket go on: a query answers or fails, a read on a *)
(* socket that is closed or silent past its deadline returns, the ticker   *)
(* ticks, and select does not pass over a channel that stays ready.        *)
Fairness == \A c \in Tickets : /\ WF_vars(Handler(c))
                               /\ WF_vars(ReadFails(c)) /\ WF_vars(Unregister(c))
                               /\ WF_vars(WriteFails(c)) /\ WF_vars(DoneSeen(c))

Spec == Init /\ [][Next]_vars /\ Fairness

-----------------------------------------------------------------------------
(* The type of the state. No buffer holds more than Cap, and a socket that *)
(* left the read pump is not in the room.                                  *)
TypeOK ==
    /\ sock \in [Tickets ->
          [read : {"none", "ticket", "lookup", "announce", "update", "run", "reading", "left", "gone"},
           write : {"off", "on", "gone"}, line : {"up", "left", "closed"}, done : BOOLEAN,
           buf : 0..Cap, heard : {"no", "told", "deaf"}]]
    /\ room \in [Sides -> Tickets \cup {None}]
    /\ \A s \in Sides : room[s] # None => Side(room[s]) = s /\ sock[room[s]].read # "gone"
    /\ call \in {"QUEUED", "ACTIVE", "ENDED"}
    /\ taking \subseteq Agents
    /\ ending \in {"no"} \cup Sides
    /\ latest \in [Sides -> Tickets \cup {None}]

(* The customer's app makes its offer when it reads agent_assigned, and a  *)
(* call without it stays silent. Once the agent was given a ticket to the  *)
(* call, the customer's latest socket, past its handler, was told, whether *)
(* it came before, during or after that request and whatever the sockets   *)
(* before it still do, and it is the one the room relays to: the late end  *)
(* of the one before does not take it out. Not told are: a socket whose    *)
(* buffer was full, one whose OnNasabahConnected could not read the call   *)
(* (both "deaf"), and, as long as every request ended between MarkActive   *)
(* and its ticket (TakeFails), one that was there before. To that one the  *)
(* agent's next request, or its own next connection, brings the notice.    *)
Ticketed == \E a \in Agents : sock[a].read # "none"

AgentAnnounced ==
    LET c == latest["nasabah"]
    IN call = "ACTIVE" /\ Ticketed /\ c # None /\ sock[c].read \in {"run", "reading"}
         => room["nasabah"] = c /\ sock[c].heard # "no"

(* No goroutine is left behind: after a socket was replaced, or its line   *)
(* was lost or closed by one of its pumps, both pumps end (client.go:      *)
(* done, the read deadline and the ticker).                                *)
PumpsEnd ==
    \A c \in Tickets : (sock[c].done \/ sock[c].line # "up")
                         ~> (sock[c].read = "gone" /\ sock[c].write = "gone")
=============================================================================
