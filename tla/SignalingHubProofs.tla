------------------------- MODULE SignalingHubProofs -------------------------
(***************************************************************************)
(* Theorems about SignalingHub, for any number of tickets on both sides    *)
(* and any room in the send buffers.                                       *)
(***************************************************************************)
EXTENDS SignalingHub, TLAPS

Reads == {"none", "ticket", "lookup", "announce", "update", "run", "reading", "left", "gone"}
Sockets == [read : Reads, write : {"off", "on", "gone"}, line : {"up", "left", "closed"},
            done : BOOLEAN, buf : 0..Cap, heard : {"no", "told", "deaf"}]

(* A socket is registered from Register to Unregister, and has read what   *)
(* the call is from the end of LookUp on.                                  *)
InRoom == {"lookup", "announce", "update", "run", "reading", "left"}
Looked == {"update", "run", "reading"}

(* The room holds registered sockets, each on its side.                    *)
RoomHolds ==
    \A s \in Sides : room[s] # None => Side(room[s]) = s /\ sock[room[s]].read \in InRoom

(* The latest socket of a side was registered, and is in the room until it *)
(* unregisters: the end of an earlier one does not take it out.            *)
LatestHeld ==
    \A s \in Sides : latest[s] # None =>
        /\ Side(latest[s]) = s
        /\ sock[latest[s]].read \in InRoom \cup {"gone"}
        /\ sock[latest[s]].read # "gone" => room[s] = latest[s]

(* A customer who looked before the call was taken is told by the first    *)
(* request that ends in a ticket.                                          *)
Told ==
    LET c == latest["nasabah"]
    IN call = "ACTIVE" /\ Ticketed /\ c # None /\ sock[c].read \in Looked => sock[c].heard # "no"

(* A request has no ticket before its notice, and the call of a ticket, or *)
(* of a request past MarkActive, does not wait any more.                   *)
Asking ==
    /\ \A c \in taking : sock[c].read = "none"
    /\ call = "QUEUED" => taking = {} /\ ~Ticketed

ServiceTyped ==
    /\ call \in {"QUEUED", "ACTIVE", "ENDED"} /\ taking \subseteq Agents /\ ending \in {"no"} \cup Sides

Typed ==
    /\ sock \in [Tickets -> Sockets]
    /\ room \in [Sides -> Tickets \cup {None}]
    /\ latest \in [Sides -> Tickets \cup {None}]
    /\ ServiceTyped

IInv == Typed /\ RoomHolds /\ LatestHeld /\ Told /\ Asking

LEMMA Implied == IInv => TypeOK /\ AgentAnnounced
<1> SUFFICES ASSUME IInv PROVE TypeOK /\ AgentAnnounced
  OBVIOUS
<1>1. TypeOK
  BY DEF IInv, Typed, ServiceTyped, RoomHolds, TypeOK, Sockets, Reads, InRoom
<1>2. AgentAnnounced
  BY DEF IInv, Told, LatestHeld, AgentAnnounced, Looked, InRoom, Sides
<1> QED BY <1>1, <1>2

LEMMA FreshTyped == Fresh \in Sockets /\ Gone \in Sockets /\ Gone.read = "gone" /\ Fresh.read = "none"
<1>1. 0 \in 0..Cap
  BY SignalingAssumption
<1>2. Fresh \in Sockets /\ Fresh.read = "none"
  BY <1>1 DEF Fresh, Sockets, Reads
<1>3. Gone \in Sockets /\ Gone.read = "gone"
  BY <1>2 DEF Gone, Sockets, Reads
<1> QED BY <1>2, <1>3

LEMMA InitHolds == Init => IInv
<1> SUFFICES ASSUME Init PROVE IInv
  OBVIOUS
<1>1. Typed
  BY FreshTyped DEF Init, Typed, ServiceTyped, Sides
<1>2. RoomHolds /\ LatestHeld /\ Told
  BY DEF Init, RoomHolds, LatestHeld, Told, Sides
<1>3. Asking
  BY FreshTyped DEF Init, Asking, Ticketed, Tickets
<1> QED BY <1>1, <1>2, <1>3 DEF IInv

-----------------------------------------------------------------------------
(* What is written to one socket, and what is sent to a side.              *)

LEMMA Rewritten ==
    ASSUME NEW S, NEW R, NEW f \in [S -> R], NEW x \in S, NEW r \in R
    PROVE  /\ [f EXCEPT ![x] = r] \in [S -> R]
           /\ [f EXCEPT ![x] = r][x] = r
           /\ \A y \in S : y # x => [f EXCEPT ![x] = r][y] = f[y]
OBVIOUS

(* A socket is written and nothing else.                                   *)
SocketSet(c, k) ==
    /\ sock' \in [Tickets -> Sockets] /\ sock'[c] = k
    /\ \A d \in Tickets : d # c => sock'[d] = sock[d]

LEMMA Written ==
    ASSUME sock \in [Tickets -> Sockets], NEW c \in Tickets, NEW k \in Sockets,
           sock' = [sock EXCEPT ![c] = k]
    PROVE  SocketSet(c, k)
BY Rewritten DEF SocketSet

(* A message in the buffer is all that a delivery changes of a socket.     *)
SameButBuffer(k, l) ==
    /\ l \in Sockets /\ l.read = k.read /\ l.heard = k.heard

LEMMA Sent ==
    ASSUME NEW k \in Sockets
    PROVE  SameButBuffer(k, Send(k))
<1> DEFINE n == IF k.buf < Cap /\ k.write # "gone" THEN k.buf + 1 ELSE k.buf
<1>1. n \in 0..Cap
  BY SignalingAssumption DEF Sockets
<1>2. Send(k) = [k EXCEPT !.buf = n]
  BY DEF Send, Sockets
<1> HIDE DEF n
<1> QED BY <1>1, <1>2 DEF Sockets, SameButBuffer

LEMMA Delivered ==
    ASSUME IInv, NEW socks \in [Tickets -> Sockets], NEW s \in Sides
    PROVE  /\ SendToSession(socks, s) \in [Tickets -> Sockets]
           /\ \A d \in Tickets : SameButBuffer(socks[d], SendToSession(socks, s)[d])
<1>1. \A d \in Tickets : SameButBuffer(socks[d], socks[d])
  BY DEF SameButBuffer
<1>2. CASE room[s] = None
  BY <1>1, <1>2 DEF SendToSession
<1>3. CASE room[s] # None
  <2>1. room[s] \in Tickets
    BY <1>3 DEF IInv, Typed
  <2> DEFINE k == Send(socks[room[s]])
  <2>2. SameButBuffer(socks[room[s]], k)
    BY <2>1, Sent
  <2>3. SendToSession(socks, s) = [socks EXCEPT ![room[s]] = k]
    BY <1>3 DEF SendToSession
  <2>4. k \in Sockets
    BY <2>2 DEF SameButBuffer
  <2> HIDE DEF k
  <2> QED BY <1>1, <2>1, <2>2, <2>3, <2>4, Rewritten
<1> QED BY <1>2, <1>3

(* The notice that an agent came is heard, or lost, by the one in the room.*)
LEMMA Assigned ==
    ASSUME IInv, NEW socks \in [Tickets -> Sockets]
    PROVE  /\ SendAgentAssigned(socks) \in [Tickets -> Sockets]
           /\ \A d \in Tickets :
                /\ SendAgentAssigned(socks)[d].read = socks[d].read
                /\ SendAgentAssigned(socks)[d].heard = socks[d].heard \/ SendAgentAssigned(socks)[d].heard # "no"
                /\ d = room["nasabah"] => SendAgentAssigned(socks)[d].heard # "no"
<1> DEFINE c == room["nasabah"]
<1>1. CASE c = None
  BY <1>1, SignalingAssumption DEF SendAgentAssigned
<1>2. CASE c # None
  <2>1. c \in Tickets /\ "nasabah" \in Sides
    BY <1>2 DEF IInv, Typed, Sides
  <2> DEFINE sent == SendToSession(socks, "nasabah")
             h == IF socks[c].buf < Cap THEN "told" ELSE "deaf"
             k == [sent[c] EXCEPT !.heard = h]
  <2>2. sent \in [Tickets -> Sockets] /\ \A d \in Tickets : SameButBuffer(socks[d], sent[d])
    BY <2>1, Delivered
  <2>3. h \in {"told", "deaf"}
    OBVIOUS
  <2>4. SendAgentAssigned(socks) = [sent EXCEPT ![c] = k]
    BY <1>2 DEF SendAgentAssigned
  <2> HIDE DEF sent, h
  <2>5. sent[c] \in Sockets /\ sent[c].read = socks[c].read
    BY <2>1, <2>2 DEF SameButBuffer
  <2>6. k \in Sockets /\ k.read = socks[c].read /\ k.heard # "no"
    BY <2>3, <2>5 DEF Sockets
  <2> HIDE DEF k, c
  <2>7. /\ [sent EXCEPT ![c] = k] \in [Tickets -> Sockets] /\ [sent EXCEPT ![c] = k][c] = k
        /\ \A d \in Tickets : d # c => [sent EXCEPT ![c] = k][d] = sent[d]
    BY <2>1, <2>2, <2>6, Rewritten
  <2> QED BY <2>2, <2>4, <2>6, <2>7 DEF SameButBuffer, c
<1> QED BY <1>1, <1>2

-----------------------------------------------------------------------------
(* A step that leaves the room and the history alone: no socket comes to   *)
(* the room or goes, one that ended stays ended, and the customer's latest *)
(* one that has looked was told when it must have been.                    *)
LEMMA Keeps ==
    ASSUME IInv, sock' \in [Tickets -> Sockets], ServiceTyped', UNCHANGED <<room, latest>>,
           \A d \in Tickets : /\ sock[d].read \in InRoom <=> sock'[d].read \in InRoom
                              /\ sock[d].read = "gone" => sock'[d].read = "gone",
           Told', Asking'
    PROVE  IInv'
<1>1. Typed'
  BY DEF IInv, Typed
<1>2. RoomHolds'
  BY DEF IInv, Typed, RoomHolds
<1>3. LatestHeld'
  <2> SUFFICES ASSUME NEW s \in Sides, latest[s] # None
               PROVE  /\ Side(latest[s]) = s
                      /\ sock'[latest[s]].read \in InRoom \cup {"gone"}
                      /\ sock'[latest[s]].read # "gone" => room[s] = latest[s]
    BY DEF LatestHeld
  <2>1. /\ Side(latest[s]) = s
        /\ sock[latest[s]].read \in InRoom \cup {"gone"}
        /\ sock[latest[s]].read # "gone" => room[s] = latest[s]
    BY DEF IInv, LatestHeld
  <2>2. latest[s] \in Tickets
    BY DEF IInv, Typed
  <2>3. "gone" \notin InRoom
    BY DEF InRoom
  <2> QED BY <2>1, <2>2, <2>3
<1> QED BY <1>1, <1>2, <1>3 DEF IInv

(* A step that writes one socket whose place in the room stays as it is.   *)
LEMMA OneSocket ==
    ASSUME IInv, NEW c \in Tickets, NEW k, SocketSet(c, k), UNCHANGED <<room, service, latest>>,
           sock[c].read \in InRoom <=> k.read \in InRoom,
           sock[c].read = "gone" => k.read = "gone",
           c \in Agents /\ sock[c].read = "none" => k.read = "none",
           /\ c = latest["nasabah"] /\ call = "ACTIVE" /\ k.read \in Looked
           => \/ k.heard # "no"
              \/ sock[c].read \in Looked /\ k.heard = sock[c].heard
    PROVE  IInv'
<1>1. \A a \in Agents : sock[a].read = "none" => sock'[a].read = "none"
  BY DEF SocketSet, Tickets
<1>2. Asking' /\ (Ticketed' => Ticketed)
  BY <1>1 DEF IInv, Typed, ServiceTyped, Asking, Ticketed, service
<1>3. Told'
  <2> SUFFICES ASSUME call = "ACTIVE", Ticketed, latest["nasabah"] # None,
                      sock'[latest["nasabah"]].read \in Looked
               PROVE  sock'[latest["nasabah"]].heard # "no"
    BY <1>2 DEF Told, service
  <2>1. latest["nasabah"] \in Tickets
    BY DEF IInv, Typed, Sides
  <2> QED BY <2>1 DEF IInv, Told, SocketSet
<1>4. ServiceTyped'
  BY DEF IInv, Typed, ServiceTyped, service
<1> QED BY <1>2, <1>3, <1>4, Keeps DEF SocketSet

(* A step that only delivers.                                              *)
LEMMA Delivers ==
    ASSUME IInv, NEW s \in Sides, sock' = SendToSession(sock, s), UNCHANGED <<room, latest>>,
           ServiceTyped', call' = call, taking' = taking
    PROVE  IInv'
<1>1. sock \in [Tickets -> Sockets]
  BY DEF IInv, Typed
<1>2. /\ sock' \in [Tickets -> Sockets]
      /\ \A d \in Tickets : sock'[d].read = sock[d].read /\ sock'[d].heard = sock[d].heard
  BY <1>1, Delivered DEF SameButBuffer
<1>3. Asking' /\ (Ticketed' <=> Ticketed)
  BY <1>2 DEF IInv, Typed, ServiceTyped, Asking, Ticketed, Tickets
<1>4. Told'
  BY <1>2, <1>3 DEF IInv, Told, Typed, Sides
<1> QED BY <1>2, <1>3, <1>4, Keeps

LEMMA SocketNow ==
    ASSUME IInv
    PROVE  sock \in [Tickets -> Sockets] /\ \A c \in Tickets : sock[c] \in Sockets
BY DEF IInv, Typed

-----------------------------------------------------------------------------
(* The steps that write one socket.                                        *)

LEMMA JoinAgainStep ==
    ASSUME IInv, NEW c \in Tickets, JoinAgain(c)
    PROVE  IInv'
<1> DEFINE k == [sock[c] EXCEPT !.read = "ticket"]
<1>1. sock' = [sock EXCEPT ![c] = k]
  BY DEF JoinAgain, Became
<1>2. k \in Sockets /\ k.read = "ticket" /\ sock[c].read = "none"
  BY SocketNow DEF JoinAgain, Sockets, Reads
<1> HIDE DEF k
<1>3. SocketSet(c, k)
  BY <1>1, <1>2, SocketNow, Written
<1>4. c \notin Agents
  BY SignalingAssumption DEF JoinAgain
<1> QED BY <1>2, <1>3, <1>4, OneSocket DEF JoinAgain, InRoom, Looked

LEMMA RefusedStep ==
    ASSUME IInv, NEW c \in Tickets, Refused(c)
    PROVE  IInv'
<1>1. SocketSet(c, Gone)
  BY FreshTyped, SocketNow, Written DEF Refused
<1> QED BY <1>1, FreshTyped, OneSocket DEF Refused, InRoom, Looked

(* What LookUp says of the call is still true when the call is not ACTIVE, *)
(* and otherwise the announcement is on its way.                           *)
LEMMA LookUpStep ==
    ASSUME IInv, NEW c \in Tickets, LookUp(c)
    PROVE  IInv'
<1> DEFINE next == IF call = "ACTIVE" THEN "announce" ELSE "update"
           k == [sock[c] EXCEPT !.read = next]
<1>1. sock' = [sock EXCEPT ![c] = k]
  BY DEF LookUp, Became
<1>2. next \in {"announce", "update"} /\ (call = "ACTIVE" => next = "announce")
  OBVIOUS
<1> HIDE DEF next
<1>3. k \in Sockets /\ k.read = next /\ sock[c].read = "lookup"
  BY <1>2, SocketNow DEF LookUp, Sockets, Reads
<1> HIDE DEF k
<1>4. SocketSet(c, k)
  BY <1>1, <1>3, SocketNow, Written
<1> QED BY <1>2, <1>3, <1>4, OneSocket DEF LookUp, InRoom, Looked

LEMMA LookUpFailsStep ==
    ASSUME IInv, NEW c \in Tickets, LookUpFails(c)
    PROVE  IInv'
<1> DEFINE h == IF sock[c].read = "lookup" /\ sock[c].heard = "no" THEN "deaf" ELSE sock[c].heard
           k == [sock[c] EXCEPT !.read = "run", !.heard = h]
<1>1. sock' = [sock EXCEPT ![c] = k]
  BY SocketNow DEF LookUpFails
<1>2. /\ h \in {"no", "told", "deaf"}
      /\ sock[c].read = "lookup" => h # "no"
      /\ sock[c].read = "update" => h = sock[c].heard
  BY SocketNow DEF Sockets
<1> HIDE DEF h
<1>3. k \in Sockets /\ k.read = "run" /\ k.heard = h
  BY <1>2, SocketNow DEF Sockets, Reads
<1> HIDE DEF k
<1>4. SocketSet(c, k)
  BY <1>1, <1>3, SocketNow, Written
<1> QED BY <1>2, <1>3, <1>4, OneSocket DEF LookUpFails, InRoom, Looked

LEMMA RunStep ==
    ASSUME IInv, NEW c \in Tickets, Run(c)
    PROVE  IInv'
<1> DEFINE k == [sock[c] EXCEPT !.read = "reading", !.write = "on"]
<1>1. sock' = [sock EXCEPT ![c] = k]
  BY SocketNow DEF Run
<1>2. k \in Sockets /\ k.read = "reading" /\ k.heard = sock[c].heard
  BY SocketNow DEF Sockets, Reads
<1> HIDE DEF k
<1>3. SocketSet(c, k)
  BY <1>1, <1>2, SocketNow, Written
<1> QED BY <1>2, <1>3, OneSocket DEF Run, InRoom, Looked

LEMMA ReadFailsStep ==
    ASSUME IInv, NEW c \in Tickets, ReadFails(c)
    PROVE  IInv'
<1> DEFINE k == [sock[c] EXCEPT !.read = "left"]
<1>1. sock' = [sock EXCEPT ![c] = k]
  BY DEF ReadFails, Became
<1>2. k \in Sockets /\ k.read = "left"
  BY SocketNow DEF Sockets, Reads
<1> HIDE DEF k
<1>3. SocketSet(c, k)
  BY <1>1, <1>2, SocketNow, Written
<1> QED BY <1>2, <1>3, OneSocket DEF ReadFails, InRoom, Looked

LEMMA WriteStep ==
    ASSUME IInv, NEW c \in Tickets, Write(c)
    PROVE  IInv'
<1> DEFINE n == sock[c].buf - 1
           k == [sock[c] EXCEPT !.buf = n]
<1>1. sock' = [sock EXCEPT ![c] = k]
  BY DEF Write
<1>2. n \in 0..Cap
  BY SocketNow, SignalingAssumption DEF Write, Sockets
<1> HIDE DEF n
<1>3. k \in Sockets /\ k.read = sock[c].read /\ k.heard = sock[c].heard
  BY <1>2, SocketNow DEF Sockets
<1> HIDE DEF k
<1>4. SocketSet(c, k)
  BY <1>1, <1>3, SocketNow, Written
<1> QED BY <1>3, <1>4, OneSocket DEF Write

(* A write pump that ends takes nobody out of the room: the read pump does.*)
LEMMA StopStep ==
    ASSUME IInv, NEW c \in Tickets, WriteFails(c) \/ DoneSeen(c)
    PROVE  IInv'
<1> DEFINE k == Stop(sock[c])
<1>1. sock' = [sock EXCEPT ![c] = k] /\ UNCHANGED <<room, service, latest>>
  BY DEF WriteFails, DoneSeen
<1>2. k \in Sockets /\ k.read = sock[c].read /\ (k.read # "gone" => k.heard = sock[c].heard)
  <2>1. CASE sock[c].read = "gone"
    BY <2>1, FreshTyped DEF Stop
  <2>2. CASE sock[c].read # "gone"
    <3>1. 0 \in 0..Cap
      BY SignalingAssumption
    <3>2. k = [sock[c] EXCEPT !.write = "gone", !.line = "closed", !.buf = 0]
      BY <2>2 DEF Stop
    <3> HIDE DEF k
    <3> QED BY <3>1, <3>2, SocketNow DEF Sockets
  <2> QED BY <2>1, <2>2
<1> HIDE DEF k
<1>3. SocketSet(c, k)
  BY <1>1, <1>2, SocketNow, Written
<1> QED BY <1>1, <1>2, <1>3, OneSocket DEF Looked

LEMMA PeerLeavesStep ==
    ASSUME IInv, NEW c \in Tickets, PeerLeaves(c)
    PROVE  IInv'
<1> DEFINE k == [sock[c] EXCEPT !.line = "left"]
<1>1. sock' = [sock EXCEPT ![c] = k]
  BY DEF PeerLeaves
<1>2. k \in Sockets /\ k.read = sock[c].read /\ k.heard = sock[c].heard
  BY SocketNow DEF Sockets
<1> HIDE DEF k
<1>3. SocketSet(c, k)
  BY <1>1, <1>2, SocketNow, Written
<1> QED BY <1>2, <1>3, OneSocket DEF PeerLeaves

-----------------------------------------------------------------------------
(* The steps that deliver.                                                 *)

LEMMA DeliverySteps ==
    ASSUME IInv,
           \/ \E c \in Tickets : ReadMessage(c)
           \/ \E side \in Sides : CallEnded(side)
           \/ TellPosition
    PROVE  IInv'
<1>1. "nasabah" \in Sides /\ \A c \in Tickets : Other(c) \in Sides
  BY DEF Sides, Other
<1>2. ServiceTyped
  BY DEF IInv, Typed
<1>3. ASSUME NEW c \in Tickets, ReadMessage(c) PROVE IInv'
  BY <1>1, <1>2, <1>3, Delivers DEF ReadMessage, ServiceTyped, service
<1>4. ASSUME NEW side \in Sides, CallEnded(side) PROVE IInv'
  BY <1>1, <1>2, <1>4, Delivers DEF CallEnded, ServiceTyped, Sides
<1>5. CASE TellPosition
  BY <1>1, <1>2, <1>5, Delivers DEF TellPosition, ServiceTyped, service
<1> QED BY <1>3, <1>4, <1>5

(* Whoever is welcomed with an announcement is the one in the room, if it  *)
(* is the latest: it was told.                                             *)
LEMMA WelcomeStep ==
    ASSUME IInv, NEW c \in Tickets, Welcome(c)
    PROVE  IInv'
<1> DEFINE k == [sock[c] EXCEPT !.read = "run"]
           next == [sock EXCEPT ![c] = k]
<1>1. k \in Sockets /\ k.read = "run" /\ k.heard = sock[c].heard
  BY SocketNow DEF Sockets, Reads
<1>2. /\ sock[c].read \in {"announce", "update"} /\ UNCHANGED <<room, service, latest>>
      /\ sock' = IF sock[c].read = "announce" THEN SendAgentAssigned(next)
                 ELSE SendToSession(next, "nasabah")
  BY DEF Welcome
<1> HIDE DEF k
<1>3. /\ next \in [Tickets -> Sockets] /\ next[c] = k
      /\ \A d \in Tickets : d # c => next[d] = sock[d]
  BY <1>1, SocketNow, Rewritten
<1> HIDE DEF next
<1>4. /\ sock' \in [Tickets -> Sockets]
      /\ \A d \in Tickets : /\ sock'[d].read = next[d].read
                            /\ sock'[d].heard = next[d].heard \/ sock'[d].heard # "no"
      /\ sock[c].read = "announce" =>
            \A d \in Tickets : d = room["nasabah"] => sock'[d].heard # "no"
  <2>1. CASE sock[c].read = "announce"
    BY <1>2, <1>3, <2>1, Assigned
  <2>2. CASE sock[c].read # "announce"
    BY <1>2, <1>3, <2>2, Delivered DEF SameButBuffer, Sides
  <2> QED BY <2>1, <2>2
<1>5. \A d \in Tickets : /\ sock[d].read \in InRoom <=> sock'[d].read \in InRoom
                         /\ sock[d].read = "gone" => sock'[d].read = "gone"
  BY <1>1, <1>2, <1>3, <1>4 DEF InRoom
<1>6. \A d \in Tickets : sock'[d].read = "none" <=> sock[d].read = "none"
  BY <1>1, <1>2, <1>3, <1>4
<1>7. Asking' /\ (Ticketed' <=> Ticketed)
  BY <1>2, <1>6 DEF IInv, Typed, ServiceTyped, Asking, Ticketed, Tickets, service
<1>8. Told'
  <2> SUFFICES ASSUME NEW d \in Tickets, d = latest["nasabah"], call = "ACTIVE", Ticketed,
                      sock'[d].read \in Looked
               PROVE  sock'[d].heard # "no"
    BY <1>2, <1>7 DEF Told, service, IInv, Typed, Sides
  <2>1. CASE d # c
    BY <1>3, <1>4, <2>1, SignalingAssumption DEF IInv, Told
  <2>2. CASE d = c /\ sock[c].read = "update"
    BY <1>1, <1>3, <1>4, <2>2, SignalingAssumption DEF IInv, Told, Looked
  <2>3. CASE d = c /\ sock[c].read = "announce"
    <3>1. room["nasabah"] = c
      BY <2>3, SignalingAssumption DEF IInv, LatestHeld, Sides
    <3> QED BY <1>4, <2>3, <3>1
  <2> QED BY <1>2, <2>1, <2>2, <2>3
<1> QED BY <1>2, <1>4, <1>5, <1>7, <1>8, Keeps DEF IInv, Typed, ServiceTyped, service

(* The notice of a request reaches the socket in the room by then, which   *)
(* is the latest one unless that one is already through.                   *)
LEMMA AnnounceStep ==
    ASSUME IInv, NEW c \in Tickets, Announce(c)
    PROVE  IInv'
<1> DEFINE k == [sock[c] EXCEPT !.read = "ticket"]
           next == [sock EXCEPT ![c] = k]
<1>1. k \in Sockets /\ k.read = "ticket" /\ k.heard = sock[c].heard /\ sock[c].read = "none"
  BY SocketNow DEF Announce, Sockets, Reads, IInv, Asking
<1>2. /\ c \in taking /\ taking' = taking \ {c}
      /\ sock' = SendAgentAssigned(next) /\ UNCHANGED <<room, call, ending, latest>>
  BY DEF Announce
<1> HIDE DEF k
<1>3. /\ next \in [Tickets -> Sockets] /\ next[c] = k
      /\ \A d \in Tickets : d # c => next[d] = sock[d]
  BY <1>1, SocketNow, Rewritten
<1> HIDE DEF next
<1>4. /\ sock' \in [Tickets -> Sockets]
      /\ \A d \in Tickets : /\ sock'[d].read = next[d].read
                            /\ d = room["nasabah"] => sock'[d].heard # "no"
  BY <1>2, <1>3, Assigned
<1>5. \A d \in Tickets : /\ sock[d].read \in InRoom <=> sock'[d].read \in InRoom
                         /\ sock[d].read = "gone" => sock'[d].read = "gone"
  BY <1>1, <1>3, <1>4 DEF InRoom
<1>6. Told'
  <2> SUFFICES ASSUME NEW d \in Tickets, d = latest["nasabah"], sock'[d].read \in Looked
               PROVE  sock'[d].heard # "no"
    BY <1>2 DEF Told, IInv, Typed, Sides
  <2>1. sock[d].read \in InRoom
    BY <1>5 DEF Looked, InRoom
  <2>2. room["nasabah"] = d
    BY <2>1, SignalingAssumption DEF IInv, Typed, LatestHeld, Sides, InRoom
  <2> QED BY <1>4, <2>2
<1>7. ServiceTyped'
  BY <1>2 DEF IInv, Typed, ServiceTyped
<1>8. Asking'
  BY <1>2, <1>3, <1>4 DEF IInv, Typed, ServiceTyped, Asking, Tickets
<1> QED BY <1>2, <1>4, <1>5, <1>6, <1>7, <1>8, Keeps

-----------------------------------------------------------------------------
(* The steps that change the room, and those of the service.               *)

LEMMA RegisterStep ==
    ASSUME IInv, NEW c \in Tickets, Register(c)
    PROVE  IInv'
<1> DEFINE old == room[Side(c)]
           look == IF c \in Nasabah THEN "lookup" ELSE "run"
           k == [sock[c] EXCEPT !.read = look]
           next == [sock EXCEPT ![c] = k]
           told == [next[old] EXCEPT !.done = TRUE]
<1>1. /\ sock[c].read = "ticket" /\ UNCHANGED service
      /\ sock' = IF old = None THEN next ELSE [next EXCEPT ![old] = told]
      /\ room' = [room EXCEPT ![Side(c)] = c] /\ latest' = [latest EXCEPT ![Side(c)] = c]
  BY DEF Register
<1>2. Side(c) \in Sides /\ look \in {"lookup", "run"} /\ (Side(c) = "nasabah" => look = "lookup")
  BY DEF Side, Sides
<1>3. old \in Tickets \cup {None} /\ (old # None => sock[old].read \in InRoom)
  BY <1>2 DEF IInv, Typed, RoomHolds
<1> HIDE DEF look, old
<1>4. k \in Sockets /\ k.read = look
  BY <1>2, SocketNow DEF Sockets, Reads
<1> HIDE DEF k
<1>5. /\ next \in [Tickets -> Sockets] /\ next[c] = k
      /\ \A d \in Tickets : d # c => next[d] = sock[d]
  BY <1>4, SocketNow, Rewritten
<1> HIDE DEF next
<1>6. old # None => told \in Sockets /\ told.read = next[old].read /\ told.heard = next[old].heard
  <2>1. old # None => next[old] \in Sockets
    BY <1>3, <1>5
  <2> QED BY <2>1 DEF Sockets
<1> HIDE DEF told
<1>7. /\ sock' \in [Tickets -> Sockets]
      /\ \A d \in Tickets : sock'[d].read = next[d].read /\ sock'[d].heard = next[d].heard
  <2>1. CASE old = None
    BY <1>1, <1>5, <2>1
  <2>2. CASE old # None
    BY <1>1, <1>3, <1>5, <1>6, <2>2, Rewritten
  <2> QED BY <2>1, <2>2
<1>8. /\ room' \in [Sides -> Tickets \cup {None}] /\ room'[Side(c)] = c
      /\ latest' \in [Sides -> Tickets \cup {None}] /\ latest'[Side(c)] = c
      /\ \A s \in Sides : s # Side(c) => room'[s] = room[s] /\ latest'[s] = latest[s]
  BY <1>1, <1>2, Rewritten DEF IInv, Typed
<1>9. /\ sock'[c].read \in {"lookup", "run"}
      /\ Side(c) = "nasabah" => sock'[c].read = "lookup"
      /\ \A d \in Tickets : d # c => sock'[d].read = sock[d].read /\ sock'[d].heard = sock[d].heard
  BY <1>2, <1>4, <1>5, <1>7
<1>10. Typed'
  BY <1>1, <1>7, <1>8 DEF IInv, Typed, ServiceTyped, service
<1>11. RoomHolds'
  <2> SUFFICES ASSUME NEW s \in Sides, room'[s] # None
               PROVE  Side(room'[s]) = s /\ sock'[room'[s]].read \in InRoom
    BY DEF RoomHolds
  <2>1. CASE s = Side(c)
    BY <1>8, <1>9, <2>1 DEF InRoom
  <2>2. CASE s # Side(c)
    BY <1>8, <1>9, <2>2 DEF IInv, Typed, RoomHolds
  <2> QED BY <2>1, <2>2
<1>12. LatestHeld'
  <2> SUFFICES ASSUME NEW s \in Sides, latest'[s] # None
               PROVE  /\ Side(latest'[s]) = s
                      /\ sock'[latest'[s]].read \in InRoom \cup {"gone"}
                      /\ sock'[latest'[s]].read # "gone" => room'[s] = latest'[s]
    BY DEF LatestHeld
  <2>1. CASE s = Side(c)
    BY <1>8, <1>9, <2>1 DEF InRoom
  <2>2. CASE s # Side(c)
    BY <1>8, <1>9, <2>2 DEF IInv, Typed, LatestHeld
  <2> QED BY <2>1, <2>2
<1>13. \A d \in Tickets : sock'[d].read = "none" <=> sock[d].read = "none"
  BY <1>1, <1>9
<1>14. Asking' /\ (Ticketed' <=> Ticketed)
  BY <1>1, <1>13 DEF IInv, Typed, ServiceTyped, Asking, Ticketed, Tickets, service
<1>15. Told'
  <2>1. CASE Side(c) = "nasabah"
    BY <1>8, <1>9, <2>1 DEF Told, Looked
  <2>2. CASE Side(c) # "nasabah"
    <3>1. latest'["nasabah"] = latest["nasabah"]
      BY <1>8, <2>2 DEF Sides
    <3>2. latest["nasabah"] # None => latest["nasabah"] \in Tickets /\ latest["nasabah"] # c
      BY <2>2 DEF IInv, Typed, LatestHeld, Sides
    <3> QED BY <1>1, <1>9, <1>14, <3>1, <3>2 DEF IInv, Told, service
  <2> QED BY <2>1, <2>2
<1> QED BY <1>10, <1>11, <1>12, <1>14, <1>15 DEF IInv

(* Only a socket that is itself in the room leaves it.                     *)
LEMMA UnregisterStep ==
    ASSUME IInv, NEW c \in Tickets, Unregister(c)
    PROVE  IInv'
<1> DEFINE k == Leave(sock[c])
           r == IF room[Side(c)] = c THEN None ELSE room[Side(c)]
<1>1. /\ sock[c].read = "left" /\ UNCHANGED <<service, latest>>
      /\ sock' = [sock EXCEPT ![c] = k] /\ room' = [room EXCEPT ![Side(c)] = r]
  BY DEF Unregister
<1>2. k \in Sockets /\ k.read = "gone"
  <2>1. CASE sock[c].write = "gone"
    BY <2>1, FreshTyped DEF Leave
  <2>2. CASE sock[c].write # "gone"
    <3>1. k = [sock[c] EXCEPT !.read = "gone", !.line = "closed"]
      BY <2>2 DEF Leave
    <3> HIDE DEF k
    <3> QED BY <3>1, SocketNow DEF Sockets, Reads
  <2> QED BY <2>1, <2>2
<1> HIDE DEF k
<1>3. SocketSet(c, k)
  BY <1>1, <1>2, SocketNow, Written
<1>4. Side(c) \in Sides /\ r \in Tickets \cup {None} /\ r # c /\ (r = None \/ r = room[Side(c)])
  BY SignalingAssumption DEF IInv, Typed, Side, Sides
<1>5. /\ room' \in [Sides -> Tickets \cup {None}] /\ room'[Side(c)] = r
      /\ \A s \in Sides : s # Side(c) => room'[s] = room[s]
  BY <1>1, <1>4, Rewritten DEF IInv, Typed
<1>6. \A s \in Sides : /\ room'[s] # None => room'[s] = room[s] /\ room[s] # c
                       /\ room[s] # c => room'[s] = room[s]
  <2> TAKE s \in Sides
  <2>1. CASE s = Side(c)
    BY <1>4, <1>5, <2>1
  <2>2. CASE s # Side(c)
    BY <1>5, <2>2, SignalingAssumption DEF IInv, Typed, RoomHolds
  <2> QED BY <2>1, <2>2
<1> HIDE DEF r
<1>7. Typed'
  BY <1>1, <1>3, <1>5 DEF IInv, Typed, ServiceTyped, service, SocketSet
<1>8. RoomHolds'
  BY <1>3, <1>6 DEF IInv, Typed, RoomHolds, SocketSet
<1>9. LatestHeld'
  <2> SUFFICES ASSUME NEW s \in Sides, latest[s] # None
               PROVE  /\ Side(latest[s]) = s
                      /\ sock'[latest[s]].read \in InRoom \cup {"gone"}
                      /\ sock'[latest[s]].read # "gone" => room'[s] = latest[s]
    BY <1>1 DEF LatestHeld
  <2>1. latest[s] \in Tickets
    BY DEF IInv, Typed
  <2>2. CASE latest[s] = c
    BY <1>2, <1>3, <2>2 DEF IInv, LatestHeld, SocketSet
  <2>3. CASE latest[s] # c
    BY <1>3, <1>6, <2>1, <2>3 DEF IInv, LatestHeld, SocketSet
  <2> QED BY <2>2, <2>3
<1>10. \A d \in Tickets : sock'[d].read = "none" <=> sock[d].read = "none"
  BY <1>1, <1>2, <1>3 DEF SocketSet
<1>11. Asking' /\ (Ticketed' <=> Ticketed)
  BY <1>1, <1>10 DEF IInv, Typed, ServiceTyped, Asking, Ticketed, Tickets, service
<1>12. Told'
  BY <1>1, <1>2, <1>3, <1>11 DEF IInv, Told, Typed, Sides, SocketSet, Looked, service
<1> QED BY <1>7, <1>8, <1>9, <1>11, <1>12 DEF IInv

(* A call that is taken had no ticket to it before, if it waited.          *)
LEMMA ServiceSteps ==
    ASSUME IInv, SubmitResult \/ \E c \in Agents : TakeCall(c) \/ TakeFails(c)
    PROVE  IInv'
<1>1. /\ sock' \in [Tickets -> Sockets] /\ UNCHANGED <<sock, room, latest>>
  BY SocketNow DEF TakeCall, TakeFails, SubmitResult
<1>2. Ticketed' <=> Ticketed
  BY <1>1 DEF Ticketed
<1>3. ASSUME NEW c \in Agents, TakeCall(c)
      PROVE  ServiceTyped' /\ Asking' /\ Told'
  BY <1>1, <1>2, <1>3 DEF TakeCall, IInv, Typed, ServiceTyped, Asking, Told
<1>4. ASSUME NEW c \in Agents, TakeFails(c)
      PROVE  ServiceTyped' /\ Asking' /\ Told'
  BY <1>1, <1>2, <1>4 DEF TakeFails, IInv, Typed, ServiceTyped, Asking, Told
<1>5. ASSUME SubmitResult
      PROVE  ServiceTyped' /\ Asking' /\ Told'
  <2>1. call' = "ENDED" /\ taking' = taking /\ ending' \in {"no"} \cup Sides
    BY <1>5 DEF SubmitResult, Sides
  <2> QED BY <1>1, <2>1 DEF IInv, Typed, ServiceTyped, Asking, Told
<1> QED BY <1>1, <1>3, <1>4, <1>5, Keeps

-----------------------------------------------------------------------------
(* IInv is inductive.                                                      *)
LEMMA NextKeeps ==
    ASSUME IInv, [Next]_vars
    PROVE  IInv'
<1>1. CASE UNCHANGED vars
  <2>1. sock' \in [Tickets -> Sockets] /\ UNCHANGED <<sock, room, latest, call, taking, ending>>
    BY <1>1, SocketNow DEF vars
  <2> QED BY <2>1, Keeps DEF IInv, Typed, ServiceTyped, Told, Asking, Ticketed
<1>2. \A c \in Tickets : TakeCall(c) \/ TakeFails(c) => c \in Agents
  BY DEF TakeCall, TakeFails, IInv, Typed, ServiceTyped
<1>3. CASE Next
  BY <1>2, <1>3, JoinAgainStep, RefusedStep, RegisterStep, LookUpStep, LookUpFailsStep, WelcomeStep,
     RunStep, DeliverySteps, ReadFailsStep, UnregisterStep, WriteStep, StopStep, PeerLeavesStep,
     AnnounceStep, ServiceSteps DEF Next, Handler
<1> QED BY <1>1, <1>3

(* The inductive invariant holds of every run of the hub.                  *)
THEOREM Invariance == Spec => []IInv
<1> QED BY InitHolds, NextKeeps, PTL DEF Spec

(* hub.go and client.go: no send buffer holds more than its room, and a    *)
(* socket whose read pump has ended is in no room, whatever pumps, peers   *)
(* and requests do at the same time.                                       *)
THEOREM TypeCorrect == Spec => []TypeOK
<1> QED BY Invariance, Implied, PTL

(* Register, OnNasabahConnected and AgentSignalingURL do not wait for each *)
(* other: the customer's latest socket is still the one in the room, and   *)
(* was told of the agent once one of the agent's requests, of which any    *)
(* number may overlap or end early, was given its ticket.                  *)
THEOREM Announced == Spec => []AgentAnnounced
<1> QED BY Invariance, Implied, PTL
=============================================================================
