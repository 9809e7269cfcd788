------------------------- MODULE AuthSessionProofs --------------------------
(***************************************************************************)
(* Theorems about AuthSession, for any number of sessions, requests and    *)
(* tokens and under every fault.                                           *)
(***************************************************************************)
EXTENDS AuthSession, TLAPS

(* A row is never removed, and the tokens in use are tokens of rows.       *)
RowsStay ==
    /\ revoked \subseteq Created
    /\ inactive \subseteq revoked
    /\ \A s \in Sessions : known[s] # {} => s \in Created

(* What a request has learnt by the statement it stands at: every login    *)
(* makes a row of its own, every other request is about a row that exists, *)
(* and what RevokeByID, RevokeByUserID or FindActiveByID found stays so.   *)
Learnt(p) ==
    /\ at[p].pc = "create" => /\ ses(p) \notin Created
                              /\ \A q \in Procs : q # p /\ at[q].pc = "create" => ses(q) # ses(p)
    /\ at[p].pc \notin {"idle", "create"} => ses(p) \in Created
    /\ at[p].pc \in {"markInactive", "del", "rem"} => ses(p) \in revoked
    /\ at[p].was \subseteq Created
    /\ at[p].pc \in {"list", "wipe"} /\ at[p].kind = "logoutAll" => at[p].was \subseteq revoked

IInv == TypeOK /\ RowsStay /\ ConfirmedEnds /\ \A p \in Procs : Learnt(p)

LEMMA IdleTyped == Idle \in Requests
BY SessionAssumption DEF Idle, SomeSession, Requests, PCs, Kinds, Authenticated

LEMMA InitHolds == Init => IInv
BY IdleTyped DEF Init, IInv, TypeOK, RowsStay, ConfirmedEnds, Learnt, Idle, Created, ses

(* Where a step of p leaves the requests.                                  *)
LEMMA GotoTyped ==
    ASSUME TypeOK, NEW p \in Procs, NEW pc \in PCs, Goto(p, pc)
    PROVE  /\ at' \in [Procs -> Requests]
           /\ \A q \in Procs : q # p => at'[q] = at[q]
           /\ at'[p].pc = pc /\ at'[p].kind = at[p].kind /\ at'[p].ses = at[p].ses
           /\ at'[p].was = at[p].was
BY DEF TypeOK, Goto, Requests

LEMMA FinishTyped ==
    ASSUME TypeOK, NEW p \in Procs, Finish(p)
    PROVE  /\ at' \in [Procs -> Requests]
           /\ \A q \in Procs : q # p => at'[q] = at[q]
           /\ at'[p].pc = "idle" /\ at'[p].was = {}
BY IdleTyped DEF TypeOK, Finish, Idle

(* What a step has to show for one request; the others keep theirs.        *)
LEMMA Keeps ==
    ASSUME IInv, TypeOK', RowsStay', ConfirmedEnds', NEW p \in Procs,
           \A q \in Procs : q # p => at'[q] = at[q],
           Created \subseteq Created', revoked \subseteq revoked',
           \/ Created' = Created
           \/ at[p].pc = "create" /\ Created' = Created \cup {ses(p)},
           at'[p].pc = "create" => \A q \in Procs : at[q].pc # "idle" => ses(q) # at'[p].ses,
           Learnt(p)'
    PROVE  IInv'
<1> SUFFICES ASSUME NEW q \in Procs, q # p PROVE Learnt(q)'
  BY DEF IInv
<1>1. Learnt(q) /\ Learnt(p) /\ at'[q] = at[q]
  BY DEF IInv
<1>2. at'[q].pc = "create" => ses(q)' \notin Created'
  BY <1>1 DEF Learnt, ses
<1>3. \A r \in Procs : r # q /\ at'[r].pc = "create" /\ at'[q].pc = "create" => ses(r)' # ses(q)'
  BY <1>1 DEF Learnt, ses
<1> QED BY <1>1, <1>2, <1>3 DEF Learnt, ses
(* The types, without the requests.                                        *)
Typed ==
    /\ current \in [Sessions -> Nat]
    /\ minted \in [Sessions -> Nat]
    /\ known \in [Sessions -> SUBSET Nat]
    /\ revoked \subseteq Sessions /\ live \subseteq Sessions
    /\ inactive \subseteq Sessions /\ index \subseteq Sessions
    /\ rotated \subseteq Sessions \X Nat
    /\ out \subseteq Sessions

(* A step that makes no row and moves the request on, or ends it.          *)
LEMMA Moves ==
    ASSUME IInv, NEW p \in Procs, NEW pc \in PCs \ {"create"}, Goto(p, pc),
           at[p].pc \notin {"idle", "create"} \/ ses(p) \in Created,
           Typed', RowsStay', ConfirmedEnds', Created' = Created, revoked \subseteq revoked',
           pc \in {"markInactive", "del", "rem"} => ses(p) \in revoked',
           pc \in {"list", "wipe"} /\ at[p].kind = "logoutAll" => at[p].was \subseteq revoked'
    PROVE  IInv'
<1>1. /\ at' \in [Procs -> Requests]
      /\ \A q \in Procs : q # p => at'[q] = at[q]
      /\ at'[p].pc = pc /\ at'[p].kind = at[p].kind /\ at'[p].ses = at[p].ses
      /\ at'[p].was = at[p].was
  BY GotoTyped DEF IInv
<1>2. TypeOK'
  BY <1>1 DEF TypeOK, Typed
<1>3. Learnt(p) /\ Learnt(p)'
  BY <1>1 DEF IInv, Learnt, ses
<1> QED BY <1>1, <1>2, <1>3, Keeps

LEMMA Ends ==
    ASSUME IInv, NEW p \in Procs, Finish(p),
           Typed', RowsStay', ConfirmedEnds', Created' = Created, revoked \subseteq revoked'
    PROVE  IInv'
<1>1. /\ at' \in [Procs -> Requests]
      /\ \A q \in Procs : q # p => at'[q] = at[q]
      /\ at'[p].pc = "idle" /\ at'[p].was = {}
  BY FinishTyped DEF IInv
<1>2. TypeOK'
  BY <1>1 DEF TypeOK, Typed
<1>3. Learnt(p)'
  BY <1>1 DEF Learnt
<1> QED BY <1>1, <1>2, <1>3, Keeps

(* A step of Redis and the request only.                                   *)
LEMMA Untouched ==
    ASSUME IInv, UNCHANGED <<table, known, out>>, inactive' \subseteq revoked,
           live' \subseteq Sessions, index' \subseteq Sessions, rotated' \subseteq Sessions \X Nat
    PROVE  Typed' /\ RowsStay' /\ ConfirmedEnds' /\ Created' = Created /\ revoked' = revoked
BY DEF IInv, TypeOK, Typed, RowsStay, ConfirmedEnds, table, Created

LEMMA Fields ==
    ASSUME IInv, NEW p \in Procs
    PROVE  /\ Typed /\ RowsStay /\ ConfirmedEnds /\ Learnt(p)
           /\ ses(p) \in Sessions /\ at[p].old \in Nat /\ at[p].new \in Nat
           /\ at[p].kind \in Kinds /\ at[p].was \subseteq Sessions /\ at[p].ids \subseteq Sessions
BY DEF IInv, TypeOK, Typed, Requests, ses

(* The request goes on with its session: its new token is known.           *)
LEMMA Proceeds ==
    ASSUME IInv, NEW p \in Procs, Proceed(p), at[p].pc \notin {"idle", "create"},
           UNCHANGED <<table, out>>, inactive' = inactive,
           live' \subseteq Sessions, index' \subseteq Sessions, rotated' = rotated
    PROVE  IInv'
<1>1. Created' = Created /\ revoked' = revoked /\ ConfirmedEnds'
  BY DEF table, Created, IInv, ConfirmedEnds
<1>2. /\ known' \in [Sessions -> SUBSET Nat]
      /\ \A s \in Sessions : s # ses(p) => known'[s] = known[s]
  BY Fields DEF Proceed, Typed
<1>3. Typed' /\ RowsStay'
  BY <1>1, <1>2, Fields DEF Typed, RowsStay, table, Learnt
<1>4. CASE Finish(p)
  BY <1>1, <1>3, <1>4, Ends
<1>5. CASE Goto(p, "revokeOne")
  BY <1>1, <1>3, <1>5, Moves DEF PCs
<1>6. CASE Goto(p, "revokeAll")
  BY <1>1, <1>3, <1>6, Moves DEF PCs
<1> QED BY <1>4, <1>5, <1>6 DEF Proceed
-----------------------------------------------------------------------------
LEMMA StartStep ==
    ASSUME IInv, NEW p \in Procs, NEW kind \in Kinds, NEW s \in Sessions,
           NEW token \in 0 .. MaxTokens, Start(p, kind, s, token)
    PROVE  IInv'
<1> DEFINE was == IF kind = "logoutAll" THEN Created ELSE {}
           req == [pc |-> First(kind), kind |-> kind, ses |-> s, old |-> token, new |-> 0,
                   ids |-> {}, was |-> was]
<1>1. /\ at' = [at EXCEPT ![p] = req]
      /\ UNCHANGED <<table, known, redis, out>>
  BY DEF Start
<1>2. /\ First(kind) \in {"create", "isRevoked", "isActive"}
      /\ First(kind) = "create" <=> kind = "login"
  BY DEF First, Kinds, Authenticated
<1>3. was \subseteq Created /\ was \in SUBSET Sessions
  BY DEF Created
<1>4. req \in Requests
  BY <1>2, <1>3, SessionAssumption DEF Requests, PCs
<1>5. /\ at' \in [Procs -> Requests]
      /\ \A q \in Procs : q # p => at'[q] = at[q]
      /\ at'[p] = req
  BY <1>1, <1>4 DEF IInv, TypeOK
<1>6. /\ Typed' /\ RowsStay' /\ ConfirmedEnds' /\ Created' = Created /\ revoked' = revoked
  BY <1>1, Fields, Untouched DEF redis, Typed, RowsStay
<1>7. TypeOK'
  BY <1>5, <1>6 DEF TypeOK, Typed
<1>8. at[p].pc = "idle" /\ (kind = "login" => s \notin Created /\ Busy(s) = {})
      /\ (kind # "login" => known[s] # {})
  BY DEF Start, Authenticated
<1>9. kind = "login" => \A q \in Procs : at[q].pc # "idle" => ses(q) # s
  BY <1>8 DEF Busy, ses
<1>10. kind # "login" => s \in Created
  BY <1>8, Fields DEF RowsStay
<1>11. Learnt(p)'
  <2>1. at'[p].pc = First(kind) /\ at'[p].ses = s /\ at'[p].was = was
    BY <1>5
  <2> HIDE DEF req, was
  <2> QED BY <1>2, <1>3, <1>5, <1>6, <1>8, <1>9, <1>10, <2>1 DEF Learnt, ses
<1>12. at'[p].pc = "create" => \A q \in Procs : at[q].pc # "idle" => ses(q) # at'[p].ses
  BY <1>2, <1>5, <1>9
<1> QED BY <1>5, <1>6, <1>7, <1>11, <1>12, Keeps

LEMMA CreateStep ==
    ASSUME IInv, NEW p \in Procs, Create(p)
    PROVE  IInv'
<1>1. /\ Typed /\ RowsStay /\ ConfirmedEnds /\ Learnt(p) /\ ses(p) \in Sessions
      /\ at[p].pc = "create" /\ at[p] \in Requests
  BY Fields DEF Create, IInv, TypeOK
<1>2. /\ at' \in [Procs -> Requests]
      /\ \A q \in Procs : q # p => at'[q] = at[q]
      /\ at'[p].pc = "set" /\ at'[p].kind = at[p].kind /\ at'[p].ses = at[p].ses
      /\ at'[p].was = at[p].was
  BY <1>1 DEF Create, IInv, TypeOK, Requests, PCs
<1>3. /\ Created' = Created \cup {ses(p)} /\ UNCHANGED <<revoked, known, redis, out>>
      /\ current' \in [Sessions -> Nat] /\ minted' \in [Sessions -> Nat]
  BY <1>1 DEF Create, Created, Typed
<1>4. TypeOK' /\ RowsStay' /\ ConfirmedEnds'
  BY <1>1, <1>2, <1>3 DEF TypeOK, Typed, RowsStay, ConfirmedEnds, redis
<1>5. Learnt(p)'
  BY <1>1, <1>2, <1>3 DEF Learnt, ses
<1> QED BY <1>1, <1>2, <1>3, <1>4, <1>5, Keeps

LEMMA RotateStep ==
    ASSUME IInv, NEW p \in Procs, UpdateRefreshToken(p)
    PROVE  IInv'
<1>1. /\ Typed /\ RowsStay /\ ConfirmedEnds /\ Learnt(p) /\ ses(p) \in Created
      /\ ses(p) \in Sessions /\ at[p].pc = "rotate" /\ at[p] \in Requests
  BY Fields DEF UpdateRefreshToken, Learnt, IInv, TypeOK
<1>2. CASE ses(p) \notin revoked
  <2>1. minted[ses(p)] + 1 \in Nat /\ minted[ses(p)] + 1 # 0
    BY <1>1 DEF Typed
  <2>2. /\ at' \in [Procs -> Requests]
        /\ \A q \in Procs : q # p => at'[q] = at[q]
        /\ at'[p].pc = "markRotated" /\ at'[p].kind = at[p].kind /\ at'[p].ses = at[p].ses
        /\ at'[p].was = at[p].was
    BY <1>1, <1>2, <2>1 DEF UpdateRefreshToken, IInv, TypeOK, Requests, PCs
  <2>3. /\ Created' = Created /\ UNCHANGED <<revoked, known, redis, out>>
        /\ current' \in [Sessions -> Nat] /\ minted' \in [Sessions -> Nat]
    BY <1>1, <1>2, <2>1 DEF UpdateRefreshToken, Created, Typed
  <2>4. TypeOK' /\ RowsStay' /\ ConfirmedEnds'
    BY <1>1, <2>2, <2>3 DEF TypeOK, Typed, RowsStay, ConfirmedEnds, redis
  <2>5. Learnt(p)'
    BY <1>1, <2>2, <2>3 DEF Learnt, ses
  <2> QED BY <1>1, <2>2, <2>3, <2>4, <2>5, Keeps
<1>3. CASE ses(p) \in revoked
  <2>1. Finish(p) /\ UNCHANGED <<table, known, redis, out>>
    BY <1>3 DEF UpdateRefreshToken, table
  <2> QED BY <1>1, <2>1, Untouched, Ends DEF redis, Typed, RowsStay
<1> QED BY <1>2, <1>3

LEMMA ListStep ==
    ASSUME IInv, NEW p \in Procs, ListIndex(p)
    PROVE  IInv'
<1>1. /\ Typed /\ RowsStay /\ ConfirmedEnds /\ Learnt(p) /\ at[p].pc = "list"
      /\ at[p] \in Requests /\ at[p].kind \in Kinds
      /\ UNCHANGED <<table, known, redis>>
  BY Fields DEF ListIndex, IInv, TypeOK
<1>2. CASE at' = [at EXCEPT ![p].pc = "wipe", ![p].ids = index] /\ UNCHANGED out
  <2>1. /\ at' \in [Procs -> Requests]
        /\ \A q \in Procs : q # p => at'[q] = at[q]
        /\ at'[p].pc = "wipe" /\ at'[p].kind = at[p].kind /\ at'[p].ses = at[p].ses
        /\ at'[p].was = at[p].was
    BY <1>1, <1>2 DEF IInv, TypeOK, Typed, Requests, PCs
  <2>2. Typed' /\ RowsStay' /\ ConfirmedEnds' /\ Created' = Created /\ revoked' = revoked
    BY <1>1, <1>2, Untouched DEF redis, Typed, RowsStay
  <2>3. TypeOK'
    BY <2>1, <2>2 DEF TypeOK, Typed
  <2>4. Learnt(p)'
    BY <1>1, <2>1, <2>2 DEF Learnt, ses
  <2> QED BY <2>1, <2>2, <2>3, <2>4, Keeps
<1>3. CASE EndAll(p)
  <2>1. Finish(p) /\ out' \subseteq out \cup at[p].was
        /\ (out' # out => at[p].kind = "logoutAll")
    BY <1>3 DEF EndAll, Confirm
  <2>2. Typed' /\ RowsStay' /\ ConfirmedEnds' /\ Created' = Created /\ revoked' = revoked
    BY <1>1, <2>1, Fields
       DEF redis, table, Created, Typed, RowsStay, ConfirmedEnds, Learnt
  <2> QED BY <2>1, <2>2, Ends
<1> QED BY <1>2, <1>3 DEF ListIndex
(* The requests confirm what they ended and are over.                      *)
LEMMA Confirms ==
    ASSUME IInv, NEW p \in Procs, NEW ended \in SUBSET Sessions, Confirm(p, ended),
           ended \subseteq revoked, UNCHANGED <<table, known>>, inactive' = inactive,
           live' \subseteq Sessions, index' \subseteq Sessions, rotated' = rotated
    PROVE  IInv'
<1>1. Finish(p) /\ Created' = Created /\ revoked' = revoked
  BY DEF Confirm, table, Created
<1>2. Typed' /\ RowsStay' /\ ConfirmedEnds'
  BY <1>1, Fields DEF Confirm, table, Typed, RowsStay, ConfirmedEnds
<1> QED BY <1>1, <1>2, Ends

LEMMA RedisStep ==
    ASSUME IInv, UNCHANGED <<table, known, at, out>>, inactive' \subseteq inactive,
           live' \subseteq live, index' \subseteq index, rotated' \subseteq rotated
    PROVE  IInv'
<1>1. Typed' /\ RowsStay' /\ ConfirmedEnds' /\ Created' = Created /\ revoked' = revoked
  BY Untouched DEF IInv, TypeOK, RowsStay
<1>2. TypeOK'
  BY <1>1 DEF IInv, TypeOK, Typed
<1>3. ASSUME NEW p \in Procs PROVE Learnt(p)'
  BY <1>1 DEF IInv, Learnt, ses
<1> QED BY <1>1, <1>2, <1>3 DEF IInv

LEMMA StepKeeps ==
    ASSUME IInv, NEW p \in Procs, Step(p)
    PROVE  IInv'
<1>0. /\ Typed /\ RowsStay /\ ConfirmedEnds /\ Learnt(p)
      /\ ses(p) \in Sessions /\ at[p].kind \in Kinds
      /\ at[p].was \subseteq Sessions /\ at[p].ids \subseteq Sessions
  BY Fields
<1>1. CASE IsActive(p)
  <2>1. UNCHANGED <<table, redis, out>> /\ at[p].pc = "isActive"
    BY <1>1 DEF IsActive
  <2>2. CASE Proceed(p)
    BY <1>0, <2>1, <2>2, Proceeds DEF redis, Typed
  <2>3. CASE Goto(p, "isKnown") /\ UNCHANGED known
    BY <1>0, <2>1, <2>3, Untouched, Moves DEF redis, Typed, RowsStay, PCs
  <2> QED BY <1>1, <2>2, <2>3 DEF IsActive
<1>2. CASE IsKnownInactive(p)
  <2>1. UNCHANGED <<table, known, redis, out>> /\ at[p].pc = "isKnown"
    BY <1>2 DEF IsKnownInactive
  <2>2. Typed' /\ RowsStay' /\ ConfirmedEnds' /\ Created' = Created /\ revoked' = revoked
    BY <1>0, <2>1, Untouched DEF redis, Typed, RowsStay
  <2> QED BY <1>2, <2>1, <2>2, Ends, Moves DEF IsKnownInactive, PCs
<1>3. CASE FindActiveByID(p)
  <2>1. UNCHANGED <<table, known, redis, out>> /\ at[p].pc = "find"
    BY <1>3 DEF FindActiveByID
  <2>2. Typed' /\ RowsStay' /\ ConfirmedEnds' /\ Created' = Created /\ revoked' = revoked
    BY <1>0, <2>1, Untouched DEF redis, Typed, RowsStay
  <2>3. CASE Usable(ses(p)) /\ Goto(p, "set")
    BY <2>1, <2>2, <2>3, Moves DEF PCs
  <2>4. CASE ~Usable(ses(p)) /\ Goto(p, "markInactive")
    BY <1>0, <2>1, <2>2, <2>4, Moves DEF PCs, Usable, Learnt
  <2> QED BY <1>3, <2>3, <2>4 DEF FindActiveByID
<1>4. CASE MarkInactive(p)
  BY <1>0, <1>4, Untouched, Ends DEF MarkInactive, Learnt, Typed, RowsStay
<1>5. CASE MarkActive(p)
  <2>1. UNCHANGED <<table, inactive, index, rotated, out>> /\ at[p].pc = "set"
    BY <1>5 DEF MarkActive
  <2>2. CASE live' = live \cup {ses(p)} /\ Goto(p, "add") /\ UNCHANGED known
    BY <1>0, <2>1, <2>2, Untouched, Moves DEF Typed, RowsStay, PCs
  <2>3. CASE Proceed(p) /\ UNCHANGED live
    BY <1>0, <2>1, <2>3, Proceeds DEF Typed
  <2> QED BY <1>5, <2>2, <2>3 DEF MarkActive
<1>6. CASE AddToIndex(p)
  BY <1>0, <1>6, Proceeds DEF AddToIndex, Typed
<1>7. CASE IsRevoked(p) \/ FindByRefreshTokenHash(p)
  <2>1. UNCHANGED <<table, known, redis, out>> /\ at[p].pc \in {"isRevoked", "findToken"}
    BY <1>7 DEF IsRevoked, FindByRefreshTokenHash
  <2>2. Typed' /\ RowsStay' /\ ConfirmedEnds' /\ Created' = Created /\ revoked' = revoked
    BY <1>0, <2>1, Untouched DEF redis, Typed, RowsStay
  <2>3. \/ Goto(p, "revokeAll") \/ Goto(p, "findToken") \/ Goto(p, "rotate") \/ Finish(p)
    BY <1>7 DEF IsRevoked, FindByRefreshTokenHash
  <2> QED BY <2>1, <2>2, <2>3, Ends, Moves DEF PCs
<1>8. CASE MarkRevoked(p)
  <2>1. <<ses(p), at[p].old>> \in Sessions \X Nat
    BY Fields
  <2>2. rotated' \subseteq Sessions \X Nat
    BY <1>0, <1>8, <2>1 DEF MarkRevoked, Typed
  <2> QED BY <1>0, <1>8, <2>2, Untouched, Moves DEF MarkRevoked, Typed, RowsStay, PCs
<1>9. CASE RevokeByID(p)
  <2>1. /\ revoked' = revoked \cup {ses(p)} /\ Created' = Created /\ ses(p) \in Created
        /\ UNCHANGED <<current, minted, known, redis, out>> /\ at[p].pc = "revokeOne"
    BY <1>0, <1>9 DEF RevokeByID, Created, Learnt
  <2>2. Typed' /\ RowsStay' /\ ConfirmedEnds'
    BY <1>0, <2>1 DEF redis, Typed, RowsStay, ConfirmedEnds
  <2> QED BY <1>9, <2>1, <2>2, Moves DEF RevokeByID, PCs
<1>10. CASE RevokeActive(p)
  <2>1. /\ UNCHANGED <<table, known, inactive, index, rotated>> /\ at[p].pc = "del"
        /\ ses(p) \in revoked
    BY <1>0, <1>10 DEF RevokeActive, Learnt
  <2>2. CASE live' = live \ {ses(p)} /\ Goto(p, "rem") /\ UNCHANGED out
    BY <1>0, <2>1, <2>2, Untouched, Moves DEF Typed, RowsStay, PCs, table
  <2>3. CASE Confirm(p, {ses(p)}) /\ UNCHANGED live
    BY <1>0, <2>1, <2>3, Confirms DEF Typed
  <2> QED BY <1>10, <2>2, <2>3 DEF RevokeActive
<1>11. CASE RemoveFromIndex(p)
  BY <1>0, <1>11, Confirms DEF RemoveFromIndex, Typed, Learnt
<1>12. CASE RevokeByUserID(p)
  <2>1. /\ revoked \subseteq revoked' /\ revoked' \subseteq revoked \cup Created
        /\ Created' = Created /\ UNCHANGED <<current, minted, known, redis, out>>
        /\ at[p].pc = "revokeAll"
    BY <1>12 DEF RevokeByUserID, Created
  <2>2. Typed' /\ RowsStay' /\ ConfirmedEnds'
    BY <1>0, <2>1 DEF redis, Typed, RowsStay, ConfirmedEnds, Created
  <2>3. \/ Finish(p)
        \/ Goto(p, "list") /\ (at[p].kind = "logoutAll" => at[p].was \subseteq revoked')
    BY <1>0, <1>12 DEF RevokeByUserID, Learnt
  <2> QED BY <2>1, <2>2, <2>3, Ends, Moves DEF PCs
<1>13. CASE DeleteListed(p)
  <2>1. /\ live' \subseteq Sessions /\ index' \subseteq Sessions
        /\ UNCHANGED <<table, known, inactive, rotated>> /\ at[p].pc = "wipe"
    BY <1>0, <1>13 DEF DeleteListed, Typed
  <2>2. CASE at[p].kind = "logoutAll" /\ Confirm(p, at[p].was)
    BY <1>0, <2>1, <2>2, Confirms DEF Learnt
  <2>3. CASE Finish(p) /\ UNCHANGED out
    BY <1>0, <2>1, <2>3, Untouched, Ends DEF RowsStay, Typed
  <2> QED BY <1>13, <2>2, <2>3 DEF DeleteListed, EndAll
<1> QED BY <1>1, <1>2, <1>3, <1>4, <1>5, <1>6, <1>7, <1>8, <1>9, <1>10, <1>11, <1>12, <1>13,
           CreateStep, RotateStep, ListStep DEF Step

LEMMA NextKeeps == IInv /\ [Next]_vars => IInv'
<1> SUFFICES ASSUME IInv, [Next]_vars PROVE IInv'
  OBVIOUS
<1>1. ASSUME NEW p \in Procs, Abort(p) PROVE IInv'
  BY <1>1, Fields, Untouched, Ends DEF Abort, redis, Typed, RowsStay
<1>2. CASE (\E s \in Sessions : ExpireLive(s) \/ ExpireInactive(s)) \/ ExpireIndex \/ Flush
  BY <1>2, RedisStep DEF ExpireLive, ExpireInactive, ExpireIndex, Flush
<1>3. CASE UNCHANGED vars
  BY <1>3, RedisStep DEF vars, redis
<1> QED BY <1>1, <1>2, <1>3, StepKeeps, StartStep DEF Next

-----------------------------------------------------------------------------
(* The invariant the theorems rest on holds in every reachable state.      *)
THEOREM Invariance == Spec => []IInv
BY InitHolds, NextKeeps, PTL DEF Spec

(* Every state of the session store keeps its types.                       *)
THEOREM TypeCorrect == Spec => []TypeOK
<1>1. IInv => TypeOK
  BY DEF IInv
<1> QED BY <1>1, Invariance, PTL

(* Only an ended session is refused, whatever Redis loses or fails to do.  *)
THEOREM RefusalsAreRight == Spec => []RefusedIsRevoked
<1>1. IInv => RefusedIsRevoked
  BY DEF IInv, RefusedIsRevoked, Refusing, Learnt, RowsStay
<1> QED BY <1>1, Invariance, PTL

(* What Logout and LogoutAll confirm is ended in Postgres.                 *)
THEOREM ConfirmationsHold == Spec => []ConfirmedEnds
<1>1. IInv => ConfirmedEnds
  BY DEF IInv
<1> QED BY <1>1, Invariance, PTL

(* No session whose end was confirmed is ever given new tokens.            *)
THEOREM EndedStaysEnded == Spec => EndedNotRefreshed
<1> DEFINE Same == \A s \in out : current'[s] = current[s]
<1>1. IInv /\ [Next]_vars => [Same]_vars
  <2> SUFFICES ASSUME IInv, Next, NEW s \in out PROVE current'[s] = current[s]
    OBVIOUS
  <2>1. s \in revoked /\ s \in Created /\ Typed
    BY DEF IInv, ConfirmedEnds, RowsStay, TypeOK, Typed
  <2>2. ASSUME NEW p \in Procs, Create(p) PROVE current'[s] = current[s]
    BY <2>1, <2>2, Fields DEF Create, Learnt, Typed
  <2>3. ASSUME NEW p \in Procs, UpdateRefreshToken(p) PROVE current'[s] = current[s]
    BY <2>1, <2>3 DEF UpdateRefreshToken, Typed
  <2>4. CASE current' = current
    BY <2>4
  <2>5. ASSUME NEW p \in Procs, Step(p) PROVE current' = current \/ Create(p) \/ UpdateRefreshToken(p)
    BY <2>5 DEF Step, table, IsActive, IsKnownInactive, FindActiveByID, MarkInactive, MarkActive,
         AddToIndex, IsRevoked, FindByRefreshTokenHash, MarkRevoked, RevokeByID, RevokeActive,
         RemoveFromIndex, RevokeByUserID, ListIndex, DeleteListed
  <2>6. CASE (\E p \in Procs : Step(p))
    BY <2>2, <2>3, <2>4, <2>5, <2>6
  <2>7. CASE ~(\E p \in Procs : Step(p))
    BY <2>7 DEF Next, Start, Abort, ExpireLive, ExpireInactive, ExpireIndex, Flush, table
  <2> QED BY <2>6, <2>7
<1> QED BY <1>1, Invariance, PTL DEF Spec, EndedNotRefreshed
-----------------------------------------------------------------------------
(* The tokens: the row has the last that was made; a new one is in the     *)
(* hands of one request until it is sent; a refresh brings one that was.   *)
Tokened(p) ==
    /\ at[p].pc = "create" => at[p].kind = "login" /\ at[p].new = 0
    /\ at[p].pc \in {"isRevoked", "findToken", "rotate"} => at[p].kind = "refresh" /\ at[p].new = 0
    /\ at[p].kind = "refresh" => known[ses(p)] # {}
    /\ at[p].new # 0 => /\ at[p].kind \in {"login", "refresh"}
                        /\ at[p].new \in (1 .. minted[ses(p)]) \ known[ses(p)]

TokenInv ==
    /\ current = minted
    /\ \A s \in Sessions : known[s] \subseteq 1 .. minted[s]
    /\ \A p \in Procs : Tokened(p)
    /\ \A p, q \in Procs :
          p # q /\ at[p].new # 0 /\ at[q].new # 0 /\ ses(p) = ses(q) => at[p].new # at[q].new

RInv == IInv /\ TokenInv

LEMMA InitTokens == Init => TokenInv
BY DEF Init, TokenInv, Tokened, Idle, ses

(* A step of p that makes and sends no token.                              *)
LEMMA QuietTokens ==
    ASSUME RInv, NEW p \in Procs, UNCHANGED <<current, minted, known>>,
           \A q \in Procs : q # p => at'[q] = at[q],
           Tokened(p)',
           at'[p].new = 0 \/ (at'[p].new = at[p].new /\ at'[p].ses = at[p].ses)
    PROVE  TokenInv'
<1>1. ASSUME NEW q \in Procs PROVE Tokened(q)'
  BY <1>1 DEF RInv, TokenInv, Tokened, ses
<1>2. ASSUME NEW q \in Procs, NEW r \in Procs, q # r, at'[q].new # 0, at'[r].new # 0,
             ses(q)' = ses(r)'
      PROVE  at'[q].new # at'[r].new
  BY <1>2 DEF RInv, TokenInv, ses
<1> QED BY <1>1, <1>2 DEF RInv, TokenInv

LEMMA FinishTokens ==
    ASSUME RInv, NEW p \in Procs, Finish(p), UNCHANGED <<current, minted, known>>
    PROVE  TokenInv'
<1>1. /\ \A q \in Procs : q # p => at'[q] = at[q]
      /\ at'[p].pc = "idle" /\ at'[p].new = 0 /\ at'[p].kind = "call"
  BY DEF RInv, IInv, TypeOK, Finish, Idle
<1>2. Tokened(p)'
  BY <1>1 DEF Tokened
<1> QED BY <1>1, <1>2, QuietTokens

LEMMA GotoTokens ==
    ASSUME RInv, NEW p \in Procs, NEW pc \in PCs \ {"create"}, Goto(p, pc),
           UNCHANGED <<current, minted, known>>,
           \/ pc \notin {"isRevoked", "findToken", "rotate"}
           \/ at[p].pc \in {"isRevoked", "findToken"}
    PROVE  TokenInv'
<1>1. /\ \A q \in Procs : q # p => at'[q] = at[q]
      /\ at'[p].pc = pc /\ at'[p].kind = at[p].kind /\ at'[p].ses = at[p].ses
      /\ at'[p].new = at[p].new
  BY DEF RInv, IInv, TypeOK, Requests, Goto
<1>2. Tokened(p)'
  BY <1>1 DEF RInv, TokenInv, Tokened, ses
<1> QED BY <1>1, <1>2, QuietTokens

-----------------------------------------------------------------------------
(* What the steps that concern the tokens do to Logins.                    *)
LEMMA CreateRefines ==
    ASSUME RInv, NEW p \in Procs, Create(p)
    PROVE  TokenInv' /\ Abstract!Login(ses(p))
<1>1. /\ Typed /\ Learnt(p) /\ ses(p) \in Sessions /\ at[p].pc = "create"
      /\ at[p].kind = "login" /\ Tokened(p) /\ current = minted
  BY Fields DEF Create, RInv, TokenInv, Tokened
<1>2. minted[ses(p)] = 0 /\ known[ses(p)] = {}
  BY <1>1 DEF Learnt, Created, RInv, TokenInv
<1>3. /\ minted' = [minted EXCEPT ![ses(p)] = 1] /\ UNCHANGED <<revoked, known, out>>
      /\ current' = minted'
  BY <1>1 DEF Create
<1>4. /\ \A q \in Procs : q # p => at'[q] = at[q]
      /\ at'[p].pc = "set" /\ at'[p].kind = "login" /\ at'[p].ses = at[p].ses
      /\ at'[p].new = 1
  BY <1>1 DEF Create, RInv, IInv, TypeOK, Requests
<1>5. \A q \in Procs : at[q].new # 0 => ses(q) # ses(p)
  BY <1>2, Fields DEF RInv, TokenInv, Tokened
<1>6. ASSUME NEW q \in Procs PROVE Tokened(q)'
  <2>1. CASE q = p
    BY <1>1, <1>2, <1>3, <1>4, <2>1 DEF Tokened, ses, Typed
  <2>2. CASE q # p
    <3>1. at'[q] = at[q] /\ Tokened(q) /\ ses(q) \in Sessions
      BY <1>4, <2>2, Fields DEF RInv, TokenInv
    <3>2. at[q].new # 0 => minted'[ses(q)] = minted[ses(q)]
      BY <1>1, <1>3, <1>5, <3>1 DEF Typed
    <3> QED BY <1>3, <3>1, <3>2 DEF Tokened, ses
  <2> QED BY <2>1, <2>2
<1>7. \A s \in Sessions : known'[s] \subseteq 1 .. minted'[s]
  BY <1>1, <1>2, <1>3 DEF RInv, TokenInv, Typed
<1>8. TokenInv'
  BY <1>3, <1>4, <1>5, <1>6, <1>7 DEF RInv, TokenInv, ses
<1> QED BY <1>2, <1>3, <1>8 DEF Abstract!Login, Abstract!Opened

LEMMA RotateRefines ==
    ASSUME RInv, NEW p \in Procs, UpdateRefreshToken(p), ses(p) \notin revoked
    PROVE  TokenInv' /\ Abstract!Renew(ses(p))
<1> DEFINE n == minted[ses(p)] + 1
<1>1. /\ Typed /\ ses(p) \in Sessions /\ at[p].pc = "rotate" /\ at[p].kind = "refresh"
      /\ at[p].new = 0 /\ known[ses(p)] # {} /\ current = minted
      /\ minted[ses(p)] \in Nat /\ n \in Nat \ {0}
  BY Fields DEF UpdateRefreshToken, RInv, TokenInv, Tokened, Typed
<1>3. /\ minted' = [minted EXCEPT ![ses(p)] = n] /\ UNCHANGED <<revoked, known, out>>
      /\ current' = minted'
  BY <1>1 DEF UpdateRefreshToken
<1>4. /\ \A q \in Procs : q # p => at'[q] = at[q]
      /\ at'[p].pc = "markRotated" /\ at'[p].kind = "refresh" /\ at'[p].ses = at[p].ses
      /\ at'[p].new = n
  BY <1>1 DEF UpdateRefreshToken, RInv, IInv, TypeOK, Requests
<1>5. known[ses(p)] \subseteq 1 .. minted[ses(p)]
  BY <1>1 DEF RInv, TokenInv
<1>6. ASSUME NEW q \in Procs PROVE Tokened(q)'
  <2>1. CASE q = p
    <3>1. minted'[ses(p)] = n /\ n \notin known[ses(p)]
      BY <1>1, <1>3, <1>5 DEF Typed
    <3> QED BY <1>1, <1>3, <1>4, <2>1, <3>1 DEF Tokened, ses
  <2>2. CASE q # p
    <3>1. at'[q] = at[q] /\ Tokened(q) /\ ses(q) \in Sessions
      BY <1>4, <2>2, Fields DEF RInv, TokenInv
    <3>2. minted[ses(q)] \in Nat /\ minted'[ses(q)] \in Nat /\ minted[ses(q)] <= minted'[ses(q)]
      BY <1>1, <1>3, <3>1 DEF Typed
    <3> QED BY <1>3, <3>1, <3>2 DEF Tokened, ses
  <2> QED BY <2>1, <2>2
<1>7. ASSUME NEW s \in Sessions PROVE known'[s] \subseteq 1 .. minted'[s]
  <2>1. minted[s] \in Nat /\ minted'[s] \in Nat /\ minted[s] <= minted'[s]
    BY <1>1, <1>3 DEF Typed
  <2> QED BY <1>3, <2>1 DEF RInv, TokenInv
<1>8. \A q \in Procs : at[q].new # 0 /\ ses(q) = ses(p) => at[q].new # n
  BY <1>1 DEF RInv, TokenInv, Tokened
<1>9. TokenInv'
  <2> HIDE DEF n
  <2> QED BY <1>3, <1>4, <1>6, <1>7, <1>8 DEF RInv, TokenInv, ses
<1> QED BY <1>1, <1>3, <1>9 DEF Abstract!Renew

LEMMA ProceedRefines ==
    ASSUME RInv, NEW p \in Procs, Proceed(p), UNCHANGED <<table, out>>
    PROVE  TokenInv' /\ (Abstract!Send(ses(p)) \/ UNCHANGED Abstract!vars)
<1>1. /\ Typed /\ ses(p) \in Sessions /\ Tokened(p) /\ at[p].kind \in Kinds
      /\ UNCHANGED <<current, minted, revoked, out>>
  BY Fields DEF RInv, TokenInv, table
<1>2. CASE at[p].new = 0
  <2>1. known' = known
    BY <1>1, <1>2 DEF Proceed, Typed
  <2>2. \/ Goto(p, "revokeOne") \/ Goto(p, "revokeAll") \/ Finish(p)
    BY DEF Proceed
  <2> QED BY <1>1, <2>1, <2>2, GotoTokens, FinishTokens DEF PCs, Abstract!vars
<1>3. CASE at[p].new # 0
  <2>1. /\ known' = [known EXCEPT ![ses(p)] = @ \cup {at[p].new}]
        /\ at[p].new \in (1 .. minted[ses(p)]) \ known[ses(p)]
        /\ Finish(p)
    BY <1>1, <1>3 DEF Proceed, Tokened
  <2>2. /\ \A q \in Procs : q # p => at'[q] = at[q]
        /\ at'[p].pc = "idle" /\ at'[p].new = 0 /\ at'[p].kind = "call"
    BY <2>1 DEF RInv, IInv, TypeOK, Finish, Idle
  <2>3. ASSUME NEW q \in Procs PROVE Tokened(q)'
    <3>1. CASE q = p
      BY <2>2, <3>1 DEF Tokened
    <3>2. CASE q # p
      <4>1. at'[q] = at[q] /\ Tokened(q) /\ ses(q) \in Sessions
        BY <2>2, <3>2, Fields DEF RInv, TokenInv
      <4>2. /\ known[ses(q)] \subseteq known'[ses(q)]
            /\ known'[ses(q)] \subseteq known[ses(q)] \cup {at[p].new}
            /\ ses(q) # ses(p) => known'[ses(q)] = known[ses(q)]
        BY <1>1, <2>1, <4>1 DEF Typed
      <4>3. at[q].new # 0 => at[q].new \notin known'[ses(q)]
        BY <1>3, <3>2, <4>1, <4>2 DEF RInv, TokenInv, Tokened
      <4> QED BY <1>1, <4>1, <4>2, <4>3 DEF Tokened, ses
    <3> QED BY <3>1, <3>2
  <2>4. \A s \in Sessions : known'[s] \subseteq 1 .. minted'[s]
    BY <1>1, <2>1 DEF RInv, TokenInv, Typed
  <2>5. TokenInv'
    BY <1>1, <2>2, <2>3, <2>4 DEF RInv, TokenInv, ses
  <2> QED BY <1>1, <2>1, <2>5 DEF Abstract!Send
<1> QED BY <1>2, <1>3

LEMMA StartTokens ==
    ASSUME RInv, NEW p \in Procs, NEW kind \in Kinds, NEW s \in Sessions,
           NEW token \in 0 .. MaxTokens, Start(p, kind, s, token)
    PROVE  TokenInv' /\ UNCHANGED Abstract!vars
<1>1. /\ \A q \in Procs : q # p => at'[q] = at[q]
      /\ at'[p].pc = First(kind) /\ at'[p].kind = kind /\ at'[p].ses = s /\ at'[p].new = 0
  BY DEF Start, RInv, IInv, TypeOK, Requests
<1>2. UNCHANGED <<current, minted, known>> /\ UNCHANGED Abstract!vars
  BY DEF Start, table, Abstract!vars
<1>3. /\ First(kind) = "create" => kind = "login"
      /\ First(kind) \in {"isRevoked", "findToken", "rotate"} => kind = "refresh"
      /\ kind = "refresh" => known[s] # {}
  BY DEF First, Kinds, Authenticated, Start
<1>4. Tokened(p)'
  BY <1>1, <1>2, <1>3 DEF Tokened, ses
<1> QED BY <1>1, <1>2, <1>4, QuietTokens

(* A confirmation at the end of a logout, or of another request.           *)
LEMMA ConfirmRefines ==
    ASSUME RInv, NEW p \in Procs, NEW ended \in SUBSET Created, Confirm(p, ended),
           ended \subseteq revoked, UNCHANGED <<table, known>>
    PROVE  TokenInv' /\ Abstract!Confirm(ended) /\ ended \in SUBSET Abstract!Opened
<1>1. TokenInv'
  BY FinishTokens DEF Confirm, table
<1> QED BY <1>1 DEF Confirm, table, Abstract!Confirm, Abstract!Opened, Created, RInv, TokenInv

LEMMA EndAllRefines ==
    ASSUME RInv, NEW p \in Procs, at[p].pc \in {"list", "wipe"}, EndAll(p),
           UNCHANGED <<table, known>>
    PROVE  /\ TokenInv'
           /\ \/ \E S \in SUBSET Abstract!Opened : Abstract!Confirm(S)
              \/ UNCHANGED Abstract!vars
<1>1. CASE at[p].kind = "logoutAll"
  <2>1. at[p].was \in SUBSET Created /\ at[p].was \subseteq revoked /\ Confirm(p, at[p].was)
    BY <1>1, Fields DEF RInv, Learnt, EndAll
  <2> QED BY <2>1, ConfirmRefines
<1>2. CASE at[p].kind # "logoutAll"
  <2>1. Finish(p) /\ UNCHANGED out
    BY <1>2 DEF EndAll
  <2> QED BY <2>1, FinishTokens DEF table, Abstract!vars
<1> QED BY <1>1, <1>2

(* Every statement and every command of Redis is a step of Logins or none. *)
LEMMA StepRefines ==
    ASSUME RInv, NEW p \in Procs, Step(p)
    PROVE  TokenInv' /\ [Abstract!Next]_(Abstract!vars)
<1>0. /\ Typed /\ Learnt(p) /\ Tokened(p) /\ ses(p) \in Sessions /\ at[p].kind \in Kinds
      /\ Abstract!Opened = Created
  BY Fields DEF RInv, TokenInv, Abstract!Opened, Created
<1>1. CASE IsActive(p) \/ MarkActive(p) \/ AddToIndex(p)
  <2>1. UNCHANGED <<table, out>>
    BY <1>1 DEF IsActive, MarkActive, AddToIndex
  <2>2. CASE Proceed(p)
    BY <1>0, <2>1, <2>2, ProceedRefines DEF Abstract!Next
  <2>3. CASE UNCHANGED known /\ (Goto(p, "isKnown") \/ Goto(p, "add"))
    BY <2>1, <2>3, GotoTokens DEF table, PCs, Abstract!vars
  <2> QED BY <1>1, <2>2, <2>3 DEF IsActive, MarkActive, AddToIndex
<1>2. CASE \/ IsKnownInactive(p) \/ FindActiveByID(p) \/ MarkInactive(p)
           \/ IsRevoked(p) \/ FindByRefreshTokenHash(p) \/ MarkRevoked(p)
  <2>1. UNCHANGED <<table, known, out>>
    BY <1>2 DEF IsKnownInactive, FindActiveByID, MarkInactive, IsRevoked,
                FindByRefreshTokenHash, MarkRevoked
  <2>2. \/ Finish(p)
        \/ \E pc \in {"find", "set", "markInactive", "revokeAll"} : Goto(p, pc)
        \/ at[p].pc = "isRevoked" /\ Goto(p, "findToken")
        \/ at[p].pc = "findToken" /\ Goto(p, "rotate")
    BY <1>2 DEF IsKnownInactive, FindActiveByID, MarkInactive, IsRevoked,
                FindByRefreshTokenHash, MarkRevoked
  <2>3. TokenInv'
    BY <2>1, <2>2, GotoTokens, FinishTokens DEF table, PCs
  <2> QED BY <2>1, <2>3 DEF table, Abstract!vars
<1>3. CASE Create(p)
  BY <1>0, <1>3, CreateRefines DEF Abstract!Next
<1>4. CASE UpdateRefreshToken(p)
  <2>1. CASE ses(p) \notin revoked
    BY <1>0, <1>4, <2>1, RotateRefines DEF Abstract!Next
  <2>2. CASE ses(p) \in revoked
    <3>1. Finish(p) /\ UNCHANGED <<current, minted, revoked, known, out>>
      BY <1>4, <2>2 DEF UpdateRefreshToken
    <3> QED BY <3>1, FinishTokens DEF Abstract!vars
  <2> QED BY <2>1, <2>2
<1>5. CASE RevokeByID(p)
  <2>1. /\ ses(p) \in Created /\ revoked' = revoked \cup {ses(p)} /\ Goto(p, "del")
        /\ UNCHANGED <<current, minted, known, out>>
    BY <1>0, <1>5 DEF RevokeByID, Learnt
  <2>2. Abstract!End({ses(p)})
    BY <2>1 DEF Abstract!End
  <2> QED BY <1>0, <2>1, <2>2, GotoTokens DEF PCs, Abstract!Next
<1>6. CASE RevokeActive(p) \/ RemoveFromIndex(p)
  <2>1. UNCHANGED <<table, known>> /\ {ses(p)} \in SUBSET Created /\ {ses(p)} \subseteq revoked
    BY <1>0, <1>6 DEF RevokeActive, RemoveFromIndex, Learnt
  <2>2. CASE Confirm(p, {ses(p)})
    BY <2>1, <2>2, ConfirmRefines DEF Abstract!Next
  <2>3. CASE Goto(p, "rem") /\ UNCHANGED out
    BY <2>1, <2>3, GotoTokens DEF table, PCs, Abstract!vars
  <2> QED BY <1>6, <2>2, <2>3 DEF RevokeActive, RemoveFromIndex
<1>7. CASE RevokeByUserID(p)
  <2>1. UNCHANGED <<current, minted, known, out>> /\ (Finish(p) \/ Goto(p, "list"))
    BY <1>7 DEF RevokeByUserID
  <2>2. TokenInv'
    BY <2>1, GotoTokens, FinishTokens DEF PCs
  <2>3. revoked' = revoked \cup Created \/ revoked' = revoked
    BY <1>7 DEF RevokeByUserID
  <2> QED BY <1>0, <2>1, <2>2, <2>3 DEF Abstract!Next, Abstract!End, Abstract!vars
<1>8. CASE ListIndex(p) \/ DeleteListed(p)
  <2>1. UNCHANGED <<table, known>> /\ at[p].pc \in {"list", "wipe"}
    BY <1>8 DEF ListIndex, DeleteListed
  <2>2. CASE EndAll(p)
    BY <2>1, <2>2, EndAllRefines DEF Abstract!Next
  <2>3. CASE at' = [at EXCEPT ![p].pc = "wipe", ![p].ids = index] /\ UNCHANGED out
    <3>1. /\ \A q \in Procs : q # p => at'[q] = at[q]
          /\ at'[p].pc = "wipe" /\ at'[p].kind = at[p].kind /\ at'[p].ses = at[p].ses
          /\ at'[p].new = at[p].new
      BY <2>3 DEF RInv, IInv, TypeOK, Requests
    <3>2. UNCHANGED <<current, minted, known, revoked, out>>
      BY <2>1, <2>3 DEF table
    <3>3. Tokened(p)'
      BY <1>0, <3>1, <3>2 DEF Tokened, ses
    <3> QED BY <3>1, <3>2, <3>3, QuietTokens DEF Abstract!vars
  <2> QED BY <1>8, <2>2, <2>3 DEF ListIndex, DeleteListed
<1> QED BY <1>1, <1>2, <1>3, <1>4, <1>5, <1>6, <1>7, <1>8 DEF Step

LEMMA NextRefines == RInv /\ [Next]_vars => TokenInv' /\ [Abstract!Next]_(Abstract!vars)
<1> SUFFICES ASSUME RInv, [Next]_vars PROVE TokenInv' /\ [Abstract!Next]_(Abstract!vars)
  OBVIOUS
<1>1. ASSUME NEW p \in Procs, Abort(p) PROVE TokenInv' /\ UNCHANGED Abstract!vars
  BY <1>1, FinishTokens DEF Abort, table, Abstract!vars
<1>2. CASE UNCHANGED <<table, known, at, out>>
  BY <1>2 DEF RInv, TokenInv, Tokened, ses, table, Abstract!vars
<1>3. CASE \/ \E s \in Sessions : ExpireLive(s) \/ ExpireInactive(s)
           \/ ExpireIndex \/ Flush \/ UNCHANGED vars
  BY <1>2, <1>3 DEF ExpireLive, ExpireInactive, ExpireIndex, Flush, vars
<1> QED BY <1>1, <1>3, StepRefines, StartTokens DEF Next

(* The store of sessions implements Logins: with the requests, the markers *)
(* and Redis hidden, every step of a login, a refresh, a check, a logout   *)
(* or a fault makes a token, sends one, ends sessions, confirms an end, or *)
(* does nothing.                                                           *)
THEOREM SessionsImplementLogins == Spec => RefinesLogins
<1>1. Init => RInv /\ Abstract!Init
  BY InitHolds, InitTokens DEF RInv, Init, Abstract!Init
<1>2. RInv /\ [Next]_vars => RInv' /\ [Abstract!Next]_(Abstract!vars)
  BY NextKeeps, NextRefines DEF RInv
<1> QED BY <1>1, <1>2, PTL DEF Spec, RefinesLogins, Abstract!Spec
=============================================================================
