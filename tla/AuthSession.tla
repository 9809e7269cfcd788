---------------------------- MODULE AuthSession -----------------------------
(***************************************************************************)
(* The login sessions of one user: rows of sessions in Postgres, and in    *)
(* Redis the markers by which the middleware recognises an access token's  *)
(* session without asking Postgres (auth.Service, SessionCache,            *)
(* SessionRepo, TokenRevocationCache).                                     *)
(*                                                                         *)
(* Every statement and every Redis command is an action, pipelines are     *)
(* command by command. Tokens are numbered per session; an access token    *)
(* stands for its session. A session's own seven days, its device, audit   *)
(* and the hash session:{user}:{device}, which nothing reads, are left     *)
(* out.                                                                    *)
(***************************************************************************)
EXTENDS Integers, FiniteSets

CONSTANTS Sessions,     \* session ids, each given to one login
          Procs,        \* requests in flight at the same time
          Does,         \* [Procs -> SUBSET Kinds] what each may be asked
          MaxTokens,    \* bound: refresh tokens of a session
          Faults        \* a subset of AllFaults

Authenticated == {"call", "logout", "logoutAll", "changePIN"}
Kinds == {"login", "refresh"} \cup Authenticated
AllFaults == {"redis",     \* a command fails
              "db",        \* the revocation of all rows fails
              "evict",     \* keys go before their time
              "abort",     \* a request stops half way
              "flush"}     \* Redis loses everything

ASSUME SessionAssumption ==
    /\ Sessions # {}
    /\ Does \in [Procs -> SUBSET Kinds]
    /\ MaxTokens \in Nat \ {0}
    /\ Faults \subseteq AllFaults

VARIABLES
    current,    \* sessions.refresh_token_hash: the number of the token, 0 without a row
    revoked,    \* sessions with revoked_at
    minted,     \* refresh tokens made so far, per session
    known,      \* those of them that were sent to the client
    live,       \* session:active:{id}
    inactive,   \* session:inactive:{id}
    index,      \* sessions:active:user:{user}
    rotated,    \* refresh:revoked:{hash}
    at,         \* where each request is, and what it was asked
    out         \* history: sessions a logout has confirmed the end of

table == <<current, revoked, minted>>
redis == <<live, inactive, index, rotated>>
vars == <<table, known, redis, at, out>>

Created == {s \in Sessions : current[s] # 0}
Usable(s) == s \in Created \ revoked
Fallible == "redis" \in Faults

PCs == {"idle", "isActive", "isKnown", "find", "markInactive", "set", "add", "create",
        "isRevoked", "findToken", "rotate", "markRotated",
        "revokeOne", "del", "rem", "revokeAll", "list", "wipe"}
Requests == [pc : PCs, kind : Kinds, ses : Sessions, old : Nat,
             new : Nat, was : SUBSET Sessions, ids : SUBSET Sessions]

SomeSession == CHOOSE s \in Sessions : TRUE
Idle == [pc |-> "idle", kind |-> "call", ses |-> SomeSession, old |-> 0,
         new |-> 0, was |-> {}, ids |-> {}]

ses(p) == at[p].ses
Goto(p, pc) == at' = [at EXCEPT ![p].pc = pc]
Finish(p) == at' = [at EXCEPT ![p] = Idle]

Init ==
    /\ current = [s \in Sessions |-> 0]
    /\ minted = [s \in Sessions |-> 0]
    /\ known = [s \in Sessions |-> {}]
    /\ revoked = {} /\ live = {} /\ inactive = {} /\ index = {} /\ rotated = {}
    /\ at = [p \in Procs |-> Idle]
    /\ out = {}

-----------------------------------------------------------------------------
First(kind) ==
    CASE kind = "login" -> "create"
      [] kind = "refresh" -> "isRevoked"
      [] OTHER -> "isActive"

Busy(s) == {p \in Procs : at[p].pc # "idle" /\ at[p].ses = s}

(* A login takes a new id; the other requests bring a token the client was *)
(* given, perhaps an old one. The PIN of a login is right.                 *)
Start(p, kind, s, token) ==
    /\ at[p].pc = "idle"
    /\ kind \in Does[p]
    /\ \/ kind = "login" /\ token = 0 /\ s \notin Created /\ Busy(s) = {}
       \/ /\ kind = "refresh" /\ token \in known[s]
          /\ minted[s] + Cardinality(Busy(s)) < MaxTokens
       \/ kind \in Authenticated /\ token = 0 /\ known[s] # {}
    /\ at' = [at EXCEPT ![p] = [pc |-> First(kind), kind |-> kind, ses |-> s,
                                old |-> token, new |-> 0, ids |-> {},
                                was |-> IF kind = "logoutAll" THEN Created ELSE {}]]
    /\ UNCHANGED <<table, known, redis, out>>

(* The request has its session: a login or a refresh is answered with the  *)
(* new tokens, an authenticated request goes to its handler.               *)
Proceed(p) ==
    /\ known' = [known EXCEPT ![ses(p)] = @ \cup (IF at[p].new = 0 THEN {} ELSE {at[p].new})]
    /\ \/ at[p].kind = "logout" /\ Goto(p, "revokeOne")
       \/ at[p].kind \in {"logoutAll", "changePIN"} /\ Goto(p, "revokeAll")
       \/ at[p].kind \in {"login", "refresh", "call"} /\ Finish(p)

-----------------------------------------------------------------------------
(* IsSessionActive, which the middleware asks before each authenticated    *)
(* request. A command that fails counts as a miss.                         *)
IsActive(p) ==
    /\ at[p].pc = "isActive"
    /\ \/ ses(p) \in live /\ Proceed(p)
       \/ (ses(p) \notin live \/ Fallible) /\ Goto(p, "isKnown") /\ UNCHANGED known
    /\ UNCHANGED <<table, redis, out>>

IsKnownInactive(p) ==
    /\ at[p].pc = "isKnown"
    /\ \/ ses(p) \in inactive /\ Finish(p)
       \/ (ses(p) \notin inactive \/ Fallible) /\ Goto(p, "find")
    /\ UNCHANGED <<table, known, redis, out>>

FindMarked(p) ==    \* mutant
    /\ at[p].pc = "find"
    /\ Goto(p, IF ses(p) \in live THEN "set" ELSE "markInactive")
    /\ UNCHANGED <<table, known, redis, out>>

FindAnyByID(p) ==    \* mutant
    /\ at[p].pc = "find"
    /\ Goto(p, IF ses(p) \in Created THEN "set" ELSE "markInactive")
    /\ UNCHANGED <<table, known, redis, out>>

FindActiveByID(p) ==
    /\ at[p].pc = "find"
    /\ Goto(p, IF Usable(ses(p)) THEN "set" ELSE "markInactive")
    /\ UNCHANGED <<table, known, redis, out>>

MarkInactive(p) ==
    /\ at[p].pc = "markInactive"
    /\ \/ inactive' = inactive \cup {ses(p)}
       \/ Fallible /\ UNCHANGED inactive
    /\ Finish(p)
    /\ UNCHANGED <<table, known, live, index, rotated, out>>

(* MarkActive, for a check that missed, a login and a refresh.             *)
MarkActive(p) ==
    /\ at[p].pc = "set"
    /\ \/ live' = live \cup {ses(p)} /\ Goto(p, "add") /\ UNCHANGED known
       \/ Fallible /\ Proceed(p) /\ UNCHANGED live
    /\ UNCHANGED <<table, inactive, index, rotated, out>>

AddToIndex(p) ==
    /\ at[p].pc = "add"
    /\ \/ index' = index \cup {ses(p)}
       \/ Fallible /\ UNCHANGED index
    /\ Proceed(p)
    /\ UNCHANGED <<table, live, inactive, rotated, out>>

-----------------------------------------------------------------------------
(* handleSuccessfulLogin, createBiometricSession.                          *)
Create(p) ==
    /\ at[p].pc = "create"
    /\ current' = [current EXCEPT ![ses(p)] = 1]
    /\ minted' = [minted EXCEPT ![ses(p)] = 1]
    /\ at' = [at EXCEPT ![p].pc = "set", ![p].new = 1]
    /\ UNCHANGED <<revoked, known, redis, out>>

-----------------------------------------------------------------------------
(* RefreshToken. A token that was rotated out ends every session.          *)
IsRevoked(p) ==
    /\ at[p].pc = "isRevoked"
    /\ \/ <<ses(p), at[p].old>> \in rotated /\ Goto(p, "revokeAll")
       \/ <<ses(p), at[p].old>> \notin rotated /\ Goto(p, "findToken")
       \/ Fallible /\ Finish(p)
    /\ UNCHANGED <<table, known, redis, out>>

FindByRefreshTokenHash(p) ==
    /\ at[p].pc = "findToken"
    /\ IF ses(p) \notin revoked /\ current[ses(p)] = at[p].old
       THEN Goto(p, "rotate") ELSE Finish(p)
    /\ UNCHANGED <<table, known, redis, out>>

RotateAny(p) ==    \* mutant
    /\ at[p].pc = "rotate"
    /\ current' = [current EXCEPT ![ses(p)] = minted[ses(p)] + 1]
    /\ minted' = [minted EXCEPT ![ses(p)] = @ + 1]
    /\ at' = [at EXCEPT ![p].pc = "markRotated", ![p].new = minted[ses(p)] + 1]
    /\ UNCHANGED <<revoked, known, redis, out>>

(* UpdateRefreshToken asks that the row be unrevoked, not that it still    *)
(* have the token that was presented.                                      *)
UpdateRefreshToken(p) ==
    /\ at[p].pc = "rotate"
    /\ \/ /\ ses(p) \notin revoked
          /\ current' = [current EXCEPT ![ses(p)] = minted[ses(p)] + 1]
          /\ minted' = [minted EXCEPT ![ses(p)] = @ + 1]
          /\ at' = [at EXCEPT ![p].pc = "markRotated", ![p].new = minted[ses(p)] + 1]
       \/ ses(p) \in revoked /\ Finish(p) /\ UNCHANGED <<current, minted>>
    /\ UNCHANGED <<revoked, known, redis, out>>

MarkRevokedSwapped(p) ==    \* mutant
    /\ at[p].pc = "markRotated"
    /\ rotated' = rotated \cup {<<at[p].old, ses(p)>>}
    /\ Goto(p, "set")
    /\ UNCHANGED <<table, known, live, inactive, index, out>>

MarkRevoked(p) ==
    /\ at[p].pc = "markRotated"
    /\ \/ rotated' = rotated \cup {<<ses(p), at[p].old>>}
       \/ Fallible /\ UNCHANGED rotated
    /\ Goto(p, "set")
    /\ UNCHANGED <<table, known, live, inactive, index, out>>

-----------------------------------------------------------------------------
Confirm(p, ended) ==
    /\ out' = out \cup ended
    /\ Finish(p)

(* Logout: RevokeByID, then RevokeActive.                                  *)
RevokeByID(p) ==
    /\ at[p].pc = "revokeOne"
    /\ revoked' = revoked \cup {ses(p)}
    /\ Goto(p, "del")
    /\ UNCHANGED <<current, minted, known, redis, out>>

RevokeActive(p) ==
    /\ at[p].pc = "del"
    /\ \/ live' = live \ {ses(p)} /\ Goto(p, "rem") /\ UNCHANGED out
       \/ Fallible /\ Confirm(p, {ses(p)}) /\ UNCHANGED live
    /\ UNCHANGED <<table, known, inactive, index, rotated>>

RemoveFromIndex(p) ==
    /\ at[p].pc = "rem"
    /\ \/ index' = index \ {ses(p)}
       \/ Fallible /\ UNCHANGED index
    /\ Confirm(p, {ses(p)})
    /\ UNCHANGED <<table, known, live, inactive, rotated>>

-----------------------------------------------------------------------------
RevokeByUserIDLogged(p) ==    \* mutant
    /\ at[p].pc = "revokeAll"
    /\ Goto(p, "list")
    /\ \/ revoked' = revoked \cup Created
       \/ "db" \in Faults /\ UNCHANGED revoked
    /\ UNCHANGED <<current, minted, known, redis, out>>

(* RevokeByUserID. LogoutAll reports its failure; a changed PIN, a changed *)
(* access code and a reused refresh token only log it and go on.           *)
RevokeByUserID(p) ==
    /\ at[p].pc = "revokeAll"
    /\ \/ revoked' = revoked \cup Created /\ Goto(p, "list")
       \/ "db" \in Faults /\ UNCHANGED revoked
          /\ IF at[p].kind = "logoutAll" THEN Finish(p) ELSE Goto(p, "list")
    /\ UNCHANGED <<current, minted, known, redis, out>>

EndAll(p) ==
    IF at[p].kind = "logoutAll" THEN Confirm(p, at[p].was) ELSE Finish(p) /\ UNCHANGED out

(* RevokeAllActive: the index is read, and what it listed is deleted       *)
(* together with the index.                                                *)
ListIndex(p) ==
    /\ at[p].pc = "list"
    /\ \/ at' = [at EXCEPT ![p].pc = "wipe", ![p].ids = index] /\ UNCHANGED out
       \/ Fallible /\ EndAll(p)
    /\ UNCHANGED <<table, known, redis>>

DeleteListed(p) ==
    /\ at[p].pc = "wipe"
    /\ \/ live' = live \ at[p].ids /\ index' = {}
       \/ Fallible /\ UNCHANGED <<live, index>>
    /\ EndAll(p)
    /\ UNCHANGED <<table, known, inactive, rotated>>

-----------------------------------------------------------------------------
(* A live marker expires when the seven days of its session are over, of   *)
(* which only an ended session sees the end here, or is evicted before.    *)
ExpireLive(s) ==
    /\ s \in live
    /\ s \in revoked \/ "evict" \in Faults
    /\ live' = live \ {s}
    /\ UNCHANGED <<table, known, inactive, index, rotated, at, out>>

ExpireInactive(s) ==
    /\ s \in inactive
    /\ inactive' = inactive \ {s}
    /\ UNCHANGED <<table, known, live, index, rotated, at, out>>

(* Also without eviction the index may go before its members: MarkActive   *)
(* gives it the time to live of the one session it marks.                  *)
ExpireIndex ==
    /\ "evict" \in Faults
    /\ index # {}
    /\ index' = {}
    /\ UNCHANGED <<table, known, live, inactive, rotated, at, out>>

Flush ==
    /\ "flush" \in Faults
    /\ live' = {} /\ inactive' = {} /\ index' = {} /\ rotated' = {}
    /\ UNCHANGED <<table, known, at, out>>

(* The process stops, the request times out, Postgres fails.               *)
Abort(p) ==
    /\ "abort" \in Faults
    /\ at[p].pc # "idle"
    /\ Finish(p)
    /\ UNCHANGED <<table, known, redis, out>>

Step(p) ==
    \/ IsActive(p) \/ IsKnownInactive(p) \/ FindActiveByID(p) \/ MarkInactive(p)
    \/ MarkActive(p) \/ AddToIndex(p) \/ Create(p)
    \/ IsRevoked(p) \/ FindByRefreshTokenHash(p) \/ UpdateRefreshToken(p) \/ MarkRevoked(p)
    \/ RevokeByID(p) \/ RevokeActive(p) \/ RemoveFromIndex(p)
    \/ RevokeByUserID(p) \/ ListIndex(p) \/ DeleteListed(p)

Next ==
    \/ \E p \in Procs : Step(p) \/ Abort(p)
    \/ \E p \in Procs, kind \in Kinds, s \in Sessions, token \in 0 .. MaxTokens :
          Start(p, kind, s, token)
    \/ \E s \in Sessions : ExpireLive(s) \/ ExpireInactive(s)
    \/ ExpireIndex \/ Flush

Spec == Init /\ [][Next]_vars

(* Requests run, and a marker does not outlive its time to live.           *)
FairSpec ==
    /\ Spec
    /\ \A p \in Procs : WF_vars(Step(p))
    /\ \A s \in Sessions : WF_vars(ExpireLive(s))

-----------------------------------------------------------------------------
(* The rows, the markers and the requests have their types.                *)
TypeOK ==
    /\ current \in [Sessions -> Nat]
    /\ minted \in [Sessions -> Nat]
    /\ known \in [Sessions -> SUBSET Nat]
    /\ revoked \subseteq Sessions /\ live \subseteq Sessions
    /\ inactive \subseteq Sessions /\ index \subseteq Sessions
    /\ rotated \subseteq Sessions \X Nat
    /\ at \in [Procs -> Requests]
    /\ out \subseteq Sessions

(* Only a session that was ended is refused, by the row or by a marker     *)
(* that stands for it: what Redis loses or fails to do logs nobody out     *)
(* (session_service.go:272-276).                                           *)
Refusing(p) == at[p].pc = "markInactive" \/ (at[p].pc = "isKnown" /\ ses(p) \in inactive)
RefusedIsRevoked == \A p \in Procs : Refusing(p) => ses(p) \in revoked

(* When Logout or LogoutAll answers OK, every session it was asked to end  *)
(* is ended in Postgres, whatever fails or runs meanwhile.                 *)
ConfirmedEnds == out \subseteq revoked

(* A session whose end was confirmed gets no new tokens, not even by a     *)
(* refresh that had read its row before.                                   *)
EndedNotRefreshed == [][\A s \in out : current'[s] = current[s]]_vars

(* The rows promise what Logins does, whatever becomes of Redis, of the    *)
(* requests and of the order they run in: a session is renewed only while  *)
(* it is not ended and only for one who was given a token of it, no token  *)
(* is sent to two requests, and what is confirmed has ended.               *)
Abstract == INSTANCE Logins WITH
    tokens <- minted, given <- known, ended <- revoked, confirmed <- out

RefinesLogins == Abstract!Spec

(* The marker of an ended session may be written once more by a request    *)
(* that read the row before, but not for ever: there is a time after which *)
(* it is never there, and every request is refused.                        *)
RevokedIsForgotten == \A s \in Sessions : s \in revoked ~> [](s \notin live)

(* What docs/01-API-SPECIFICATION.md:2832 says of a session that was       *)
(* logged out: its access token is not valid any more. Its marker is gone. *)
LoggedOutIsOut == out \cap live = {}
=============================================================================
