------------------------------ MODULE Payment -------------------------------
(***************************************************************************)
(* The payment requests: ExecuteTransfer, ExecuteTopUp and Pay around the  *)
(* executors that Ledger models. A request claims its idempotency key in   *)
(* Redis, consumes a verification token and an inquiry (a decoded QR for   *)
(* QRIS), has the executor post, and then either records what was spent    *)
(* and stores the response under the key, or releases the key and puts     *)
(* back what it consumed. The posting itself is one atomic step here, as   *)
(* Ledger is shown to implement it.                                        *)
(*                                                                         *)
(* Redis keeps three families of keys: idem:{user}:{key} with a claim of   *)
(* 30 s or a response of 24 h, vtoken:{hash} of 120 s, inquiry:{id} of     *)
(* 5 minutes. Cache invalidation, notification and favorites follow a      *)
(* posting without any effect on what is modelled here.                    *)
(***************************************************************************)
EXTENDS Integers, FiniteSets

CONSTANTS Workers,      \* requests in flight at the same time
          Tokens, Inquiries,
          Orders,       \* what the clients may send, again and again
          TokenFor,     \* [Tokens -> user and purpose the token was issued for]
          InquiryOf,    \* [Inquiries -> user]
          MaxSends,     \* bound: requests in a behaviour
          Faults        \* a subset of AllFaults

AllFaults == {"crash", "io", "late", "lostCommit", "ttl"}
Items == Tokens \cup Inquiries
IdemKeys == {<<o.user, o.key>> : o \in Orders}

ASSUME PaymentAssumption ==
    /\ Tokens \cap Inquiries = {}
    /\ Orders # {}
    /\ \A o \in Orders : o.token \in Tokens /\ o.inq \in Inquiries
    /\ Faults \subseteq AllFaults

VARIABLES
    idem,       \* per (user, key): free, claimed or holding a response
    cache,      \* Redis: per token and inquiry
    due,        \* items whose validity, as issued, is over
    gone,       \* history: items that were lost without being spent
    txns,       \* the transactions posted, with the items they spent
    marked,     \* used_at set in Postgres
    pc, job,
    took,       \* restoreVToken and restoreInquiry
    result,     \* the transaction the executor returned, or 0
    reply,      \* what the client is answered
    late,       \* the 30 s of the request, and so of its claim, have passed
    sends

vars == <<idem, cache, due, gone, txns, marked, pc, job, took, result, reply, late, sends>>
redis == <<idem, cache, due, gone>>
postgres == <<txns, marked>>
request == <<job, late, sends>>

Free == [is |-> "free", id |-> 0]
Stored(id) == [is |-> "stored", id |-> id]
ClaimedBy(w) == [is |-> "claimed", id |-> w]
Orphan == [is |-> "claimed", id |-> 0]
NoOrder == CHOOSE o \in Orders : TRUE    \* what an idle worker has; never read

NoReply == [code |-> "NONE", txn |-> 0]
Ok(id) == [code |-> "OK", txn |-> id]
Error(code) == [code |-> code, txn |-> 0]

(* A Redis key that is "again" was put back by a failed request, with a    *)
(* time to live that starts anew.                                          *)
Usable(x) == cache[x] \in {"live", "again"}

K(w) == <<job[w].user, job[w].key>>
SameKey(w) == {t \in txns : <<t.user, t.key>> = K(w)}

RequestBound == {"claim", "token", "inquiry", "qrisDel", "validate", "execute"}
Detached == {"mark", "persist", "release", "restoreInquiry", "restoreToken"}
InFlight(w) == pc[w] \notin {"idle", "done"}

Init ==
    /\ idem = [k \in IdemKeys |-> Free]
    /\ cache = [x \in Items |-> "new"]
    /\ due = {}
    /\ gone = {}
    /\ txns = {}
    /\ marked = {}
    /\ pc = [w \in Workers |-> "idle"]
    /\ job = [w \in Workers |-> NoOrder]
    /\ took = [w \in Workers |-> {}]
    /\ result = [w \in Workers |-> 0]
    /\ reply = [w \in Workers |-> NoReply]
    /\ late = [w \in Workers |-> FALSE]
    /\ sends = 0

Goto(w, p) == pc' = [pc EXCEPT ![w] = p]
Answer(w, ans) == reply' = [reply EXCEPT ![w] = ans]

(* An error before anything was posted: the deferred undo runs.            *)
Fail(w, code) == Goto(w, "release") /\ Answer(w, Error(code))

-----------------------------------------------------------------------------
(* CreateVerificationToken, CreateInquiry and Decode. A failed write to    *)
(* Redis is only logged: what was issued cannot be used.                   *)
Issue(x) ==
    /\ cache[x] = "new"
    /\ \/ cache' = [cache EXCEPT ![x] = "live"] /\ UNCHANGED gone
       \/ /\ "io" \in Faults
          /\ cache' = [cache EXCEPT ![x] = "absent"]
          /\ gone' = gone \cup {x}
    /\ UNCHANGED <<idem, due, postgres, pc, took, result, reply, request>>

Send(w) ==
    /\ pc[w] = "idle"
    /\ sends < MaxSends
    /\ \E o \in Orders :
         /\ cache[o.token] # "new" /\ cache[o.inq] # "new"
         /\ job' = [job EXCEPT ![w] = o]
    /\ sends' = sends + 1
    /\ Goto(w, "claim")
    /\ UNCHANGED <<redis, postgres, took, result, reply, late>>

(* SETNX idem:{user}:{key} PROCESSING.                                     *)
Claim(w) ==
    /\ pc[w] = "claim"
    /\ idem[K(w)] = Free
    /\ \/ /\ idem' = [idem EXCEPT ![K(w)] = ClaimedBy(w)]
          /\ Goto(w, "token")
          /\ UNCHANGED reply
       \/ /\ "io" \in Faults    \* set, but the reply is lost: nobody releases it
          /\ idem' = [idem EXCEPT ![K(w)] = Orphan]
          /\ Goto(w, "done")
          /\ Answer(w, Error("ERROR"))
    /\ UNCHANGED <<cache, due, gone, postgres, took, result, request>>

ClaimTaken(w) ==
    /\ pc[w] = "claim"
    /\ idem[K(w)] # Free
    /\ Goto(w, "peek")
    /\ UNCHANGED <<redis, postgres, took, result, reply, request>>

(* The GET after the failed SETNX; the key may have changed meanwhile.     *)
Peek(w) ==
    /\ pc[w] = "peek"
    /\ \/ /\ idem[K(w)].is = "stored"
          /\ Answer(w, Ok(idem[K(w)].id))
       \/ /\ idem[K(w)].is # "stored"
          /\ Answer(w, Error("CONFLICT"))
    /\ Goto(w, "done")
    /\ UNCHANGED <<redis, postgres, took, result, request>>

(* A write that fails is logged, or ignored, and passed over: Redis down,  *)
(* or the 5 s of PostCommitContext spent.                                  *)
Skipped == "io" \in Faults

ConsumeKeeps(w, x, mine, next, code) ==     \* mutant: GET without DEL
    /\ IF Usable(x) /\ mine
       THEN Goto(w, next) /\ took' = [took EXCEPT ![w] = @ \cup {x}] /\ UNCHANGED reply
       ELSE Fail(w, code) /\ UNCHANGED took
    /\ UNCHANGED <<cache, gone>>

(* GETDEL: what was there is this request's now, or is lost with the reply.*)
Consume(w, x, mine, next, code) ==
    \/ /\ ~Usable(x)
       /\ Fail(w, code)
       /\ UNCHANGED <<cache, gone, took>>
    \/ /\ Usable(x)
       /\ cache' = [cache EXCEPT ![x] = "absent"]
       /\ \/ /\ mine
             /\ took' = [took EXCEPT ![w] = @ \cup {x}]
             /\ Goto(w, next)
             /\ UNCHANGED <<reply, gone>>
          \/ /\ ~mine           \* of another user or purpose: consumed all the same
             /\ gone' = gone \cup {x}
             /\ Fail(w, code)
             /\ UNCHANGED took
          \/ /\ "io" \in Faults
             /\ gone' = gone \cup {x}
             /\ Fail(w, "ERROR")
             /\ UNCHANGED took

ConsumeToken(w) ==
    /\ pc[w] = "token"
    /\ Consume(w, job[w].token, TokenFor[job[w].token] = <<job[w].user, job[w].rail>>,
               "inquiry", "TOKEN_INVALID")
    /\ UNCHANGED <<idem, due, postgres, result, request>>

ConsumeInquiry(w) ==
    /\ pc[w] = "inquiry"
    /\ job[w].rail # "QRIS"
    /\ Consume(w, job[w].inq, InquiryOf[job[w].inq] = job[w].user,
               "validate", "INQUIRY_EXPIRED")
    /\ UNCHANGED <<idem, due, postgres, result, request>>

(* ConsumeDecoded is a GET and then a DEL whose failure is not looked at.  *)
GetDecoded(w) ==
    /\ pc[w] = "inquiry"
    /\ job[w].rail = "QRIS"
    /\ IF Usable(job[w].inq)
       THEN Goto(w, "qrisDel") /\ UNCHANGED reply
       ELSE Fail(w, "INQUIRY_EXPIRED")
    /\ UNCHANGED <<redis, postgres, took, result, request>>

DelDecoded(w) ==
    /\ pc[w] = "qrisDel"
    /\ \/ cache' = [cache EXCEPT ![job[w].inq] = "absent"]
       \/ Skipped /\ UNCHANGED cache
    /\ took' = [took EXCEPT ![w] = @ \cup {job[w].inq}]
    /\ Goto(w, "validate")
    /\ UNCHANGED <<idem, due, gone, postgres, result, reply, request>>

(* Amount, cross-check and ownership of the source account. A top-up takes *)
(* its source account from the inquiry's metadata, which the cached        *)
(* inquiry does not carry.                                                 *)
Validate(w) ==
    /\ pc[w] = "validate"
    /\ \/ /\ job[w].rail = "EWALLET"
          /\ Fail(w, "VALIDATION")
       \/ /\ job[w].rail # "EWALLET"
          /\ \/ Goto(w, "execute") /\ UNCHANGED reply
             \/ Fail(w, "REFUSED")
    /\ UNCHANGED <<redis, postgres, took, result, request>>

-----------------------------------------------------------------------------
PostAgain(w) ==         \* mutant: no unique index on (user_id, idempotency_key)
    txns' = txns \cup {[id |-> Cardinality(txns) + 1, user |-> job[w].user,
                        key |-> job[w].key, token |-> job[w].token, inq |-> job[w].inq]}

PostNothing(w) ==       \* mutant: no COMMIT
    SameKey(w) = {} /\ UNCHANGED txns

Post(w) ==
    /\ SameKey(w) = {}
    /\ txns' = txns \cup {[id |-> Cardinality(txns) + 1, user |-> job[w].user,
                           key |-> job[w].key, token |-> job[w].token, inq |-> job[w].inq]}

AfterPosting(w) == Goto(w, IF job[w].rail = "TRANSFER" THEN "mark" ELSE "persist")

(* The executor posts; or finds the transaction of the key; or refuses,    *)
(* also when the key has a transaction, for funds and limits are checked   *)
(* first; or posts and cannot tell.                                        *)
ExecutePosts(w) ==
    /\ pc[w] = "execute"
    /\ Post(w)
    /\ result' = [result EXCEPT ![w] = Cardinality(txns) + 1]
    /\ AfterPosting(w)
    /\ UNCHANGED <<redis, marked, took, reply, request>>

ExecuteFinds(w) ==
    /\ pc[w] = "execute"
    /\ \E t \in SameKey(w) : result' = [result EXCEPT ![w] = t.id]
    /\ gone' = gone \cup took[w]
    /\ AfterPosting(w)
    /\ UNCHANGED <<idem, cache, due, postgres, took, reply, request>>

ExecuteRefuses(w) ==
    /\ pc[w] = "execute"
    /\ Fail(w, "REFUSED")
    /\ UNCHANGED <<redis, postgres, took, result, request>>

ExecuteUnknown(w) ==
    /\ "lostCommit" \in Faults
    /\ pc[w] = "execute"
    /\ Post(w)
    /\ Fail(w, "ERROR")
    /\ UNCHANGED <<redis, marked, took, result, request>>

MarkUsed(w) ==
    /\ pc[w] = "mark"
    /\ \/ marked' = marked \cup {job[w].token, job[w].inq}
       \/ Skipped /\ marked' \in {marked, marked \cup {job[w].token}, marked \cup {job[w].inq}}
    /\ Goto(w, "persist")
    /\ UNCHANGED <<redis, txns, took, result, reply, request>>

PersistOrUndo(w) ==     \* mutant: a response that cannot be stored undoes the request
    /\ pc[w] = "persist"
    /\ \/ /\ idem' = [idem EXCEPT ![K(w)] = Stored(result[w])]
          /\ Goto(w, "done")
          /\ Answer(w, Ok(result[w]))
       \/ /\ Skipped
          /\ Fail(w, "ERROR")
          /\ UNCHANGED idem
    /\ UNCHANGED <<cache, due, gone, postgres, took, result, request>>

Persist(w) ==
    /\ pc[w] = "persist"
    /\ \/ idem' = [idem EXCEPT ![K(w)] = Stored(result[w])]
       \/ Skipped /\ UNCHANGED idem
    /\ Goto(w, "done")
    /\ Answer(w, Ok(result[w]))
    /\ UNCHANGED <<cache, due, gone, postgres, took, result, request>>

-----------------------------------------------------------------------------
(* The deferred undo. DEL removes whatever the key holds by now.           *)
Release(w) ==
    /\ pc[w] = "release"
    /\ \/ idem' = [idem EXCEPT ![K(w)] = Free]
       \/ Skipped /\ UNCHANGED idem
    /\ Goto(w, "restoreInquiry")
    /\ UNCHANGED <<cache, due, gone, postgres, took, result, reply, request>>

PutBackOnRequest(w, x) ==   \* mutant: on the context of the request
    /\ took' = [took EXCEPT ![w] = @ \ {x}]
    /\ IF late[w]
       THEN gone' = gone \cup {x} /\ UNCHANGED cache
       ELSE cache' = [cache EXCEPT ![x] = "again"] /\ UNCHANGED gone

PutBack(w, x) ==
    /\ took' = [took EXCEPT ![w] = @ \ {x}]
    /\ \/ /\ cache' = [cache EXCEPT ![x] = "again"]
          /\ UNCHANGED gone
       \/ /\ Skipped
          /\ gone' = gone \cup {x}
          /\ UNCHANGED cache

(* An inquiry is put back only before its ExpiresAt; a decoded QR always.  *)
RestoreInquiry(w) ==
    /\ pc[w] = "restoreInquiry"
    /\ LET i == job[w].inq IN
       \/ /\ i \notin took[w]
          /\ UNCHANGED <<took, cache, gone>>
       \/ /\ i \in took[w]
          /\ i \notin due \/ job[w].rail = "QRIS"
          /\ PutBack(w, i)
       \/ /\ i \in took[w]
          /\ i \in due /\ job[w].rail # "QRIS"
          /\ took' = [took EXCEPT ![w] = @ \ {i}]
          /\ gone' = gone \cup {i}
          /\ UNCHANGED cache
    /\ Goto(w, "restoreToken")
    /\ UNCHANGED <<idem, due, postgres, result, reply, request>>

RestoreTokenAlways(w) ==    \* mutant: also a token that was not consumed
    /\ pc[w] = "restoreToken"
    /\ PutBack(w, job[w].token)
    /\ Goto(w, "done")
    /\ UNCHANGED <<idem, due, postgres, result, reply, request>>

RestoreToken(w) ==
    /\ pc[w] = "restoreToken"
    /\ LET t == job[w].token IN
       \/ t \in took[w] /\ PutBack(w, t)
       \/ t \notin took[w] /\ UNCHANGED <<took, cache, gone>>
    /\ Goto(w, "done")
    /\ UNCHANGED <<idem, due, postgres, result, reply, request>>

Leave(w) ==
    /\ pc[w] = "done"
    /\ Goto(w, "idle")
    /\ took' = [took EXCEPT ![w] = {}]
    /\ result' = [result EXCEPT ![w] = 0]
    /\ Answer(w, NoReply)
    /\ late' = [late EXCEPT ![w] = FALSE]
    /\ job' = [job EXCEPT ![w] = NoOrder]
    /\ UNCHANGED <<redis, postgres, sends>>

-----------------------------------------------------------------------------
(* The request timeout cancels whatever runs on the request's context; the *)
(* detached work goes on. A DEL that is cut short leaves a decoded QR to   *)
(* both; a reply lost to the timeout is a fault "io".                      *)
Timeout(w) ==
    /\ "late" \in Faults
    /\ ~late[w]
    /\ late' = [late EXCEPT ![w] = TRUE]
    /\ \/ /\ pc[w] \in {"claim", "peek"}
          /\ Goto(w, "done")
          /\ Answer(w, Error("ERROR"))
       \/ /\ pc[w] \in RequestBound \ {"claim"}
          /\ Fail(w, "ERROR")
       \/ /\ pc[w] \in Detached
          /\ UNCHANGED <<pc, reply>>
    /\ took' = [took EXCEPT ![w] = IF pc[w] = "qrisDel" THEN @ \cup {job[w].inq} ELSE @]
    /\ UNCHANGED <<redis, postgres, job, result, sends>>

(* The process dies: no deferred function runs.                            *)
Crash ==
    /\ "crash" \in Faults
    /\ \E w \in Workers : InFlight(w)
    /\ gone' = gone \cup UNION {took[w] : w \in {v \in Workers : result[v] = 0}}
    /\ idem' = [k \in IdemKeys |-> IF idem[k].is = "claimed" THEN Orphan ELSE idem[k]]
    /\ pc' = [w \in Workers |-> "idle"]
    /\ took' = [w \in Workers |-> {}]
    /\ result' = [w \in Workers |-> 0]
    /\ reply' = [w \in Workers |-> NoReply]
    /\ late' = [w \in Workers |-> FALSE]
    /\ job' = [w \in Workers |-> NoOrder]
    /\ UNCHANGED <<cache, due, postgres, sends>>

(* A claim lives 30 s, and so does the request that made it; what outlives *)
(* the claim is the detached work of a late request.                       *)
Outlived(k) ==
    /\ idem[k].is = "claimed"
    /\ \A w \in Workers : idem[k] = ClaimedBy(w) /\ K(w) = k => ~InFlight(w) \/ late[w]

ExpireClaimHeld(k) ==   \* mutant: SETNX without a time to live
    /\ Outlived(k)
    /\ idem[k] # Orphan
    /\ idem' = [idem EXCEPT ![k] = Free]
    /\ UNCHANGED <<cache, due, gone, postgres, pc, took, result, reply, request>>

ExpireClaim(k) ==
    /\ Outlived(k)
    /\ idem' = [idem EXCEPT ![k] = Free]
    /\ UNCHANGED <<cache, due, gone, postgres, pc, took, result, reply, request>>

ExpireResponse(k) ==
    /\ "ttl" \in Faults
    /\ idem[k].is = "stored"
    /\ idem' = [idem EXCEPT ![k] = Free]
    /\ UNCHANGED <<cache, due, gone, postgres, pc, took, result, reply, request>>

(* The validity of a token or an inquiry ends, and with it the Redis key   *)
(* it was issued with; the key of an item that was put back ends later.    *)
BecomeDue(x) ==
    /\ "ttl" \in Faults
    /\ cache[x] # "new" /\ x \notin due
    /\ due' = due \cup {x}
    /\ IF cache[x] = "live"
       THEN cache' = [cache EXCEPT ![x] = "absent"] /\ gone' = gone \cup {x}
       ELSE UNCHANGED <<cache, gone>>
    /\ UNCHANGED <<idem, postgres, pc, took, result, reply, request>>

ExpireAgain(x) ==
    /\ "ttl" \in Faults
    /\ cache[x] = "again" /\ x \in due
    /\ cache' = [cache EXCEPT ![x] = "absent"]
    /\ gone' = gone \cup {x}
    /\ UNCHANGED <<idem, due, postgres, pc, took, result, reply, request>>

AllAnswered ==
    /\ sends = MaxSends
    /\ \A w \in Workers : pc[w] = "idle"
    /\ UNCHANGED vars

Step(w) ==
    \/ Claim(w) \/ ClaimTaken(w) \/ Peek(w)
    \/ ConsumeToken(w) \/ ConsumeInquiry(w) \/ GetDecoded(w) \/ DelDecoded(w)
    \/ Validate(w)
    \/ ExecutePosts(w) \/ ExecuteFinds(w) \/ ExecuteRefuses(w)
    \/ MarkUsed(w) \/ Persist(w)
    \/ Release(w) \/ RestoreInquiry(w) \/ RestoreToken(w)
    \/ Leave(w)

Next ==
    \/ \E w \in Workers : Send(w) \/ Step(w) \/ ExecuteUnknown(w) \/ Timeout(w)
    \/ \E x \in Items : Issue(x) \/ BecomeDue(x) \/ ExpireAgain(x)
    \/ \E k \in IdemKeys : ExpireClaim(k) \/ ExpireResponse(k)
    \/ Crash
    \/ AllAnswered

Spec == Init /\ [][Next]_vars

(* A request runs to its end and Redis drops a claim in its time.          *)
FairSpec ==
    /\ Spec
    /\ \A w \in Workers : WF_vars(Step(w))
    /\ \A k \in IdemKeys : WF_vars(ExpireClaim(k))

-----------------------------------------------------------------------------
TypeOK ==
    /\ idem \in [IdemKeys -> [is : {"free", "claimed", "stored"}, id : Nat \cup Workers]]
    /\ cache \in [Items -> {"new", "live", "again", "absent"}]
    /\ due \subseteq Items /\ gone \subseteq Items /\ marked \subseteq Items
    /\ pc \in [Workers -> RequestBound \cup Detached \cup {"idle", "peek", "done"}]
    /\ job \in [Workers -> Orders]
    /\ took \in [Workers -> SUBSET Items]
    /\ result \in [Workers -> 0 .. Cardinality(txns)]
    /\ late \in [Workers -> BOOLEAN]

Spent(x) == \E t \in txns : x \in {t.token, t.inq}
Holders(x) == {w \in Workers : x \in took[w] /\ result[w] = 0}

(* A token or inquiry that was issued is in exactly one place: usable in   *)
(* Redis, in the hands of one request, spent by a transaction, or lost     *)
(* (expired, or a fault lost it). It is never put back after it was spent, *)
(* nor spent while another request may still use it.                       *)
Conserved ==
    \A x \in Items : cache[x] # "new" =>
        Cardinality(Holders(x)) + Cardinality({p \in {"usable", "spent", "gone"} :
            \/ p = "usable" /\ Usable(x)
            \/ p = "spent" /\ Spent(x)
            \/ p = "gone" /\ x \in gone}) = 1

(* One PIN entry and one inquiry pay for one transaction, whatever keys    *)
(* the client sends them under.                                            *)
OneTxnPerInquiry ==
    \A s, t \in txns : s.inq = t.inq \/ s.token = t.token => s = t

(* Every answer OK, computed or replayed, names the one transaction of the *)
(* key; so a key is never answered with two transactions.                  *)
AnswersAgree ==
    /\ \A w \in Workers : reply[w].code = "OK" => {t.id : t \in SameKey(w)} = {reply[w].txn}
    /\ \A k \in IdemKeys : idem[k].is = "stored" =>
          \E t \in txns : <<t.user, t.key>> = k /\ t.id = idem[k].id

(* Only time takes a token or an inquiry from a user whose orders are      *)
(* refused: docs/01, lines 1255-1258. Whatever else fails on the way, late *)
(* requests included, what was consumed comes back.                        *)
NothingLost == gone \subseteq due

(* No key stays claimed for ever, whatever became of the request that      *)
(* claimed it: crashed, late, or its claim unanswered.                     *)
ClaimsEnd ==
    \A k \in IdemKeys : idem[k].is = "claimed" ~> idem[k].is # "claimed"

(* What Postgres has marked used is not to be used again.                  *)
MarkedIsDead == \A x \in marked : ~Usable(x) /\ Holders(x) = {}

(* service_execute.go, lines 78-79: inquiry and token are put back "when,  *)
(* and only when, no transaction was written".                             *)
RestoredOnlyIfUnwritten == \A x \in Items : Usable(x) => ~Spent(x)
=============================================================================
