--------------------------- MODULE PaymentProofs ----------------------------
(***************************************************************************)
(* Theorems about Payment, for any number of requests at the same time,    *)
(* any orders, tokens and inquiries.                                       *)
(***************************************************************************)
EXTENDS Payment, TLAPS, FiniteSetTheorems

PCs == RequestBound \cup Detached \cup {"idle", "peek", "done"}
Codes == {"NONE", "OK", "ERROR", "CONFLICT", "TOKEN_INVALID", "INQUIRY_EXPIRED", "VALIDATION",
          "REFUSED"}
CacheStates == {"new", "live", "again", "absent"}
KeyStates == [is : {"free", "claimed", "stored"}, id : Nat \cup Workers]

StoreTyped ==
    /\ idem \in [IdemKeys -> KeyStates]
    /\ cache \in [Items -> CacheStates]
    /\ due \subseteq Items /\ gone \subseteq Items /\ marked \subseteq Items
RequestTyped ==
    /\ pc \in [Workers -> PCs] /\ job \in [Workers -> Orders]
    /\ took \in [Workers -> SUBSET Items] /\ result \in [Workers -> Nat]
    /\ reply \in [Workers -> [code : Codes, txn : Nat]]
    /\ late \in [Workers -> BOOLEAN]

(* The transactions are numbered from 1 on, come from orders, and are one  *)
(* for each key.                                                           *)
TxnsSound ==
    /\ IsFiniteSet(txns)
    /\ \A t \in txns :
         /\ t.id \in 1 .. Cardinality(txns)
         /\ \E o \in Orders : /\ t.user = o.user /\ t.key = o.key
                              /\ t.token = o.token /\ t.inq = o.inq
    /\ \A s, t \in txns : s.user = t.user /\ s.key = t.key => s = t

(* A response stored under a key names the transaction of the key.         *)
StoredSound ==
    \A k \in IdemKeys : idem[k].is = "stored" =>
        \E t \in txns : <<t.user, t.key>> = k /\ t.id = idem[k].id

(* What a request has consumed, where it stands.                           *)
Has(w) ==
    /\ pc[w] \in {"idle", "claim", "peek", "token"} => took[w] = {}
    /\ pc[w] \in {"inquiry", "qrisDel"} => took[w] = {job[w].token}
    /\ pc[w] = "qrisDel" => job[w].rail = "QRIS"
    /\ pc[w] \in {"validate", "execute", "mark", "persist"} =>
         took[w] = {job[w].token, job[w].inq}
    /\ pc[w] \in {"release", "restoreInquiry"} => took[w] \subseteq {job[w].token, job[w].inq}
    /\ pc[w] = "restoreToken" => took[w] \subseteq {job[w].token}
    /\ pc[w] = "done" /\ result[w] = 0 => took[w] = {}

(* What it has been told by the executor, and tells its client.            *)
Names(w, id) == \E t \in SameKey(w) : t.id = id
Told(w) ==
    /\ pc[w] \in {"mark", "persist"} => result[w] # 0
    /\ result[w] # 0 => pc[w] \in {"mark", "persist", "done"} /\ Names(w, result[w])
    /\ reply[w].code = "OK" => pc[w] = "done" /\ Names(w, reply[w].txn)

BInv ==
    /\ StoreTyped /\ RequestTyped /\ TxnsSound /\ StoredSound
    /\ \A w \in Workers : Has(w) /\ Told(w)

(* What one GETDEL consumes: the tokens, and the inquiries that are not a  *)
(* decoded QR.                                                             *)
Once == {x \in Items : \A o \in Orders : o.rail = "QRIS" => x # o.inq}

Holds(w, x) == x \in took[w] /\ result[w] = 0
Held(x) == \E w \in Workers : Holds(w, x)
Over(x) == Spent(x) \/ x \in gone

(* An item is in one place: not issued, usable, with one request, spent by *)
(* a transaction, or gone.                                                 *)
Placed(x) ==
    /\ \A v, w \in Workers : Holds(v, x) /\ Holds(w, x) => v = w
    /\ cache[x] # "absent" => ~Held(x) /\ ~Over(x)
    /\ Held(x) => ~Over(x)
    /\ Spent(x) => x \notin gone
    /\ cache[x] = "absent" => Held(x) \/ Over(x)
AllPlaced == \A x \in Once : Placed(x)

TxnsApart ==
    \A s, t \in txns : s.token = t.token \/ (s.inq = t.inq /\ s.inq \in Once) => s = t

(* Only what is over is marked used.                                       *)
MarksOver ==
    /\ \A x \in marked : Over(x)
    /\ \A w \in Workers : pc[w] = "mark" => Over(job[w].token) /\ Over(job[w].inq)

Good == AllPlaced /\ TxnsApart /\ MarksOver
PInv == BInv /\ Good

-----------------------------------------------------------------------------
LEMMA OrderTyped ==
    ASSUME RequestTyped, NEW w \in Workers
    PROVE  /\ job[w] \in Orders /\ job[w].token \in Tokens /\ job[w].inq \in Inquiries
           /\ job[w].token \in Items /\ job[w].inq \in Items /\ job[w].token # job[w].inq
           /\ K(w) \in IdemKeys
<1>1. job[w] \in Orders
  BY DEF RequestTyped
<1> QED BY <1>1, PaymentAssumption DEF K, IdemKeys, Items

LEMMA NoOrderIsOne == NoOrder \in Orders
BY PaymentAssumption DEF NoOrder

LEMMA InitBase == Init => BInv
<1> SUFFICES ASSUME Init PROVE BInv
  OBVIOUS
<1>1. StoreTyped
  BY DEF Init, StoreTyped, KeyStates, CacheStates, Free
<1>2. RequestTyped
  BY NoOrderIsOne DEF Init, RequestTyped, PCs, NoReply, Codes
<1>3. TxnsSound /\ StoredSound
  BY FS_EmptySet DEF Init, TxnsSound, StoredSound, Free
<1>4. \A w \in Workers : Has(w) /\ Told(w)
  BY DEF Init, Has, Told, NoReply
<1> QED BY <1>1, <1>2, <1>3, <1>4 DEF BInv

-----------------------------------------------------------------------------
(* How the steps of a request change it.                                   *)

LEMMA Goes ==
    ASSUME RequestTyped, NEW w \in Workers, NEW p \in PCs, Goto(w, p)
    PROVE  /\ pc' \in [Workers -> PCs] /\ pc'[w] = p
           /\ \A v \in Workers : v # w => pc'[v] = pc[v]
BY DEF RequestTyped, Goto

LEMMA Answers ==
    ASSUME RequestTyped, NEW w \in Workers, NEW code \in Codes, NEW id \in Nat,
           Answer(w, [code |-> code, txn |-> id])
    PROVE  /\ reply' \in [Workers -> [code : Codes, txn : Nat]]
           /\ reply'[w].code = code /\ reply'[w].txn = id
           /\ \A v \in Workers : v # w => reply'[v] = reply[v]
BY DEF RequestTyped, Answer

LEMMA Fails ==
    ASSUME RequestTyped, NEW w \in Workers, NEW code \in Codes, Fail(w, code)
    PROVE  /\ pc' \in [Workers -> PCs] /\ pc'[w] = "release"
           /\ reply' \in [Workers -> [code : Codes, txn : Nat]] /\ reply'[w].code = code
           /\ \A v \in Workers : v # w => pc'[v] = pc[v] /\ reply'[v] = reply[v]
<1>1. Goto(w, "release") /\ Answer(w, [code |-> code, txn |-> 0])
  BY DEF Fail, Error
<1>2. "release" \in PCs
  BY DEF PCs, Detached
<1> QED BY <1>1, <1>2, Goes, Answers

(* What a step of w leaves to the others.                                  *)
Others(w) ==
    \A v \in Workers : v # w =>
        /\ pc'[v] = pc[v] /\ job'[v] = job[v] /\ took'[v] = took[v]
        /\ result'[v] = result[v] /\ reply'[v] = reply[v]

LEMMA OthersKnow ==
    ASSUME BInv, NEW w \in Workers, Others(w), txns \subseteq txns',
           NEW v \in Workers, v # w
    PROVE  Has(v)' /\ Told(v)'
<1>1. Has(v) /\ Told(v)
  BY DEF BInv
<1>2. /\ pc'[v] = pc[v] /\ job'[v] = job[v] /\ took'[v] = took[v]
      /\ result'[v] = result[v] /\ reply'[v] = reply[v]
  BY DEF Others
<1>3. \A id : Names(v, id) => Names(v, id)'
  BY <1>2 DEF Names, SameKey, K
<1>4. Names(v, result[v]) => Names(v, result[v])'
  BY <1>2, <1>3 DEF Names, SameKey, K
<1>5. Names(v, reply[v].txn) => Names(v, reply[v].txn)'
  BY <1>2, <1>3 DEF Names, SameKey, K
<1>6. Has(v)'
  BY <1>1, <1>2 DEF Has
<1> HIDE DEF Names
<1>7. Told(v)'
  BY <1>1, <1>2, <1>4, <1>5 DEF Told
<1> QED BY <1>6, <1>7

LEMMA KeptBy ==
    ASSUME BInv, NEW w \in Workers, Others(w), txns \subseteq txns',
           RequestTyped', StoreTyped', TxnsSound', StoredSound', Has(w)', Told(w)'
    PROVE  BInv'
BY OthersKnow DEF BInv

LEMMA NothingPosted ==
    ASSUME BInv, UNCHANGED txns
    PROVE  TxnsSound' /\ txns \subseteq txns'
BY DEF BInv, TxnsSound

LEMMA StoredStays ==
    ASSUME BInv, UNCHANGED txns, idem' \in [IdemKeys -> KeyStates],
           \A k \in IdemKeys : idem'[k] = idem[k] \/ idem'[k].is # "stored"
    PROVE  StoredSound'
BY DEF BInv, StoredSound

(* A request that has posted nothing yet.                                  *)
Unposted == PCs \ {"mark", "persist", "done"}

LEMMA UnpostedKnows ==
    ASSUME BInv, NEW w \in Workers, pc[w] \in Unposted
    PROVE  result[w] = 0 /\ reply[w].code # "OK" /\ Has(w) /\ RequestTyped
BY DEF BInv, Told, Unposted

(* It goes on, and posts nothing.                                          *)
LEMMA GoesOn ==
    ASSUME BInv, NEW w \in Workers, pc[w] \in Unposted, NEW p \in Unposted, Goto(w, p),
           took' \in [Workers -> SUBSET Items],
           \A v \in Workers : v # w => took'[v] = took[v],
           UNCHANGED <<txns, job, result, reply, late>>,
           Has(w)', StoreTyped', StoredSound'
    PROVE  BInv'
<1>1. RequestTyped /\ result[w] = 0 /\ reply[w].code # "OK"
  BY UnpostedKnows
<1>2. /\ pc' \in [Workers -> PCs] /\ pc'[w] = p
      /\ \A v \in Workers : v # w => pc'[v] = pc[v]
  BY <1>1, Goes DEF Unposted
<1>3. RequestTyped' /\ Others(w)
  BY <1>1, <1>2 DEF RequestTyped, Others
<1>4. Told(w)'
  BY <1>1, <1>2 DEF Told, Unposted
<1> QED BY <1>3, <1>4, NothingPosted, KeptBy

(* It fails, with what it has consumed in hand.                            *)
LEMMA FailsWith ==
    ASSUME BInv, NEW w \in Workers, pc[w] \in Unposted,
           NEW code \in Codes \ {"OK"}, Fail(w, code),
           took' \in [Workers -> SUBSET Items], took'[w] \subseteq {job[w].token, job[w].inq},
           \A v \in Workers : v # w => took'[v] = took[v],
           UNCHANGED <<job, result>>, late' \in [Workers -> BOOLEAN],
           txns \subseteq txns', TxnsSound', StoreTyped', StoredSound'
    PROVE  BInv'
<1>1. RequestTyped /\ result[w] = 0
  BY UnpostedKnows
<1>2. /\ pc' \in [Workers -> PCs] /\ pc'[w] = "release"
      /\ reply' \in [Workers -> [code : Codes, txn : Nat]] /\ reply'[w].code # "OK"
      /\ \A v \in Workers : v # w => pc'[v] = pc[v] /\ reply'[v] = reply[v]
  BY <1>1, Fails
<1>3. RequestTyped' /\ Others(w)
  BY <1>1, <1>2 DEF RequestTyped, Others
<1>4. Has(w)' /\ Told(w)'
  BY <1>1, <1>2 DEF Has, Told
<1> QED BY <1>3, <1>4, KeptBy

(* It is answered before it has consumed anything.                         *)
LEMMA Ends ==
    ASSUME BInv, NEW w \in Workers, pc[w] \in {"claim", "peek"}, Goto(w, "done"),
           NEW code \in Codes, NEW id \in Nat, Answer(w, [code |-> code, txn |-> id]),
           code = "OK" => Names(w, id),
           UNCHANGED <<txns, took, job, result>>, late' \in [Workers -> BOOLEAN],
           StoreTyped', StoredSound'
    PROVE  BInv'
<1>1. RequestTyped /\ result[w] = 0 /\ took[w] = {}
  BY UnpostedKnows DEF Unposted, PCs, RequestBound, Has
<1>2. /\ pc' \in [Workers -> PCs] /\ pc'[w] = "done"
      /\ \A v \in Workers : v # w => pc'[v] = pc[v]
  BY <1>1, Goes DEF PCs
<1>3. /\ reply' \in [Workers -> [code : Codes, txn : Nat]]
      /\ reply'[w].code = code /\ reply'[w].txn = id
      /\ \A v \in Workers : v # w => reply'[v] = reply[v]
  BY <1>1, Answers
<1>4. RequestTyped' /\ Others(w)
  BY <1>1, <1>2, <1>3 DEF RequestTyped, Others
<1>5. Has(w)'
  BY <1>1, <1>2 DEF Has
<1>6. Told(w)'
  <2>1. code = "OK" => Names(w, reply[w].txn)'
    BY <1>3 DEF Names, SameKey, K
  <2> QED BY <1>1, <1>2, <1>3, <2>1 DEF Told
<1> QED BY <1>4, <1>5, <1>6, NothingPosted, KeptBy

(* A step of Redis, that no request takes part in.                         *)
LEMMA RedisMoves ==
    ASSUME BInv, UNCHANGED <<txns, pc, job, took, result, reply, late>>,
           StoreTyped', StoredSound'
    PROVE  BInv'
<1>1. \A w \in Workers : Has(w)' /\ Told(w)'
  BY DEF BInv, Has, Told, Names, SameKey, K
<1>2. RequestTyped'
  BY DEF BInv, RequestTyped
<1> QED BY <1>1, <1>2, NothingPosted DEF BInv

-----------------------------------------------------------------------------
(* The claim of the key.                                                   *)

LEMMA IdemWrites ==
    ASSUME BInv, NEW k \in IdemKeys, NEW r \in KeyStates, idem' = [idem EXCEPT ![k] = r],
           UNCHANGED <<cache, due, gone, marked>>
    PROVE  /\ StoreTyped' /\ idem' \in [IdemKeys -> KeyStates] /\ idem'[k] = r
           /\ \A j \in IdemKeys : j # k => idem'[j] = idem[j]
BY DEF BInv, StoreTyped

LEMMA StatesTyped ==
    /\ Free \in KeyStates /\ Orphan \in KeyStates
    /\ \A w \in Workers : ClaimedBy(w) \in KeyStates
    /\ \A n \in Nat : Stored(n) \in KeyStates
BY DEF Free, Orphan, ClaimedBy, Stored, KeyStates

LEMMA StoreSame ==
    ASSUME BInv, UNCHANGED <<idem, cache, due, gone, marked>>
    PROVE  StoreTyped'
BY DEF BInv, StoreTyped

LEMMA StoredSame ==
    ASSUME BInv, UNCHANGED <<idem, txns>>
    PROVE  StoredSound'
BY DEF BInv, StoredSound

LEMMA TookSame ==
    ASSUME BInv, UNCHANGED took
    PROVE  took' \in [Workers -> SUBSET Items] /\ \A v \in Workers : took'[v] = took[v]
BY DEF BInv, RequestTyped

LEMMA ClaimKeeps ==
    ASSUME BInv, NEW w \in Workers, Claim(w) PROVE BInv'
<1>1. /\ pc[w] = "claim" /\ pc[w] \in Unposted /\ "token" \in Unposted /\ K(w) \in IdemKeys
      /\ UNCHANGED <<cache, due, gone, marked, txns, took, result, job, late>>
      /\ RequestTyped /\ Has(w)
  BY OrderTyped DEF Claim, Unposted, PCs, RequestBound, BInv, postgres, request
<1>2. CASE idem' = [idem EXCEPT ![K(w)] = ClaimedBy(w)] /\ Goto(w, "token") /\ UNCHANGED reply
  <2>1. StoreTyped' /\ StoredSound'
    <3>1. ClaimedBy(w) \in KeyStates /\ ClaimedBy(w).is = "claimed"
      BY StatesTyped DEF ClaimedBy
    <3> QED BY <1>1, <1>2, <3>1, IdemWrites, StoredStays
  <2>2. Has(w)'
    <3>1. pc'[w] = "token"
      BY <1>1, <1>2, Goes DEF Unposted
    <3> QED BY <1>1, <3>1 DEF Has
  <2> QED BY <1>1, <1>2, <2>1, <2>2, TookSame, GoesOn
<1>3. CASE idem' = [idem EXCEPT ![K(w)] = Orphan] /\ Goto(w, "done") /\ Answer(w, Error("ERROR"))
  <2>1. StoreTyped' /\ StoredSound'
    <3>1. Orphan \in KeyStates /\ Orphan.is = "claimed"
      BY StatesTyped DEF Orphan
    <3> QED BY <1>1, <1>3, <3>1, IdemWrites, StoredStays
  <2>2. Answer(w, [code |-> "ERROR", txn |-> 0]) /\ "ERROR" \in Codes
    BY <1>3 DEF Error, Codes
  <2>3. late' \in [Workers -> BOOLEAN]
    BY <1>1 DEF RequestTyped
  <2> QED BY <1>1, <1>3, <2>1, <2>2, <2>3, Ends
<1> QED BY <1>2, <1>3 DEF Claim

LEMMA ClaimTakenKeeps ==
    ASSUME BInv, NEW w \in Workers, ClaimTaken(w) PROVE BInv'
<1>1. /\ pc[w] = "claim" /\ pc[w] \in Unposted /\ "peek" \in Unposted /\ Goto(w, "peek")
      /\ UNCHANGED <<idem, cache, due, gone, marked, txns, took, result, job, late, reply>>
      /\ RequestTyped /\ Has(w)
  BY DEF ClaimTaken, Unposted, PCs, RequestBound, BInv, redis, postgres, request
<1>2. Has(w)'
  <2>1. pc'[w] = "peek"
    BY <1>1, Goes DEF Unposted
  <2> QED BY <1>1, <2>1 DEF Has
<1> QED BY <1>1, <1>2, StoreSame, StoredSame, TookSame, GoesOn

LEMMA PeekKeeps ==
    ASSUME BInv, NEW w \in Workers, Peek(w) PROVE BInv'
<1>1. /\ pc[w] = "peek" /\ Goto(w, "done") /\ K(w) \in IdemKeys
      /\ UNCHANGED <<idem, cache, due, gone, marked, txns, took, result, job, late>>
      /\ late' \in [Workers -> BOOLEAN]
  BY OrderTyped DEF Peek, BInv, RequestTyped, redis, postgres, request
<1>2. CASE idem[K(w)].is = "stored" /\ Answer(w, Ok(idem[K(w)].id))
  <2>1. PICK t \in txns : <<t.user, t.key>> = K(w) /\ t.id = idem[K(w)].id
    BY <1>1, <1>2 DEF BInv, StoredSound
  <2>2. t.id \in Nat /\ Names(w, t.id)
    BY <2>1, FS_CardinalityType DEF BInv, TxnsSound, Names, SameKey
  <2>3. Answer(w, [code |-> "OK", txn |-> t.id]) /\ "OK" \in Codes
    BY <1>2, <2>1 DEF Ok, Codes
  <2> QED BY <1>1, <2>2, <2>3, StoreSame, StoredSame, Ends
<1>3. CASE Answer(w, Error("CONFLICT"))
  <2>1. Answer(w, [code |-> "CONFLICT", txn |-> 0]) /\ "CONFLICT" \in Codes
    BY <1>3 DEF Error, Codes
  <2> QED BY <1>1, <2>1, StoreSame, StoredSame, Ends
<1> QED BY <1>2, <1>3 DEF Peek

-----------------------------------------------------------------------------
(* What is consumed.                                                       *)

LEMMA CacheWrites ==
    ASSUME BInv, NEW x \in Items, NEW v \in CacheStates, cache' = [cache EXCEPT ![x] = v],
           UNCHANGED <<idem, marked>>, due' \subseteq Items, gone' \subseteq Items
    PROVE  /\ StoreTyped' /\ cache'[x] = v
           /\ \A y \in Items : y # x => cache'[y] = cache[y]
BY DEF BInv, StoreTyped

LEMMA TookWrites ==
    ASSUME BInv, NEW w \in Workers, NEW S \in SUBSET Items, took' = [took EXCEPT ![w] = S]
    PROVE  /\ took' \in [Workers -> SUBSET Items] /\ took'[w] = S
           /\ \A v \in Workers : v # w => took'[v] = took[v]
BY DEF BInv, RequestTyped

(* GETDEL, for a request that knows where it goes.                         *)
LEMMA ConsumeKeepsBase ==
    ASSUME BInv, NEW w \in Workers, pc[w] \in Unposted, NEW x \in {job[w].token, job[w].inq},
           NEW mine, NEW next \in Unposted, NEW code \in Codes \ {"OK"},
           Consume(w, x, mine, next, code), took[w] \subseteq {job[w].token, job[w].inq},
           pc'[w] = next /\ took'[w] = took[w] \cup {x} => Has(w)',
           UNCHANGED <<idem, due, marked, txns, job, result, late>>
    PROVE  BInv'
<1>1. /\ RequestTyped /\ x \in Items /\ took[w] \in SUBSET Items
      /\ gone \subseteq Items /\ due \subseteq Items /\ late' \in [Workers -> BOOLEAN]
  BY OrderTyped DEF BInv, RequestTyped, StoreTyped
<1>2. StoredSound' /\ "absent" \in CacheStates
  BY StoredSame DEF CacheStates
<1>3. TxnsSound' /\ txns \subseteq txns'
  BY NothingPosted
<1>4. CASE Fail(w, code) /\ UNCHANGED <<cache, gone, took>>
  BY <1>1, <1>2, <1>3, <1>4, StoreSame, TookSame, FailsWith
<1>5. ASSUME cache' = [cache EXCEPT ![x] = "absent"], gone' = gone \cup {x},
             UNCHANGED took, NEW code2 \in Codes \ {"OK"}, Fail(w, code2)
      PROVE  BInv'
  <2>1. StoreTyped'
    BY <1>1, <1>2, <1>5, CacheWrites
  <2> QED BY <1>1, <1>2, <1>3, <1>5, <2>1, TookSame, FailsWith
<1>6. CASE /\ cache' = [cache EXCEPT ![x] = "absent"] /\ Goto(w, next)
           /\ took' = [took EXCEPT ![w] = took[w] \cup {x}]
           /\ UNCHANGED <<reply, gone>>
  <2>1. StoreTyped'
    BY <1>1, <1>2, <1>6, CacheWrites
  <2>2. /\ took' \in [Workers -> SUBSET Items] /\ took'[w] = took[w] \cup {x}
        /\ \A v \in Workers : v # w => took'[v] = took[v]
    <3>1. took[w] \cup {x} \in SUBSET Items
      BY <1>1
    <3> QED BY <1>6, <3>1, TookWrites
  <2>3. pc'[w] = next
    BY <1>1, <1>6, Goes DEF Unposted
  <2>4. Has(w)'
    BY <2>2, <2>3
  <2> QED BY <1>2, <1>6, <2>1, <2>2, <2>4, GoesOn
<1>7. "ERROR" \in Codes \ {"OK"}
  BY DEF Codes
<1> QED BY <1>4, <1>5, <1>6, <1>7 DEF Consume

LEMMA ConsumeTokenKeeps ==
    ASSUME BInv, NEW w \in Workers, ConsumeToken(w) PROVE BInv'
<1> DEFINE mine == TokenFor[job[w].token] = <<job[w].user, job[w].rail>>
<1>1. /\ pc[w] \in Unposted /\ "inquiry" \in Unposted /\ "TOKEN_INVALID" \in Codes \ {"OK"}
      /\ took[w] = {} /\ Consume(w, job[w].token, mine, "inquiry", "TOKEN_INVALID")
      /\ UNCHANGED <<idem, due, marked, txns, job, result, late>>
  BY DEF ConsumeToken, Unposted, PCs, RequestBound, BInv, Has, Codes, postgres, request
<1> HIDE DEF mine
<1>2. pc'[w] = "inquiry" /\ took'[w] = {job[w].token} => Has(w)'
  BY <1>1 DEF Has
<1> QED BY <1>1, <1>2, ConsumeKeepsBase

LEMMA ConsumeInquiryKeeps ==
    ASSUME BInv, NEW w \in Workers, ConsumeInquiry(w) PROVE BInv'
<1> DEFINE mine == InquiryOf[job[w].inq] = job[w].user
<1>1. /\ pc[w] \in Unposted /\ "validate" \in Unposted /\ "INQUIRY_EXPIRED" \in Codes \ {"OK"}
      /\ took[w] = {job[w].token}
      /\ Consume(w, job[w].inq, mine, "validate", "INQUIRY_EXPIRED")
      /\ UNCHANGED <<idem, due, marked, txns, job, result, late>>
  BY DEF ConsumeInquiry, Unposted, PCs, RequestBound, BInv, Has, Codes, postgres, request
<1> HIDE DEF mine
<1>2. pc'[w] = "validate" /\ took'[w] = took[w] \cup {job[w].inq} => Has(w)'
  BY <1>1 DEF Has
<1> QED BY <1>1, <1>2, ConsumeKeepsBase

LEMMA GetDecodedKeeps ==
    ASSUME BInv, NEW w \in Workers, GetDecoded(w) PROVE BInv'
<1>1. /\ pc[w] \in Unposted /\ "qrisDel" \in Unposted /\ "INQUIRY_EXPIRED" \in Codes \ {"OK"}
      /\ took[w] = {job[w].token} /\ RequestTyped /\ late' \in [Workers -> BOOLEAN]
      /\ UNCHANGED <<idem, cache, due, gone, marked, txns, took, job, result, late>>
      /\ job[w].rail = "QRIS"
  BY DEF GetDecoded, Unposted, PCs, RequestBound, BInv, Has, Codes, RequestTyped,
         redis, postgres, request
<1>2. CASE Goto(w, "qrisDel") /\ UNCHANGED reply
  <2>1. pc'[w] = "qrisDel"
    BY <1>1, <1>2, Goes DEF Unposted
  <2>2. Has(w)'
    BY <1>1, <2>1 DEF Has
  <2> QED BY <1>1, <1>2, <2>2, StoreSame, StoredSame, TookSame, GoesOn
<1>3. CASE Fail(w, "INQUIRY_EXPIRED")
  BY <1>1, <1>3, StoreSame, StoredSame, TookSame, NothingPosted, FailsWith
<1> QED BY <1>2, <1>3 DEF GetDecoded

LEMMA DelDecodedKeeps ==
    ASSUME BInv, NEW w \in Workers, DelDecoded(w) PROVE BInv'
<1>1. /\ pc[w] \in Unposted /\ "validate" \in Unposted /\ took[w] = {job[w].token}
      /\ RequestTyped /\ Goto(w, "validate")
      /\ UNCHANGED <<idem, due, gone, marked, txns, job, result, reply, late>>
  BY DEF DelDecoded, Unposted, PCs, RequestBound, BInv, Has, postgres, request
<1>2. StoreTyped'
  <2>1. job[w].inq \in Items /\ "absent" \in CacheStates
    BY <1>1, OrderTyped DEF CacheStates
  <2>2. due' \subseteq Items /\ gone' \subseteq Items
    BY <1>1 DEF BInv, StoreTyped
  <2> QED BY <1>1, <2>1, <2>2, CacheWrites, StoreSame DEF DelDecoded
<1>3. /\ took' \in [Workers -> SUBSET Items] /\ took'[w] = {job[w].token, job[w].inq}
      /\ \A v \in Workers : v # w => took'[v] = took[v]
  <2>1. took' = [took EXCEPT ![w] = {job[w].token, job[w].inq}]
    BY <1>1 DEF DelDecoded, RequestTyped
  <2>2. {job[w].token, job[w].inq} \in SUBSET Items
    BY <1>1, OrderTyped
  <2> QED BY <2>1, <2>2, TookWrites
<1>4. pc'[w] = "validate"
  BY <1>1, Goes DEF Unposted
<1>5. Has(w)'
  BY <1>1, <1>3, <1>4 DEF Has
<1> QED BY <1>1, <1>2, <1>3, <1>5, StoredSame, GoesOn

LEMMA ValidateKeeps ==
    ASSUME BInv, NEW w \in Workers, Validate(w) PROVE BInv'
<1>1. /\ pc[w] \in Unposted /\ "execute" \in Unposted
      /\ {"VALIDATION", "REFUSED"} \subseteq Codes \ {"OK"}
      /\ took[w] = {job[w].token, job[w].inq} /\ RequestTyped /\ late' \in [Workers -> BOOLEAN]
      /\ UNCHANGED <<idem, cache, due, gone, marked, txns, took, job, result, late>>
  BY DEF Validate, Unposted, PCs, RequestBound, BInv, Has, Codes, RequestTyped,
         redis, postgres, request
<1>2. CASE Goto(w, "execute") /\ UNCHANGED reply
  <2>1. pc'[w] = "execute"
    BY <1>1, <1>2, Goes DEF Unposted
  <2>2. Has(w)'
    BY <1>1, <2>1 DEF Has
  <2> QED BY <1>1, <1>2, <2>2, StoreSame, StoredSame, TookSame, GoesOn
<1>3. ASSUME NEW code \in {"VALIDATION", "REFUSED"}, Fail(w, code) PROVE BInv'
  BY <1>1, <1>3, StoreSame, StoredSame, TookSame, NothingPosted, FailsWith
<1> QED BY <1>2, <1>3 DEF Validate

-----------------------------------------------------------------------------
(* The posting.                                                            *)

LEMMA Posts ==
    ASSUME BInv, NEW w \in Workers, Post(w), UNCHANGED idem
    PROVE  /\ TxnsSound' /\ StoredSound' /\ txns \subseteq txns'
           /\ Cardinality(txns) + 1 \in Nat \ {0}
           /\ \E t \in txns' : <<t.user, t.key>> = K(w) /\ t.id = Cardinality(txns) + 1
<1> DEFINE n == Cardinality(txns)
           new == [id |-> n + 1, user |-> job[w].user, key |-> job[w].key,
                   token |-> job[w].token, inq |-> job[w].inq]
<1>1. txns' = txns \cup {new} /\ SameKey(w) = {}
  BY DEF Post
<1>2. IsFiniteSet(txns) /\ job[w] \in Orders
  BY OrderTyped DEF BInv, TxnsSound
<1>3. n \in Nat
  BY <1>2, FS_CardinalityType
<1>4. /\ new.id = n + 1 /\ new.user = job[w].user /\ new.key = job[w].key
      /\ new.token = job[w].token /\ new.inq = job[w].inq
  OBVIOUS
<1> HIDE DEF new
<1>5. \A t \in txns : ~(t.user = new.user /\ t.key = new.key)
  BY <1>1, <1>4 DEF SameKey, K
<1>6. new \notin txns
  BY <1>5
<1>7. IsFiniteSet(txns') /\ Cardinality(txns') = n + 1
  BY <1>1, <1>2, <1>6, FS_AddElement
<1> HIDE DEF n
<1>8. ASSUME NEW t \in txns'
      PROVE  /\ t.id \in 1 .. n + 1
             /\ \E o \in Orders : /\ t.user = o.user /\ t.key = o.key
                                  /\ t.token = o.token /\ t.inq = o.inq
  <2>1. CASE t = new
    BY <1>2, <1>3, <1>4, <2>1
  <2>2. CASE t \in txns
    <3>1. t.id \in 1 .. n
      BY <2>2 DEF BInv, TxnsSound, n
    <3>2. \E o \in Orders : /\ t.user = o.user /\ t.key = o.key
                            /\ t.token = o.token /\ t.inq = o.inq
      BY <2>2 DEF BInv, TxnsSound
    <3> QED BY <1>3, <3>1, <3>2
  <2> QED BY <1>1, <2>1, <2>2
<1>9. \A r, t \in txns' : r.user = t.user /\ r.key = t.key => r = t
  BY <1>1, <1>5 DEF BInv, TxnsSound
<1>10. TxnsSound'
  BY <1>7, <1>8, <1>9 DEF TxnsSound
<1>11. txns \subseteq txns'
  BY <1>1
<1>12. StoredSound'
  BY <1>11 DEF BInv, StoredSound
<1>13. \E t \in txns' : <<t.user, t.key>> = K(w) /\ t.id = n + 1
  BY <1>1, <1>4 DEF K
<1> QED BY <1>3, <1>10, <1>11, <1>12, <1>13 DEF n

LEMMA HasPosted ==
    ASSUME BInv, NEW w \in Workers, pc[w] = "execute", NEW id \in Nat \ {0},
           result' = [result EXCEPT ![w] = id], AfterPosting(w),
           \E t \in txns' : <<t.user, t.key>> = K(w) /\ t.id = id,
           UNCHANGED <<took, job, reply, late>>,
           txns \subseteq txns', TxnsSound', StoreTyped', StoredSound'
    PROVE  BInv'
<1>1. /\ RequestTyped /\ took[w] = {job[w].token, job[w].inq} /\ reply[w].code # "OK"
      /\ pc[w] \in Unposted
  BY DEF BInv, Has, Told, Unposted, PCs, RequestBound
<1>2. PICK p \in {"mark", "persist"} : Goto(w, p)
  BY DEF AfterPosting
<1>3. p \in PCs
  BY DEF PCs, Detached
<1>4. /\ pc' \in [Workers -> PCs] /\ pc'[w] = p
      /\ \A v \in Workers : v # w => pc'[v] = pc[v]
  BY <1>1, <1>2, <1>3, Goes
<1>5. /\ result' \in [Workers -> Nat] /\ result'[w] = id
      /\ \A v \in Workers : v # w => result'[v] = result[v]
  BY <1>1 DEF RequestTyped
<1>6. RequestTyped' /\ Others(w)
  BY <1>1, <1>4, <1>5 DEF RequestTyped, Others
<1>7. Has(w)'
  BY <1>1, <1>4, <1>5 DEF Has
<1>8. Told(w)'
  <2>1. Names(w, result[w])'
    BY <1>5 DEF Names, SameKey, K
  <2> QED BY <1>1, <1>4, <1>5, <2>1 DEF Told
<1> QED BY <1>6, <1>7, <1>8, KeptBy

LEMMA ExecutePostsKeeps ==
    ASSUME BInv, NEW w \in Workers, ExecutePosts(w) PROVE BInv'
<1>1. /\ pc[w] = "execute" /\ Post(w) /\ AfterPosting(w)
      /\ result' = [result EXCEPT ![w] = Cardinality(txns) + 1]
      /\ UNCHANGED <<idem, cache, due, gone, marked, took, reply, job, late>>
  BY DEF ExecutePosts, redis, request
<1> QED BY <1>1, Posts, StoreSame, HasPosted

LEMMA ExecuteFindsKeeps ==
    ASSUME BInv, NEW w \in Workers, ExecuteFinds(w) PROVE BInv'
<1>1. /\ pc[w] = "execute" /\ AfterPosting(w) /\ gone' = gone \cup took[w]
      /\ UNCHANGED <<idem, cache, due, marked, txns, took, reply, job, late>>
  BY DEF ExecuteFinds, postgres, request
<1>2. PICK t \in SameKey(w) : result' = [result EXCEPT ![w] = t.id]
  BY DEF ExecuteFinds
<1>3. t \in txns /\ <<t.user, t.key>> = K(w)
  BY DEF SameKey
<1>4. t.id \in Nat \ {0}
  BY <1>3, FS_CardinalityType DEF BInv, TxnsSound
<1>5. StoreTyped'
  BY <1>1 DEF BInv, StoreTyped, RequestTyped
<1> QED BY <1>1, <1>2, <1>3, <1>4, <1>5, NothingPosted, StoredSame, HasPosted

LEMMA ExecuteRefusesKeeps ==
    ASSUME BInv, NEW w \in Workers, ExecuteRefuses(w) PROVE BInv'
<1>1. /\ pc[w] \in Unposted /\ "REFUSED" \in Codes \ {"OK"} /\ Fail(w, "REFUSED")
      /\ took[w] = {job[w].token, job[w].inq} /\ late' \in [Workers -> BOOLEAN]
      /\ UNCHANGED <<idem, cache, due, gone, marked, txns, took, job, result, late>>
  BY DEF ExecuteRefuses, Unposted, PCs, RequestBound, BInv, Has, Codes, RequestTyped,
         redis, postgres, request
<1> QED BY <1>1, StoreSame, StoredSame, TookSame, NothingPosted, FailsWith

LEMMA ExecuteUnknownKeeps ==
    ASSUME BInv, NEW w \in Workers, ExecuteUnknown(w) PROVE BInv'
<1>1. /\ pc[w] \in Unposted /\ "ERROR" \in Codes \ {"OK"} /\ Fail(w, "ERROR") /\ Post(w)
      /\ took[w] = {job[w].token, job[w].inq} /\ late' \in [Workers -> BOOLEAN]
      /\ UNCHANGED <<idem, cache, due, gone, marked, took, job, result, late>>
  BY DEF ExecuteUnknown, Unposted, PCs, RequestBound, BInv, Has, Codes, RequestTyped,
         redis, request
<1> QED BY <1>1, Posts, StoreSame, TookSame, FailsWith

-----------------------------------------------------------------------------
(* After the posting.                                                      *)

LEMMA MarkUsedKeeps ==
    ASSUME BInv, NEW w \in Workers, MarkUsed(w) PROVE BInv'
<1>1. /\ pc[w] = "mark" /\ Goto(w, "persist") /\ "persist" \in PCs /\ RequestTyped
      /\ UNCHANGED <<idem, cache, due, gone, txns, took, result, reply, job, late>>
  BY DEF MarkUsed, PCs, Detached, BInv, redis, request
<1>2. marked' \subseteq Items
  BY <1>1, OrderTyped DEF MarkUsed, BInv, StoreTyped
<1>3. StoreTyped'
  BY <1>1, <1>2 DEF BInv, StoreTyped
<1>4. /\ pc' \in [Workers -> PCs] /\ pc'[w] = "persist"
      /\ \A v \in Workers : v # w => pc'[v] = pc[v]
  BY <1>1, Goes
<1>5. RequestTyped' /\ Others(w)
  BY <1>1, <1>4 DEF RequestTyped, Others
<1>6. Has(w)' /\ Told(w)'
  BY <1>1, <1>4 DEF BInv, Has, Told, Names, SameKey, K
<1> QED BY <1>1, <1>3, <1>5, <1>6, NothingPosted, StoredSame, KeptBy

LEMMA PersistKeeps ==
    ASSUME BInv, NEW w \in Workers, Persist(w) PROVE BInv'
<1>1. /\ pc[w] = "persist" /\ Goto(w, "done") /\ "done" \in PCs /\ RequestTyped
      /\ Answer(w, [code |-> "OK", txn |-> result[w]]) /\ "OK" \in Codes
      /\ UNCHANGED <<cache, due, gone, marked, txns, took, result, job, late>>
      /\ K(w) \in IdemKeys /\ result[w] \in Nat
  BY OrderTyped DEF Persist, PCs, Codes, BInv, RequestTyped, Ok, postgres, request
<1>2. PICK t \in txns : <<t.user, t.key>> = K(w) /\ t.id = result[w]
  BY <1>1 DEF BInv, Told, Names, SameKey
<1>3. StoreTyped' /\ StoredSound'
  <2>1. CASE idem' = [idem EXCEPT ![K(w)] = Stored(result[w])]
    <3>1. Stored(result[w]) \in KeyStates /\ Stored(result[w]).id = result[w]
      BY <1>1, StatesTyped DEF Stored
    <3>2. /\ StoreTyped' /\ idem' \in [IdemKeys -> KeyStates]
          /\ idem'[K(w)] = Stored(result[w])
          /\ \A k \in IdemKeys : k # K(w) => idem'[k] = idem[k]
      BY <1>1, <2>1, <3>1, IdemWrites
    <3>3. StoredSound'
      BY <1>1, <1>2, <3>1, <3>2 DEF BInv, StoredSound
    <3> QED BY <3>2, <3>3
  <2>2. CASE UNCHANGED idem
    BY <1>1, <2>2, StoreSame, StoredSame
  <2> QED BY <2>1, <2>2 DEF Persist
<1>4. /\ pc' \in [Workers -> PCs] /\ pc'[w] = "done"
      /\ \A v \in Workers : v # w => pc'[v] = pc[v]
  BY <1>1, Goes
<1>5. /\ reply' \in [Workers -> [code : Codes, txn : Nat]] /\ reply'[w].txn = result[w]
      /\ \A v \in Workers : v # w => reply'[v] = reply[v]
  BY <1>1, Answers
<1>6. RequestTyped' /\ Others(w)
  BY <1>1, <1>4, <1>5 DEF RequestTyped, Others
<1>7. result[w] # 0
  BY <1>1 DEF BInv, Told
<1>8. Has(w)'
  BY <1>1, <1>4, <1>7 DEF Has
<1>9. Told(w)'
  <2>1. Names(w, reply[w].txn)' /\ Names(w, result[w])'
    BY <1>1, <1>2, <1>5 DEF Names, SameKey, K
  <2> QED BY <1>1, <1>4, <2>1 DEF Told
<1> QED BY <1>1, <1>3, <1>6, <1>8, <1>9, NothingPosted, KeptBy

-----------------------------------------------------------------------------
(* The undo.                                                               *)

LEMMA ReleaseKeeps ==
    ASSUME BInv, NEW w \in Workers, Release(w) PROVE BInv'
<1>1. /\ pc[w] \in Unposted /\ "restoreInquiry" \in Unposted /\ Goto(w, "restoreInquiry")
      /\ took[w] \subseteq {job[w].token, job[w].inq} /\ RequestTyped /\ K(w) \in IdemKeys
      /\ UNCHANGED <<cache, due, gone, marked, txns, took, result, reply, job, late>>
  BY OrderTyped DEF Release, Unposted, PCs, Detached, BInv, Has, postgres, request
<1>2. StoreTyped' /\ StoredSound'
  <2>1. CASE idem' = [idem EXCEPT ![K(w)] = Free]
    <3>1. Free \in KeyStates /\ Free.is # "stored"
      BY StatesTyped DEF Free
    <3> QED BY <1>1, <2>1, <3>1, IdemWrites, StoredStays
  <2>2. CASE UNCHANGED idem
    BY <1>1, <2>2, StoreSame, StoredSame
  <2> QED BY <2>1, <2>2 DEF Release
<1>3. pc'[w] = "restoreInquiry"
  BY <1>1, Goes DEF Unposted
<1>4. Has(w)'
  BY <1>1, <1>3 DEF Has
<1> QED BY <1>1, <1>2, <1>4, TookSame, GoesOn

LEMMA PutsBack ==
    ASSUME BInv, NEW w \in Workers, NEW x \in Items, PutBack(w, x),
           UNCHANGED <<idem, due, marked>>
    PROVE  /\ StoreTyped' /\ took' \in [Workers -> SUBSET Items] /\ took'[w] = took[w] \ {x}
           /\ \A v \in Workers : v # w => took'[v] = took[v]
<1>1. due' \subseteq Items /\ gone' \subseteq Items /\ "again" \in CacheStates
  BY DEF BInv, StoreTyped, PutBack, CacheStates
<1>2. StoreTyped'
  BY <1>1, CacheWrites DEF PutBack, BInv, StoreTyped
<1>3. took[w] \ {x} \in SUBSET Items /\ took' = [took EXCEPT ![w] = took[w] \ {x}]
  BY DEF BInv, RequestTyped, PutBack
<1> QED BY <1>2, <1>3, TookWrites

LEMMA RestoreInquiryKeeps ==
    ASSUME BInv, NEW w \in Workers, RestoreInquiry(w) PROVE BInv'
<1>1. /\ pc[w] \in Unposted /\ "restoreToken" \in Unposted /\ Goto(w, "restoreToken")
      /\ took[w] \subseteq {job[w].token, job[w].inq} /\ RequestTyped /\ job[w].inq \in Items
      /\ UNCHANGED <<idem, due, marked, txns, result, reply, job, late>>
  BY OrderTyped DEF RestoreInquiry, Unposted, PCs, Detached, BInv, Has, postgres, request
<1>2. /\ StoreTyped' /\ took' \in [Workers -> SUBSET Items]
      /\ took'[w] \subseteq {job[w].token}
      /\ \A v \in Workers : v # w => took'[v] = took[v]
  <2>1. CASE job[w].inq \notin took[w] /\ UNCHANGED <<took, cache, gone>>
    BY <1>1, <2>1, StoreSame, TookSame
  <2>2. CASE PutBack(w, job[w].inq)
    BY <1>1, <2>2, PutsBack
  <2>3. CASE /\ took' = [took EXCEPT ![w] = @ \ {job[w].inq}]
             /\ gone' = gone \cup {job[w].inq} /\ UNCHANGED cache
    <3>1. /\ took[w] \ {job[w].inq} \in SUBSET Items
          /\ took' = [took EXCEPT ![w] = took[w] \ {job[w].inq}]
      BY <2>3 DEF BInv, RequestTyped
    <3>2. StoreTyped'
      BY <1>1, <2>3 DEF BInv, StoreTyped
    <3>3. /\ took' \in [Workers -> SUBSET Items] /\ took'[w] = took[w] \ {job[w].inq}
          /\ \A v \in Workers : v # w => took'[v] = took[v]
      BY <3>1, TookWrites
    <3> QED BY <1>1, <3>2, <3>3
  <2> QED BY <2>1, <2>2, <2>3 DEF RestoreInquiry
<1>3. pc'[w] = "restoreToken"
  BY <1>1, Goes DEF Unposted
<1>4. Has(w)'
  BY <1>1, <1>2, <1>3 DEF Has
<1> QED BY <1>1, <1>2, <1>4, StoredSame, GoesOn

LEMMA RestoreTokenKeeps ==
    ASSUME BInv, NEW w \in Workers, RestoreToken(w) PROVE BInv'
<1>1. /\ pc[w] = "restoreToken" /\ pc[w] \in Unposted /\ "done" \in PCs /\ Goto(w, "done")
      /\ took[w] \subseteq {job[w].token} /\ RequestTyped /\ job[w].token \in Items
      /\ UNCHANGED <<idem, due, marked, txns, result, reply, job, late>>
  BY OrderTyped DEF RestoreToken, Unposted, PCs, Detached, BInv, Has, postgres, request
<1>2. /\ StoreTyped' /\ took' \in [Workers -> SUBSET Items] /\ took'[w] = {}
      /\ \A v \in Workers : v # w => took'[v] = took[v]
  <2>1. CASE PutBack(w, job[w].token)
    BY <1>1, <2>1, PutsBack
  <2>2. CASE job[w].token \notin took[w] /\ UNCHANGED <<took, cache, gone>>
    BY <1>1, <2>2, StoreSame, TookSame
  <2> QED BY <2>1, <2>2 DEF RestoreToken
<1>3. /\ pc' \in [Workers -> PCs] /\ pc'[w] = "done"
      /\ \A v \in Workers : v # w => pc'[v] = pc[v]
  BY <1>1, Goes
<1>4. RequestTyped' /\ Others(w)
  BY <1>1, <1>2, <1>3 DEF RequestTyped, Others
<1>5. result[w] = 0 /\ reply[w].code # "OK"
  BY <1>1, UnpostedKnows
<1>6. Has(w)' /\ Told(w)'
  BY <1>1, <1>2, <1>3, <1>5 DEF Has, Told
<1> QED BY <1>1, <1>2, <1>4, <1>6, NothingPosted, StoredSame, KeptBy

-----------------------------------------------------------------------------
(* The first and the last step, the timeout and the crash.                 *)

LEMMA SendKeeps ==
    ASSUME BInv, NEW w \in Workers, Send(w) PROVE BInv'
<1>1. /\ pc[w] = "idle" /\ pc[w] \in Unposted /\ Goto(w, "claim") /\ "claim" \in PCs
      /\ RequestTyped /\ took[w] = {}
      /\ UNCHANGED <<idem, cache, due, gone, marked, txns, took, result, reply, late>>
  BY DEF Send, Unposted, PCs, RequestBound, BInv, Has, redis, postgres
<1>2. job' \in [Workers -> Orders] /\ \A v \in Workers : v # w => job'[v] = job[v]
  BY <1>1 DEF Send, RequestTyped
<1>3. /\ pc' \in [Workers -> PCs] /\ pc'[w] = "claim"
      /\ \A v \in Workers : v # w => pc'[v] = pc[v]
  BY <1>1, Goes
<1>4. RequestTyped' /\ Others(w)
  BY <1>1, <1>2, <1>3 DEF RequestTyped, Others
<1>5. result[w] = 0 /\ reply[w].code # "OK"
  BY <1>1, UnpostedKnows
<1>6. Has(w)' /\ Told(w)'
  BY <1>1, <1>3, <1>5 DEF Has, Told
<1> QED BY <1>1, <1>4, <1>6, NothingPosted, StoreSame, StoredSame, KeptBy

LEMMA LeaveKeeps ==
    ASSUME BInv, NEW w \in Workers, Leave(w) PROVE BInv'
<1>1. /\ Goto(w, "idle") /\ "idle" \in PCs /\ RequestTyped
      /\ Answer(w, [code |-> "NONE", txn |-> 0]) /\ "NONE" \in Codes
      /\ UNCHANGED <<idem, cache, due, gone, marked, txns>>
  BY DEF Leave, PCs, Codes, NoReply, BInv, redis, postgres
<1>2. /\ took' \in [Workers -> SUBSET Items] /\ took'[w] = {}
      /\ result' \in [Workers -> Nat] /\ result'[w] = 0
      /\ \A v \in Workers : v # w => took'[v] = took[v] /\ result'[v] = result[v]
  BY <1>1 DEF Leave, RequestTyped
<1>3. /\ job' \in [Workers -> Orders] /\ late' \in [Workers -> BOOLEAN]
      /\ \A v \in Workers : v # w => job'[v] = job[v]
  BY <1>1, NoOrderIsOne DEF Leave, RequestTyped
<1>4. /\ pc' \in [Workers -> PCs] /\ pc'[w] = "idle"
      /\ \A v \in Workers : v # w => pc'[v] = pc[v]
  BY <1>1, Goes
<1>5. /\ reply' \in [Workers -> [code : Codes, txn : Nat]] /\ reply'[w].code = "NONE"
      /\ \A v \in Workers : v # w => reply'[v] = reply[v]
  BY <1>1, Answers
<1>6. RequestTyped' /\ Others(w)
  BY <1>2, <1>3, <1>4, <1>5 DEF RequestTyped, Others
<1>7. Has(w)' /\ Told(w)'
  BY <1>2, <1>4, <1>5 DEF Has, Told
<1> QED BY <1>1, <1>6, <1>7, NothingPosted, StoreSame, StoredSame, KeptBy

LEMMA TimeoutKeeps ==
    ASSUME BInv, NEW w \in Workers, Timeout(w) PROVE BInv'
<1>1. /\ UNCHANGED <<idem, cache, due, gone, marked, txns, job, result>>
      /\ late' \in [Workers -> BOOLEAN] /\ "ERROR" \in Codes \ {"OK"} /\ RequestTyped /\ Has(w)
  BY DEF Timeout, Codes, BInv, RequestTyped, redis, postgres
<1>2. pc[w] # "qrisDel" => UNCHANGED took
  BY DEF Timeout, BInv, RequestTyped
<1>3. CASE pc[w] \in {"claim", "peek"} /\ Goto(w, "done") /\ Answer(w, Error("ERROR"))
  <2>1. Answer(w, [code |-> "ERROR", txn |-> 0])
    BY <1>3 DEF Error
  <2> QED BY <1>1, <1>2, <1>3, <2>1, StoreSame, StoredSame, Ends
<1>4. CASE pc[w] \in RequestBound \ {"claim"} /\ Fail(w, "ERROR")
  <2>1. pc[w] \in Unposted
    BY <1>4 DEF Unposted, PCs, RequestBound
  <2>2. CASE pc[w] = "qrisDel"
    <3>1. took' = [took EXCEPT ![w] = {job[w].token, job[w].inq}]
      BY <1>1, <2>2 DEF Timeout, Has, RequestTyped
    <3>2. {job[w].token, job[w].inq} \in SUBSET Items
      BY <1>1, OrderTyped
    <3>3. /\ took' \in [Workers -> SUBSET Items] /\ took'[w] = {job[w].token, job[w].inq}
          /\ \A v \in Workers : v # w => took'[v] = took[v]
      BY <3>1, <3>2, TookWrites
    <3> QED BY <1>1, <1>4, <2>1, <3>3, StoreSame, StoredSame, NothingPosted, FailsWith
  <2>3. CASE pc[w] # "qrisDel"
    <3>1. took[w] \subseteq {job[w].token, job[w].inq}
      BY <1>1, <1>4 DEF Has, RequestBound
    <3> QED BY <1>1, <1>2, <1>4, <2>1, <2>3, <3>1, TookSame, StoreSame, StoredSame,
               NothingPosted, FailsWith
  <2> QED BY <2>2, <2>3
<1>5. CASE pc[w] \in Detached /\ UNCHANGED <<pc, reply>>
  <2>1. UNCHANGED took
    BY <1>2, <1>5 DEF Detached
  <2>2. RequestTyped'
    BY <1>1, <1>5, <2>1 DEF RequestTyped
  <2>3. \A v \in Workers : Has(v)' /\ Told(v)'
    BY <1>1, <1>5, <2>1 DEF BInv, Has, Told, Names, SameKey, K
  <2> QED BY <1>1, <2>2, <2>3, StoreSame, StoredSame, NothingPosted DEF BInv
<1> QED BY <1>3, <1>4, <1>5 DEF Timeout

LEMMA CrashKeeps ==
    ASSUME BInv, Crash PROVE BInv'
<1>1. UNCHANGED <<cache, due, marked, txns>>
  BY DEF Crash, postgres
<1>2. RequestTyped'
  BY NoOrderIsOne DEF Crash, RequestTyped, PCs, NoReply, Codes
<1>3. \A w \in Workers : Has(w)' /\ Told(w)'
  BY DEF Crash, Has, Told, NoReply
<1>4. /\ idem' \in [IdemKeys -> KeyStates]
      /\ \A k \in IdemKeys : idem'[k] = idem[k] \/ idem'[k].is # "stored"
  <2>1. Orphan \in KeyStates /\ Orphan.is # "stored"
    BY StatesTyped DEF Orphan
  <2> QED BY <2>1 DEF Crash, BInv, StoreTyped
<1>5. gone' \subseteq Items
  BY DEF Crash, BInv, StoreTyped, RequestTyped
<1>6. StoreTyped'
  BY <1>1, <1>4, <1>5 DEF BInv, StoreTyped
<1> QED BY <1>1, <1>2, <1>3, <1>4, <1>6, NothingPosted, StoredStays DEF BInv

-----------------------------------------------------------------------------
(* Redis on its own.                                                       *)

LEMMA ExpireKeeps ==
    ASSUME BInv, NEW k \in IdemKeys, ExpireClaim(k) \/ ExpireResponse(k) PROVE BInv'
<1>1. /\ idem' = [idem EXCEPT ![k] = Free]
      /\ UNCHANGED <<cache, due, gone, marked, txns, pc, job, took, result, reply, late>>
  BY DEF ExpireClaim, ExpireResponse, postgres, request
<1>2. Free \in KeyStates /\ Free.is # "stored"
  BY StatesTyped DEF Free
<1> QED BY <1>1, <1>2, IdemWrites, StoredStays, RedisMoves

LEMMA ItemKeeps ==
    ASSUME BInv, NEW x \in Items, Issue(x) \/ BecomeDue(x) \/ ExpireAgain(x) PROVE BInv'
<1>1. UNCHANGED <<idem, marked, txns, pc, job, took, result, reply, late>>
  BY DEF Issue, BecomeDue, ExpireAgain, postgres, request
<1>2. /\ due' \subseteq Items /\ gone' \subseteq Items
      /\ cache' \in [Items -> CacheStates]
  BY DEF Issue, BecomeDue, ExpireAgain, BInv, StoreTyped, CacheStates
<1>3. StoreTyped'
  BY <1>1, <1>2 DEF BInv, StoreTyped
<1> QED BY <1>1, <1>3, StoredSame, RedisMoves

LEMMA NextKeepsBase == BInv /\ [Next]_vars => BInv'
<1> SUFFICES ASSUME BInv, [Next]_vars PROVE BInv'
  OBVIOUS
<1>1. CASE UNCHANGED vars
  BY <1>1, StoreSame, StoredSame, RedisMoves DEF vars
<1>2. ASSUME NEW w \in Workers, Step(w) PROVE BInv'
  BY <1>2, ClaimKeeps, ClaimTakenKeeps, PeekKeeps, ConsumeTokenKeeps, ConsumeInquiryKeeps,
     GetDecodedKeeps, DelDecodedKeeps, ValidateKeeps, ExecutePostsKeeps, ExecuteFindsKeeps,
     ExecuteRefusesKeeps, MarkUsedKeeps, PersistKeeps, ReleaseKeeps, RestoreInquiryKeeps,
     RestoreTokenKeeps, LeaveKeeps DEF Step
<1>3. ASSUME NEW w \in Workers, Send(w) \/ ExecuteUnknown(w) \/ Timeout(w) PROVE BInv'
  BY <1>3, SendKeeps, ExecuteUnknownKeeps, TimeoutKeeps
<1>4. ASSUME NEW x \in Items, Issue(x) \/ BecomeDue(x) \/ ExpireAgain(x) PROVE BInv'
  BY <1>4, ItemKeeps
<1>5. ASSUME NEW k \in IdemKeys, ExpireClaim(k) \/ ExpireResponse(k) PROVE BInv'
  BY <1>5, ExpireKeeps
<1>6. CASE Crash
  BY <1>6, CrashKeeps
<1>7. CASE AllAnswered
  BY <1>1, <1>7 DEF AllAnswered
<1> QED BY <1>1, <1>2, <1>3, <1>4, <1>5, <1>6, <1>7 DEF Next

THEOREM BaseInvariance == Spec => []BInv
BY InitBase, NextKeepsBase, PTL DEF Spec

(* Keys, cache, requests and their results keep to their types, whatever   *)
(* faults occur; a result is the number of a transaction that exists.      *)
THEOREM TypeCorrect == Spec => []TypeOK
<1>1. BInv => TypeOK
  <2> SUFFICES ASSUME BInv PROVE TypeOK
    OBVIOUS
  <2>1. Cardinality(txns) \in Nat
    BY FS_CardinalityType DEF BInv, TxnsSound
  <2>2. ASSUME NEW w \in Workers PROVE result[w] \in 0 .. Cardinality(txns)
    <3>1. CASE result[w] = 0
      BY <2>1, <3>1
    <3>2. CASE result[w] # 0
      <4>1. PICK t \in txns : t.id = result[w]
        BY <3>2 DEF BInv, Told, Names, SameKey
      <4>2. t.id \in 1 .. Cardinality(txns)
        BY <4>1 DEF BInv, TxnsSound
      <4> QED BY <2>1, <4>1, <4>2
    <3> QED BY <3>1, <3>2
  <2>3. result \in [Workers -> 0 .. Cardinality(txns)]
    BY <2>2 DEF BInv, RequestTyped
  <2> QED BY <2>3 DEF BInv, StoreTyped, RequestTyped, PCs, KeyStates, CacheStates, TypeOK
<1> QED BY <1>1, BaseInvariance, PTL

(* The claim, the stored response and uq_txn_user_idempotency together:    *)
(* every answer OK, computed or replayed, names the one transaction of the *)
(* key, for any orders, rails and faults, lost commits included.           *)
THEOREM AnswersAgreed == Spec => []AnswersAgree
<1>1. BInv => AnswersAgree
  <2> SUFFICES ASSUME BInv PROVE AnswersAgree
    OBVIOUS
  <2>1. ASSUME NEW w \in Workers, reply[w].code = "OK"
        PROVE  {t.id : t \in SameKey(w)} = {reply[w].txn}
    <3>1. PICK t \in SameKey(w) : t.id = reply[w].txn
      BY <2>1 DEF BInv, Told, Names
    <3>2. ASSUME NEW r \in SameKey(w) PROVE r = t
      BY DEF SameKey, K, BInv, TxnsSound
    <3> QED BY <3>1, <3>2
  <2>2. \A k \in IdemKeys : idem[k].is = "stored" =>
            \E t \in txns : <<t.user, t.key>> = k /\ t.id = idem[k].id
    BY DEF BInv, StoredSound
  <2> QED BY <2>1, <2>2 DEF AnswersAgree
<1> QED BY <1>1, BaseInvariance, PTL

-----------------------------------------------------------------------------
(* Where the items are.                                                    *)

LEMMA InitGood == Init => Good
<1> SUFFICES ASSUME Init PROVE Good
  OBVIOUS
<1>1. AllPlaced
  BY DEF Init, AllPlaced, Placed, Once, Held, Holds, Over, Spent
<1>2. TxnsApart /\ MarksOver
  BY DEF Init, TxnsApart, MarksOver
<1> QED BY <1>1, <1>2 DEF Good

LEMMA StaysPut ==
    ASSUME NEW x \in Items, Placed(x), cache'[x] = cache[x], x \in gone' <=> x \in gone,
           Spent(x)' <=> Spent(x), \A v \in Workers : Holds(v, x)' <=> Holds(v, x)
    PROVE  Placed(x)'
BY DEF Placed, Held, Over

(* Nobody comes to mark items it has not spent.                            *)
NoNewMark == \A v \in Workers : pc'[v] = "mark" => pc[v] = "mark" /\ job'[v] = job[v]

LEMMA GoesUnmarked ==
    ASSUME RequestTyped, NEW w \in Workers, NEW p \in PCs \ {"mark"}, Goto(w, p),
           \A v \in Workers : v # w => job'[v] = job[v]
    PROVE  NoNewMark
BY Goes DEF NoNewMark

LEMMA FailsUnmarked ==
    ASSUME RequestTyped, NEW w \in Workers, NEW code, Fail(w, code), UNCHANGED job
    PROVE  NoNewMark
<1>1. Goto(w, "release") /\ "release" \in PCs \ {"mark"}
  BY DEF Fail, PCs, Detached
<1> QED BY <1>1, GoesUnmarked

LEMMA MarksStay ==
    ASSUME MarksOver, NoNewMark, gone \subseteq gone', txns \subseteq txns', UNCHANGED marked
    PROVE  MarksOver'
<1>1. \A x : Over(x) => Over(x)'
  BY DEF Over, Spent
<1>2. \A x \in marked' : Over(x)'
  BY <1>1 DEF MarksOver
<1>3. ASSUME NEW w \in Workers, pc'[w] = "mark"
      PROVE  Over(job[w].token)' /\ Over(job[w].inq)'
  <2>1. Over(job[w].token) /\ Over(job[w].inq) /\ job'[w] = job[w]
    BY <1>3 DEF MarksOver, NoNewMark
  <2> QED BY <2>1 DEF Over, Spent
<1> QED BY <1>2, <1>3 DEF MarksOver

(* Nothing is posted: the items are where they were but for some of them.  *)
LEMMA ItemsMove ==
    ASSUME Good, NoNewMark, gone \subseteq gone', UNCHANGED <<txns, marked>>,
           \A x \in Once : Placed(x)'
    PROVE  Good'
BY MarksStay DEF Good, AllPlaced, TxnsApart

LEMMA SpentSame ==
    ASSUME UNCHANGED txns
    PROVE  \A x : Spent(x)' <=> Spent(x)
BY DEF Spent

LEMMA NoneMoves ==
    ASSUME Good, NoNewMark, UNCHANGED <<cache, gone, txns, marked, took, result>>
    PROVE  Good'
<1>1. ASSUME NEW x \in Once PROVE Placed(x)'
  <2>1. Placed(x) /\ x \in Items
    BY DEF Good, AllPlaced, Once
  <2> QED BY <2>1, StaysPut, SpentSame DEF Holds
<1> QED BY <1>1, ItemsMove

LEMMA OneMoves ==
    ASSUME Good, NoNewMark, NEW x \in Items, gone \subseteq gone', gone' \subseteq gone \cup {x},
           \A y \in Items : y # x => cache'[y] = cache[y],
           \A y \in Items, v \in Workers : y # x => (Holds(v, y)' <=> Holds(v, y)),
           UNCHANGED <<txns, marked>>,
           x \in Once /\ Placed(x) => Placed(x)'
    PROVE  Good'
<1>1. ASSUME NEW y \in Once PROVE Placed(y)'
  <2>1. Placed(y) /\ y \in Items
    BY DEF Good, AllPlaced, Once
  <2>2. CASE y = x
    BY <2>1, <2>2
  <2>3. CASE y # x
    BY <2>1, <2>3, StaysPut, SpentSame
  <2> QED BY <2>2, <2>3
<1> QED BY <1>1, ItemsMove

(* It is taken by a request, ...                                           *)
LEMMA IsTaken ==
    ASSUME BInv, Good, NoNewMark, NEW w \in Workers, NEW x \in Items, cache[x] # "absent",
           result[w] = 0, cache' = [cache EXCEPT ![x] = "absent"],
           took' = [took EXCEPT ![w] = @ \cup {x}], UNCHANGED <<txns, marked, gone, result>>
    PROVE  Good'
<1>1. /\ cache'[x] = "absent" /\ \A y \in Items : y # x => cache'[y] = cache[y]
      /\ took'[w] = took[w] \cup {x} /\ \A v \in Workers : v # w => took'[v] = took[v]
  BY DEF BInv, StoreTyped, RequestTyped
<1>2. \A y \in Items, v \in Workers : y # x => (Holds(v, y)' <=> Holds(v, y))
  BY <1>1 DEF Holds
<1>3. Placed(x) => Placed(x)'
  <2> SUFFICES ASSUME Placed(x) PROVE Placed(x)'
    OBVIOUS
  <2>1. ~Held(x) /\ ~Over(x) /\ ~Spent(x) /\ x \notin gone
    BY DEF Placed, Over
  <2>2. ~Over(x)' /\ ~Spent(x)'
    BY <2>1 DEF Over, Spent
  <2>3. \A v \in Workers : Holds(v, x)' <=> v = w
    BY <1>1, <2>1 DEF Held, Holds
  <2> QED BY <1>1, <2>2, <2>3 DEF Placed, Held
<1> QED BY <1>1, <1>2, <1>3, OneMoves

(* ... or it is lost out of Redis.                                         *)
LEMMA IsLost ==
    ASSUME BInv, Good, NoNewMark, NEW x \in Items, cache[x] # "absent",
           cache' = [cache EXCEPT ![x] = "absent"], gone' = gone \cup {x},
           UNCHANGED <<txns, marked, took, result>>
    PROVE  Good'
<1>1. cache'[x] = "absent" /\ \A y \in Items : y # x => cache'[y] = cache[y]
  BY DEF BInv, StoreTyped
<1>2. \A y, v : Holds(v, y)' <=> Holds(v, y)
  BY DEF Holds
<1>3. Placed(x) => Placed(x)'
  BY <1>1, <1>2, SpentSame DEF Placed, Held, Over
<1> QED BY <1>1, <1>2, <1>3, OneMoves

(* The request that holds it puts it back, or loses it.                    *)
LEMMA IsReturned ==
    ASSUME BInv, Good, NoNewMark, NEW w \in Workers, NEW x \in Items, Holds(w, x),
           took' = [took EXCEPT ![w] = @ \ {x}],
           \/ cache' = [cache EXCEPT ![x] = "again"] /\ UNCHANGED gone
           \/ gone' = gone \cup {x} /\ UNCHANGED cache,
           UNCHANGED <<txns, marked, result>>
    PROVE  Good'
<1>1. /\ took'[w] = took[w] \ {x} /\ \A v \in Workers : v # w => took'[v] = took[v]
      /\ \A y \in Items : y # x => cache'[y] = cache[y]
  BY DEF BInv, StoreTyped, RequestTyped
<1>2. \A y \in Items, v \in Workers : y # x => (Holds(v, y)' <=> Holds(v, y))
  BY <1>1 DEF Holds
<1>3. Placed(x) => Placed(x)'
  <2> SUFFICES ASSUME Placed(x) PROVE Placed(x)'
    OBVIOUS
  <2>1. Held(x) /\ ~Over(x) /\ ~Spent(x) /\ x \notin gone /\ cache[x] = "absent"
    BY DEF Placed, Held, Over
  <2>2. ~Held(x)'
    BY <1>1 DEF Placed, Held, Holds
  <2>3. \/ cache'[x] = "again" /\ x \notin gone'
        \/ cache'[x] = "absent" /\ x \in gone'
    <3>1. CASE cache' = [cache EXCEPT ![x] = "again"] /\ UNCHANGED gone
      BY <2>1, <3>1 DEF BInv, StoreTyped
    <3>2. CASE gone' = gone \cup {x} /\ UNCHANGED cache
      BY <2>1, <3>2
    <3> QED BY <3>1, <3>2
  <2>4. ~Spent(x)'
    BY <2>1, SpentSame
  <2> QED BY <2>2, <2>3, <2>4 DEF Placed, Held, Over
<1>4. gone \subseteq gone' /\ gone' \subseteq gone \cup {x}
  OBVIOUS
<1> QED BY <1>1, <1>2, <1>3, <1>4, OneMoves

-----------------------------------------------------------------------------
(* The steps of a request that move no item.                               *)

LEMMA ClaimGood ==
    ASSUME BInv, Good, NEW w \in Workers, Claim(w) \/ ClaimTaken(w) \/ Peek(w) PROVE Good'
<1>1. /\ RequestTyped /\ {"token", "done", "peek"} \subseteq PCs \ {"mark"}
      /\ UNCHANGED <<cache, gone, txns, marked, took, result, job>>
  BY DEF BInv, PCs, RequestBound, Claim, ClaimTaken, Peek, redis, postgres, request
<1>2. \E p \in {"token", "done", "peek"} : Goto(w, p)
  BY DEF Claim, ClaimTaken, Peek
<1> QED BY <1>1, <1>2, GoesUnmarked, NoneMoves

LEMMA GetDecodedGood ==
    ASSUME BInv, Good, NEW w \in Workers, GetDecoded(w) PROVE Good'
<1>1. /\ RequestTyped /\ "qrisDel" \in PCs \ {"mark"}
      /\ UNCHANGED <<cache, gone, txns, marked, took, result, job>>
  BY DEF BInv, PCs, RequestBound, GetDecoded, redis, postgres, request
<1>2. Goto(w, "qrisDel") \/ Fail(w, "INQUIRY_EXPIRED")
  BY DEF GetDecoded
<1> QED BY <1>1, <1>2, GoesUnmarked, FailsUnmarked, NoneMoves

LEMMA ValidateGood ==
    ASSUME BInv, Good, NEW w \in Workers, Validate(w) \/ ExecuteRefuses(w) PROVE Good'
<1>1. /\ RequestTyped /\ "execute" \in PCs \ {"mark"}
      /\ UNCHANGED <<cache, gone, txns, marked, took, result, job>>
  BY DEF BInv, PCs, RequestBound, Validate, ExecuteRefuses, redis, postgres, request
<1>2. Goto(w, "execute") \/ Fail(w, "VALIDATION") \/ Fail(w, "REFUSED")
  BY DEF Validate, ExecuteRefuses
<1> QED BY <1>1, <1>2, GoesUnmarked, FailsUnmarked, NoneMoves

LEMMA PersistGood ==
    ASSUME BInv, Good, NEW w \in Workers, Persist(w) \/ Release(w) PROVE Good'
<1>1. /\ RequestTyped /\ {"done", "restoreInquiry"} \subseteq PCs \ {"mark"}
      /\ UNCHANGED <<cache, gone, txns, marked, took, result, job>>
  BY DEF BInv, PCs, Detached, Persist, Release, postgres, request
<1>2. \E p \in {"done", "restoreInquiry"} : Goto(w, p)
  BY DEF Persist, Release
<1> QED BY <1>1, <1>2, GoesUnmarked, NoneMoves

LEMMA SendGood ==
    ASSUME BInv, Good, NEW w \in Workers, Send(w) PROVE Good'
<1>1. /\ RequestTyped /\ "claim" \in PCs \ {"mark"} /\ Goto(w, "claim")
      /\ UNCHANGED <<cache, gone, txns, marked, took, result>>
  BY DEF BInv, PCs, RequestBound, Send, redis, postgres
<1>2. \A v \in Workers : v # w => job'[v] = job[v]
  BY <1>1 DEF Send, RequestTyped
<1> QED BY <1>1, <1>2, GoesUnmarked, NoneMoves

-----------------------------------------------------------------------------
(* The steps that consume.                                                 *)

LEMMA ConsumeGood ==
    ASSUME BInv, Good, NEW w \in Workers, NEW x \in Items, result[w] = 0,
           NEW mine, NEW next \in PCs \ {"mark"}, NEW code,
           Consume(w, x, mine, next, code), UNCHANGED <<txns, marked, result, job>>
    PROVE  Good'
<1>1. RequestTyped
  BY DEF BInv
<1>2. CASE Fail(w, code) /\ UNCHANGED <<cache, gone, took>>
  BY <1>1, <1>2, FailsUnmarked, NoneMoves
<1>3. ASSUME Usable(x), cache' = [cache EXCEPT ![x] = "absent"],
             took' = [took EXCEPT ![w] = @ \cup {x}], Goto(w, next), UNCHANGED gone
      PROVE  Good'
  BY <1>1, <1>3, GoesUnmarked, IsTaken DEF Usable
<1>4. ASSUME Usable(x), cache' = [cache EXCEPT ![x] = "absent"], gone' = gone \cup {x},
             UNCHANGED took, NEW code2, Fail(w, code2)
      PROVE  Good'
  BY <1>1, <1>4, FailsUnmarked, IsLost DEF Usable
<1> QED BY <1>2, <1>3, <1>4 DEF Consume

LEMMA ConsumeTokenGood ==
    ASSUME BInv, Good, NEW w \in Workers, ConsumeToken(w) PROVE Good'
<1> DEFINE mine == TokenFor[job[w].token] = <<job[w].user, job[w].rail>>
<1>1. /\ Consume(w, job[w].token, mine, "inquiry", "TOKEN_INVALID")
      /\ "inquiry" \in PCs \ {"mark"} /\ pc[w] \in Unposted
      /\ UNCHANGED <<txns, marked, result, job>>
  BY DEF ConsumeToken, PCs, RequestBound, Unposted, postgres, request
<1>2. result[w] = 0 /\ job[w].token \in Items
  BY <1>1, UnpostedKnows, OrderTyped
<1> HIDE DEF mine
<1> QED BY <1>1, <1>2, ConsumeGood

LEMMA ConsumeInquiryGood ==
    ASSUME BInv, Good, NEW w \in Workers, ConsumeInquiry(w) PROVE Good'
<1> DEFINE mine == InquiryOf[job[w].inq] = job[w].user
<1>1. /\ Consume(w, job[w].inq, mine, "validate", "INQUIRY_EXPIRED")
      /\ "validate" \in PCs \ {"mark"} /\ pc[w] \in Unposted
      /\ UNCHANGED <<txns, marked, result, job>>
  BY DEF ConsumeInquiry, PCs, RequestBound, Unposted, postgres, request
<1>2. result[w] = 0 /\ job[w].inq \in Items
  BY <1>1, UnpostedKnows, OrderTyped
<1> HIDE DEF mine
<1> QED BY <1>1, <1>2, ConsumeGood

(* A decoded QR is not one of the items that are consumed once.            *)
LEMMA QrNotOnce ==
    ASSUME RequestTyped, NEW w \in Workers, job[w].rail = "QRIS"
    PROVE  job[w].inq \notin Once /\ job[w].inq \in Items
BY OrderTyped DEF Once

LEMMA DelDecodedGood ==
    ASSUME BInv, Good, NEW w \in Workers, DelDecoded(w) PROVE Good'
<1>1. /\ RequestTyped /\ Goto(w, "validate") /\ "validate" \in PCs \ {"mark"}
      /\ job[w].inq \notin Once /\ job[w].inq \in Items
      /\ UNCHANGED <<gone, txns, marked, result, job>>
  BY QrNotOnce DEF DelDecoded, BInv, Has, PCs, RequestBound, postgres, request
<1>2. /\ \A y \in Items : y # job[w].inq => cache'[y] = cache[y]
      /\ took'[w] = took[w] \cup {job[w].inq} /\ \A v \in Workers : v # w => took'[v] = took[v]
  BY DEF DelDecoded, BInv, StoreTyped, RequestTyped
<1>3. \A y \in Items, v \in Workers : y # job[w].inq => (Holds(v, y)' <=> Holds(v, y))
  BY <1>1, <1>2 DEF Holds
<1>4. NoNewMark
  BY <1>1, GoesUnmarked
<1> QED BY <1>1, <1>2, <1>3, <1>4, OneMoves

-----------------------------------------------------------------------------
(* The steps that post.                                                    *)

LEMMA TokensOnce == Tokens \subseteq Once
BY PaymentAssumption DEF Once, Items

(* What a request that is about to post holds, if it can hold it alone.    *)
LEMMA AboutToPost ==
    ASSUME BInv, Good, NEW w \in Workers, pc[w] = "execute"
    PROVE  /\ result[w] = 0 /\ took[w] = {job[w].token, job[w].inq}
           /\ ~Spent(job[w].token) /\ (job[w].inq \in Once => ~Spent(job[w].inq))
<1>1. result[w] = 0 /\ took[w] = {job[w].token, job[w].inq} /\ job[w].token \in Once
  BY UnpostedKnows, OrderTyped, TokensOnce DEF Unposted, PCs, RequestBound, Has
<1>2. ASSUME NEW x \in Once, x \in took[w] PROVE ~Spent(x)
  BY <1>1, <1>2 DEF Good, AllPlaced, Placed, Held, Holds, Over
<1> QED BY <1>1, <1>2

LEMMA PostsApart ==
    ASSUME BInv, Good, NEW w \in Workers, pc[w] = "execute", Post(w)
    PROVE  /\ TxnsApart' /\ txns \subseteq txns'
           /\ \A x : Spent(x)' <=> Spent(x) \/ x \in {job[w].token, job[w].inq}
<1> DEFINE new == [id |-> Cardinality(txns) + 1, user |-> job[w].user, key |-> job[w].key,
                   token |-> job[w].token, inq |-> job[w].inq]
<1>1. txns' = txns \cup {new}
  BY DEF Post
<1>2. new.token = job[w].token /\ new.inq = job[w].inq
  OBVIOUS
<1> HIDE DEF new
<1>3. \A x : Spent(x)' <=> Spent(x) \/ x \in {job[w].token, job[w].inq}
  BY <1>1, <1>2 DEF Spent
<1>4. \A t \in txns : t.token # new.token /\ (new.inq \in Once => t.inq # new.inq)
  BY <1>2, AboutToPost DEF Spent
<1>5. TxnsApart'
  BY <1>1, <1>4 DEF Good, TxnsApart
<1> QED BY <1>1, <1>3, <1>5

(* After it, what was held is over, and may be marked.                     *)
LEMMA PostedGood ==
    ASSUME BInv, Good, NEW w \in Workers, pc[w] = "execute", AfterPosting(w),
           NEW id \in Nat \ {0}, result' = [result EXCEPT ![w] = id],
           txns \subseteq txns', gone \subseteq gone', UNCHANGED <<cache, marked, took, job>>,
           TxnsApart', \A x \in took[w] : Over(x)',
           \A x \in Once : Over(x)' <=> Over(x) \/ x \in took[w],
           \A x \in Once : ~(Spent(x)' /\ x \in gone') \/ (Spent(x) /\ x \in gone)
    PROVE  Good'
<1>1. /\ result[w] = 0 /\ took[w] = {job[w].token, job[w].inq} /\ RequestTyped
      /\ result'[w] # 0 /\ \A v \in Workers : v # w => result'[v] = result[v]
  BY AboutToPost DEF BInv, RequestTyped
<1>2. PICK p \in {"mark", "persist"} : Goto(w, p)
  BY DEF AfterPosting
<1>3. p \in PCs
  BY DEF PCs, Detached
<1>4. \A v \in Workers : v # w => pc'[v] = pc[v]
  BY <1>1, <1>2, <1>3, Goes
<1>5. ASSUME NEW x \in Once PROVE Placed(x)'
  <2>1. Placed(x)
    BY DEF Good, AllPlaced
  <2>2. \A v \in Workers : Holds(v, x)' <=> Holds(v, x) /\ v # w
    BY <1>1 DEF Holds
  <2>3. x \in took[w] <=> Holds(w, x)
    BY <1>1 DEF Holds
  <2>4. Over(x)' <=> Over(x) \/ Holds(w, x)
    BY <2>3
  <2>5. Spent(x)' => x \notin gone'
    BY <2>1 DEF Placed
  <2>6. cache'[x] # "absent" => ~Held(x)' /\ ~Over(x)'
    BY <2>1, <2>2, <2>4 DEF Placed, Held
  <2>7. Held(x)' => ~Over(x)'
    BY <2>1, <2>2, <2>4 DEF Placed, Held
  <2>8. cache'[x] = "absent" => Held(x)' \/ Over(x)'
    BY <2>1, <2>2, <2>4 DEF Placed, Held
  <2>9. \A v, u \in Workers : Holds(v, x)' /\ Holds(u, x)' => v = u
    BY <2>1, <2>2 DEF Placed
  <2> HIDE DEF Over, Held, Spent
  <2> QED BY <2>5, <2>6, <2>7, <2>8, <2>9 DEF Placed
<1>6. MarksOver'
  <2>1. \A x : Over(x) => Over(x)'
    BY DEF Over, Spent
  <2>2. \A x \in marked' : Over(x)'
    BY <2>1 DEF Good, MarksOver
  <2>3. ASSUME NEW v \in Workers, pc'[v] = "mark"
        PROVE  Over(job[v].token)' /\ Over(job[v].inq)'
    <3>1. CASE v = w
      BY <1>1, <3>1 DEF Over, Spent
    <3>2. CASE v # w
      <4>1. Over(job[v].token) /\ Over(job[v].inq)
        BY <1>4, <2>3, <3>2 DEF Good, MarksOver
      <4> QED BY <4>1 DEF Over, Spent
    <3> QED BY <3>1, <3>2
  <2> QED BY <2>2, <2>3 DEF MarksOver
<1> QED BY <1>5, <1>6 DEF Good, AllPlaced

LEMMA ExecutePostsGood ==
    ASSUME BInv, Good, NEW w \in Workers, ExecutePosts(w) PROVE Good'
<1>1. /\ pc[w] = "execute" /\ Post(w) /\ AfterPosting(w)
      /\ result' = [result EXCEPT ![w] = Cardinality(txns) + 1]
      /\ UNCHANGED <<cache, gone, marked, took, job>>
  BY DEF ExecutePosts, redis, request
<1>2. Cardinality(txns) + 1 \in Nat \ {0}
  BY FS_CardinalityType DEF BInv, TxnsSound
<1>3. /\ TxnsApart' /\ txns \subseteq txns' /\ took[w] = {job[w].token, job[w].inq}
      /\ result[w] = 0 /\ \A x : Spent(x)' <=> Spent(x) \/ x \in took[w]
  BY <1>1, PostsApart, AboutToPost
<1>4. \A x : Over(x)' <=> Over(x) \/ x \in took[w]
  BY <1>1, <1>3 DEF Over
<1>5. ASSUME NEW x \in Once PROVE ~(Spent(x)' /\ x \in gone') \/ (Spent(x) /\ x \in gone)
  <2>1. x \in took[w] => x \notin gone
    BY <1>3 DEF Good, AllPlaced, Placed, Held, Holds, Over
  <2> QED BY <1>1, <1>3, <2>1
<1> QED BY <1>1, <1>2, <1>3, <1>4, <1>5, PostedGood

LEMMA ExecuteFindsGood ==
    ASSUME BInv, Good, NEW w \in Workers, ExecuteFinds(w) PROVE Good'
<1>1. /\ pc[w] = "execute" /\ AfterPosting(w) /\ gone' = gone \cup took[w]
      /\ UNCHANGED <<cache, marked, txns, took, job>>
  BY DEF ExecuteFinds, postgres, request
<1>2. PICK t \in SameKey(w) : result' = [result EXCEPT ![w] = t.id]
  BY DEF ExecuteFinds
<1>3. t.id \in Nat \ {0}
  BY FS_CardinalityType DEF BInv, TxnsSound, SameKey
<1>4. /\ TxnsApart' /\ txns \subseteq txns' /\ gone \subseteq gone' /\ result[w] = 0
      /\ \A x : Spent(x)' <=> Spent(x)
  BY <1>1, AboutToPost, SpentSame DEF Good, TxnsApart
<1>5. \A x : Over(x)' <=> Over(x) \/ x \in took[w]
  BY <1>1, <1>4 DEF Over
<1>6. ASSUME NEW x \in Once PROVE ~(Spent(x)' /\ x \in gone') \/ (Spent(x) /\ x \in gone)
  <2>1. x \in took[w] => ~Spent(x)
    BY <1>4 DEF Good, AllPlaced, Placed, Held, Holds, Over
  <2> QED BY <1>1, <1>4, <2>1
<1> QED BY <1>1, <1>2, <1>3, <1>4, <1>5, <1>6, PostedGood

LEMMA MarkUsedGood ==
    ASSUME BInv, Good, NEW w \in Workers, MarkUsed(w) PROVE Good'
<1>1. /\ pc[w] = "mark" /\ Goto(w, "persist") /\ "persist" \in PCs \ {"mark"} /\ RequestTyped
      /\ UNCHANGED <<cache, gone, txns, took, result, job>>
      /\ marked' \subseteq marked \cup {job[w].token, job[w].inq}
  BY DEF MarkUsed, PCs, Detached, BInv, redis, request
<1>2. NoNewMark
  BY <1>1, GoesUnmarked
<1>3. \A x : Over(x)' <=> Over(x)
  BY <1>1, SpentSame DEF Over
<1>4. \A x \in marked' : Over(x)'
  BY <1>1, <1>3 DEF Good, MarksOver
<1>5. ASSUME NEW v \in Workers, pc'[v] = "mark"
      PROVE  Over(job[v].token)' /\ Over(job[v].inq)'
  <2>1. Over(job[v].token) /\ Over(job[v].inq)
    BY <1>2, <1>5 DEF NoNewMark, Good, MarksOver
  <2> QED BY <1>1, <2>1 DEF Over, Spent
<1>6. ASSUME NEW x \in Once PROVE Placed(x)'
  <2>1. Placed(x) /\ x \in Items
    BY DEF Good, AllPlaced, Once
  <2> QED BY <1>1, <2>1, StaysPut, SpentSame DEF Holds
<1> QED BY <1>1, <1>4, <1>5, <1>6 DEF Good, AllPlaced, TxnsApart, MarksOver

-----------------------------------------------------------------------------
(* The undo, the last step, the timeout and the crash.                     *)

LEMMA RestoreInquiryGood ==
    ASSUME BInv, Good, NEW w \in Workers, RestoreInquiry(w) PROVE Good'
<1> DEFINE i == job[w].inq
<1>1. /\ pc[w] \in Unposted /\ Goto(w, "restoreToken") /\ "restoreToken" \in PCs \ {"mark"}
      /\ RequestTyped /\ i \in Items /\ UNCHANGED <<txns, marked, result, job>>
  BY OrderTyped DEF RestoreInquiry, Unposted, PCs, Detached, BInv, postgres, request
<1>2. NoNewMark /\ result[w] = 0
  BY <1>1, GoesUnmarked, UnpostedKnows
<1>3. CASE UNCHANGED <<took, cache, gone>>
  BY <1>1, <1>2, <1>3, NoneMoves
<1>4. ASSUME i \in took[w], took' = [took EXCEPT ![w] = @ \ {i}],
             \/ cache' = [cache EXCEPT ![i] = "again"] /\ UNCHANGED gone
             \/ gone' = gone \cup {i} /\ UNCHANGED cache
      PROVE  Good'
  BY <1>1, <1>2, <1>4, IsReturned DEF Holds
<1> HIDE DEF i
<1>5. \/ UNCHANGED <<took, cache, gone>>
      \/ /\ i \in took[w] /\ took' = [took EXCEPT ![w] = @ \ {i}]
         /\ \/ cache' = [cache EXCEPT ![i] = "again"] /\ UNCHANGED gone
            \/ gone' = gone \cup {i} /\ UNCHANGED cache
  BY DEF RestoreInquiry, PutBack, i
<1> QED BY <1>3, <1>4, <1>5

LEMMA RestoreTokenGood ==
    ASSUME BInv, Good, NEW w \in Workers, RestoreToken(w) PROVE Good'
<1> DEFINE x == job[w].token
<1>1. /\ pc[w] \in Unposted /\ Goto(w, "done") /\ "done" \in PCs \ {"mark"}
      /\ RequestTyped /\ x \in Items /\ UNCHANGED <<txns, marked, result, job>>
  BY OrderTyped DEF RestoreToken, Unposted, PCs, Detached, BInv, postgres, request
<1>2. NoNewMark /\ result[w] = 0
  BY <1>1, GoesUnmarked, UnpostedKnows
<1>3. CASE UNCHANGED <<took, cache, gone>>
  BY <1>1, <1>2, <1>3, NoneMoves
<1>4. CASE x \in took[w] /\ PutBack(w, x)
  BY <1>1, <1>2, <1>4, IsReturned DEF Holds, PutBack
<1> QED BY <1>3, <1>4 DEF RestoreToken

LEMMA LeaveGood ==
    ASSUME BInv, Good, NEW w \in Workers, Leave(w) PROVE Good'
<1>1. /\ pc[w] = "done" /\ Goto(w, "idle") /\ "idle" \in PCs \ {"mark"} /\ RequestTyped /\ Has(w)
      /\ UNCHANGED <<cache, gone, txns, marked>>
  BY DEF Leave, PCs, BInv, redis, postgres
<1>2. /\ took'[w] = {}
      /\ \A v \in Workers : v # w =>
           took'[v] = took[v] /\ result'[v] = result[v] /\ job'[v] = job[v]
  BY <1>1 DEF Leave, RequestTyped
<1>3. NoNewMark
  BY <1>1, <1>2, GoesUnmarked
<1>4. \A v \in Workers : \A x : Holds(v, x)' <=> Holds(v, x)
  BY <1>1, <1>2 DEF Holds, Has
<1>5. ASSUME NEW x \in Once PROVE Placed(x)'
  <2>1. Placed(x) /\ x \in Items
    BY DEF Good, AllPlaced, Once
  <2> QED BY <1>1, <1>4, <2>1, StaysPut, SpentSame
<1> QED BY <1>1, <1>3, <1>5, ItemsMove

LEMMA TimeoutGood ==
    ASSUME BInv, Good, NEW w \in Workers, Timeout(w) PROVE Good'
<1>1. /\ RequestTyped /\ Has(w) /\ "done" \in PCs \ {"mark"}
      /\ UNCHANGED <<cache, gone, txns, marked, job, result>>
  BY DEF Timeout, PCs, BInv, redis, postgres
<1>2. NoNewMark
  <2>1. Goto(w, "done") \/ Fail(w, "ERROR") \/ UNCHANGED pc
    BY DEF Timeout
  <2> QED BY <1>1, <2>1, GoesUnmarked, FailsUnmarked DEF NoNewMark
<1>3. CASE pc[w] # "qrisDel"
  <2>1. UNCHANGED took
    BY <1>3 DEF Timeout, BInv, RequestTyped
  <2> QED BY <1>1, <1>2, <2>1, NoneMoves
<1>4. CASE pc[w] = "qrisDel"
  <2>1. job[w].inq \notin Once /\ job[w].inq \in Items
    BY <1>1, <1>4, QrNotOnce DEF Has
  <2>2. /\ took'[w] = took[w] \cup {job[w].inq}
        /\ \A v \in Workers : v # w => took'[v] = took[v]
    BY <1>4 DEF Timeout, BInv, RequestTyped
  <2>3. \A y \in Items, v \in Workers : y # job[w].inq => (Holds(v, y)' <=> Holds(v, y))
    BY <1>1, <2>2 DEF Holds
  <2> QED BY <1>1, <1>2, <2>1, <2>3, OneMoves
<1> QED BY <1>3, <1>4

LEMMA CrashGood ==
    ASSUME BInv, Good, Crash PROVE Good'
<1>1. UNCHANGED <<cache, txns, marked>> /\ NoNewMark
  BY DEF Crash, postgres, NoNewMark
<1>2. gone \subseteq gone' /\ \A x : x \in gone' <=> x \in gone \/ Held(x)
  BY DEF Crash, Held, Holds
<1>3. \A x : ~Held(x)'
  BY DEF Crash, Held, Holds
<1>4. ASSUME NEW x \in Once PROVE Placed(x)'
  <2>1. Placed(x)
    BY DEF Good, AllPlaced
  <2>2. \A v \in Workers : ~Holds(v, x)'
    BY <1>3 DEF Held
  <2>3. Spent(x)' <=> Spent(x)
    BY <1>1, SpentSame
  <2> QED BY <1>1, <1>2, <1>3, <2>1, <2>2, <2>3 DEF Placed, Over
<1> QED BY <1>1, <1>2, <1>4, ItemsMove

-----------------------------------------------------------------------------
(* Redis on its own.                                                       *)

LEMMA ExpireGood ==
    ASSUME BInv, Good, NEW k \in IdemKeys, ExpireClaim(k) \/ ExpireResponse(k) PROVE Good'
<1>1. UNCHANGED <<cache, gone, txns, marked, pc, job, took, result>>
  BY DEF ExpireClaim, ExpireResponse, postgres, request
<1>2. NoNewMark
  BY <1>1 DEF NoNewMark
<1> QED BY <1>1, <1>2, NoneMoves

LEMMA ItemGood ==
    ASSUME BInv, Good, NEW x \in Items, Issue(x) \/ BecomeDue(x) \/ ExpireAgain(x) PROVE Good'
<1>1. UNCHANGED <<txns, marked, pc, job, took, result>> /\ cache \in [Items -> CacheStates]
  BY DEF Issue, BecomeDue, ExpireAgain, postgres, request, BInv, StoreTyped
<1>2. NoNewMark
  BY <1>1 DEF NoNewMark
<1>3. CASE UNCHANGED <<cache, gone>>
  BY <1>1, <1>2, <1>3, NoneMoves
<1>4. CASE /\ cache[x] # "absent" /\ cache' = [cache EXCEPT ![x] = "absent"]
           /\ gone' = gone \cup {x}
  BY <1>1, <1>2, <1>4, IsLost
<1>5. CASE cache[x] = "new" /\ cache' = [cache EXCEPT ![x] = "live"] /\ UNCHANGED gone
  <2>1. cache'[x] = "live" /\ \A y \in Items : y # x => cache'[y] = cache[y]
    BY <1>1, <1>5
  <2>2. \A y, v : Holds(v, y)' <=> Holds(v, y)
    BY <1>1 DEF Holds
  <2>3. Placed(x) => Placed(x)'
    BY <1>1, <1>5, <2>1, <2>2, SpentSame DEF Placed, Held, Over
  <2> QED BY <1>1, <1>2, <1>5, <2>1, <2>2, <2>3, OneMoves
<1>6. \/ UNCHANGED <<cache, gone>>
      \/ /\ cache[x] # "absent" /\ cache' = [cache EXCEPT ![x] = "absent"]
         /\ gone' = gone \cup {x}
      \/ cache[x] = "new" /\ cache' = [cache EXCEPT ![x] = "live"] /\ UNCHANGED gone
  BY DEF Issue, BecomeDue, ExpireAgain
<1> QED BY <1>3, <1>4, <1>5, <1>6

LEMMA NextKeepsGood ==
    ASSUME BInv, Good, [Next]_vars, "lostCommit" \notin Faults
    PROVE  Good'
<1>1. CASE UNCHANGED vars
  BY <1>1, NoneMoves DEF vars, NoNewMark
<1>2. ASSUME NEW w \in Workers, Step(w) PROVE Good'
  BY <1>2, ClaimGood, ConsumeTokenGood, ConsumeInquiryGood, GetDecodedGood, DelDecodedGood,
     ValidateGood, ExecutePostsGood, ExecuteFindsGood, MarkUsedGood, PersistGood,
     RestoreInquiryGood, RestoreTokenGood, LeaveGood DEF Step
<1>3. ASSUME NEW w \in Workers, Send(w) \/ ExecuteUnknown(w) \/ Timeout(w) PROVE Good'
  BY <1>3, SendGood, TimeoutGood DEF ExecuteUnknown
<1>4. ASSUME NEW x \in Items, Issue(x) \/ BecomeDue(x) \/ ExpireAgain(x) PROVE Good'
  BY <1>4, ItemGood
<1>5. ASSUME NEW k \in IdemKeys, ExpireClaim(k) \/ ExpireResponse(k) PROVE Good'
  BY <1>5, ExpireGood
<1>6. CASE Crash
  BY <1>6, CrashGood
<1>7. CASE AllAnswered
  BY <1>1, <1>7 DEF AllAnswered
<1> QED BY <1>1, <1>2, <1>3, <1>4, <1>5, <1>6, <1>7 DEF Next

(* Where no commit is lost, every token, and every inquiry that is not a   *)
(* decoded QR, is in one place, whatever else fails.                       *)
THEOREM Invariance ==
    ASSUME "lostCommit" \notin Faults
    PROVE  Spec => []PInv
<1>1. Init => PInv
  BY InitBase, InitGood DEF PInv
<1>2. PInv /\ [Next]_vars => PInv'
  BY NextKeepsBase, NextKeepsGood DEF PInv
<1> QED BY <1>1, <1>2, PTL DEF Spec

-----------------------------------------------------------------------------
(* What the items being in one place gives where no QR is decoded.         *)

LEMMA AllOnce ==
    ASSUME \A o \in Orders : o.rail # "QRIS", PInv
    PROVE  \A x \in Items : x \in Once /\ Placed(x)
BY DEF Once, PInv, Good, AllPlaced

LEMMA OneHolder ==
    ASSUME NEW x, Placed(x)
    PROVE  Cardinality(Holders(x)) = IF Held(x) THEN 1 ELSE 0
<1>1. CASE Held(x)
  <2>1. PICK w \in Workers : Holds(w, x)
    BY <1>1 DEF Held
  <2>2. Holders(x) = {w}
    BY <2>1 DEF Placed, Holders, Holds
  <2> QED BY <1>1, <2>2, FS_Singleton
<1>2. CASE ~Held(x)
  <2>1. Holders(x) = {}
    BY <1>2 DEF Held, Holds, Holders
  <2> QED BY <1>2, <2>1, FS_EmptySet
<1> QED BY <1>1, <1>2

(* GETDEL, the deferred undo and the posting: a token or an inquiry that   *)
(* was issued is usable, in the hands of one request, spent or lost, and   *)
(* only one of these, in the rails that consume with GETDEL and where the  *)
(* executor can tell whether it has posted.                                *)
THEOREM ItemsConserved ==
    ASSUME "lostCommit" \notin Faults, \A o \in Orders : o.rail # "QRIS"
    PROVE  Spec => []Conserved
<1>1. ASSUME PInv, NEW x \in Items, cache[x] # "new"
      PROVE  Cardinality(Holders(x)) + Cardinality({p \in {"usable", "spent", "gone"} :
                \/ p = "usable" /\ Usable(x)
                \/ p = "spent" /\ Spent(x)
                \/ p = "gone" /\ x \in gone}) = 1
  <2> DEFINE places == {p \in {"usable", "spent", "gone"} :
                \/ p = "usable" /\ Usable(x)
                \/ p = "spent" /\ Spent(x)
                \/ p = "gone" /\ x \in gone}
  <2>1. Placed(x) /\ cache[x] \in CacheStates
    BY <1>1, AllOnce DEF PInv, BInv, StoreTyped
  <2>2. Usable(x) <=> cache[x] # "absent"
    BY <1>1, <2>1 DEF Usable, CacheStates
  <2>3. Cardinality(Holders(x)) = IF Held(x) THEN 1 ELSE 0
    BY <2>1, OneHolder
  <2>4. CASE Usable(x)
    <3>1. ~Held(x) /\ ~Spent(x) /\ x \notin gone
      BY <2>1, <2>2, <2>4 DEF Placed, Over
    <3>2. places = {"usable"}
      BY <2>4, <3>1
    <3>3. Cardinality(places) = 1
      BY <3>2, FS_Singleton
    <3> QED BY <2>3, <3>1, <3>3
  <2>5. CASE Held(x)
    <3>1. ~Usable(x) /\ ~Spent(x) /\ x \notin gone
      BY <2>1, <2>2, <2>5 DEF Placed, Over
    <3>2. places = {}
      BY <3>1
    <3>3. Cardinality(places) = 0
      BY <3>2, FS_EmptySet
    <3> QED BY <2>3, <2>5, <3>3
  <2>6. CASE ~Usable(x) /\ ~Held(x)
    <3>1. \/ Spent(x) /\ x \notin gone
          \/ ~Spent(x) /\ x \in gone
      BY <2>1, <2>2, <2>6 DEF Placed, Over
    <3>2. places = {"spent"} \/ places = {"gone"}
      BY <2>6, <3>1
    <3>3. Cardinality(places) = 1
      BY <3>2, FS_Singleton
    <3> QED BY <2>3, <2>6, <3>3
  <2> QED BY <2>4, <2>5, <2>6
<1>2. PInv => Conserved
  BY <1>1 DEF Conserved
<1> QED BY <1>2, Invariance, PTL

(* What verification_tokens and the inquiries have marked used is neither  *)
(* usable nor in a request's hands again.                                  *)
THEOREM MarkedDead ==
    ASSUME "lostCommit" \notin Faults, \A o \in Orders : o.rail # "QRIS"
    PROVE  Spec => []MarkedIsDead
<1>1. ASSUME PInv, NEW x \in marked PROVE ~Usable(x) /\ Holders(x) = {}
  <2>1. Over(x) /\ x \in Items
    BY <1>1 DEF PInv, Good, MarksOver, BInv, StoreTyped
  <2>2. ~Held(x) /\ cache[x] = "absent"
    BY <1>1, <2>1, AllOnce DEF Placed
  <2> QED BY <2>2 DEF Usable, Held, Holds, Holders
<1>2. PInv => MarkedIsDead
  BY <1>1 DEF MarkedIsDead
<1> QED BY <1>2, Invariance, PTL

(* One PIN entry and one inquiry pay for one transaction, under whatever   *)
(* keys the client sends them.                                             *)
THEOREM OneTxnEach ==
    ASSUME "lostCommit" \notin Faults, \A o \in Orders : o.rail # "QRIS"
    PROVE  Spec => []OneTxnPerInquiry
<1>1. ASSUME PInv, NEW s \in txns, NEW t \in txns, s.inq = t.inq \/ s.token = t.token
      PROVE  s = t
  <2>1. s.inq \in Items
    BY <1>1, PaymentAssumption DEF PInv, BInv, TxnsSound, Items
  <2>2. s.inq \in Once
    BY <1>1, <2>1, AllOnce
  <2> QED BY <1>1, <2>2 DEF PInv, Good, TxnsApart
<1>2. PInv => OneTxnPerInquiry
  BY <1>1 DEF OneTxnPerInquiry
<1> QED BY <1>2, Invariance, PTL

-----------------------------------------------------------------------------
(* A client that sends its own items, and a key always with the same PIN   *)
(* entry; Redis answers, and the process lives.                            *)
OwnItems ==
    /\ \A o \in Orders : /\ TokenFor[o.token] = <<o.user, o.rail>>
                         /\ InquiryOf[o.inq] = o.user
    /\ \A o, r \in Orders : o.user = r.user /\ o.key = r.key => o.token = r.token

LEMMA NeverFinds ==
    ASSUME OwnItems, PInv, NEW w \in Workers
    PROVE  ~ExecuteFinds(w)
<1> SUFFICES ASSUME ExecuteFinds(w) PROVE FALSE
  OBVIOUS
<1>1. PICK t \in SameKey(w) : TRUE
  BY DEF ExecuteFinds
<1>2. PICK o \in Orders : t.user = o.user /\ t.key = o.key /\ t.token = o.token
  BY <1>1 DEF SameKey, PInv, BInv, TxnsSound
<1>3. job[w] \in Orders /\ t.user = job[w].user /\ t.key = job[w].key
  BY <1>1, OrderTyped DEF SameKey, K, PInv, BInv
<1>4. t.token = job[w].token
  BY <1>2, <1>3 DEF OwnItems
<1>5. Spent(job[w].token)
  BY <1>1, <1>4 DEF Spent, SameKey
<1> QED BY <1>5, AboutToPost DEF PInv, ExecuteFinds

LEMMA OnlyTime ==
    ASSUME OwnItems, Faults \subseteq {"late", "ttl"}, PInv, [Next]_vars, gone \subseteq due
    PROVE  gone' \subseteq due'
<1>1. CASE UNCHANGED <<gone, due>>
  BY <1>1
<1>2. "io" \notin Faults /\ "crash" \notin Faults /\ "lostCommit" \notin Faults
  OBVIOUS
<1>3. ASSUME NEW w \in Workers, ConsumeToken(w) PROVE UNCHANGED <<gone, due>>
  <2>1. TokenFor[job[w].token] = <<job[w].user, job[w].rail>>
    BY OrderTyped DEF OwnItems, PInv, BInv
  <2> QED BY <1>2, <1>3, <2>1 DEF ConsumeToken, Consume
<1>4. ASSUME NEW w \in Workers, ConsumeInquiry(w) PROVE UNCHANGED <<gone, due>>
  <2>1. InquiryOf[job[w].inq] = job[w].user
    BY OrderTyped DEF OwnItems, PInv, BInv
  <2> QED BY <1>2, <1>4, <2>1 DEF ConsumeInquiry, Consume
<1>5. ASSUME NEW w \in Workers, RestoreInquiry(w) PROVE gone' \subseteq due'
  BY <1>2, <1>5 DEF RestoreInquiry, PutBack, Skipped
<1>6. ASSUME NEW w \in Workers, RestoreToken(w) PROVE gone' \subseteq due'
  BY <1>2, <1>6 DEF RestoreToken, PutBack, Skipped
<1>7. ASSUME NEW w \in Workers,
             \/ Claim(w) \/ ClaimTaken(w) \/ Peek(w) \/ GetDecoded(w) \/ DelDecoded(w)
             \/ Validate(w) \/ ExecutePosts(w) \/ ExecuteRefuses(w) \/ MarkUsed(w)
             \/ Persist(w) \/ Release(w) \/ Leave(w) \/ Send(w) \/ Timeout(w)
      PROVE  UNCHANGED <<gone, due>>
  BY <1>7 DEF Claim, ClaimTaken, Peek, GetDecoded, DelDecoded, Validate, ExecutePosts,
              ExecuteRefuses, MarkUsed, Persist, Release, Leave, Send, Timeout, redis
<1>8. ASSUME NEW w \in Workers, Step(w) \/ Send(w) \/ ExecuteUnknown(w) \/ Timeout(w)
      PROVE  gone' \subseteq due'
  BY <1>1, <1>2, <1>3, <1>4, <1>5, <1>6, <1>7, <1>8, NeverFinds DEF Step, ExecuteUnknown
<1>9. ASSUME NEW x \in Items, Issue(x) \/ BecomeDue(x) \/ ExpireAgain(x)
      PROVE  gone' \subseteq due'
  BY <1>2, <1>9 DEF Issue, BecomeDue, ExpireAgain
<1>10. ASSUME NEW k \in IdemKeys, ExpireClaim(k) \/ ExpireResponse(k) PROVE UNCHANGED <<gone, due>>
  BY <1>10 DEF ExpireClaim, ExpireResponse
<1>11. CASE UNCHANGED vars \/ AllAnswered
  BY <1>1, <1>11 DEF vars, AllAnswered
<1> QED BY <1>1, <1>2, <1>8, <1>9, <1>10, <1>11 DEF Next, Crash

(* docs/01, lines 1255-1258: where Redis answers and the process lives,    *)
(* only time takes a token or an inquiry from a user whose orders are      *)
(* refused, late requests included.                                        *)
THEOREM NothingElseLost ==
    ASSUME OwnItems, Faults \subseteq {"late", "ttl"}
    PROVE  Spec => []NothingLost
<1>1. "lostCommit" \notin Faults
  OBVIOUS
<1>2. Spec => []PInv
  BY <1>1, Invariance
<1>3. Init => NothingLost
  BY DEF Init, NothingLost
<1>4. PInv /\ NothingLost /\ [Next]_vars => NothingLost'
  BY OnlyTime DEF NothingLost
<1> QED BY <1>2, <1>3, <1>4, PTL DEF Spec
=============================================================================
