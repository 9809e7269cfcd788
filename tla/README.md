# Verification of the BCA mobile API

TLA+ specifications of the parts of this Go server whose correctness depends on
interleavings, retries, crashes and caches, with the TLC models that check them
and the TLAPS proofs about them. The code is the reference: every definition
names, in `PROJECT.json` under `map`, the lines it stands for.

1. The system and its components
2. Modules: what models what
3. Runs: what is checked, with which bounds and fairness
4. Disagreements found between the code and what is said of it
5. Proofs
6. Abstractions, and what is not modelled
7. Plan

## 1. The system

One Go process (or several behind a balancer) serves a mobile banking app over
HTTP, with PostgreSQL for what must last, Redis for claims, tokens, caches,
queues and counters, and an in-memory WebSocket hub for the signaling of video
calls. Handlers of concurrent requests share nothing but these.

| Component | State | Operations | Hard because |
|---|---|---|---|
| Money rail executors | `accounts`, `transactions`, `account_mutations`, `daily_usage` | `ExecuteTransfer`, `ExecuteTopUp`, `ExecutePay` of the executors | SERIALIZABLE transactions that wait, conflict (40001), are retried, collide on the idempotency key (23505), time out; the pool; midnight |
| Payment services and idempotency | `idem:*`, `vtoken:*`, `inquiry:*`, `cache:qris:decoded:*` in Redis, `used_at` in Postgres | `CreateInquiry`, `CreateVerificationToken`, `ExecuteTransfer`, `ExecuteTopUp`, `Pay` | claim, consume, post, persist and undo are separate commands in two stores, any of which fails, is late or is cut off by a crash |
| Video call queue and escalation | `onboarding_video_calls`, `onboarding_video_call_escalations`, `onboarding_sessions`, the sorted set `onboarding:queue:active`, the cached session | `JoinQueue`, `AgentSignalingURL`, `SubmitResult`, `ListQueued`, `CancelSession`, `EscalationService.Update` | check-then-write without transactions by a nasabah and several agents; Redis that loses its data |
| Login sessions and access markers | `sessions`, live and inactive markers in Redis | login, `RefreshToken`, `Logout`, `LogoutAll`, `ChangePIN`, `IsSessionActive` | two copies of one truth, the marker warmed lazily from a row that may be revoked meanwhile; revocation in several commands |
| PIN lockout, rate limits | Redis counters and locks, `users` | `Login`, `VerifyPIN`, `ChangePIN` | concurrent failures at a limit |
| Biometric login | challenge in Redis, keys in Postgres | challenge, verify | one-time use |
| Signaling hub | rooms of two clients, their send buffers and pumps, one-time tickets | `HandleSignaling`, `Register`, `Unregister`, `RelayToPeer`, `SendToSession`, the pumps, the notices of the video call service | peers that come back while their old socket lives, a call taken while a socket registers, full buffers, pumps that end one another |
| Accounts, profile, caches | versioned cache keys, OTP of a profile change | reads, `UpdateProfile`, `UpdateTransactionLimit` | reads cached while a posting invalidates |
| Onboarding sessions, data, OTP | `onboarding_sessions`, its copy in Redis, the stored OTP | `CreateSession`, `resolveOnboardingSession`, `UpdateStep`, `CancelSession`, `SavePersonalData`, `VerifyOTP`, `SetCard` | the step and the flags are read from a cache and written back blind by requests that overlap |
| Onboarding identity checks | rows of OCR, biometric checks, the calls | `ProcessKTP`, `ProcessBiometric`, its escalation, the agent's result | a check recorded and its step not written; an escalation that skips a step |
| Onboarding submission and provisioning | idempotency slots, core banking, `users`, `accounts`, `onboarding_card_issuance` | `SetCredentials`, `Submit`, `ProvisionAccount`, `issueCard` | retries of a creation over two databases and one external system |
| CS desk | `cs_agents`, `cs_agent_sessions`, `cs_terminals`, `cs_terminal_readiness` | login and lockout, `SetPassword`, the three gates, `Activate`, `Deactivate`, `Logout` | concurrent logins and guesses, gates read before the terminal is written, another agent at the same terminal |
| Tickets, cards | their tables | ticket status, card limits | partial failures |
| Content, promotions, notifications, SMS, PDF, crypto, HTTP, configuration | - | - | read-only, pure or external |

How they interact: a payment service holds a claim in Redis while it calls an
executor, and undoes or completes its Redis work by the executor's answer. The
video call services read and write the onboarding session that the steps before
and after them also write, through the same cache: `Onboarding` has the session
from its creation to the account and takes a call as one result, `VideoCall` has
the call in full and takes the rest of the session as one step. The hub only
carries messages; the queue's rows decide who may connect, and the CS desk decides
who is an agent.

What makes each correct is listed with the properties below; every hazard the
code is exposed to, at its line, is in `PROJECT.json` under `hazards`, those not
yet covered with the reason.

## 2. Modules

| Module | Models | Extends |
|---|---|---|
| `LedgerBase` | requests, shards, legs, checks: the vocabulary of the rails | |
| `Postings` | the abstract specification of a rail: post whole, replay, or refuse, in one step | `LedgerBase` |
| `Ledger` | the three executors, statement by statement, on PostgreSQL | `LedgerBase` |
| `LedgerReconciliation` | the books: the chain of an account's mutations in the order of the commits, balanced legs (`v_unbalanced_transactions`), usage | `Ledger` |
| `ReconciliationView` | `v_ledger_reconciliation`, by date and time of BEGIN, beside the executors | `LedgerReconciliation` |
| `LedgerInvariant` | the inductive invariant | `Ledger` |
| `LedgerProofs` | the theorems about the invariant and the books | `LedgerInvariant`, `LedgerReconciliation`, `TLAPS` |
| `LedgerRefinement` | the theorems that compare with `Postings` | `LedgerProofs` |
| `Payment` | the three payment services around an atomic executor | |
| `PaymentProofs` | its inductive invariants and theorems | `Payment`, `TLAPS` |
| `VideoCall` | the e-KYC video call, from the queue to the decided case | |
| `VideoCallProofs` | its inductive invariant and theorems | `VideoCall`, `TLAPS` |
| `Logins` | the abstract specification of the sessions: opened, renewed while not ended, ended for good | |
| `AuthSession` | the login sessions of a user, in Postgres and by their markers in Redis | `Logins` (instance) |
| `AuthSessionProofs` | its inductive invariant, its theorems and the refinement of `Logins` | `AuthSession`, `TLAPS` |
| `AccountOpening` | the abstract specification of an opening: verified in order, asked for, opened, printed and answered once | |
| `Onboarding` | the opening of an account, from the terms to the card, by the requests of one session | `AccountOpening` (instance) |
| `OnboardingProofs` | its inductive invariant, its theorems and the refinement of `AccountOpening` | `Onboarding`, `TLAPS` |
| `CSDesk` | an agent's account, session, gates and terminal | |
| `CSDeskProofs` | its inductive invariant and theorems | `CSDesk`, `TLAPS` |
| `SignalingHub` | the sockets of one call, their pumps, the room and the notices | |
| `SignalingHubProofs` | its inductive invariant and theorems | `SignalingHub`, `TLAPS` |
| `MCLedger`, `MCReconciliationView`, `MCPayment`, `MCVideoCall`, `MCAuthSession`, `MCOnboarding`, `MCCSDesk`, `MCSignalingHub` | the instances for TLC | the above |

### Ledger

A worker is one call of an executor. `pc` names the statement it is about to
run: `begin` (BEGIN, destination, shards; the snapshot), `lock` (SELECT FOR
UPDATE, one row per step in ascending id), `check` (funds, usage, limits),
`insert` (the row of `transactions`), `upsert` (`daily_usage`), `commit`;
`fetch` is the 23505 path and `backoff` the pause after a 40001. What PostgreSQL
does is modelled as the executors rely on it:

- row locks are held to the end of the transaction (`held`), a reader of a
  locked row waits (the action is disabled);
- a row committed by another transaction after the snapshot is in `stale`:
  locking it fails with 40001 (`LockStale`), and so does upserting a changed
  row of `daily_usage` (`UpsertStale`); SSI may also fail any statement
  (`SerializationFailure`, the fault `ssi`);
- an INSERT waits for an uncommitted row with its key, then fails with 23505;
- effects appear whole at `Commit`, balances being *written from what was read*,
  as the code does (`UPDATE accounts SET balance = $2`), so that a wrong lock
  set would lose an update in the model too.

The three executors differ in the lock set, the credited account, the fee shard
and the limits: `LockSet`, `ShardChoices`, `UsesFeeShard`, `WithinLimit`. The
shard of an attempt is a hash of a fresh UUID, hence any of them.

`Postings` has no attempts, locks or snapshots. `Ledger` implements it under the
refinement mapping `ask <- job` and the identity elsewhere; `CommitLost` maps to
a `Post` answered with an error, 40001 and cancellations to `Refuse` or
stuttering.

Two modules look at what the executors leave. `LedgerReconciliation` numbers the
transactions as they commit, an order that is in no table, and says that in this order
each account's mutations continue one another. The view of migration 000009 has to
order them by what is in the table, the request's WIB date and `created_at`, the time of
BEGIN: `ReconciliationView` adds a clock, makes BEGIN a step before the snapshot, and
stamps the legs of every commit. The view does report accounts that are right
(section 4), so nothing in `LedgerReconciliation` is a claim about it.

### Payment

A worker is one request. `pc` follows `service_execute.go`: `claim`, `peek`,
`token`, `inquiry` (`qrisDel` for the two commands of QRIS), `validate`,
`execute`, then `mark`, `persist`; or `release`, `restoreInquiry`,
`restoreToken`, the deferred undo. `took` is the pair of variables
`restoreVToken`/`restoreInquiry`. The executor is one atomic step with the four
outcomes `Ledger` shows it to have: posted, found, refused, posted but unknown.
Redis values are `live` (as issued), `again` (put back, with a new time to live)
or `absent`. `due` says that the validity given at issue is over; `gone` is a
history variable that makes "lost" visible to `Conserved`.

### VideoCall

A process is one request of the phone, an agent or the agents' screen; each
single SQL statement or Redis command is an action, as no handler opens a
transaction. `Start` lets a client ask for what it can know of: its own session, a
call that was queued once, a case that exists. `GetCached`, `FindRow` and `StoreCached` are
the GET, the SELECT and the SET of `resolveSession`: what is stored may be older than
the row by then, a GET or SET that fails is passed over, and the caller goes on with
the session it was given (`Resume`). `Abort` cuts a request anywhere. `Advance` stands for the later
steps of the onboarding, which are not modelled.

### AuthSession

`current`, `minted` and `revoked` are the rows of `sessions`; `live`, `inactive`,
`index` and `rotated` the keys `session:active:{id}`, `session:inactive:{id}`,
`sessions:active:user:{user}` and `refresh:revoked:{hash}`. A process is one
request. An authenticated one (a call, a logout of one or of all sessions, a
change of PIN or access code) first runs `IsSessionActive` as the middleware
does: `IsActive`, `IsKnownInactive`, `FindActiveByID`, then `MarkInactive` or
`MarkActive` and `AddToIndex`; `Proceed` is its handler's beginning. A refresh is
`IsRevoked`, `FindByRefreshTokenHash`, `UpdateRefreshToken`, `MarkRevoked`, then the
marker; a login `Create`, then the marker. `RevokeByID`, `RevokeActive`,
`RemoveFromIndex` are `Logout`; `RevokeByUserID`, `ListIndex`, `DeleteListed` are the
end of all sessions, for its four callers. Each is one SQL statement or Redis
command, after which any other request may run, and each Redis command may fail
as its caller handles it. `known` are the refresh tokens the client was sent, from
which `Start` chooses; `out` is a history variable, the sessions a logout has
confirmed the end of.

`Logins` has no requests, markers or Redis: a login opens a session, whoever holds a
token of it may have it renewed until it is ended, a token is sent at most once, and an
end is confirmed only after it happened. `AuthSession` implements it under `tokens <- minted,
given <- known, ended <- revoked, confirmed <- out`. `Renew` asks for a token of the
session and not for its last, as the UPDATE does not either.

### Onboarding

A process is one HTTP request; `at[p]` holds the place it is at, the session it is
for and its copy of that session (`ses`). All but three kinds begin with `Resolve`:
`resolveOnboardingSession`, the cache first, and if it missed the row, which goes
into the cache afterwards (`Store`). `create` begins with the count of the live
sessions of the device, `submit` with its idempotency slot (`Claim`, the SETNX, and
for a slot that was taken `ReadSlot`, the GET of what it holds by then), and the
agent's result with the record of the call (`SubmitResult`). A step's action is named
as its service (`ProcessKTP`, `SavePersonalData`, `VerifyOTP`, `RecordPass`,
`PassVideoCall`, `SetCredentials`, `SetCard`): it checks the step of the COPY, puts
what it found on record (`ev`, the rows of the tables of OCR, data, biometrics,
calls and credentials) and goes on to `UpdateStep`, which writes step and flags of
the copy over whatever the row has become. `RefuseVerdict` and
`EscalateToVideoCall` are the liveness check that failed for good. `Refuse` is each
error that leaves nothing behind.

A submit then asks core banking (`core`, the accounts opened so far; an account
asked for and lost stays there), provisions the user in one transaction
(`ProvisionAccount`; the phone is UNIQUE), writes COMPLETED, claims the issuance of
the card by its unique row, asks for the print and answers. `prints` and `answers`
are history. The faults: `redis` (a SET or DEL fails), `evict`, `ttl` (a slot ends,
also under a submit that still runs), `db` (a commit reported as failed, a
statement that fails); `Abort` ends a request anywhere.

`AccountOpening` has no requests, steps, flags, slots or cache: a verification is put
on record when what comes before it is, core banking is asked for an account when
everything is on record, one applicant becomes the user of one account, and only this
user is answered and has a card printed, once. The liveness check has an order of its
own: an agent may see an applicant without it, but nobody gets an account without it.
Its variables are `ev`, `core`, `users`, `prints` and `answers` of `Onboarding`, by
which nothing of the session's row or of its copies is seen. Its `Ask` may happen any
number of times: core banking is asked again by each retry, and an account that was
asked for and lost is not taken back.

### CSDesk

`agent`, `term`, `sess` and `gate` are `cs_agents`, `cs_terminals`,
`cs_agent_sessions` and `cs_terminal_readiness`. A login reads the agent
(`FindForLogin`), verifies the password, and either counts the failure
(`RecordLoginFailure`, one UPDATE that also locks) or opens a session in a
transaction of two statements: `Supersede` ends the open session it can see,
`Insert` adds its own, which the partial unique index refuses if another login's
came between; then `ClearLoginFailures`. `SetPassword` too reads the agent first
(`FindForPassword`), and then overwrites hash, count and lock. `UpdateAgent` leaves count
and lock as they are. A gate is `UpsertGate`, followed by
`promoteIfReady` in its three statements (`ReadStatus`, `ReadGates`, `SetStatus`).
`Readiness` and `Activate` are the two halves of going ONLINE, `End` and
`Deactivate` those of a logout. `AgentSignalingURL` is the taking of a call as the
router wires it. A session of 9 hours, a gate of 8 and a lock of 15 minutes end at
any time.

### SignalingHub

A ticket is good for one socket. `read` is the goroutine of `HandleSignaling` (the
ticket, `Register`, `OnNasabahConnected` as `LookUp` and `Welcome`), then the read
pump; `write` the write pump; `done` the channel by which `Register` ends the socket
it replaces; `line` the connection; `buf` the number of messages in the send
buffer. What a message says is left out but for `agent_assigned`, of which `heard`
says whether it was put into this socket's buffer. `TakeCall` is `AgentSignalingURL` up to
`MarkActive`; from there it signs a ticket and tells the room (`Announce`), or ends with
the call taken and nobody told (`TakeFails`: the UPDATE took effect and was answered
with an error, the request was cut off, no ticket could be signed). `SubmitResult` and `CallEnded` the
end of the call.

## 3. Runs

Ordinary runs, all exhaustive:

| Run | Bounds | Shows |
|---|---|---|
| `ledger_rails` | 2 workers, 3 calls, 3 attempts, 8 accounts, every rail, all faults | `TypeOK`, `OneTxnPerKey`, `NoOverdraft`, `DailyLimitKept`, `NoWaitCycle`, `AnswerIsOwn`, `Reconciles` (`MutationsChain` in the order of the commits, `LegsBalance` and `UsageIsSpent`) |
| `ledger_refines` | 2 workers, 3 calls, 2 days, crossing transfers and a duplicate, fair | `RefinesPostings`, `Answered` |
| `payment_faults` | 2 workers, 2 requests, crash, timeout, failing commands, expiry | `TypeOK`, `Conserved`, `OneTxnPerInquiry`, `MarkedIsDead` |
| `payment_rails` | 2 workers, 3 requests, two rails with one key, crash, timeout, unknown commits, fair | `AnswersAgree`, `ClaimsEnd` |
| `payment_refusals` | 2 workers, 2 requests, one order per rail, timeout, expiry | `NothingLost` |
| `videocall_desk` | phone, three agents of whom one raises the case, 1 call, 1 case, failing commands | `TypeOK`, `HolderDecides`, `DecidedOnce`, `PassedVerification`, `RecordedStays` |
| `videocall_recovers` | phone, desk, 2 calls, one request cut off, Redis flushed, fair | `SeenAgain`, `StaleReleased`, `GoneTakesCall` |
| `auth_sessions` | 1 session, 3 refresh tokens, 2 requests at a time of any kind, all faults, fair | `TypeOK`, `RefusedIsRevoked`, `ConfirmedEnds`, `RefinesLogins`, `RevokedIsForgotten` |
| `onboarding_opening` | 1 session, 2 requests of any kind, one beginning while the other runs, one cut off, 2 accounts at core banking, all faults | `TypeOK`, `OpenedOnce`, `SubmittedIsOpened`, `RefinesOpening` |
| `cs_desk` | 2 agents, 2 terminals, 2 sessions, 2 gates, a lock after 2 failures, 2 requests, one of them beginning while the other runs, one mishap | `TypeOK`, `OneDesk`, `OnlineIsVouched`, `GuessBound` |
| `signaling_hub` | the customer comes twice, one agent, a request of which may end before its ticket, a buffer of one, fair | `TypeOK`, `AgentAnnounced`, `PumpsEnd` |

Why the bounds suffice. The hazards are between two actors, and often one more
retry: two workers and three calls give a conflict, its retry and a duplicate of
either. Balances of 4 with amounts of 1 to 3 put both the funds and the limits at
their edge. Account numbers alternate customers and shards so that the lock order
interleaves them. Two calls of one session are needed to lose, release and
replace one, three agents to raise a case and have two others decide it at once.
The sessions of a user meet only in the index and in the statement that revokes all
of them: one session, whose index may be lost, has the interleavings of its own
requests, and three tokens allow two rotations and the reuse of either old token.
Two requests of one onboarding session are what its hazards are between, a stale copy
written over a newer row, and as soon as one ends another may begin: the length of
a history is not bounded, only how often requests overlap (once) and are cut off
(once). Two agents of whom one may do everything and one may take the other's
terminal, with two sessions, have a superseded session, a second login and a
takeover; the third gate is like the second. A buffer of one is full as soon as
one message waits; with a buffer of two the safety properties hold in all of its 1.5 million
states. What the bounds cut is repetition, not a new kind of step; the theorems of section 5
hold without bounds.

Every property of these runs is broken by a plausible change of the code (a lock
dropped, a DEL forgotten, a guard removed): the operators marked *mutant* in the
modules, listed under `mutants`.

The faults a run leaves out are those under which its property is not promised.
`Conserved` and `OneTxnPerInquiry` do without unknown commits (`lostCommit`), for
which section 4 has the counterexample; `NothingLost` also without failing Redis
commands and crashes, against which the code has no second copy of what it consumed.

Fairness. `Ledger!FairSpec`: each executor's next statement is taken if it stays
enabled (a goroutine is scheduled; PostgreSQL grants a free lock; the pool a free
connection); nothing of callers or faults. `Payment!FairSpec`: requests run, and
Redis expires a claim nobody keeps. `VideoCall!FairSpec`: requests run, the app of
a nasabah asks for its place again (it polls), and the agents' screen refreshes its
list, each time covering every member - strong fairness per member, since a
member may leave and come back between two refreshes. `AuthSession!FairSpec`:
requests run, and Redis expires the live marker of an ended session, which has a
time to live (for all others nothing is assumed to expire). `SignalingHub!Fairness`:
the goroutines of a socket go on. A query of `OnNasabahConnected` answers or fails; a
read on a socket that is closed, or silent past its deadline, returns; the ticker
ticks, so that a write pump with nothing to write finds its socket closed; `select`
does not pass over a channel that stays ready. Nothing is assumed of the apps.

Deadlock is checked in the runs of `AuthSession`, `Onboarding` and `CSDesk`, and of
`Ledger` and `Payment`, whose only quiet end is the action `AllServed`/`AllAnswered`.
`signaling_hub` leaves it out: the system stops when every ticket is used, the call
is over and all sockets are closed.

## 4. Disagreements

The run `auth_logged_out` is expected to violate the one property it checks, which
a document states; the quotation is in `PROJECT.json` under `findings`:

| Run | What is said | What the code does |
|---|---|---|
| `auth_logged_out` | docs/01:2832: the access token of a session that was logged out is not valid any more | a refresh that rotated before the logout sets the live marker after it; the token works until the marker or the token expires |

Six more have a `.cfg` of their own beside the modules, to be run as
`tlc -config <name>.cfg <MC module>`; each ends in a violation of the named property:

| Configuration | Property | What is said | What the code does |
|---|---|---|---|
| `ledger_replays` (`MCLedger`) | `NoPoolDeadlock` | L-04, L-05 of docs/06-LEDGER: no deadlock | as many duplicates as connections wait for a second connection each, until they time out |
| `ledger_view` (`MCReconciliationView`) | `ViewIsEmpty` | migration 000009:328-329 and 355-357, "Any row returned by this view is a ledger defect", "Expected: empty"; docs/06-LEDGER:144 and 249 (L-06) | the view takes for the latest mutation the one of the greatest date and time of BEGIN. Two attempts begin, the second reads its snapshot and commits, then the first takes its own and commits on top: the view compares the balance with the second's `balance_after`. Midnight does the same: a request of the old day commits after one of the new |
| `payment_lost_commit` (`MCPayment`) | `RestoredOnlyIfUnwritten` | service_execute.go:78: put back only if nothing was written | token and inquiry are also put back after an unknown commit that succeeded |
| `videocall_two_agents` (`MCVideoCall`) | `OneAgentPerCall` | video_call_service.go:750: one call, one agent | the second pickup overwrites the first |
| `cs_desk_any_terminal` (`MCCSDesk`) | `OnlyOnlineTakes` | video_call_service.go:717, "Rule 4, dan ini SATU-SATUNYA tempatnya ditegakkan"; terminal_service.go:356; docs/01:2342-2343 | the router builds the service without its terminals (router.go:488-505) and the handler an agent without its terminal (onboarding_handler.go:933): the check is skipped, any agent with a key takes a call from anywhere |
| `onboarding_escalated` (`MCOnboarding`) | `RecoveredByAgent` | biometric_service.go:387-389 and docs/06-BUKA-REKENING:1240-1246: an applicant whose liveness check failed for good goes on with an agent | the escalation does not set the flag of BIOMETRIC (line 391) and nothing else does for that session; at REVIEW every submit is refused with ONBOARDING_INCOMPLETE |

Further disagreements that the models show without a run of their own, each with
the shape of its shortest trace:

- I-01 of docs/06-LEDGER:253, a replay after 24 hours gets the original transaction:
  its verification token and its inquiry are consumed before the executor is called
  (`ConsumeToken`), and the original's are long gone; it gets the token's error.
- L-04, a retried 40001 does not leak: two commits of others on the shard of a
  top-up between its snapshots and its locks, three times, and the executor
  returns the 40001 (`answer.code = "SERIALIZATION"` is reachable without faults).
- idempotency.go:57, a response is kept for 24 h: a late request, its claim
  expired and taken over, releases the key unconditionally after the other has
  stored its response. `OneTxnPerInquiry` and the unique key still hold.
- docs/01, lines 1255-1258, an item is usable until its validity is over: what a
  failed request puts back has a new, full time to live.
- L-03, a top-up posts: `ExecuteTopUp` reads the source account from the metadata
  of an inquiry whose form in Redis has none, so each top-up read back from
  Redis is refused (`Validate`).
- video_call_service.go:505 and 526, a recorded result stands and a cancelled call
  has none: `UpdateResult` has no condition on the status, so a report in flight
  replaces the result of another, or completes a cancelled call.
- video_call_service.go:506, a session that has reached REVIEW is not dragged back
  to CREDENTIALS: two reports pass `ResultRead`, the first goes through and the
  session advances, the second writes its step (`StepWrite`) without a condition.
- docs/01:2883, an open case keeps the nasabah out of the queue: not a case raised
  between `JoinQueue`'s check and its insert.
- video_call_service.go:489-491 and docs/06-BUKA-REKENING:1529-1533, NEED_REVIEW
  has its case and APPROVED leads to CREDENTIALS: not if the request stops after
  `UpdateResult`; the replay guard answers every retry from the row alone.
- session_cache.go:159, `RevokeAllActive` clears every live marker of a user: not
  one that the index has not got. `MarkActive` gives the index the time to live of
  the session it marks, which for a re-warmed one is shorter than that of others.
- service.go:569-572, a stolen token does not outlive a change of the PIN: it does
  if revoking the rows fails, which is logged only (`RevokeByUserID`).

- onboarding_cache.go:466-467 and docs/06-BUKA-REKENING:2068, of two submits of one
  session one reaches core banking: both do under different
  keys, without one, or when the 60 s of the claim are over while the first still
  runs. The UNIQUE phone leaves the second account at core banking without a user
  (`core` is 2, `OpenedOnce` holds).
- The limit of sessions per device is a count, then an insert: two requests pass it.
- A cancelled session comes back in Redis when a request that read it before stores
  its copy; its steps then find no row to write.
- A user that is committed while its step is not (a lost answer, a failing
  UpdateStep): each retry asks core banking again and is refused by the
  provisioning; the session stays at REVIEW.
- lockout.go:52-83: concurrent wrong PINs at the limit escalate the level once each,
  and a later SET of 30 minutes may replace one of 24 hours; if the lock cannot be
  stored, the answer is 423 all the same.

Not promised anywhere, but worth knowing. At the CS desk: a session that is
superseded leaves its terminal ONLINE in the agent's name, so that activation at the new one
is refused until somebody deactivates the old; the status written by
`promoteIfReady` takes a terminal off ONLINE that went ONLINE since it was read;
`Logout` and `Deactivate` take a terminal offline whoever holds it by then; an
activation in flight during the logout leaves a terminal ONLINE without a live
session; a failure that could not be counted is a free guess. In a call: a socket that was replaced still relays
what it reads; one that registers after the call ended is told its position, never
`call_ended`; a `queue_update` may follow `agent_assigned`; what waits in a
replaced socket's buffer is lost. Of the login sessions: of two refreshes with one token both
succeed, and the pair answered first is dead, as `UpdateRefreshToken` has no
condition on the old hash.

## 5. Proofs

`LedgerProofs` proves, for every set of accounts, users, keys, requests, workers
and days, every number of attempts, pool size and set of faults,

- `Invariance`: `Spec => []IInv`
- `TypeCorrect`, `KeysAreUnique`, `FundsSuffice`, `LimitsHold`:
  `Spec => []TypeOK`, `[]OneTxnPerKey`, `[]NoOverdraft`, `[]DailyLimitKept`
- `NoDeadlock`: `Spec => []NoWaitCycle`
- `BooksReconcile`: `Spec => []Reconciles`

and `LedgerRefinement`

- `Refinement`: `Spec => RefinesPostings`, the executors implement `Postings`
- `AnswersAreOwn`: `Spec => []AnswerIsOwn`.

Assumptions: the named ASSUMEs of `LedgerBase` and `Ledger` - accounts are
numbered and finitely many, active accounts are customers', shards and fee shards are disjoint from
each other and from customers (`RowsAssumption`, migration 000009), requests
debit customers, opening balances cover the holds, limits are naturals.

The invariant. None of these is inductive. A commit writes a balance computed
from `seen`; that it leaves the source above its hold needs `seen` to equal the
balance *now*, which holds because the row is locked from the read to the commit
and no other worker locks it: `LocksHeld` (locks exclude one another, and what is
held was read and is unchanged), `JobsInPlace` (a worker in a transaction has a request
and a drawn shard; past `lock` it holds every row it will touch), `ChecksPassed`
(past `check` the funds and the limit hold of what was read). The limit is read
under no lock: `UsageCurrent` says that a worker whose row of `daily_usage` is not
`staleUse` still has the committed value, and one past `upsert` is not stale, since
another commit of the same row would have had to pass the upsert in between.
Likewise `KeysReserved`: past `insert` no committed transaction and no other
worker past `insert` has the key. `IInv` is their conjunction; TLC confirmed it on
the instances first, then each action is one step of the proof, with the commit
split per conjunct. The lemmas before it state what `EndAttempt`, `Fail` and
`Serialization` leave alone.

`NoWaitCycle` needs one part more, `Ascending`: a worker that is still locking holds
only rows below those it wants. Suppose every worker of a nonempty set waited for
another one of the set. Then none is at `upsert`, which waits for `commit` alone, and
none at `insert`, which waits for `upsert` or `commit`; all wait for rows, and the one
that asks for the greatest waits for a holder that asks for a greater one still
(`WaitsEnd`). That there is a greatest among finitely many rows is itself a lemma
(`HasGreatest`): the row with the fewest requested rows above it, from the
well-foundedness of < on the naturals and not by an induction. The set of workers may
be infinite. Waits for a connection of the pool are not part of `NoWaitCycle`, and
`ledger_replays` shows that they can close a circle.

`Reconciles` orders the mutations by commit: that no update is lost and no leg starts from
a balance that was not there is a fact about the executors, whatever the days of the
requests. It does not make `v_ledger_reconciliation` empty, which orders them
otherwise (`ledger_view`). It speaks of sums over sets of any size: the changes of a transaction's legs,
the debits of a day. `LedgerReconciliation` writes them as a recursive function over the
numbers that accounts and transactions have anyway, and `LedgerProofs` proves the laws
the books need: a sum below `n + 1` is the one below `n` and its term (`SumBelowSteps`),
it depends on the terms only (`SumOverSame`), a new member adds its term
(`SumOverAdd`), two or three legs sum to what they say (`SumOfTwo`, `SumOfThree`). None
uses an induction theorem of the library, whose parameter is an operator: each takes the
least number for which its claim fails (`HasLeast`, from the well-foundedness of < ) and
shows the claim for it from the number before; that the recursive function exists at all
is of this form too (`AddsExist`, `AddsAgree`). The invariant is then `BooksInv`:
`Reconciles` and the fact that what a transaction debited is a natural number
(`DebitsCounted`), with `IInv` beside it. Only a commit writes books. It numbers its
transaction above all others, so that in every account's chain it comes last; it starts
each leg from `seen`, which `LocksHeld` makes the balance of that moment, where the chain ended
(`ChainStep`); its legs sum to zero by the rail's own arithmetic (`LegsOfPosting`); and
the usage it writes is the committed one plus its total, since `UsageCurrent` rules out
that another commit came between (`SpentStep`).

The refinement. `Ask`, `Refuse`, `Replay`, `Post` and `Close` of `Postings` are
matched action by action (`StepRefines`), given `IInv` and `AnswersInPlace`:
an idle worker has neither a job nor an answer, one at a statement no answer
yet, one that is done has its answer. The
step that needs the invariant is the commit (`CommitPosts`): `Postings` writes the
balances from those of this moment, the code from those it read, and `LocksHeld`
makes the two equal (`SeenIsCurrent`), as `ChecksPassed`, `UsageCurrent` and
`KeysReserved` make the abstract guards true at the commit (`AtCommit`).

`AuthSessionProofs` proves, for every set of sessions and requests, every bound on
tokens and set of faults,

- `Invariance`: `Spec => []IInv`
- `TypeCorrect`, `RefusalsAreRight`, `ConfirmationsHold`: `Spec => []TypeOK`,
  `[]RefusedIsRevoked`, `[]ConfirmedEnds`
- `EndedStaysEnded`: `Spec => EndedNotRefreshed`
- `SessionsImplementLogins`: `Spec => RefinesLogins`, the refinement of `Logins`.

Assumption: `SessionAssumption`, the types of the constants. `IInv` adds to `TypeOK`
and `ConfirmedEnds` that a revoked session or one whose token is known has its row
and that a marker of a dead session stands only for a revoked one (`RowsStay`), and what each request has learnt (`Learnt`): past a check of the row
the session exists, at `markInactive` it is revoked, at `del` and `rem` a logout has
revoked it, after `revokeAll` a logout of all sessions has revoked all it was asked for. That it
stays so while others run is what needs proof: `revoked` only grows, so the
knowledge of a revocation is stable where that of its absence is not. This is the asymmetry
behind the run `auth_logged_out`: a negative marker may be written late, a positive
one may not. `EndedNotRefreshed` follows from `ConfirmedEnds` and the condition
`revoked_at IS NULL` of the UPDATE.

The refinement matches each statement and each Redis command with one step of `Logins`
or none (`StepRefines`). What it needs beside `IInv` is `TokenInv`: the row has the last
token that was made, though `UpdateRefreshToken` does not ask which one it replaces;
a token that was made and not sent is in the hands of one request only; the session of
a refresh is one whose token the client was given. Two refreshes that overlap thus get
different tokens, of which the row knows the later. `EndedNotRefreshed` is what
`RefinesLogins` implies for a confirmed end, and is stated for its own sake.

`OnboardingProofs` proves, for every set of sessions, requests, cards and keys, every
bound and set of faults,

- `Invariance`: `Spec => []IInv`
- `TypeCorrect`, `OpenedVerified`, `OpenedOnceEver`, `SubmittedOpened`:
  `Spec => []TypeOK`, `[]OpenedIsVerified`, `[]OpenedOnce`, `[]SubmittedIsOpened`
- `FlagsBacked`: `Spec => []FlagsAreBacked`, the lemma behind the second.
- `StepsImplementOpening`: `Spec => RefinesOpening`, the refinement of `AccountOpening`.

Assumption: `OnboardingAssumption`, the types of the constants. Every write of the row is
of a copy that may be old, so no invariant can say that copy and row agree. What makes it
right is that a copy need not be current, only `Sound`: each flag in it stands for
something on record, and `submitted` for a user. Records and users are only added
(`Lasting`), so a sound copy stays sound however long it is held and wherever it is
written (`CopiesSound`, `Knows`). At `provision` all verifications are on record,
which follows from the flags of a copy and not from the row; past it the account in
hand is a user's. That there is one (`OneUser`) rests on the UNIQUE phone alone,
that a card is asked for once (`CardsOnce`, `OnePrinter`) on the unique row of the
issuance: who is at `print` inserted it.

The refinement matches each statement and each call of core banking with one step of
`AccountOpening` or none (`NextRefines`). That a verification happens in order has to be
shown of a request that checks the step of a copy which may be old. `RInv` therefore
adds to `IInv` that the step of any copy, however old, is no further than the records
(`Ready`: what comes before this step is on record); that an OTP is stored only for a session
whose data is on record; that a request which escalates, or holds the result of a call,
is of a session whose OTP was verified; and that the account a submit holds is one that was opened. Records only grow
(`Grows`), so all of this outlasts whatever other requests write. `OpenedIsVerified` is
what `RefinesOpening` implies for the user, and is stated for its own sake.

`CSDeskProofs` proves, for every set of agents, terminals, sessions, gates and
requests,

- `Invariance`: `Spec => []IInv`
- `TypeCorrect`, `OneDeskEach`, `OnlineVouched`, `GuessesBounded`: `Spec => []TypeOK`,
  `[]OneDesk`, `[]OnlineIsVouched`, `[]GuessBound`.

Assumption: `CSDeskAssumption`; the requests are finitely many, as the bound on the
guesses counts them. `IInv` adds to the first three that an unused session id
belongs to nobody and has no gates (`FreeSessions`), and what each request knows
(`Knows`): the session it carries is its agent's at its terminal, and past
`Readiness` that session has passed every gate. Passwords, the owner and
terminal of a session, and a gate once passed (it may expire, but stays a row) are never taken back, so that this lasts while
others log in, take the terminal over or leave. `OneDesk` is the unique indexes', in
`Insert` and `Activate`; the statements that look first decide nothing.
`GuessBound` needs a count instead (`Guarded`): while an agent is not locked, the
guesses are in its count of failures and below the limit; once it is, the guesses and
the wrong passwords that passed the look at the lock and are not counted yet
(`Uncounted`) are together at most the limit and the requests less one, and nothing
joins them, as who looks now finds the lock.

`PaymentProofs` proves, for every set of orders, tokens, inquiries and requests, on
all rails and with all faults,

- `BaseInvariance`: `Spec => []BInv`
- `TypeCorrect`, `AnswersAgreed`: `Spec => []TypeOK`, `[]AnswersAgree`;

if no commit is lost (`"lostCommit" \notin Faults`),

- `Invariance`: `Spec => []PInv`;

if moreover no order is of QRIS,

- `ItemsConserved`, `MarkedDead`, `OneTxnEach`: `Spec => []Conserved`,
  `[]MarkedIsDead`, `[]OneTxnPerInquiry`;

and if orders name items of their own user, a key always with the same token
(`OwnItems`), requests are only late and values only expire,

- `NothingElseLost`: `Spec => []NothingLost`, on all rails again.

Assumption: `PaymentAssumption`, the types of the constants. `BInv` says what a
request holds at each place (`Has`) and what the executor has told it (`Told`), that
transactions are one per key (`TxnsSound`) and that a stored response names the
transaction of its key (`StoredSound`). A transaction never goes, so that an answer
stays right whatever becomes of the claim: `AnswersAgree` does not rest on the claim
at all, only on the unique key. `PInv` adds that each item is in one place
(`Placed`: usable, with one request, spent or gone) and that only what is over is
marked (`MarksOver`). It speaks of `Once`, the tokens and those inquiries that a GETDEL
consumes; the decoded QR of a QRIS payment is read by a GET and removed by a DEL, two
requests may both have it, and it is the token that stands between them and a second
payment (`TxnsApart` has the tokens of all rails). The hypotheses are the limits of
the code: an unknown commit gives back what was spent (`payment_lost_commit`), and
a crash or a failing Redis command loses what was in hand. They are satisfied by the
runs that check these properties.

`VideoCallProofs` proves, for every set of sessions, agents and requests, every number
of calls and cases and every set of faults,

- `Invariance`: `Spec => []IInv`
- `TypeCorrect`, `HolderDecided`, `PassedVerified`: `Spec => []TypeOK`,
  `[]HolderDecides`, `[]PassedVerification`
- `RecordedForGood`, `DecidedForGood`: `Spec => RecordedStays`, `Spec => DecidedOnce`.

Assumption: `VideoCallAssumption`. No handler opens a transaction and most writes have
no condition, so `IInv` says of each request what it may still rely on when it writes
(`Knows`): its call and its case are of its session, the case it will write was not
raised by its agent, and one that will write a step has a verification behind it. The
facts that last are collected in `Lasting` (the session of a call and of a case, who
raised it, an approval); every action keeps it, and what it keeps, the others' `Knows`
keep. What does not last, the status and the holder of a case, no request relies on:
the UPDATE asks for them again, and `CaseSound`, `DecidedOnce` and `HolderDecides` rest
on that condition.

`SignalingHubProofs` proves, for every set of tickets, size of the send buffer and
order of the goroutines,

- `Invariance`: `Spec => []IInv`
- `TypeCorrect`, `Announced`: `Spec => []TypeOK`, `[]AgentAnnounced`.

`IInv`: a room holds registered sockets of its side (`RoomHolds`), the latest socket of
a side is in the room until it is gone itself (`LatestHeld`: the late `Unregister` of
the one before compares before it deletes), and a customer's socket that has looked
was told, once an agent has a ticket to the call (`Told`). Either `OnNasabahConnected` reads the
call ACTIVE and tells, or it read it before the UPDATE, and then the socket is
registered when `Announce` runs: register first, then look is the order that makes
it right. `Asking`: a request between `MarkActive` and its ticket names a ticket nobody has
yet, and while the call waits there is neither such a request nor an agent with a ticket.
Requests that end before their ticket (`TakeFails`) leave a call of which
`AgentAnnounced` says nothing: to a customer who was there already, the agent's next
request or the own next connection brings the notice.

The proofs share one shape. What a step may do to the state is said once, in a lemma
per kind of step; what every request knows is a predicate of its own place in the
code, kept by its own steps and, because it speaks only of what lasts, by all others.

Only model-checked: liveness (`Answered`, `ClaimsEnd`, `SeenAgain`, `StaleReleased`,
`GoneTakesCall`, `RevokedIsForgotten`, `PumpsEnd`), as TLAPS handles neither fairness nor
ENABLED; and the violations of section 4, each of which is one trace. Every invariant, action
property and refinement of the ordinary runs is a theorem. No module declares a RECURSIVE
operator.

## 6. Abstractions

- Amounts are small naturals: decimals are exact in the code, and no operation
  rounds. Overflow does not arise.
- Reference numbers, receipts, audit rows, notifications and response bodies are
  left out, except that a response names its transaction.
- A multi-row `SELECT ... ORDER BY id FOR UPDATE` is a step per row.
- In `Payment`, the executor's refusals are one nondeterministic outcome and
  time is only the order of events: the request's timeout, a claim's expiry
  not before its request is late, an item's validity.
- In `VideoCall` the operating hours are open, the schedule and the signaling are left
  out, and the steps before VIDEO_CALL are the initial state.

- In `AuthSession` the credentials of a login and of a change of PIN are right, a
  session's own seven days do not end, an access token stands for its session
  whatever its own 15 minutes, and the hash `session:{user}:{device}` and its index,
  which no code reads, are left out.

- In `Onboarding` the sessions are of one phone, whose UNIQUE index is what keeps a
  second user out; documents, thresholds, the OTP's attempts and resends, the
  challenge of the liveness check and its cooldowns are the refusal that may come
  at any step; a session's 24 hours do not end; the call is one result.
- In `CSDesk` the supervisor's token, the probe and the pact are a gate that passes or
  is refused; a wrong current password in `SetPassword` is refused, and not
  counted; the customer search, the dashboard and the audit change nothing of it.
- In `SignalingHub` a message is one place in a buffer, and there is one session: the
  hub's rooms share only a mutex that is never held while it waits.

Components with status `not_modelled` in `PROJECT.json` say why: some are planned
below, the rest are pure, read-only, external or deprecated.

## 7. Plan

Done: the executors, the payment services, the login sessions, the onboarding, the
video call, the CS desk and the signaling hub, each with its proofs.
Next, in order:

1. That the outcomes of `Payment`'s atomic executor are those `Postings` allows, as a
   refinement.
2. `PinLockout`: concurrent failures, levels, the copy in Postgres.
3. `BalanceCache`: versioned keys against postings and their invalidation.
4. `CardLimits`, `Tickets`, biometric login: smaller protocols with partial failures.
