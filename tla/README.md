# Mizanly: specifications, model checking and proofs

TLA+ specifications of the parts of Mizanly whose correctness depends on how
concurrent requests, webhooks, timers, restarts and failures interleave: the call
server, the key server with the app that fills it, and the state machines of the
API and the app that several actors change at once (payments, memberships, orders,
follows, presence, sending of messages, scheduled publishing).

Run everything in this directory: `tlc -workers 2 -config call_pair.cfg MCCallServer`
checks a run (the module of each cfg is in the table of section 3),
`tlapm CallServerProofs.tla` checks the proofs of a module.

## 1. The system

| Part | State | Operations | Talks to |
|---|---|---|---|
| Call server, Go (`apps/livekit-server`) | `call_sessions`, `call_participants`; Redis keys of webhook events | create, token, delete, leave, kick, mute, egress, ingress; webhooks; ringing cleanup | LiveKit (room service, webhooks), the API (pushes), PostgreSQL, Redis |
| Key server, Go (`apps/e2e-server`) | identity keys, signed and one-time pre-keys, cached Merkle tree, sender keys | register, upload, fetch a bundle, prove inclusion, clean up | PostgreSQL, clients |
| API, NestJS (`apps/api`) | some 200 tables, Redis, BullMQ queues | about 85 modules: content, follows, messages, payments, gifts, commerce, scheduling | PostgreSQL, Redis, Stripe, Meilisearch, push services |
| Signal client (`apps/mobile/src/services/signal`) | session records, ratchets, sender keys, offline queue, caches | initiate, encrypt, decrypt, retry, rotate | key server, API sockets |
| Mobile app, landing page, workers | screens, local stores | user interface | API, call server |

### What is hard in each, and what would make it right

* **Calls.** A handler reads a session and its participants, talks to LiveKit and
  then writes; others run in between. LiveKit's webhooks come late, twice or out
  of order. A ticker ends calls that ring too long. Goroutines die half-way.
  Right means: a user is on one live call; statuses only go forward; the key
  lives exactly as long as the call; nobody is hung up on by someone else's stale
  view; a call ends when it should.
* **Key server.** Check and insert under READ COMMITTED, a bundle read in several
  statements, a cache per instance. Right means: a one-time key is given out
  once, the limit holds, a bundle verifies, the device can answer whoever wrote
  with one, proofs speak of the current tree.
* **Signal sessions.** Out-of-order messages, both sides starting a session at
  once, capped lists. Right means: every message within the caps decrypts once,
  keys are erased when and only when they are no longer needed.
* **Message queue of the app.** Acknowledgements race timeouts, and the queue is one
  value that is loaded before a send and saved after it. Right means: a queued
  message is sent until the server has it, and stored once.
* **Money (payments, gifts, commerce).** Stripe repeats events and two systems
  remember what was done. Right means: credited once, ledger equals balance,
  stock never negative.
* **Counters (follows, blocks, posts).** Rows and counters are changed together but
  reconciled by a read and a later write. Right means: counters return to the
  number of rows.
* **Memberships.** Stripe may know several subscriptions where the database has
  one row, and its webhooks come in any order. Right means: nobody keeps a
  membership that no subscription pays for.
* **Presence.** One Redis set per user, written by every instance that has a socket
  of that user, and a client may be gone before its handshake is over. Right means:
  the set is bounded and ghosts disappear.
* **Scheduled publishing.** A cron in every instance under a lock that expires.
  Right means: what is due is published, and announced once.
* **Two-factor, queues, rooms.** Sequences of reads and writes that other
  instances interleave with.
* **Content, users, search, feed.** Mostly one statement per request; the counter
  pattern above covers what is interesting.

`PROJECT.json` lists every component with its status and every hazard at its line.

## 2. Modules

| Module | What it is |
|---|---|
| `CallLine` | What the call server promises: calls ring, are answered, are over, in this order and once; a line is held by one call at a time. With the proof that the rules suffice. |
| `CallServer` | The handlers, webhooks and cleanup over the rows, one SQL statement or LiveKit call per step. |
| `CallAdmission` | The transaction of `CreateCallSession` statement by statement: advisory locks, counts, commit, deadlock detection. |
| `Payments` | Coin purchases, gifts and tips: Stripe's events with their claims and redeliveries, disputes, the reconciliation of tips. |
| `Memberships` | One paid membership and the subscriptions Stripe knows for it. |
| `Orders` | Orders against one product's stock: buyers, the paid event, the seller, the nightly reconciliation. |
| `Follows` | Follows, requests, blocks and the two counters of each user with their reconciliation. |
| `Presence` | The Redis set of a user's sockets. |
| `Delivery` | A message from the composer over emit, timeout and offline queue to the row in the database. |
| `Publishing` | Scheduled content and the cron of several instances. |
| `PreKeys` | Registration, renewal and use of a user's pre-keys, on the device and at the key server. |
| `SignalSession` | Two people's session records, who starts a session, the fallback to previous ones and the double ratchet, with symbolic keys. |
| `CallServerProofs`, `CallAdmissionProofs`, `FollowsProofs` | The theorems about the module they are named after. |
| `MoneyProofs` | The theorems about `Payments` and `Orders`. |
| `GatewayProofs` | The theorems about `Presence` and `Delivery`. |
| `SignalProofs` | The theorems about `PreKeys` and `SignalSession`. |
| `ServicesProofs` | The theorems about `Publishing`, `Memberships` and the composition of `MCServices`. |
| `MCCallServer`, `MCCallGroup`, `MCCallAdmission`, `MCServices` | Constants, bounds and symmetry for TLC. |

`CallServer` runs the transaction of `CreateCallSession` as one action.
`CallAdmission` justifies that: it implements `CallLine` with its commit as the
step `Ring` (`AdmissionIsRing`). `CallServer` as a whole implements the same
`CallLine` (`ImplementsCallLine`).

`MCServices` checks the nine other components in one run each for safety and
liveness. As modelled they share no state, so a behaviour of `MCServices` is a
behaviour of one of them, chosen by `part`; nothing is said of two at once.

### CallServer and the code

| Variables | Code |
|---|---|
| `status startedAt e2eeKey callType` | columns of `call_sessions`; `"NONE"` is a row not yet inserted; times are reduced to "is set"; key and salt, always written together, are one Boolean |
| `caller members leftAt livekitJoinedAt` | rows of `call_participants` |
| `processed` | Redis keys `lk:webhook:<event id>` |
| `missedPush` | users named in `sendMissedCallPush` |
| `req` | per goroutine: the next statement and the values read so far |
| `stale` | ids in the CTE `stale` of the cleanup |
| `room inRoom connects tokens` | LiveKit and the clients (external) |

Statements of `store.go` are operators with their names. A handler is a chain of
actions, e.g. `HandleLeaveRoom` is `LeaveRead` (session row), `LeaveRows` (open
participant rows), `LeaveMark`, `LeaveRemove`, `LeaveSettle`, `LeaveClose`. The
values kept in `req` are exactly those the Go function keeps in variables, so
everything decided from them is decided from a possibly old snapshot.

PostgreSQL runs at READ COMMITTED: an UPDATE that waits for a row lock
re-evaluates its WHERE clause on the new row. For all statements but one this
makes the statement one action. The exception is the cleanup: its WHERE is
`id IN (SELECT id FROM stale)` and the CTE is not evaluated again, so it is two
actions, `CleanupScan` and `CleanupApply`.

Faults: `crash` (a goroutine dies between two statements), `db` (a statement
fails as a whole), `livekit` (a call returns an error, done or not), `redis` (SETNX fails or
the key has expired, so an event is processed again). Webhook events may arrive
at any time after what they report, in any order. A read that fails ends a request
as a crash at that point does, and is not an action of its own.

Abstractions: VOICE and VIDEO behave alike and are one type; `age > 60 s` and
`room empty for 300 s` are "may happen at any time"; the checks that the users
exist and are not blocked only refuse requests; a request refused by a handler's
first read changes nothing and is not started. A room that LiveKit has closed is
not opened again by a token that is still valid (LiveKit's `auto_create` is
configuration outside the repository).

### The other modules and the code

A request that reads and later writes is two actions, with what it read kept in
between; a transaction (`$transaction`) and a single statement is one action. Where
Prisma's `updateMany` has a guard in its WHERE the guard is evaluated in the action
that writes. Redis commands are one action each; a Lua script is one action.

**Payments** (`payments.service.ts`, `stripe-webhook.controller.ts`, `gifts.service.ts`,
`payment-reconciliation.service.ts`).

| Variables | Code |
|---|---|
| `intent outbox adverse` | Stripe: the intents, the events not yet answered 2xx (external) |
| `claims` | Redis keys `stripe:event:<id>`, set with NX before an event is handled and deleted when the handler throws |
| `processed mapping` | tables `processedWebhookEvent`, `paymentMapping` |
| `tipMap` | Redis keys `payment:intent:<id>` |
| `coins diamonds pendingRows completedRows giftsSent diamondLedger tip` | balances, rows of `coinTransaction`, `giftRecord` and `tip` |
| `job` | webhook executions: event and next step |
| `stuck` | tips read by `reconcileTips` and not yet updated |

`Receive` is the controller with its duplicate checks and the lookup of the tip,
`Handle` the handler's transaction, `Finish` the row in `processedWebhookEvent` and the answer to Stripe,
`HandlerFails`, `InstanceCrash`, `RedisLoss` and `CreateTipInterrupted` the faults. Balances are those of one
sender and one receiver; amounts are constants.

**Memberships** (`payments.service.ts`, `monetization.service.ts`,
`payment-reconciliation.service.ts`). `member endDate` are the row, `mapTo mapBack` the
two Redis keys, `sub subEvents` Stripe, `recorded` how far `createSubscription` came,
`subJobs` handlers between reading the mapping and writing the row, `nightly` the
reconciliation between its read and its write.

**Orders** (`commerce.service.ts`, `payments.service.ts`,
`payment-reconciliation.service.ts`). `order stock sales` are columns, `charge paidEvents`
Stripe, `seller` the seller's requests between the read of the order and the update,
`stuckOrders answer` the reconciliation. Of a product only one is modelled: orders of
different products share nothing.

**Follows** (`follows.service.ts`, `blocks.service.ts`,
`counter-reconciliation.service.ts`). `follows requests blocks` are tables, `followers
following` the counters of `users`; `task` is a request whose checks are done and whose
transaction is not. A unique key that is violated aborts the transaction, which the
code answers without changing a counter. `overlap` is a history variable.

**Presence** (`chat.gateway.ts`). `presence ttl` are the Redis set `presence:<user>` and its
EXPIRE, `timers` the heartbeat intervals, `conn disc` the handlers of each socket, which
are not ordered with each other.

**Delivery** (`offlineMessageQueue.ts`, `useMessageSend.ts`,
`useConversationMessages.ts`, `chat.gateway.ts`, `messages.service.ts`). `composer` is `handleSend`, `queue` the MMKV value
(the retry count of each message), `run` a call of `processQueue` with the copy it
loaded, `wire` requests from the emit until their handler is done, `rows unread` the
database. The branch for regular messages is modelled. Sealed messages come to the same
`sendMessage` with the sender's id (`chat.gateway.ts:660`), so they store, deduplicate and
count as unread in the same way. A run takes the messages of
its copy in any order, of which the code's is one.

**Publishing** (`scheduling.service.ts`, `cron-lock.ts`). `scheduled removed` are columns, `lock` the Redis
key of the cron, `pass` a run of `publishOverdueContent` in one instance: whether it has taken
the lock (`AcquireCronLock`) or read (`FindOverdue`), what was due, and what was found for the
side effects. `announced`, `asked`, `overruns` (locks that expired while the pass that took them was at
work) and `raced` (items whose owner acted while a pass had them in hand) are history.

**PreKeys** (`e2e-server` `store/postgres.go` and `handler/handler.go`;
`signal/index.ts`, `prekeys.ts`, `storage.ts`, `x3dh.ts`, `session.ts`). `srvId srvSpk srvOtp` are the
server's tables, `phone spkMeta spkPriv otpNext otpPriv sessions` the device's store,
`app` a start of `SignalService.initialize`, `uploads` signed pre-keys between sending and
storing (verified with the identity read before), `bundle` what a contact
fetched, statement by statement. Keys are symbols with the identity that signed them.
A batch of one-time keys is one key, ids start at 1, and 0 is "none". A phone makes at most
`MaxBatches` of them (`MAX_OTP_TOTAL`, 51 batches in the code); after that a start that finds
the server low reserves an id and fails.

**SignalSession** (`session.ts`, `double-ratchet.ts`, `x3dh.ts`, `useMessageSend.ts`,
`useConversationEncryption.ts`). `active previous` are the session record of each,
`otpPrivate` the one-time pre-keys a device still holds, `unclaimed` those the server has left to
hand out, `composing` is `handleSend` between its awaits, `opened` the first-contact messages
between `createResponderSession` and `decryptMessage`, `handled` what the open conversation has
in its cache. A root key is the sequence of secrets mixed into it, a message key a
chain with a number: a message decrypts with the key it was encrypted with. Zeroed keys are
`Zeroed`, which decrypts nothing. `decryptMessage` and `encryptMessage` are one step each, being under the
session lock; reading the private one-time pre-key and storing the new session are one step too.
The model starts where the hook hands over a message with its
first-contact fields. That the server passes them on is assumed: at this commit `schema.prisma:2018-2028`
has no column for them, so a message loaded from the server lacks them.
`reads unreadable answered forked outrun missed strained` are history.

## 3. Runs

| Run | Module | Question | Bounds | Distinct states |
|---|---|---|---|---|
| `call_pair` | `MCCallServer` | What do status, key, rows and startedAt say of each other when goroutines die and statements fail? | 2 users, 1 session, 2 goroutines, endpoints token and leave | 0.71 M |
| `call_group` | `MCCallGroup` | Can a user be on two live calls? Do decisions from old rows hang up on others? | one session with 3 users and 2 goroutines, all of whom may connect and be reported, no other webhook and no cleanup; or two sessions with 2 users, one request at a time and the cleanup | 0.77 M |
| `call_live` | `MCCallServer` | Does the server implement `CallLine`? Do calls end? | 2 users, 1 session, 1 goroutine, all endpoints and call types | 82 k |
| `admission` | `MCCallAdmission` | Does what a transaction counted stay true until it commits? Do the locks make it atomic? Is every attempt answered? | 3 users, 3 transactions, 2 hash values, 2 parties | 191 k |
| `services` | `MCServices` | The safety of the nine components of the API and the app | below | 1.07 M |
| `repairs` | `MCServices` | Is what went wrong repaired, and what was accepted done? | below | 42 k |

Why the bounds of the call runs suffice for what they are asked: an invariant of one
session is broken by a snapshot of one handler and a statement of another, so two
goroutines and one session show it; sharing a user takes two sessions, and one
goroutine is enough because a request under way holds no right to a line; "two who
go on talking" needs a third who leaves. `MaxConnects = 1` bounds reconnections: a
second connection sends the same kinds of event again, which duplicate delivery
already covers. All the safety properties of these runs are also theorems (below),
so the bounds matter for liveness only; there one goroutine runs all handlers and
the sets differ from the theorems' only in size.

The bounds of `services`, and what each is for:

| Part | Bounds | Why |
|---|---|---|
| Payments | 2 tips and 2 purchases of which 2 are started, 2 executions, 1 adverse event, 1 gift, 1 fault (an adverse event and a fault together with one tip or purchase only) | the same event in two executions, two events of one intent, a pending row closed by another payment, a crash or a lost key between |
| Orders | orders of 1 and 2 units, stock 2, 2 requests of the seller, 1 redelivery | both orders cannot be filled; two decisions from one read |
| Follows | 2 users, one private, 2 workers, 4 requests | a pair, its reverse, and two requests that overlap after two that set the scene |
| Memberships | 2 subscriptions, 1 change at Stripe, 1 call | events of two subscriptions for one row |
| Presence | 3 sockets, limit 1 | one eviction while another socket connects |
| Delivery | 2 messages, 2 runs, 1 retry, 1 kill | a message queued while another is sent, two runs over one copy |
| Publishing | 2 items, 2 instances, `take` 1, 1 call of the owner, 1 death, 1 lock that expires under its pass | items beyond `take`, two passes at work at once |
| PreKeys | 1 contact, threshold 1, 1 event, 2 batches (1 in `repairs`) | each fault, a rotation or a new phone against a fetch, one-time keys that may not be made any more |
| SignalSession | 4 messages or reopenings together, 2 previous sessions (5 in the code), 0, 1 or 4 one-time pre-keys of each | two first-contact messages decrypted while the session they belong to is pushed down, both sides starting, a ratchet step in each direction with a message of the old chain to come, pre-keys that run out |

`repairs` is smaller (one purchase, one message, two sockets) since its properties speak
of infinite behaviours, but has two retries and two changes at Stripe: enough for a
renewal that arrives after the end.

Deadlock is not checked: a system in which every call is over, every message is
sent and every bound is used up rightly stops.

Each property is paired in `PROJECT.json` with a mutant, a plausible bug of the
code under which the run must find it violated: a webhook that reopens rows, a
cleanup that keeps the key, ids that are not sorted, a handler that does not look
for the mapping, a request that trusts the order it read, a dedup key that is not asked.

### What the runs show

* **Payments.** The claim in Redis is only an optimisation: what makes the credit happen
  once is the row of `paymentMapping` in the same transaction (`CoinsCreditedOnce` holds
  though Redis forgets). For tips it is the status in the WHERE. A charge is credited
  (`ChargedIsCredited`) unless an execution of its event failed or died: the claim that a
  dead instance leaves makes the redelivery a "duplicate" that is answered 200. The
  daily audits compute sums that `CoinLedgerCovers` and `DiamondLedgerBacked` bound from
  one side only; the other side is open, since one payment completes all pending rows.
* **Orders.** Units never leak and nothing uncharged is shipped, though the
  seller and the reconciliation write what an older read told them.
* **Follows.** Counters drift only when a commit falls between the read and the write of a
  block or of the reconciliation itself; `followersCount` is repaired, `followingCount` may not be.
* **Memberships.** Activation after the end is undone by the nightly job.
* **Presence.** A ghost lives no longer than the time to live once no heartbeat runs
  (`GhostsExpire`); what goes wrong with the set is shown below.
* **Delivery.** The server stores a message once. A message leaves the queue unsent
  only if it was put there while `processQueue` ran.
* **Publishing.** Side effects fire once per request, and once more for each lock that expires
  under a pass: one overlap costs one announcement, not more. Only items whose owner acts while a
  pass has them in hand are excepted. A dead instance only delays publication to the expiry of its lock.
* **PreKeys.** The device can answer the first message made with a bundle, except with a key it
  has given up itself (`lost`). Two ways of giving one up contradict the code's comments and are
  shown below: number 1 made again, and the sweep.
* **SignalSession.** In any order of arrival, a message whose session the receiver still has
  decrypts (`ReadableWithSession`), unless the same secret made two sessions: without a
  one-time pre-key every first-contact message of a sender makes the same session anew.
  A message decrypts once even if the conversation is opened again, since the first decryption deletes
  the one-time pre-key (`DecryptsOnce`), unless there was none or a later message came
  first and another pre-key was deleted in its place. If one side starts everything, all messages decrypt
  although each further first-contact message makes a session of the wrong secret and
  pushes the right one down (`OneStarterReadsAll`), as long as no more are decrypted at once
  than there are previous sessions. The hook decrypts five at once and the list
  holds five; but a message that arrives meanwhile starts another batch beside the first.

### What the code does not do

Six runs end in a counterexample to what the repository says of itself:

* `call_key_kept`: after `room_finished` of an **answered** call the key and the
  salt stay in the database. `UpdateSessionDuration` has already set ENDED, and
  `EndCallSession` only matches RINGING and ACTIVE rows.
  (`handler.go:12`: "e2eeKey + e2eeSalt set to NULL on call end".) That is also why
  the invariant that holds, `UnansweredKeyWiped`, is about unanswered calls.
* `lost_message`: `processQueue` loads the queue, awaits each send and saves its copy; a
  message queued meanwhile is overwritten and never sent.
  (`offlineMessageQueue.ts:5`: messages that fail to send "are enqueued here and retried
  when connectivity returns".) `QueuedIsKept` says that this is the only way.
* `count_drift`: `reconcileUserFollowCounts` returns when no `followersCount` has drifted,
  before it looks at `followingCount`. (`counter-reconciliation.service.ts:36`: the two
  counters "must be exact".)
* `presence_limit`: the script takes the first `#members - maxSockets` entries of
  `SMEMBERS`, in whatever order Redis keeps them, and when the newcomer is one of them evicts no other
  in its place: four sockets stay. (`chat.gateway.ts:292`: "trims oldest if over limit";
  `chat.gateway.spec.ts:1298`: "max 3 sockets per user".)
* `cron_overlap`: the lock expires under a pass that is still at work, the next pass finds the
  same unchanged item, and both announce it. (`cron-lock.ts:7`: the lock "prevents multiple instances
  from running the same cron job simultaneously".) The run has no deaths and `take` 100.
* `session_zeroed`: the session that a promotion pushes to the previous ones is the very object zeroed two
  statements later. When both sides start and each promotes the other's session, what is under way
  on the demoted ones is lost. (`types.ts:172`: "Kept for in-flight stragglers"; `session.ts:11`.)

Seven more configurations give one each (`tlc -config presence_lost.cfg Presence`, and so on). They
are not listed as runs in `PROJECT.json`; for all but `presence_lost` a property of a passing run says how
far the damage goes (`LiveCallHasKey`, `RingingEnds`, `DeadlockNeedsCollision`, `GhostsExpire`,
`FirstContactAnswerable`):

* `call_terminal` (`MCCallServer`): a call that is declined while the cleanup's statement waits goes
  from DECLINED to MISSED. (`store.go:210`: terminal states "cannot transition to
  anything".)
* `call_decline_race` (`MCCallServer`): of two people who decline at once each still counts the
  other, and the call rings on until the cleanup. (`handler.go:443`: the snapshot
  avoids "the TOCTOU race".)
* `admission_deadlock` (`MCCallAdmission`): the locks are `hashtext(id)`; with a collision, sorting the
  ids does not sort the locks. (`store.go:116`: "No deadlock possible".)
* `presence_lost` (`Presence`): `handleDisconnect` removes, counts and deletes in three commands; a socket
  that connects between the count and the deletion is online and absent, and its heartbeat does
  not add it again. (`chat.gateway.ts:319`: the heartbeat is to "keep presence alive while connected".)
* `presence_ghost` (`Presence`): a handshake whose client has left goes on and starts a heartbeat that nobody
  stops, so that the user is online for as long as the instance runs. (`chat.gateway.ts:61`:
  "auto-cleanup stale connections".)
* `spk_overwritten` (`PreKeys`): a start that counts no one-time pre-keys at the server, or gets no answer, makes
  signed pre-key number 1 again, over the private key of the one bundles carry.
  (`prekeys.ts:148`: "Old keys are kept for 30 days".)
* `otp_swept` (`PreKeys`): the sweep at the end of a start deletes all private one-time pre-keys of a device
  without sessions, those it has just uploaded included. (`storage.ts:1128`: "Only safe to cleanup
  if no sessions exist at all (no OTPs needed)"; contacts may already hold them.)

`call_key_kept` and `call_decline_race` use `NoCleanupSpec`, the behaviours without the ticker, so
that the counterexample is one of the handlers alone. `lost_message`, `count_drift` and `presence_ghost`
are fair (`FairDlvSpec`, `FairFolSpec`, `FairPreSpec`): the queue goes on being processed, the cron goes
on running, handlers go on and keys expire.

Seen while modelling, and part of the models rather than findings, since no
comment or test of the repository says otherwise: `publishNow` fires its side effects for
content that is already published or cancelled; items beyond `take: 100` are published
by the same update without being announced; a cancelled item that is scheduled again
stays removed; `subscribe` and `unsubscribe` of `MonetizationService` never talk to Stripe, and
nothing retries a `cancel_pending`; a message is lost when the app is killed before the
three seconds of its emit are over; the key server refuses an account's third
registration of a day, which every start of the app makes; a device that has made 5000 one-time
pre-keys fails at every start that finds the server low (`prekeys.ts:291`).

## 4. Fairness

`LiveSpec` of `CallServer` assumes

* weak fairness of each goroutine's next statement: Go schedules goroutines that
  can run, and statements have timeouts;
* strong fairness of the cleanup's scan of what is ringing, and weak fairness of
  its update: the ticker fires for ever, and a session that keeps ringing is old at
  some tick;
* strong fairness of receiving `room_finished`: LiveKit retries until answered.
  Strong, because the goroutine that could serve it is taken by other requests
  again and again in the model, where a real server starts one more.

Nothing is assumed of clients: they need not connect, hang up or leave. No crash
is allowed in `call_live`: the deduplication key is set before an event is
processed, so with crashes an event can be lost for good.

`LiveSpec` of `CallAdmission` assumes weak fairness of each transaction's next
statement and of PostgreSQL's deadlock detector, the latter because
`deadlock_timeout` always expires; calls need not end.

The eight other components assume, each weakly unless said otherwise,

* `PayFairness`: Stripe delivers an event again until it is answered, and an execution
  of the handler goes on (an instance may still die, which is a fault). Nothing is
  assumed of users, of disputes or of the nightly reconciliation.
* `FolFairness`: a request whose checks are done commits or fails, and the nightly job runs
  for ever. No assumption of what users do.
* `MemFairness`: paid periods end, Stripe delivers its events, handlers go on, the nightly
  job runs for ever.
* `PreFairness`: handlers of a socket go on, a heartbeat timer fires, a Redis key
  with a time to live that nobody renews expires.
* `DlvFairness`: `processQueue` is called again (on every reconnection) and goes on: each
  send is answered or times out after three seconds.
* `PubFairness`: the cron fires every minute in some live instance, a pass goes on unless
  its instance dies, and the lock has an expiry.
* `PkFairness`: the app is opened again and again, its calls go on; strong fairness of
  `RegisterIdentity`, because the server refuses it on some days and accepts it on others.

## 5. Proofs

All for any values of the constants: sets of users, sessions, goroutines,
transactions, executions, sockets, instances and items, any bounds, failures and
hash function. Assumptions of the two call modules: `Users` is finite (cardinalities of groups
are compared with two), `MaxConnects` is positive, `Faults`, `CallTypes` and
`Endpoints` are subsets of the listed ones, `None` is no user and no session; in
`CallAdmission` ids are numbers (their order is that of `sort.Strings`), `Hash`
maps ids to locks, `NoTxn` is no transaction.

**CallServer** (`CallServerProofs`). The properties are not inductive: what a
handler writes depends on what it read. `IInv` adds to the types and to
`ExclusiveCall`

* `SnapshotInv`: what an old snapshot still guarantees when it is used.
  `startedAt` is never cleared, `livekitJoinedAt` never shrinks and nobody returns
  to the open rows, so `started`, "two are connected" and "at most these are on the
  call" stay true although the status read may be wrong by then;
* `RowsInv`: what status, key, startedAt and rows of a session say together;
* `StaleInv`: the cleanup holds ids of existing sessions only.

The proof goes in two layers. `HandlerEffect` shows for each action that it runs one
of eight statements (`RowStep`) and leaves a sound request; then each statement is
shown once to keep the row invariants (`CreateKeeps`, `EndKeeps`, ...) and once to
be a step of `CallLine` (`CreateIsRing`, `EndIsHangUp`, ...).

| Theorem | States |
|---|---|
| `Inductive`, `TypeCorrect` | `IInv`, `TypeOK` |
| `OneCallPerUser` | `ExclusiveCall` |
| `LiveCallsKeepTheirKey`, `UnansweredCallsLoseTheirKey`, `WipedCallsAreReleased` | the life of the key |
| `AnsweredCallsHadTwo` | `AnsweredByTwo` |
| `Refinement`, `NobodyOnTwoCalls` | the server implements `CallLine`, and inherits its promise |
| `LeavesSpareOthers`, `OnlyCallersEndGroups` | stale decisions do no harm |

**CallAdmission** (`CallAdmissionProofs`). `AInv`: the lock of a checked participant
is held until the transaction ends, so nobody else can commit a call with it;
participants are done with in ascending order. From it `CheckedIsFree` (what was counted stays true), `AdmissionIsAtomic` (the
commit is `Ring`) and `SortedLocksAvoidDeadlock` (in a cycle of waiting
transactions take the one that waits for the least id: the holder of that lock
holds it for a different id, or else it waits for a greater one, so two ids share a
hash).

**Payments** (`MoneyProofs`). `PayInv` adds to the types: an event of success, in Stripe's
outbox or in hand, is about a charged intent; a handler of a success or a dispute
resolved the tip of its own intent; coins received are covered by completed rows
alone; and diamonds are counted against the tips that are charged and no longer
pending. A tip leaves "pending" once and never comes back, so a second execution of an
event, which no claim need stop, finds the mapping or a status its WHERE does not
match. From it follow `CoinsOnce`, `LedgerCovers`, `LedgerBacked` and `DiamondsBacked`. Assumption:
finitely many tips and purchases.

**Orders** (`MoneyProofs`). `OrdInv`: what a request of the seller and the
reconciliation have read of an order may be old, but a charge once made stays made, so
"it was paid" read earlier is still true. From it `OnlyChargedShips`.
`UnitsInv` adds `SalesInv`, `stock + sales >= InitialStock`, to `UnitsNeverLeak`, which is
not inductive without it: the seller's cancellation gives the units back only `WHERE
"salesCount" > 0` (`commerce.service.ts:369`), and when that fails `SalesInv` says that they are in
stock already. The units of the active orders are the cardinality of a union of disjoint sets,
not a sum, so that the lemmas can say what one order more or less does to it. From it `NoUnitLost`.

**Follows** (`FollowsProofs`). `FolInv`: while no commit has overlapped, counters are exact,
and so is what a block and the reconciliation have read. Each transaction changes the
tables and the counters by the same pair; the lemmas on `FollowerCount` and `FollowingCount`
say what adding or removing a pair does to a cardinality. From it `DriftOnlyByOverlap`.

**Presence** (`GatewayProofs`). `PreTypeCorrect` only: its other properties are liveness or do not hold.

**Delivery** (`GatewayProofs`). `DlvInv` says what the parties rely on after it was true:

* `CopyInv`: what a call of `processQueue` has still to send is in the copy of the queue it
  made, with retries left;
* `AnswerInv`: a request is answered only when its row is there, so that an answer that
  comes after the timeout proves as much as one in time;
* `KeptInv`: a message missing from a copy made after it was queued is stored. The copy
  replaces the whole queue when the call writes it back, so without this
  nothing could be said of a queue that is overwritten. The exception, messages that came between
  another call's copy and its write, is the history variable `overtaken`.

From it `MessageStoredOnce` and `NothingQueuedIsLost`, for any number of messages, calls and retries.

**PreKeys** (`SignalProofs`). `FirstContactAnswerable` speaks of contacts; the invariant has to say
the same of every place a public key passes on its way to them:

* `SpkInv`, `OtpInv`: a key in an upload on its way, at the server or in a contact's bundle is
  `Accounted`: held by the device, given up by it (`lost`), or made by an earlier phone;
* `OneHolder`: a one-time pre-key is in one place, in hand, at the server or with one
  contact, so that deleting it after one contact's message does not take it from another;
* `OtpIdInv`, `StageInv`: ids are used once, and what `initialize` does in which order,
  because a key that is generated is only as new as its id;
* `PhoneInv`: keys come from the phones there were, and a bundle whose contact has sent is of one phone.

From it `ContactAnswerable`, for any number of contacts, phones and thresholds.

**SignalSession** (`SignalProofs`). Four invariants. `SigInv` is the shape: each session is between
the two people, its chains begin with its secret and its keys were made; what a message says
was made too; and records, composed messages and histories fit. It needs no bound on the
conversation. `OnceInv` is what `DecryptsOnce` rests on. That the ratchet forgets a key once
used (`Spent`) is not enough, since a second session of the same secret would
derive it again. So:

* `KeysOnce`, `OriginOnce`: a ratchet key belongs to one secret, and a pre-key message whose
  secret its writer uses with the header's key is the one that makes the responder's session;
* `ClaimOnce`, `MessageOnce`: the server hands out a one-time pre-key once, to one start, and one
  message carries it;
* `SendsFirst`, `SentFirst`: that message is the first of its session;
* `RespondersOnce`: a responder's session was made by a message and is as it was made until it decrypts one;
* `SinglesOnce`: of a secret with a one-time pre-key a person has one session at most, in
  whatever place of the record;
* `OpenedOnce`, `ReadOnce`: a session that decrypted has no pre-key left to be made again, and has
  spent what was read.

The two exceptions of `DecryptsOnce` are where `SinglesOnce` fails: a secret without a
one-time pre-key, and one whose first message a later one overtook, which deletes
nothing (`outrun`). The lemmas on `Moves` say what archiving, promotion and the cut to
`MaxPrevious` do to the places of a record; the step theorem has one case for each way a
record can change. From it `MessagesDecryptOnce`.

`AgreeInv` says that two ratchets agree, without a bound on their turns. Root keys grow by
what is mixed into them, so that one chain comes before another if it is shorter:

* `LinkedAll`: a session writes with its root and reads with what the root was before its own last key;
* `Paired`: the sessions the two people have of a secret are one turn apart, and the one behind
  has written at least what the one ahead read;
* `WroteAll`: a message is of its writer's present chain, below the next number, of the
  chain before, below `pn`, or older;
* `AwaitsAll`: for the reader the same message is of the chain to come, of the one it reads, or
  older, and if it was not read, its number is still ahead or its key was skipped and kept;
* `OrderAll`: messages of a chain have numbers of their own, and the `pn` of the next chain is
  above all of them. This is why ending a chain at `pn` stores every key that is still needed;
* `UniqueSessions`, `FirstChains`: a person has one session of each secret, and until the responder
  has made one there is only the initiator's first chain, which the new session takes up.

All but the last are about secrets outside `forked`, the exception the property names: two sessions
made of one secret turn to different keys. The lemma `ReadableDecrypts` turns
`AwaitsAll` into what `RatchetDecrypt` does; lemmas on one session and one message
(`Takes...`, `Writes`) carry each part over the ratchet's two operations, before
records and places come in. From it `MessagesDecrypt`.

`StarterInv` is about the record, while `strained` is false:

* `StartedBy`: one person alone has started, and all messages are of the secret of the session it made first. That
  session stays its active one. The other has a session of it with fewer previous sessions
  after it than there are messages in `opened`. Making a session pushes it down by one and adds one
  message, decrypting one brings it back to the top; the guard in `strained` on the number of
  messages is what keeps it within `MaxPrevious`. With `opened` empty it is the active one,
  so that what the other writes is of the same secret;
* `PreKeysLeft`: the one-time pre-key of each message that has not made its session is on the device,
  because what a decryption deletes is the pre-key of a message that has made its own;
* `AnsweredOnce`, `ReadHandled`: each secret of a responder was made by a message of its own, so that
  `forked` is empty, and what is still to be handled was not read.

With these `AgreeInv` gives every message a session that decrypts it. From it `OneStarterReads`.

**Publishing** (`ServicesProofs`). `PubInv` speaks of every item whose owner did not act while a pass
had it in hand:

* `ItemCounted`: how often it was announced, with one for each pass at work without the lock that may
  still announce it (`Working`), is no more than how often it was asked for and how many locks
  expired under a pass, and one more once its schedule is cleared and the pass with the lock does not
  hold it (`Spare`). A lock that expires puts a pass among the `Working` and counts as an overrun
  in the same step, which is what makes overlaps cost one announcement each;
* `FoundIsDue`: a pass that has read the item will publish it, or it is published already.

From it `PubAnnounced`.

**Memberships, and the composition** (`ServicesProofs`). `MemTypeCorrect` needs `RecordedInv`: a
subscription the database records exists at Stripe. `ServicesTypeCorrect` says the type
invariants of all nine components in every behaviour of `MCServices`, from the step lemma of each
and from the fact that a step of one leaves the variables of the others alone.

**Only model-checked**: all liveness: `RingingEnds`, `FinishedRoomEndsCall`,
`AdmissionSettles` and the seven properties of `repairs` (liveness under fairness is out of the prover's
reach). Every invariant and action property of the passing runs has a theorem.

## 6. Not modelled

**Call server**: mute, egress, ingress, `room_started` and `egress_ended` (they set columns nothing
else reads); listing and history (read only); rate limiting and authentication
(they refuse requests); durations; which of two lock orders PostgreSQL meets inside
one statement (a statement that is aborted is the fault `db`); the retry of pushes.

**Key server**: the Merkle tree of key transparency and its cache per instance, sender
keys, the limit of 500 one-time keys, the cleanup of expired keys.

**Signal client**: the 30 days after which old signed pre-keys are deleted,
post-quantum keys, several devices; sender keys; the caps (500 per step, 2000 per session, cut to 200
before each decryption) and the expiry of skipped keys, which no run reaches; the reset of a session; the cryptography itself;
`signal/offline-queue.ts`, which no screen calls.

**Money**: premium payments, payment methods, payouts and cashout; the audits, which
only log; products, reviews, zakat and waqf.

**Messages**: encryption before the emit, envelopes of sealed messages, media, the pending
messages that a screen keeps in React's state and sends again beside the queue; typing,
reactions, edits, groups, Quran rooms.

**Follows**: circles, mutes, the counters of content (the pattern is the same).

**Publishing**: reminders, lists of scheduled content, what the side effects do.

Content, users, search, feed, the platform services and the screens of the app are mostly
one statement per request, or pure computation and I/O.

## 7. Plan

1. **Sender keys**: generations and the replay set of group chains.
2. **Two-factor backup codes**, one consumption per code under concurrent attempts.
3. **Key transparency**: the cached tree of several instances and monotone roots.
4. **Quran rooms, live rooms, premium payments**, by the patterns of `Presence` and `Payments`.
