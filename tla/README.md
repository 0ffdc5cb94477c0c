# ApolloStation: TLA+ models, TLC checks and TLAPS proofs

This directory is the verification project kept beside the ApolloStation code.
It models the parts of the system where order, failure and retry decide whether
the program is right, checks them on small instances with TLC, and proves the
main safety results for every value of the constants with TLAPS. Paths below
are relative to `src/`.

ApolloStation is a TypeScript monorepo of Node services. SPMT
(`apps/spmt-service`) is the authority: it owns people, sessions, XP, provider
credentials, events and execution jobs, in SQLite files. Products (Chat Gateway,
Stellar Core, StreamWeaver, HearMeOut, Nebula Arcade, Discord Stream Hub,
Companion, ...) are processes of their own that call SPMT or each other over
HTTP, hold leases on shared rows, and retry. Nearly every store is synchronous
(`node:sqlite` in one JavaScript thread); what interleaves is what lies
between two awaits, two transactions, or two processes.

## 1. Inventory

### Modelled

**Execution jobs** (`packages/execution-core`, `packages/monetization`,
`apps/stellar-core/src/worker.ts`, `packages/platform-data-sqlite`).
*State*: the `execution_jobs` rows (state, attempt, owner, lease id and expiry,
fencing epoch, result), the `usage_events` ledger; in a worker, the lease it
believes it holds. *Operations*: create (insert, then consume the allowance in
another transaction), claim and claimAny (sweep expired leases, take the oldest
eligible job), heartbeat, succeed, fail, cancel, delete, redact (which puts metadata
in the place of a finished job's input and result), deleteForUser, retention.
*Interaction*: workers poll over HTTP while their inference provider is healthy; a
worker process that exits is restarted under the same `workerId`. *Hard*: a
superseded worker reporting late; lost replies; a crash between the two transactions
of create; the sweep and the claim that read a bounded prefix of the table; cancel
and erasure racing a report. *Correct when*: one holder per job, attempts within
budget, the recorded result is the last attempt's, a finished job stays finished, one
retained job per idempotency key, usage within allowance, and every accepted job that
a worker keeps polling for settles.

**Chat connection supervisor** (`apps/chat-gateway`: `connection-supervisor.ts`,
`provider-drivers.ts`, `spmt-provider-grants.ts`, `service.ts`,
`service-start.ts`). *State*: `provider_connections` rows (desired, state,
backoff, lease owner and expiry); in each process, the map of registered sockets
and the sockets themselves. *Operations*: put, claimDue, renew, markConnected,
markFailure, markReauthorizationRequired, release; the reconcile pass; socket
events; recoverAuthentication's late answer. *Hard*: events of a socket that is
no longer the registered one; leases lost across an await; two gateway processes
on one table; grants that expire; a store that throws inside a listener.
*Correct when*: an idle row is leased to nobody, what is registered is open and
the row's own, a pause for reauthorization ends only by a put, a superseded or
lapsed registration is given up, and no desired connection is stranded.

**Chat gateway delivery** (`apps/chat-gateway/src/index.ts`, the Discord driver's
dispatch, the service loop, `packages/commlink-core`). *State*: `chat_messages`,
`chat_deliveries`, `chat_mutations`, the resume cursor; in SPMT,
`commlink_live_chat` and `commlink_provider_mutations`. *Operations*: ingest,
mutate, flush, flushMutations, complete, fail; Commlink's ingest and mutate.
*Hard*: overlapping flushes over snapshots; crashes and lost answers between a
delivery and its completion; corrections before their message; edits retried out
of order; a cursor saved before the event it passes. *Correct when*: what is
settled was applied, corrections hold in any order, a removal is final, and what
was saved arrives.

**Provider credential authority** (`packages/provider-grants-core/src/credential-authority.ts`).
*State*: a `provider_credentials` row (state, tokens, refresh owner and lease);
the refresh calls each SPMT process awaits. *Operations*: put, importLegacy,
revoke, resolve, recover, and the refresh's outcomes. *Hard*: the provider rotates
refresh tokens, so a stale answer that is stored breaks the link; a revocation or a
new link arrives while a refresh is awaited; a process dies holding the lease.
*Correct when*: late answers are fenced, what was revoked stays so, a refresh ends.

**XP ledger and StreamWeaver's rewards** (`packages/authority-core`, the XP part;
`apps/streamweaver/src/reward-runtime.ts`). *State*: `xp_events` under idempotency
keys, the receipts of transfers and gambles; in StreamWeaver, redemption receipts,
first-per-stream locks and a local wallet. *Operations*: awardXp, spendXp,
transferXp, settleXpGamble; redeem with its local or remote payment. *Hard*: derived
keys that collide with a caller's; a payment that arrives after its call gave up;
two calls of one request. *Correct when*: nobody is overdrawn, settlements are
whole, a completed redemption was charged its quote once and awarded once, one
redemption is the first.

**Event outbox and webhooks** (`packages/authority-core`, `outbox-core`,
`platform-data-core`). *State*: outbox records (state, attempts, lease), webhook
registrations; a pass's batch and its place in it. *Operations*: publish, create and
disable a webhook, claim, post, complete, fail. *Hard*: all passes share one worker
id; a batch is worked off under one lease of seconds; a failing webhook re-sends to
those before it. *Correct when*: a delivered event reached all it was owed to, and
its fate is what `EventPromise` allows.

**Sign-in tokens** (`packages/auth-core`, with the exchange of
`apps/spmt-service/src/index.ts`). *State*: a family of refresh tokens; a service
identity and its access tokens. *Operations*: issue, rotate, reissue within the
overlap, revoke at a replay; register, reconcile, rotate, revoke a service. *Hard*:
lost answers, repeated and simultaneous calls, a server restarted with another
rotation key. *Correct when*: the owner keeps up, only a replay revokes, service
access is that of the day.

**Device commands** (`packages/platform-data-core`, `packages/platform-ops`,
`apps/companion`). *State*: the paired device with its automation grants and pairing
codes, its service identity, the command jobs; on the device, the saved pairing and
the receipts. *Operations*: pair, exchange a code, grant, revoke, install, request,
cancel, claim, heartbeat, report; adapter calls and receipts. *Hard*: grants
withdrawn and renewed while commands wait or run; a crash between effect, receipt
and report. *Correct when*: a command whose grant was withdrawn goes no further,
what succeeded was carried out, and what has a receipt is not carried out again.

### Not modelled, and why

The models cover the code whose correctness depends on the order of things. The
implementation is some 75,000 lines, most of which are products: their pages,
rules of games, provider formats, media handling and tables of data. That code is
sequential, and a model of it would repeat it line by line.

| Component | Why not |
|---|---|
| Authority storage and recovery (`packages/authority-sqlite/src/recovery.ts`) | epochs, journal export and restore run one synchronous transaction at a time, with the service stopped |
| Account recovery (`packages/account-recovery-core`) | single transactions over codes of one use |
| Recovery vault (`packages/recovery-core`) | encrypted files of one process, written and read synchronously |
| Runtime fleet (`packages/runtime`) | `RotatorFleetController` has no caller outside its test: nothing says who leases, or when a fencing epoch is read |
| Control grants (`packages/control-core`) | single transactions; the one that races others, an install's being disabled, is `SetInstalled` of `DeviceCommands` |
| The rest of platform data and of Companion | messages, media and contexts are single transactions; the relay client and local media jobs carry no commands |
| HearMeOut, Discord Stream Hub, Nebula Arcade | products of their own over the job service, the XP ledger and the chat gateway; their own state is room queues, announcement receipts and game boards |
| The rest of StreamWeaver | flows, command routing and the currency exchange |
| Web shell and user interfaces | rendering and forwarding |
| Contracts, SDK, CLI, MCP, adapters | types, validation and HTTP clients; abstracted by the models that use them |

Within the modelled components, what is left out is named under each module below
and in the components' notes of `PROJECT.json`.

`PROJECT.json` lists the hazards of the code at their lines, with the properties
that would catch each, or why none does yet.

## 2. The modules

| Module | What it is |
|---|---|
| `ExecutionJobs` | the job service, its metering and the Stellar Core worker |
| `JobContract` | what the service promises of a task: opened once, tried at most `Budget` times, closed once |
| `ExecutionJobsContract` | the refinement mapping from the first to the second |
| `ExecutionJobsProofs` | its theorems |
| `ProviderConnections` | the connection table, the supervisors and their sockets |
| `ProviderConnectionsProofs` | its theorems |
| `ChatDelivery` | ingestion, flushes and Commlink's projection |
| `ChatDeliveryProofs` | its theorems |
| `ProviderCredentials` | one provider credential, the processes that refresh it, the provider's rotation |
| `XpLedger` | the XP journal and its four operations |
| `StreamRewards`, `StreamRewardsProofs` | reward redemption over `XpLedger`, which it extends; theorems of both |
| `EventPromise` | what SPMT promises of a published event |
| `EventOutbox` | the outbox, its passes and webhooks; the refinement of `EventPromise` |
| `HumanSessions` | a family of refresh tokens; a service identity |
| `DeviceCommands` | a paired device, its grants, its commands and the Companion |
| `IdentityProofs` | the theorems of `ProviderCredentials` and `HumanSessions` |
| `PlatformProofs` | the theorems of `EventOutbox` and `DeviceCommands` |
| `SumTheorems` | sums over finite sets, for the usage ledger, the XP balances and the local wallets |
| `MC*` | the instances TLC checks; `MCSpmtAuthority` composes the six authorities of SPMT |
| `SpmtAuthorityProofs` | what is proved of each authority, of all of them together |

A definition whose comment starts with "As if" is a variant that no action uses:
the code with one plausible mistake in it. Each property is paired in
`PROJECT.json` (`mutants`) with the variant that breaks it, which shows that the
property says something about the code.

### ExecutionJobs and the code

`job[j]` is a row, numbered in listing order (createdAt, id); `ledger` is
`usage_events`; `pendingBill` is the job that `create` has inserted and not yet
metered (`execution-core/src/index.ts:108`); `pc[w]` and `lease[w]` are the local
state of `StellarChatWorker.execute`. The service is one Node process over
synchronous SQLite, so each operation is one action guarded by `ServiceIdle`,
except create: `CreateInsert`, then `CreateConsume`, `CreateRefused` or
`CreateCrash`. A worker first asks whether its provider is healthy and goes no
further unless it is (`CheckHealth`, of which no fairness is assumed); then it
polls. `Claim` is claimAny: it sweeps each tenant it visits, in the order
the code visits them, then grants the first eligible job; when its reply is lost
the row is leased and nobody knows it. `Heartbeat`, `Succeed` and `Fail` are
calls that are applied or not and answered or not; `HoldsLease` is
`requireLease`. `EraseAccount` is deleteForUser, `RetentionSweep` is the deletion
and redaction of old finished jobs: `Minimised` is redactPayloads, after which a job
carries no worker's result, only metadata, whether it succeeded or not.

Abstractions: time is asynchronous (an unexpired lease may expire at any moment,
a heartbeat renews one that has not); a lease is named by its job and the fencing
epoch its claim stamped, which determines the random `leaseId`; a result is named
by the attempt that computed it; an account is the (user, period, resource)
bucket that metering sums over; an erasure interrupted half way is a sequence of
cancellations and deletions, which the other actions cover one by one. The
in-memory worker registry (reportWorker, hasReadyWorker) is not modelled.

### ProviderConnections and the code

`row` is the table; `socket` the WebSockets that exist, registered or not;
`active[p]` the supervisor's map; `recovering[p]` the recoverAuthentication calls
not answered yet; `pc`, `todo` and `current` say where a process is in
`reconcile`. What a process does between two awaits is one action: `Renew` (the
pass over the registered sockets, each touching its own row), `ClaimDue`,
`Serve` (the next claimed row), `GrantAnswered`, `Opened` or `OpenFails`. A socket
event reaches a process only while it awaits (`Awaiting`): `SocketCloses`,
`ReconnectRequested` (Discord op 7 and 9, which leaves the socket open),
`MessageAfterLeaseLoss`. A store call that throws inside a listener has no
handler: the process ends (`Dies`). `Start` puts the configured rows;
`Configure` is the discovery that puts or stops rows while the service runs.

Abstractions: sockets are interchangeable, a closed one can be reused;
recoveries of one connection in flight at once count as one; the claim limit of
25 rows exceeds the instances; the YouTube driver, which polls and holds no
socket, cursor contents and message ingestion are not part of this module.

### ChatDelivery and the code

`stream` is what the provider sends, chosen at the start; `cursor` the saved
resume point; `rowid` and `saved` the ranks at which messages and corrections were
stored; `delivery` and `sent` their status columns. A flush is a flight: the
service loop's own (`Loop`) and one for each event that arrives, each walking a
list it read once. A call is two steps, `Deliver` or `Correct` (applied at the
consumer, in SPMT for Commlink) and `Complete` or `CompleteMutation` (answered);
`Fail` and `FailMutation` are a refusal or a lost answer, possible before or
after the application. `IngestTorn` is SPMT dying between Commlink's insertion
and its correction. `Corrected` is applyMutation, `Merged` is mutate's merge.
`Restart` forgets every flight and starts the gateway with any consumers that
include Commlink. `Arrives` lets an event be seen again from an earlier cursor,
which also covers late ingestion by a superseded socket.

Abstractions: one tenant and one connection; a text or rich content is named by
the event that carried it, rich content being one field; every consumer accepts
every event; a call in flight when the gateway dies is applied before the
restart or not at all; observers, egress, shadow and mirrored messages are left
out.

### ProviderCredentials and the code

`credential` is the row, `grant` what the provider still accepts of each
authorization, `call[c]` a call that has read the row or awaits `adapter.refresh`.
A process does one thing between two awaits (`Busy`), but another process of the same
file may write between two of its statements. `Resolve` and `Recover` therefore only
read the row; `ClaimRefresh` then claims whatever row there is when it is `Claimable`,
with the token that was read, and `Condemn` is requireReauthorization, whose UPDATE
compares nothing. `Serve` is the provider rotating the token, `Refreshed`, `Rejected`
and `RefreshFails` the continuation after the await, which writes only if
`HoldsRefreshLease`. `claimed` is history: the token of the row a call claimed. The
lease's owner is the process, not the call, and the revision is read after the await:
two calls of one process pass for one another, which `LateAnswersAreFenced` excepts
and *Findings* describes. Revisions, compared with what the same synchronous step read, are
left out, and put, which takes nothing over from the row it read, is one step.

### XpLedger, StreamRewards and the code

`xp[k]` is the event under key `k`; a balance is folded from the events, cut at zero
as the code does (`AtLeastZero`). Each operation is one transaction. In
`StreamRewards`, `OpenReceipt` and `Resume` are the first transaction of redeem,
`Pay` the spend in SPMT, `SettleReward` and `RefuseReward` the second transaction;
`GiveUp` leaves the payment under way in `late`, which `LatePayment` still applies.
Any other user of the ledger is `AwardXp`, `SpendXp`, `TransferXp` and `GambleXp`
under other keys.

### EventOutbox and the code

`record` and `row` are the outbox table, `owed` the webhooks registered when an event
was published (history), `pass[p]` a call of runOnce: the rest of its batch, the
record being posted and the webhooks it has yet to be posted to. `ClaimOutbox` takes
expired leases and due records, oldest first; `Leased` is all that complete and fail
compare, for the worker id is the same everywhere. `PassEnds` is a process that dies.
Nothing in `src` calls runOutboxOnce on a timer, so no liveness is claimed.

### HumanSessions and the code

`family` is the table in the order of issue, `wire` the calls under way, `held` what
reached the owner. `Present` and `Arrives` let a call be sent again and arrive twice
or late; `RotateRefresh`, `ReissueRefresh`, `ReplayRevokes` and `DenyRefresh` are the
four ways rotateHumanRefresh ends, `Answered` whether the answer arrives. `ChangeKey`
is a start with another rotation key. A token may expire before or after its
predecessor: the successor's lifetime is rounded down to the second, and raised to
300 s. `service` and `granted` are the identity with its `authzVersion` and the access
issued at each version. What the owner presents is no code of this repository: that
it keeps the newest token that reached it (`Answered`) is an assumption about the
client, on which `OwnerKeepsUp` rests.

### DeviceCommands and the code

`device`, `automation` and `codes` are SPMT's platform data, `enabled` the installs,
`identity` the service identity the exchange registers. `command` holds the jobs:
`MayRequest` is authorizeDeviceJob, `Authorized` companionCanClaim, `Accepted`
authorizeWorkerJob with requireLease. `companion.at` is where execute stands between
two awaits; `receipts` is companion_receipts, `applied` what the adapter did.
`withdrawn` is history: the owner has since withdrawn or replaced what a command
rests on. The jobs are those of `ExecutionJobs`, below its scan limits, with the
device's checks added. Two facts of the code that no property calls wrong: a
command whose grant was withdrawn stays queued (and counts among the 200 candidates
of its tenant), and an install that is disabled and enabled again revives its
commands, for an install has no grant id. An exchange whose identity exists already
uses the code up, pairs the device anew and drops its grants before it fails.

### How they fit together

Jobs live in SPMT's platform data; connection rows and chat tables share the
gateway's SQLite file, and one value: the resume cursor is a column of the
connection's row, `cursor` in `ChatDelivery`. The other link is a socket's event:
in `ProviderConnections` it can end the process, which in `ChatDelivery` is
`Restart`, enabled at any moment, and a superseded socket that still delivers is
`Arrives` from an earlier cursor. Each module thus allows the other's part any
behaviour, and they are checked apart.

`StreamRewards` extends `XpLedger`: two processes, composed over one journal.
`MCSpmtAuthority` puts it beside the other authorities of the SPMT process. These
share no state, so their product would only multiply the states: each behaviour of
the run picks one part and leaves the others in their initial states. Grants that the
chat supervisor asks for come from `ProviderCredentials`; `ProviderConnections`
allows any answer to that question.

## 3. The runs

| Run | Question | Result |
|---|---|---|
| `execution_jobs` | budget, fencing, result, keys, allowance, live leases, contract | holds, 1,028 k states |
| `execution_jobs_live` | does every accepted job settle for which a worker's provider is healthy again and again? | holds, 272 k states |
| `execution_jobs_scan` | is an expired lease always swept? | violated: finding 1 |
| `execution_jobs_metered` | is every attempted job metered? | violated: finding 2 |
| `provider_connections` | two processes and one Discord connection, or one process with a configured and a discovered connection: leases, registrations, pauses; is each connection retried? | holds, 168 k states |
| `provider_connections_grant` | does a grant bound every socket? | violated: finding 3 |
| `provider_connections_kill` | can a provider event end the process? | violated: finding 4 |
| `chat_delivery` | two edits out of order, or an edit and a removal, two consumers, overlapping flushes | holds, 263 k states |
| `chat_delivery_lost` | is everything the cursor passed saved? | violated: finding 5 |
| `spmt_authority` | credentials, ledger, rewards, outbox, sign-in tokens, device commands: fencing, bookkeeping, delivery, currency of access, withdrawal; and refreshes end | holds, 282 k states |
| `spmt_authority_rejected` | is a rejected redemption never charged? | violated: finding 6 |
| `spmt_authority_transient` | is a command that was carried out never reported failed for good? | violated: finding 7 |

Deadlock is checked in every run but the three of `spmt_authority`: their parts stop
where a bound is reached (all requests redeemed, all tokens issued).

### Bounds, and why they are enough

- *Jobs*: two workers sharing a `workerId` is the case fencing exists for (a
  restarted process and its predecessor). Two attempts give one retry and a
  dead letter. Two jobs, two tenants and three requests, two of them with one
  key and different input, give key reuse, the tenant order of claimAny, an
  allowance of 2 that two requests of 1 exactly reach, and one of 3 that a second
  request of 2 exceeds. `ScanLimit` and `CandidateLimit` are 500 and 200 in the
  code; they are 2, the number of jobs, where the run asks what holds below the
  limit, and `ScanLimit` is 1 where it asks what happens beyond it. In the liveness
  run there are two capabilities of one lane, chat and speech: one worker polls for
  both and the other for speech, so that a job of chat has a worker that serves it and
  one that only sweeps.
- *Connections*: two processes and one connection give every takeover; two
  sockets give the registered one and a leftover. One process with two
  connections gives a pass that serves several rows and is abandoned in the
  middle; one is configured (put at every start), the other discovered (put only
  while running), which retry differently. `Apart` puts both instances into one run: the
  second process and the second connection are never there together. `MaxSockets`
  bounds leftover sockets only.
- *Chat*: three events: a message, then two edits whose times are in the opposite
  order and whose fields differ, or an edit and a removal. Two consumers, one of
  which may be gone after a restart, and two flights, the loop's and one listener's.
  `FlushLimit` is 4, more than the rows there are, so the run is about the gateway
  below its limit of 100.
- *Credentials*: two processes, one of which may have two calls in flight, race for
  the lease; two links of the account, the first renewable and rotated once, give an
  answer that comes after a new link. By symmetry the second call of a process only
  starts beside its first, and what befalls the second link's grant at the provider is
  what befell the first's.
- *Ledger and rewards*: two users, and amounts that overdraw, cancel and are cut at
  zero. The ledger's own operations all use one base key, with every suffix, so that
  derived keys collide. Two requests by two users for one first-per-stream reward, two
  calls in flight, two quotes: a retry with another quote, a lock taken and given
  back.
- *Outbox*: two passes under one worker id. One event with two webhooks gives
  sequential posts and a failure in the middle; two events with one webhook, registered
  before them, a batch whose second record is posted under a lapsed lease. Two
  failures end in a dead letter; three claims allow a claim beyond them.
- *Sessions*: three tokens give a successor and its successor, which is what a replay
  needs; three versions of a service with two credentials and two policies.
- *Devices*: one app, two actions of which one is registered on the device, two
  attempts, two grants, one code. Two commands: the second, made under the second
  grant, is explored beside a first of the first grant, the case in which the first
  must not revive; from then on the owner changes nothing, as one command alone has
  shown every change of his.

### Findings

1. **An expired lease can be stranded** (`execution-core/src/index.ts:239`).
   requeueExpired reads the 500 oldest retained jobs of the lane, finished ones
   included, before it looks for expired leases. Once 500 older ones are
   retained, a newer expired lease is never taken back: the job is neither
   retried nor dead-lettered, until retention deletes enough of the older ones.
2. **A job can run unmetered** (`execution-core/src/index.ts:108`). The insertion
   and the metering are two transactions; a process that dies between them leaves
   a queued job that is claimed and run, and a replay of its request answers
   duplicate. `docs/STELLAR_CHAT_VERTICAL.md:9` says usage is consumed once.
3. **A socket can outlive its grant** (`connection-supervisor.ts:178`). Only
   registered sockets are closed at grant expiry. A handshake that timed out and a
   Discord op 7 or 9 leave an open socket out of the map.
   `docs/architecture/STREAMWEAVER_ECOSYSTEM_INTEGRATION.md:213` says otherwise.
4. **A provider event can end the gateway process**
   (`connection-supervisor.ts:212`). onDisconnect and onCursor write the row, which
   throws when the lease is gone, inside a listener nobody guards.
5. **The cursor can pass a lost event** (`provider-drivers.ts:62`). The Discord
   driver commits the sequence before it hands the event on and swallows the
   failure of what follows. `docs/architecture/CHAT_GATEWAY_COMMLINK_TRANSPORT.md:35`
   says ingestion is acknowledged only once durable.
6. **A rejected reward can be charged** (`apps/streamweaver/src/reward-runtime.ts:62`).
   Two calls of one request overlap: the refusal of one payment rejects the receipt
   for good, while the other payment is under way. If the user is awarded XP in
   between, it is accepted, and neither awarded nor refunded.
7. **A command that was carried out can end as failed**
   (`apps/companion/src/execution-worker.ts:21`). When the answer to the report of its
   success is lost, the worker reports a failure, and only errors of the adapter are
   reported retryable: the command ends failed, although a retry would have been
   answered from its receipt. `docs/PARITY_LEDGER.md:143` says transient failures are
   kept retryable.

`PROJECT.json` quotes the lines each of them contradicts. Two more behaviours have no
run of their own.

- *Queued jobs of another capability can hide a job* (`execution-core/src/index.ts:198`).
  A claim looks for its capability among the 200 oldest queued jobs of a tenant's lane.
  Speech and chat share the lane of Stellar Core, and each worker polls for its own
  capability (`apps/stellar-core/src/worker.ts:135`): 200 queued jobs of the one, while
  nobody polls for them, stop the other for that tenant. `ExecutionJobsLive.cfg` with a
  `CandidateLimit` of 1 and workers that poll for chat only violates `EveryJobSettles`.
- *Tokens of an earlier link can replace the newest* (`credential-authority.ts:295`).
  The revision a refresh compares is read after its answer, and the lease names the
  process. One process awaits the answer for the old link; the account is linked anew
  and another call of that process claims the new link; the first call then stores the
  old link's tokens. So can a call that read the row before another process's put and
  claimed it after. `docs/architecture/PROVIDER_CREDENTIAL_AUTHORITY.md:20` says the
  tokens are resealed under a revision fence, which `LateAnswersAreFenced` therefore
  does not promise without its exception.

### Fairness

- *Jobs*. Weak fairness of `LeaseExpires` (time passes) and of the end of create,
  which is the same synchronous call. Strong fairness of a worker's `Poll`: any one
  poll may be lost, but a poll made again and again in the end reaches the service.
  That the worker comes to poll is not assumed: it does not while its provider is
  unhealthy (`worker.ts:134`), so `EveryJobSettles` speaks of the jobs some worker
  polls for that finds its provider healthy for ever again (`KeepsPolling`). Nothing
  is assumed of what a worker does with a job it claimed: it may crash each time, or
  a call of it hang, and the job still settles by its budget, because an attempt makes
  two heartbeats at most and its lease then runs out. If no such worker's provider is
  healthy any more, a queued job, or one with an expired lease, stays active for ever.
- *Connections*. Weak fairness of leases and backoffs running out (time) and of the
  reconcile loop of a process that is up: the service repeats it, a failed pass after
  at most 30 s, and every awaited call has a timeout. Nothing is assumed of the
  provider: opening may fail for ever, so `DesiredIsRetried` promises attempts, not
  success, and it promises them only once some process stays up; that an ended process
  is started again (`service-start.ts` and the container) is not assumed.
- *Chat*. The process is not restarted for ever (`<>[][~Restart]`). Weak fairness
  of the service loop's listing and of each call it awaits being applied,
  answered or failed; strong fairness of being applied and of being answered:
  a call repeated for ever is in the end applied and in the end answered. That
  last assumption is about the network and SPMT, not about this code; without it
  a row is retried for ever and never settled. Listeners' flights need none.
- *Credentials*. Weak fairness of a lease running out and of a token ageing (time), of
  apps asking for the credential, of a process finishing what it does before it awaits,
  and of a call being served and answered or failing. That last is an assumption about
  the network and `fetch`: `formRefreshAdapter` (`credential-authority.ts:344`) sets no
  time-out of its own. Strong fairness of an answer that comes while its process still
  holds the lease: answers usually come within 30 s, so a refresh repeated for ever is
  in the end answered in time. Processes do not crash for ever. Outbox, rewards,
  sessions and devices are checked for safety only.

## 4. The proofs

Constants are constrained only by the named assumptions of each module: bounds
are naturals, attempts and consumers at least one, requests and profiles well
typed, null values distinct, limits of an allowance naturals (the contract's
reader refuses any other, `packages/contracts/src/index.ts:411`). There is no
assumption on how many workers,
tenants, processes, connections, messages or flights there are, on which workers
share an id, or on the limits of the scans.

Each proof module shows that the initial states satisfy an invariant, that every step
keeps it, one step of the proof per action of `Next`, and that it implies the property.
`IInv` below is that invariant; where a module proves two components it has a name of
its own (`SessionInv`, `CredentialInv`, `OutboxInv`, `DeviceInv`).

**ExecutionJobs.** `IInv` adds to the type invariant: *Births*, no row lies
beyond `issued`, and the job that awaits its bill is queued, never attempted and
carries a request; *RowOK*, each row is coherent (the fencing epoch counts the
attempts, which stay within budget; a queued row has some left, a dead letter
none; only finished rows are redacted; a result exactly when succeeded and not
redacted, and of the last attempt); *Fenced*, a lease
a worker believes in names an issued job, carries an epoch no greater than the
row's, and is believed by that worker only; and *OneJobPerKey*. *Fenced* is why
`ExclusiveLease` holds with shared worker ids: neither the owner nor the expiry
tells two processes apart, only the epoch does, and a claim stamps a new one.
From it follow `RetryBudget`, `ResultIsLastAttempts`, `OneJobPerKey`,
`FinishedIsFinal`, `LiveLeaseKept`, and the refinement: every step moves each job
as `JobContract` allows, or leaves it alone. Retention changes a finished job's result,
but only to take it away: a redacted job carries metadata, which the contract calls no
worker's result, and is never anything else again.

`WithinAllowance` takes one conjunct more, *Metered*: the ledger is finite. A usage
event adds its quantity to the usage of its account and to no other (`UsedGrows`, from
`SumTheorems`), and `CreateConsume` demands that the sum stays within the limit.

**ProviderConnections.** `IInv` adds to the type invariant and to
`IdleRowsUnleased` and `RegisteredIsOpen`: *SocketsOwned*, an open socket belongs
to a process and a connection; *Serving*, a process that awaits a grant or a
socket is serving a connection. `ReauthorizationPauses` follows because
every write but put demands that the row's owner be the writer, and a paused row
has none.

**ChatDelivery.** `IInv` adds to the type invariant: *Unstored*, no delivery
exists for a message not stored; *Listed*, a flush lists only deliveries that
exist; *RemovedIsKnown*, a row that is removed has lost its content and its removal
is kept; and `ShownIsCorrected`. All actions touch the projection in one of the
four ways `ProjectionMoves` lists (lemma `ProjectionSteps`): nothing, an
insertion, an insertion and its correction, a merged correction. Each of the four
keeps a corrected row corrected and a removed one removed (`ProjectionKept`),
because correcting twice with one patch is correcting once (`CorrectedOnce`) and a
merge never forgets a removal (`MergedKeepsRemoval`). `DeliveredIsFinal` follows
from *Unstored* and *Listed*: ingestion writes deliveries only of a message not
stored, so it cannot reopen one.

`SettledWasApplied` and `NewestEditShown` take a second invariant, `SInv`, proved on
top of the first. *Stored*: rows are ranked in the order they were stored in, one rank
each (`NumberedNext`, by cardinality), so a turn of a flush is one row's
(`RankedApart`); *Calls*: while a flush awaits an answer, what was applied is the row
whose turn it is, so completing marks nothing else; *Known*: a patch is the merge of
saved corrections of its message, and an edit's fields are those of the saved edit
with its time. A correction that was taken in stays so under every later merge
(`MergedReflects`); an edit newer than all that is known of its message is therefore
the one the patch names in each field it carries.

`FinishedIsFinal`, `DeliveredIsFinal` and, below, `LeaseMatchesState` are proved and
checked by no run: the first is part of the contract a run checks, the others carry
the proofs of their neighbours.

**ProviderCredentials.** `IInv` adds to the type invariant: *LinkedHasToken* and
*FlightHasToken*, rows and calls carry tokens of a link; `LeaseMatchesState`; and
*LeaseIsCall*, a lease of a living process stands for a call of its that claimed the
very tokens of the row, and has not yet ended. A call that read the row and has not
claimed it holds nothing, and none of its process's other calls runs until it has.
Without *LeaseIsCall*, a late answer could be applied under a lease nobody answers for;
with it, whoever passes `HoldsRefreshLease` having claimed other tokens has a sibling
call, the exception `LateAnswersAreFenced` names. `WithdrawnUntilLinked` needs no lease:
no write but put's makes a row usable unless the row was leased, and a row that is
withdrawn is not.

**Sums.** `SumTheorems` is about the fold the models use, `SumFunctionOnSet`, for any
function to the integers and any finite set. The library's induction theorems are out
of the provers' reach (below), so induction is stated of sets: a set of naturals that
has 0 and each successor is all of them (`NatSetInduction`); a family of subsets of a
finite set that has the empty one and each one more element has them all
(`SubsetInduction`). With these, every order of adding up gives the same sum
(`SumsAnyOrder`), which is what the fold computes (`SumIsSums`); `SumType`, `SumAdd`,
`SumRemove` and `SumSame` are what the proofs cite.

**XpLedger and StreamRewards.** *TransferBooked* and *GambleBooked* are inductive
because the journal only grows and a settlement demands that its keys be free.
*Books*: the journal is typed and finitely many keys are used, so a post adds one
summand to one balance (`PostBalance`). Each operation takes no more than the balance
it read, so `NeverOverdrawn` is what its step does to the sum; a transfer or a gamble
posts twice or three times, a key at a time. *Wallets* adds the rewards' types and
`LocalWalletBalances`: completing a receipt adds one summand (`BalanceGrows`), and
only a pending one can be completed, however many calls overlap. For rewards,
*HoldsLock*: a first-per-stream redemption that is not rejected has the lock;
*ReceiptOK*: what is pending waits for a payment in XP, what is complete had it;
*CallOK*: a call in flight, and a late payment, is of an open receipt.
`ChargesMatchReceipts` assumes `OnlyRewardsSpend`: nothing but redeem spends under a
redemption's key, `reward:<request id>`; other apps may post an award there.

**EventOutbox.** *Begun*: what a pass has at hand was published and claimed, so no
event is published anew under it. *StillToPost*: of the webhooks owed the event at
hand and enabled, those it need not post to any more have received it, whatever other
passes do; this is what survives a completion under another pass's lease. The
refinement maps each step to one of `EventPromise` or to a stutter.

**HumanSessions.** *Chain*: every token but the last is used and points at the next.
*KeepsUp*: the owner holds the last or the one before; *Presented*: no call carries a
token the owner has not held. So a first use, always of the last token, is of the
token held, and the owner falls at most one behind. *GrantedIsOfVersion*: access of
the present version was issued for the present credential and policy.

**DeviceCommands.** *GrantsGiven*: grant ids are counted up, and an app without one
has no actions. *WithdrawnForGood*: a withdrawn command's device is revoked, which
nothing undoes, or its app's grant is another than its own, and stays so because ids
are not given twice; `Authorized` then refuses it at every claim, heartbeat and
report. *Receipted* and *AtWork*: a completed receipt follows an effect, and a
Companion that calls the adapter has found no receipt.

**SPMT as a whole.** `MCSpmtAuthority` runs one of its parts and leaves the others at
rest; `PartsRun` shows that each of its behaviours is one of every part's own
specification, so that the parts' theorems are true of it: `SpmtTyped`, `SpmtSafe` and
`SpmtSteps`. `PartsAssumption`, which TLC evaluates, says that the awards beside the
rewards are the ledger's and its own base key is no redemption's; with it,
`OthersSpendElsewhere` shows that the apps around redeem satisfy `OnlyRewardsSpend`, so
`SpmtCharges` needs no hypothesis.

### What the findings take

A violation shows one way to go wrong. For five of the seven findings a theorem says
which steps are needed, by proving the violated property, or what stands behind it,
of all behaviours without them:

| Finding | Theorem | Nothing goes wrong without |
|---|---|---|
| 1 | `PollSweeps` | more jobs of a tenant retained in a lane than the scan reads |
| 2 | `OnlyACrashLeavesUnmetered` | a crash between create's two transactions |
| 3 | `OnlyAbandonedEscape` | a handshake that times out, or Discord's op 7 or 9 |
| 5 | `OnlyLostIngestionLoses` | a store that throws, or a crash, after the cursor was saved |
| 6 | `OnlyOverlapChargesRejected`, `SpmtRejections` | two payments of one request under way |

The restrictions are on behaviours of the specification, not assumptions on the
system: each names an action, or a state, that the code allows and the finding's run
reaches. A repair of the named step would be enough for the property.

- *Billed* (2): a job that waits, is worked on or ever was is metered, or is the one
  create is about to bill. No action makes a job active again once it is not
  (`NothingRevives`, from the refinement), so only a new job needs a bill.
- *AllRegistered* with *ServedApart* (3): every open socket is in its process's map,
  and the connection being opened has none there that registering would replace. What
  is registered is closed at grant expiry (`GrantBoundsRegistered`).
- `PassedIsSaved` is inductive by itself once nothing is lost (5): an arrival moves the
  cursor at most one event on and stores that one, and what is stored stays
  (`KeptSteps`).
- *Spared* (6): a rejected redemption is neither charged nor being paid, and a call
  that was refused has not been charged. The second is what a second payment breaks.

For findings 4 and 7 such a theorem would only repeat a guard, that of the events that
end in `Dies` and that of a lost report.

### What is only model-checked

- Liveness (`EveryJobSettles`, `DesiredIsRetried`, `RefreshEnds`, `SupersededIsGivenUp`,
  `GrantBoundsRegistered`, `DeliveriesArrive`, `RemovalsArrive`): fairness and
  ENABLED are outside the prover's reach.
- The seven violations, which are behaviours and need no proof.

Every invariant and action property of the passing runs, and both refinements, are
proved for every value of the constants.

The library's induction theorems take an operator as a parameter, which none of the
provers can instantiate; `SumTheorems` goes around that for the one recursive
definition the properties depend on.

## 5. Plan

Done: the nine components above, those most exposed to interleaving and failure, with
the safety results of each proved, and those of SPMT's authorities composed.

Left, in this order:

1. `ChatDelivery`: the flush limit under rows that never settle (a run beyond
   `FlushLimit`); the fields only an older edit carries; the consumers' own receipts
   (StreamWeaver's command router).
2. Discord Stream Hub's live announcements: a remote effect before its local receipt.
3. `ExecutionJobs` beyond the 200 candidates, and the fence of `ProviderCredentials`
   against answers for an earlier link, as runs.
4. HearMeOut's encoder lease, and the fleet's rotator once something calls it.
