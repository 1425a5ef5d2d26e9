# Eden3 in TLA+

Specifications, model checks and proofs for the parts of Eden3 that move money
(manna), exclude one another, or carry work through crashes and retries. Paths
below are relative to `src/`; `services/` is `apps/api/src/services/`, `routes/`
is `apps/api/src/routes/`.

Eden3 is a Next.js application, a Fastify API (`apps/api`), PostgreSQL, object
storage and an external OpenClaw gateway. Several API processes may run; they
share nothing but the database, the storage and the gateway. Almost every hard
behaviour of the system is therefore a question about transactions of several
processes with `await`s, crashes, lapsed leases and lost answers between them,
and that is what is modelled.

## 1. Inventory

| Component | State | Operations | Hard behaviour | What makes it correct |
|---|---|---|---|---|
| **Manna ledger** `packages/core/src/manna.ts` | `manna_accounts` (two pots: subscription, balance), append-only `manna_transactions` with a unique idempotency key | `debit` (daily and rolling cap), `credit`, `refund`, `settleReservation`, `reverseReservation` | statements of concurrent transactions at READ COMMITTED; retries; advisory and row locks; two clocks | no overdraft, no over-refund, exact return to each pot, caps not exceeded, no deadlock |
| **Turn authorization kernel** `services/turn-authorization.ts` | `turn_authorizations`, `turn_provider_runs` (one ticket, output mark), `usage_events` | reserve, claim the provider start, mark usable output, settle, settle partially, reverse or reap | any caller runs any of them at any time; a joined row read before a lock wait | money, state and usage agree; a marked turn is not refunded; terminal is final |
| **Interactive chat turns** `services/turns.ts` | locals of `runClaimedTurn`; SSE stream | reserve, ticket, prepare, stream, terminal transaction; error paths | a failed or unacknowledged call at each `await`; races with the reaper | delivered is paid; an undisturbed turn is exact |
| **Turn reservation reaper** `services/turn-reservation-reaper.ts` | none (scans) | partial settlement or reversal of stale rows | live but slow turns; rows that fail | every reservation ends |
| **Channel metering** `services/channel-metering.ts` | `channel_turns` | reserve, mark, settle, refund, delivery failure, proof of delivery, stale sweep | repeated and overtaking requests; overlapping sweeps; crashes | delivered is charged, refunded is free; every turn ends |
| **Subscription turn claims** `services/subscription-turn-claims.ts` | `claude_session_turn_claims` | acquire, heartbeat, release, takeover | late statements; clock skew; crash of the owner | one turn per gateway session |
| **Chat limits** `services/chat-limits.ts` | one process's counters and queues | acquire, enqueue, drain, time out, release, shut down | answers that race a timer or a closed connection | slots are held by live turns; nobody is passed over |
| **Scheduled tasks** `services/scheduled-tasks.ts`, `task-scheduler.ts`, `routes/triggers.ts` | `triggers` with claim, generation, pending occurrence | claim, run, record, refund, recover, reap, pause, edit, delete | recovery of a process that is only slow; refunds that fail | an occurrence is debited once, recorded once, and ends |
| **Studio reservations** `services/studio-reservations.ts`, **chat media** `services/chat-media-*.ts`, **media pipeline and watcher** | `usage_events` of a generation, watcher queue, `creations` | reserve, admit, claim of the file, ingest, compensate, reap, quarantine | files carry no request; an answer after the timeout; restart of the watcher | what is kept was paid; a request never gets another one's file |
| **Uploads** `services/upload-*.ts` | upload session, parts, multipart, object, two durable queues | initiate, sign, complete, quarantine, abort, expire; cleanup and event workers | concurrent completions; claims that lapse under a live worker | only the declared bytes are served; a late worker changes nothing |
| **Transcription** `services/transcription-postgres.ts`, `transcriptions.ts` | dictation row, chunks, debit, usage row, lease | create, append, finalize, delete; four maintenance steps and processing per tick | takeover while the provider answers; deletion at any time | a transcript is paid and wanted; audio goes away |
| **Voice kernel** `services/voice-kernel.ts`, `voice-reconciliation.ts` | note, reservation, generation counter, outbox | request, synthesize, publish, settle, clean up; reconcilers | reconcilers against a live request | one charge per served note, none for another |
| **Billing** `routes/billing.ts` | `billing_subscriptions`, checkout intents, vouchers | Stripe webhooks, checkout, redemption | duplicates and reordering; events of one second | plan follows the events; each payment is credited once |
| **Account erasure** `services/account-erasure*.ts` | jobs, targets, recovery manifest, WORM intent | request, seal, confirm, claim, elect, erase, reconcile | new work and references while it runs; shared files; lapsed claims | nothing is removed before it is recoverable; shared files survive |
| **Agent provisioning and runtime sync** `services/agent-provisioning.ts`, `agent-runtime-sync.ts`, `routes/agents.ts`, `routes/workspace.ts` | `agents` (status, two sync versions, claim), `agent_provision_jobs`, files, gateway configuration | build, edit, save `SOUL.md`, render, retry, take over | edits while rendering; claims that outlive locks | a synchronized runtime shows the row's revision |
| **Memory dreaming** `services/memory-dreaming.ts` | `memory_dream_sweeps`, `memory_dream_runs` with their checkpoints, a reservation, dream files | claim sweep and run, seed, promote, turn, write files, recover, finish | leases that lapse around acts that cannot be undone; lost checkpoints | nothing external is repeated; a finished dream is paid and complete; money comes to rest |
| **Channel connections and credentials** `routes/channels.ts`, `services/postgres-*-custody.ts`, `services/channel-connection-quota.ts`, `packages/gateway/src/channel-sync.ts` | `channel_connections` (state, list of senders, generations, two markers), `channel_pairing_requests`, the named account in the gateway's configuration, `channel_onboarding_intents`, advisory locks | store, retry or rotate, activate, deactivate, delete; pair, approve, deny; onboard a managed bot; post to X, revoke | the row and the gateway's configuration change one after the other, and compensation takes further calls; nothing but the locks makes a bot unique | only senders the owner decided for are admitted; an active connection has its account; one connection per bot, within the quota |
| **Metering** `packages/core/src/metering.ts` | none | pricing in floating point | rounding | ceiling bounds charge |
| **Others**: turn registry, events bus, worker loop, history sync, workspace files, authentication, web, infrastructure, scripts | memory of one process, cursors, files, external services | I/O, fan-out, import | – | no protocol of their own |

How they interact: chat turns, channel turns and tasks reserve through the
*kernel*; the kernel, media, dictations and voice notes debit the *ledger*; all
in one PostgreSQL transaction per step. *Reapers*, *sweeps* and *reconcilers*
act on the same rows from timers. The *lease* wraps the turns of one gateway
session, *admission* the turns of one process. The gateway is called between
transactions and answers with events or files. *Erasure* waits for the open
work of all of them.

`PROJECT.json` lists every component with its status, and under `hazards` the
places in this code that a test hardly reaches, with the properties that cover
them or the reason why none does.

## 2. Modules

| Module | Stands for | State ↔ code |
|---|---|---|
| `MannaOps` | the ledger's operations as pure functions of `[balance, subscription, rows]` | `rows` is `manna_transactions` by idempotency key: a caller's key, or the settle or refund key derived from it |
| `MannaLedger` | abstract: each operation is one atomic step | `ledger`; `drawn` (the split a caller keeps), `restored` and `legacy` are history |
| `LedgerTransactions` | each operation as its SQL statements, with locks | `tx[c]` the open transaction of a session, `locks` row, advisory and unique-index locks, `created` and `clock` for the caps; refines `MannaLedger` |
| `TurnAuthorization` | the kernel; one action per transaction | `authz`, `run`, `usage`: the three tables; `reversing`: reversals that hold a snapshot and wait for the row's lock; refines `MannaLedger` |
| `DatabaseCalls` | a call as a process sees it: done, failed, or committed and unacknowledged | `faults` |
| `ChatTurns` | `runClaimedTurn` and the reaper, over the kernel | `me[t]`: the await point and its flags; `reaper`: its row and page; `expired` |
| `ChannelTurns` | `channel-metering.ts` and the reaper, over the kernel | `channel`, `call[c]`: what each request or sweep does next; `stale`, `expired` |
| `ScheduledTasks` | one task: scheduler, runner, recovery, owner's routes, over the kernel | `task`: the row of `triggers`; `w[p]`: where each call of `processDue` or of the route is; `now`: due instants |
| `LeasedJobs` | a row of durable work that replicas claim under a lease | state, attempts, holder of a claim |
| `Uploads` | one session, its object, the cleanup and event workers | `upload`, `store` (the provider), `jobs`, `completion[r]` (with the process it runs in), `work[n]`; `recorder` and `threw` are history |
| `MediaGenerations` | Studio requests and chat tool calls with the gateway, the watcher, the syncs and the reapers | `row`: `usage_events.status`; `tool`, `file`, `claims`, `sighting`, `creation` |
| `Billing` | events of one subscription, one checkout per buyer, one voucher | `plan`, `credited`, `intent`, `checkout`, `redeemed` |
| `Transcriptions` | one dictation and every process's `runOnce` | row, audio, debit, usage, and where each tick is |
| `VoiceNotes` | the voice note of one message, request and reconcilers | note with its generation, reservation, file, outbox, positions |
| `TurnAdmission` | `TurnConcurrencyLimiter` of one process | the counters and queues as one record; `drain` is a recursive function |
| `AccountErasure` | erasure jobs and targets over one file that accounts share | `job`, `target`, `sealed`, `worm`, `manifest`, `rows`, `fileExists`, `agenda[r]`; `unlinking[r]`: unlinks that missed their deadline |
| `AgentRuntimes` | one agent's build, edits and synchronization | `agent`, `build`, `runtime` (revision per part), the two locks, `stage[p]` |
| `MemoryDreams` | the dreams of one agent in every process's sweep, over the kernel | `sweep`, `dream`: the two tables; `d[p]`: where each sweep is; `files`; `promotions` and `prompts` count what cannot be undone |
| `SubscriptionTurnClaims` | the lease of one session key | `turnClaim`: the row; `reads`: clock readings of statements under way; `fresh`; `started` |
| `ChannelConnections` | the lifecycle of one hosted connection, pairing and the runtime's reports | `link`: the row; `pairing`; `gateway`: the account's mapping; `lifecycle`: the lease; `calls[c]`: where each request is and the row it read; `current`: whose read `updated_at` still holds |
| `ChannelCredentials` | the transactions that take credentials into custody, intents, posts and revocations of X | `custody[c]`: the row a call made; `locks`; `credential[c]`: where it is, the locks it still takes and holds; `intents`, `late` |
| `Services` | the last thirteen, from `LeasedJobs` on, side by side (with `ChatTurns` for its liveness) | `service`: the one a behavior is of |
| `MC*` | the small instances TLC checks | |
| `ServiceProofs` | theorems of chat turns, dictations, uploads, runtimes, media and dreams | extends those modules and `TurnAuthorizationProofs` |
| `AccountProofs` | theorems of erasure, billing, gateway sessions, credentials and connections | extends those modules |
| `LedgerTransactionsProofs`, `ScheduledTaskProofs`, `ChannelTurnProofs` | theorems of interleaved ledger transactions, tasks and channel calls | extend `MannaOpsProofs`, `TurnAuthorizationProofs` |
| other `*Proofs` | lemmas and theorems of the module they are named after | |

`ChatTurns`, `ChannelTurns`, `ScheduledTasks` and `MemoryDreams` extend
`TurnAuthorization`, which extends `MannaOps`: every step of a turn runs the ledger's real
functions, so their properties speak of money and not of a flag. The modules
gathered in `Services` share no variable but the kernel under chat turns and
dreams, whose turns are distinct; so a behavior of one run is a behavior of one
of them, and the state spaces add up instead of multiplying.

### Abstractions

* Amounts are naturals in units of 0.0001, the resolution of the column. The
  rounding of doubles in `manna.ts` is not represented. A charge is any amount;
  the kernel caps it at the reservation.
* The settle key and the refund key of a reservation are in a name space
  disjoint from callers' keys, as the string prefixes make them. A replay of a
  caller's key carries the parameters of its first use (`Intent`).
* A claim's random token is named by its holder, or by its attempt number where
  attempts only grow. A lease is one bit that is set when it runs out; a row's
  age is one bit too. Both may happen to a live process: a slow one.
* A failed call is one that did nothing, or (with `LostAcks`) one that committed
  and whose answer is lost. Crashes and faults are bounded together by each
  module's `Max…Faults`.
* *Turns*: `usage.status = "completed"` stands for `completed`, `missing_usage`
  and `unmetered`, which carry money alike. Spend caps, account deletion and
  connection checks refuse nondeterministically. Messages, titles and memory
  hooks move no money; what they can do is throw, and that they do.
* *Tasks*: schedules are a few instants. A fenced reversal keeps the row of
  `triggers` locked while it waits, so it is one step.
* *Uploads*: a part's content is the declared one or another; R2 accepts a part
  only with the checksum its URL binds. Each completion request comes once, to
  any process; repeated parts and calls count as faults.
* *Media*: a file has the name of the request whose run wrote it and no guard of
  the API's looks at it, except through the transcript, where a chat run's
  message names its file.
* *Dictations*: every row a loop reads counts as old enough for it; quotas and
  the order of the sweeps among sessions are left out.
* *Voice*: likewise; the reconcilers are separate loops with their own reads.
* *Admission*: a caller releases its slot once. The refusal of a signal that is
  already aborted is a refusal like the others; tiers and the day's spend are
  answers of a query.
* *Erasure*: one global advisory lock begins each store operation, so a
  transaction is one action. Every account has one external target, its
  reference to one content-addressed file.
* *Runtimes*: the content of a part is the revision it was rendered from. A lock
  belongs to a database session and goes with its process; a claim in the row
  does not. A row whose next attempt is not due is a tick that does not happen.
* *Dreams*: one agent with one owner. A run's turn has the run's id. A response
  is in the envelope or not (`malformed`), once for all of its recoveries. A
  refused reservation counts as a fault, since a cap gives way in time; so does
  the lapse of a lease whose dreamer still works. A fenced reversal keeps the
  run's row locked while it waits, so it is one step. No valid claim outlives
  the day, and older sweeps' counters are forgotten. What an erasure adds to a
  failed reversal (`recordErasureProviderTerminalNoOutput`) is left out.
* *Connections*: a call's identity stands for the random ids it makes, a
  pairing request for its sender. The configuration is the senders and the
  generation, agent and credential they are published with; group lists,
  policies, observed states, error columns, links of senders to Eden accounts,
  destinations and the secret resolver are left out, and so are the refunds of a
  deletion (`ChannelTurns`). A call of the gateway may fail before or after its
  write. The semaphore that keeps waiters for the lease from taking every
  connection of the pool (`channels.ts:685-702`) is a wait for the lease. A
  connection starts inactive or, from before its mappings had generations, active,
  with some agent: which one makes no difference.
* *Credentials*: tokens and bots are model values, the provider names a bot or
  does not, and a rotation is any retry or activation. What an account erasure
  refuses and a deletion, which frees a token, are left out. An administrator,
  whom the quota does not bind (`channel-connection-quota.ts:32`), is not among
  the owners. A post to X ends with the database session that holds its use
  lock; in the code the lock goes and the post may still be on its way.
* *Lease*: a run at the provider ends within `MaxTurn`
  (`AGENT_TURN_TIMEOUT_SECONDS`, enforced by the gateway), also when its process
  has died. `Gap` bounds the age of a live owner's last committed clock reading.
  With the code's numbers (35 minutes of lease, 30 of turn) `LeaseAssumption`
  allows skew and silence of just under five minutes together, a few failed
  heartbeats of 60 s in a row. Nothing in the code stops a turn that is silent
  for longer.

## 3. Runs

| Run | Question | Instance and why it is enough |
|---|---|---|
| `ledger` | Do the operations, atomically, keep every promise in any order? | Two accounts, four keys, amounts 1 to 3, every operation under every key: debits that draw from both pots, settlements, reversals and legacy refunds, replays of each |
| `ledger_atomicity` | Do the interleaved statements implement that? | Two sessions, four keys that replay, losses at every statement: each pair of operations interleaves at each statement |
| `ledger_caps` | Do the caps hold under concurrency (`CapsHold`), with no deadlock (`NoDeadlock`)? | Two accounts that share an automation scope; two debits exceed the daily cap and two the rolling one; the clock passes midnight |
| `turn_authorization` | Does the kernel keep money, state and usage together whoever calls what? | Two turns of one payer, so that they compete for the balance |
| `chat_turns` | Is what was delivered paid, whatever fails? | Two turns, the reaper, two faults with lost acknowledgements: one in the turn and one in its repair |
| `channel_turns` | Is delivered charged, refunded free, finished final, and does every turn finish? | One turn, two requests or sweeps and the sweep's timer, three faults: claim, reversal and its failure mark may each fail |
| `scheduled_tasks` | Is a failed occurrence free and a notified one paid (`OutcomesArePaid`)? Does no prompt leave twice or after compensation began, and no failure count twice (`NothingTwice`)? | Two workers, two due instants and a manual run; two disturbances among faults, edits and manual runs (`TwoDisturbances`) |
| `scheduled_ends` | Does every claimed occurrence get recorded? | One occurrence, two workers, two faults with lost acknowledgements, one edit |
| `services` | The safety of the services with tables of their own | see below |
| `services_end` | Their liveness | see below |
| `erasure_manifest` | *violated:* every manifest is confirmed | one account, no fault but a process that stops |
| `chatted_runtimes` | *violated:* a synchronized runtime is current | one build, one chat that builds, one edit |

`services` looks at one service per behavior:

| Service | Properties | Instance |
|---|---|---|
| uploads | `HealthyIsServed`, `ClaimsAreFenced` | two completions, in one process or in two, the workers of both, one lapse, restart or failed call, two attempts |
| media | `ArtifactsArePaid` | two Studio requests and a tool call, of which two are begun, a watcher, a sync, two faults |
| billing | `PlanFollowsEvents`, `SlotsAreCredits` | five events in two seconds and three ranks, two of them invoices; a checkout; three redeemers of two accounts for two slots |
| transcription | `TranscriptIsPaidAndWanted` | two processes' ticks, an owner who may delete at any time, two slips |
| voice | `VoiceNotesAreExact` | one request, one loop of each kind, two notes (the second supersedes the first), two faults |
| erasure | `ErasedWhenRecoverable`, `SharedFileSurvives` | two accounts that may share the file, one sweeper, two attempts, one fault: an erasure that fails or outlives its deadline, a failed sink, a lapse at any point, a restart |
| dreams | `DreamsAreExact` | one run, two processes' sweeps on any number of days, two faults with lost acknowledgements: one that interrupts the dream and one in its recovery |
| admission | `SlotsAreUsed`, `RoundRobin` | five callers of three accounts, one a task; two slots, three places, limits 1 and 2 |
| sessions | `OneTurnPerSession` | three turns (owner, successor, a late statement of a third), one clock ahead, a lease just longer than assumed, six ticks: a takeover and a lease after it |
| agents | `RuntimeIsCurrent` | two builders, a request and a scheduler in two processes, two edits, two faults |
| connections | `OnlyTheDecided`, `ActiveIsPublished` | two requests of the lifecycle of any kind, or a report of the runtime; two senders who ask and one who is listed; two agents; two faults: an interrupted request and the one that finds it, or a compensation that fails itself |
| credentials | `CustodyIsExclusive` | two bots, the first with two tokens; a quota of one; four sets of calls and intents (`Workloads`) whose locks cross: creations of two owners with a managed bot and a rotation; a creation, an exchange and an X connection of one owner; two exchanges; X connections with a post and a revocation |

`services_end` checks `EveryPaidJobEnds` (chat turns, generations, dictations,
voice notes), `EveryPaymentIsCredited` (checkouts completed with their money) and `EveryRecordedJobEnds`
(multipart cleanups, quarantine events, erasures, builds and synchronizations,
dreams) on one job of each kind with one fault, or two for media, chat turns and
dreams. Chat turns and dreams run without lost acknowledgements here: a lost acknowledgement of the mark and a
failed reversal together leave a reservation the reaper cannot end (see 5).

Bounds: `Max…Faults` (failed calls, crashes, lapses), `MaxClock`, `MaxEdits`,
`MaxRevision`, `MaxNotes`, `MaxGenerations`, attempts, and the sets of turns,
keys, sessions and amounts. Symmetry is used only where a run checks no
liveness property. TLC's own check for deadlock is on in the ledger's concurrent
runs, but says nothing there while a transaction is open, since a connection can
always be lost; that no transactions wait for each other is the invariant
`NoDeadlock`, and `CustodyIsExclusive` says the same of the custody's locks. The
other runs switch the check off because the system really may stop there: all
work is over, or a bound is reached.

### Fairness

Faults are bounded, so a retry succeeds in the end. Beyond that:

* `LedgerTransactions`, `TurnAuthorization`: none; nothing is assumed of callers.
* `ChatTurns`: weak fairness of the reaper (`background-worker-loop.ts` keeps
  calling it) and of a reservation's growing old. None of a turn's process: the
  provider may hang for ever.
* `ChannelTurns`: of a handler that runs, of the sweep's timer on each turn, and
  of rows' growing stale. None of the runtime's requests.
* `ScheduledTasks`: of the scheduler's steps and of rows' growing old. None of
  due instants' coming or of the owner.
* Uploads: of the steps of each durable queue, and of claims' lapsing. None of
  clients.
* Media: of the reaper on each row. None of the gateway, the watcher, the syncs
  or the request: what they never answer, the reaper compensates.
* Billing: of Stripe's delivery of a completed checkout, which Stripe repeats
  until it is answered.
* Dictations: of each process's `runOnce` and of leases' lapsing. None of the
  owner.
* Voice: of the reconcilers. None of the request.
* Erasure: of the sweeper, of leases' ending and of open work's ending, which
  the fences of its own service bring about. None of the request.
* Runtimes: of builders, of schedulers and of requests, since a request that
  hung would keep the lock; of both leases' running out.
* Dreams: of the scheduler's timer, of a dreamer's steps (a provider that never
  answers would keep its lease alive by the heartbeats, so the gateway's timeout
  is relied on), of the reaper, of the lapse of a lease whose dreamer is gone,
  and of the next day. A dreamer's own lease need not lapse.

### Findings

1. `erasure_manifest` – an erasure whose process dies between the seal and the
   recovery manifest is claimed by the recovery worker, which writes the
   manifest and calls `confirmClaimedRecoveryManifest`. That passes mode
   `unclaimed` on (`services/account-erasure-postgres.ts:1162-1171`), and
   `confirmManifest` then expects a job that is not claimed: the confirmation is
   refused on every attempt, until the job needs attention.
2. `chatted_runtimes` – a chat with an agent that is not ready builds it outside
   the runtime lock (`routes/chat.ts:172-272`). When the provisioning job and a
   synchronization finish meanwhile, the chat's build writes the older model
   over a revision that is recorded as synchronized, against what
   `services/agent-runtime-sync.ts` says its lock is for.

## 4. Proofs

TLAPS checks the following for every value of the constants that satisfies
the modules' named assumptions; finitely many turns, keys, accounts or workers
is not one of them (billing needs finitely many redeemers and the caps finitely
many operations, to count and to add). The
assumptions that are not typings: the kinds of calls of `ChannelCredentials` are
disjoint and an X connection revokes its own credential; there is an agent
(`ChannelConnections`); Studio and chat requests are different
(`MediaGenerations`); ledger keys differ (`Billing`); the lease is long enough
(`SubscriptionTurnClaims`). No theorem has further hypotheses. Each inductive invariant was checked by TLC before it was proved.

* **Ledger** (`MannaLedgerProofs` over the lemmas of `MannaOpsProofs`):
  `TypeOK`, `NeverOverRefunded`, `ReversalRetriable`, `SplitExact`,
  `AppendOnly`, `BalancesFollowRows`. They are not inductive alone. The
  invariant (`IInv`) adds that a reversal returns all that is left
  (`ReversalFinal`), that a debit draws at most what it takes from the
  subscription pot, and that nothing has been restored for a key not applied.
  `LegEffect` says once what any leg does; each operation's step follows. A
  debit has two possible legs, so their sum needs no induction over a set.
* **Interleaved transactions** (`LedgerTransactionsProofs`): `ImplementsLedger`,
  that the statements of any number of transactions, rollbacks included, behave
  as `MannaLedger`; `CapsHold`; `NoDeadlock`; `TypeOK`. `TxInv` says what locks a transaction
  has at each statement and that what it has read under them still stands: the
  account's row guards the pots, the original's row guards its legs
  (`LegStands`), and the entry in the unique index keeps the key free until
  COMMIT. From it each COMMIT is one operation of the atomic ledger and nothing
  else changes that ledger. `CapInv` adds that a debit past its cap checks has
  the advisory locks of its day and scope and that there still is room for it
  (`CapsOf`): only a debit under the same lock adds to the sum, legs and the
  clock only lower it. What the sums are (`Spend` adds member by member, is
  monotone, does not depend on the order) is proved without an induction
  theorem: a least counterexample exists since `<` is well founded on `Nat`,
  and is refuted (`TotalsExist`, `TotalsUnique`, `TotalsAdd`). `InOrder` says
  that a transaction which waits for a lock has only locks of earlier kinds: a
  debit's day, then its scope, then an account; a leg's original, then an account;
  a key last. In any set of transactions one that wants or has the last kind
  waits for none of the others (`OrderRulesOut`).
* **Kernel** (`TurnAuthorizationProofs`): `TypeOK`, `MoneyMatchesState`,
  `SettledUsageExact`, `OutputIsPaid`, `TerminalIsFinal`, and that every step
  is a step of `MannaLedger` or leaves the ledger alone. The invariant joins
  the soundness of the ledger, the match of money and state, exact usage, that
  a run has an authorization, and that a marked turn is reserved, settled or in
  `raced`. That match is what makes the settlement's and the reversal's ledger
  preconditions true whenever their state guards are.
* **Lease** (`AccountProofs`): `SessionTypeOK`,
  `OneTurnPerSession`, `LeaseOnlyGrows`. The invariant (`SessionInv`) says that
  the row shows the last reading its owner committed, that whatever the owner
  has under way is not older, and that a turn which uses the session has the row
  and a reading younger than `Gap + MaxTurn`. The heart is `ActiveLeaseHolds`:
  with `MaxTurn + Gap + MaxSkew < Lease` no reading of any clock finds that row
  expired.
* **Billing** (`AccountProofs`): `PlanFollowsEvents` and `SlotsAreCredits`.
  `PlanInv` adds that only an applied event is credited as an invoice, so that a
  repeated delivery brings nothing new. `SlotInv` adds who is between the two
  statements of a redemption: one at a time holds a counted slot, two of one
  account never, and neither is credited yet; it counts with
  `FiniteSetTheorems`. `KeysAssumption`, that the ledger keys of events,
  checkouts and vouchers differ, keeps a voucher from finding another credit's
  row.
* **Erasure** (`AccountProofs`): `ErasedWhenRecoverable` and
  `SharedFileSurvives`. `JobInv` says what each state of a job and each phase of
  a runner's agenda has already established, which the durable rows alone do
  not tell after a lapse. For the file, no lease helps: it may lapse under an
  unlink, and an unlink may come long after its deadline. `ElectionStands` is
  what outlives both: a target that was elected stays active, and so does every
  row of the file, since an active target refuses new references
  (`ContentIsFree`) and another election, until that target has succeeded.
  `FileInv` says it of every unlink in a sweeper's hands (`RunIsElected`) and of
  every late one (`unlinking`).

* **Chat turns** (`ServiceProofs`): `ChatImplementsKernel`, every step of
  `ChatTurns` is a transaction of `TurnAuthorization` or leaves it alone, so the
  kernel's theorems hold of chats; `DeliveredIsPaid`; `UndisturbedTurnIsExact`.
  `ChatInv` joins the kernel's invariant, that output is delivered only behind
  the mark or the settlement, and, as long as no call has failed (`Calm`), what
  each await point has already established of its authorization, its ticket and
  its usage row: whether the reaper came first decides which of the two writes
  the row, and only the point the process is at tells.
* **Channel calls** (`ChannelTurnProofs`): `ChargedIfDelivered` and
  `FinishedIsFinal`. A settled call may still be compensated, so the kernel's
  invariant does not hold here; `ChannelInv` says instead what the authorization
  and the channel row together tell of the money (`Returns`) and that a billed
  row, its authorization and its usage row state one charge (`RowAgrees`). Of
  the calls under way it needs no more than their types: each transaction
  decides on the rows it locks, which is why late, repeated and overtaking
  calls are harmless.
* **Tasks** (`ScheduledTaskProofs`): `OutcomesArePaid` and `NothingTwice`.
  `TaskInv` joins the kernel's invariant, that a settlement is for output or for
  a completion (`SettledForWork`), and what a worker may rely on at each place
  (`Rules`) *if the row still names its claim and its occurrence* (`Mine`): a
  worker that was taken over may be anywhere, and only the conditions of its
  UPDATEs hold it back. `Recorded` says that an occurrence whose prompt may not
  leave any more (`spent`) was debited, which is the evidence that keeps back
  whoever claims it, with whatever snapshot, and that no failure recorded holds
  a reservation.
* **Dreams** (`ServiceProofs`): `DreamsAreExact`. `DreamInv` joins the kernel's
  invariant and what row, money and history of a run agree on (`RunAgrees`): a
  turn is authorized or recorded only once the row says the provider's turn may
  have begun, promotion is behind it then, and a terminal or indeterminate row's
  money is at rest (`Rests`). A dreamer that has lost its claim still acts, so
  there are two sets of rules for each place: those of one whose claim stands
  (`ClaimRules`, on the row's phase and provider) and those of any
  (`DreamerRules`, only on what no later step takes back). Once-only acts have no
  fence of their own; two dreamers never stand before the same one (`OnceEach`),
  since the checkpoint or the ticket that leads there is written once.
* **Channel connections** (`AccountProofs`): `OnlyTheDecided` and
  `ActiveIsPublished`, with an invariant each. `LinkInv`: one generation is
  published with one list only and is never used again, every sender of the
  row's list was listed or approved, and so are those in the row a call has read
  or is about to publish (`ClaimIsSound`). `PublishedInv`, until one of the faults
  of section 5: a call between its first and its last step has the lease and a
  row in the state its place needs (`RowMatchesStage`), and while nobody has the
  lease an unmarked active row is published.
* **Credentials** (`AccountProofs`): `CustodyIsExclusive`. `CustodyInv` says which
  locks a call at each place holds and which it still takes, that no lock has
  two holders, that what a call has looked at under its locks stays so until it
  commits (`LookIsValid`), and which exchange works for which intent. No calls
  wait for each other (`WaitingIsOrdered`) since leases come before accounts,
  accounts before bots, and bots before tokens.
* **Dictations** (`ServiceProofs`): `TranscriptIsPaidAndWanted`. `DictationInv`
  adds what row, debit and usage row are in each state (`RowsAgree`), that a
  process about to return money has a usage row that gives it up
  (`ReturnsAreDue`), and that who is about to call the provider is alone and
  nobody has called it before (`CallsAreSingle`).
* **Uploads** (`ServiceProofs`): `ClaimsAreFenced` and `HealthyIsServed`, for any
  number of requests, processes, restarts and failed calls. The second half of
  the latter needs what a completion may rely on when it begins again where
  others stopped (`ResumeInv`): unless a call of the completion that recorded the
  assembly threw, its verdict is still coming, or a restart of its process ended
  it and whoever that process serves since has read the upload as completed
  (`VerdictIsComing`); and such a reader fails only when a call of its own throws
  (`ResumedGoOn`). `OneInEach` is the mutex `completions` of
  `upload-service.ts:174,557`, which is one for the completions of a process
  only. `Excused` names what remains: see section 5.
* **Media** (`ServiceProofs`): `ArtifactsArePaid`. Its first half needs where a
  handler and a run may be without a row. Its second half, the promise of
  `studio-reservations.ts:168-171` among Studio requests, rests on the output
  kind's lock (`OneIsOpen`), on the quarantine (`QuarantineHolds`: nothing can be
  completed behind it) and on `LateIsQuarantined`: a run that may still write
  its file is that of the open request, or has caused the quarantine, so that
  whatever lands in another request's claim finds that request's row unusable.
* **Runtimes** (`ServiceProofs`): `RuntimeIsCurrent`. `ActorAgrees` says that an
  actor who works has the lock of its kind (`AloneAtWork`), that a synchronizer's
  revision is no older than the recorded one, and that the parts it has rendered
  stay at least as new. A chat's build is the exception finding 2 is about.

Only model-checked, for these reasons:

* liveness under fairness and `ENABLED`: `EveryPaidJobEnds`,
  `EveryPaymentIsCredited`, `EveryRecordedJobEnds`, `ChannelTurns`' and
  `ScheduledTasks`' endings;
* `SlotsAreUsed` and `RoundRobin`: the drain of `TurnAdmission` is a recursive
  function over sequences, and `VoiceNotesAreExact` filters its outbox by
  `SelectSeq`; the library states no fact about either, and a least
  counterexample over sequences was not attempted.

No module reaches a `RECURSIVE` operator.

## 5. What does not hold, and what is not modelled

### Known exceptions

The modules state what holds. Where the code misses something that its comments
or a reader would expect, the model has the behaviour and the property is
weaker. Formulas named here are in the modules; TLC refutes them on the
instances above.

* *Ledger*: the day of the cap check is the process clock's after the lock
  wait, the row's the day its transaction began (`manna.ts:232`), so a debit
  that waits across midnight is checked against one day and booked on another
  (`EveryDayWithinCap`).
* *Chat turns*: after a failed reversal the usage row records the whole
  reservation, the reaper refunds it later and the row stays
  (`UsageIsActualBilling`). The reversal reads `usable_output_at` through a
  `LEFT JOIN` in a statement that locks only the authorization row: a mark that
  commits while it waits is missed and a marked turn refunded
  (`MarkedOutputIsNeverRefunded`). `TurnAuthorization` splits the reversal in
  two for exactly this, and `OutputIsPaid` says what is left: no *later*
  reversal refunds a marked turn. When the mark commits, its acknowledgement is
  lost and the reversal then fails, the partial settlement throws on the
  conflicting usage row in every pass of the reaper and the reservation stays.
* *Tasks*: `runScheduledTask` decides from its snapshot whether a paused row may
  run (`scheduled-tasks.ts:748`), while the claim accepts a row that was paused
  meanwhile (792-799): the owner's pause is lost (`PauseHolds`). `stampNextRun`
  finishes a one-time schedule that was PATCHed between outcome and stamp. The
  claim clears `lastError`, so the checkpoint failure branch (865-903) is never
  taken. The branch of the claim for paused rows (795-799) does not ask for the
  recovery that the comment at 933-937 reserves a marked occurrence to: a firing
  that read the row before the marker claims it with `recoveryOnly` false
  (`OnlyRecoveryReclaims`). When the occurrence was debited, the evidence still
  refuses it; when it was not, the prompt leaves then, for the first time. A lost
  acknowledgement of `releaseTaskForRefundRetry` lets
  `stampNextRun` finish a one-time task whose occurrence is pending.
* *Connections*: what follows may leave an active, unmarked row without its
  account (`excused`): a crash after the account is removed and before the row is
  revoked, in an activation with an invalid token (`channels.ts:1742-1760`) or
  after an approval's compensation has taken its marker away (2512-2577); a
  retry whose finishing transaction commits and loses its answer, since the
  revocation in its catch looks for the marker that is gone (1607-1662); a
  lease whose database session is lost while its holder works on.
* *Uploads*: a healthy object is quarantined (`Excused`) when a call throws after
  the assembly is recorded, in the completion itself or, through its repetition,
  in the one that recorded it, and when a second process completes the upload,
  finds the multipart gone (`NoSuchUpload`) and its `catch`
  (`upload-service.ts:630-637`) refuses what the first has just assembled,
  against "remain resumable" there. A completion that races an abort or an
  expiry leaves an orphaned object, a crash while initiating an orphaned
  multipart.
* *Billing*: a session completed while `payment_status` is not `paid` is answered
  without a credit (`billing.ts:627`), and `checkout.session.async_payment_succeeded`
  is ignored (813-815): money that arrives later is never credited.
  `EveryPaymentIsCredited` speaks of sessions that are paid when they complete.
* *Media*: a Studio request may claim a chat run's file, against
  `studio-reservations.ts:168-171` (`NeverAnotherTenants`); a chat file seen
  late may complete the next authorization, and one seen twice a second
  (`NoSecondCharge`).
* *Dictations*: a deletion requested before a stale claim's recovery ends as
  `failed` rather than `deleted`.
* *Voice*: the updates of the adopting and requeueing reconcilers lack the
  comparison of generations; settlement verifies again, so it costs nothing.
* *Erasure*: ingestion stores its file before it inserts the row
  (`media-pipeline.ts:258`, 460): an erasure between the two leaves a row
  without a file. A target resolved as shared keeps the file, and when the
  second account's target was claimed meanwhile nobody is elected: the file
  stays without a row. The 30 s deadline of an erasure only races it
  (`account-erasure-postgres.ts:2285-2311`), and the executor ignores the signal,
  against the comment at 2133-2135: an unlink may still come when another claim
  of its target has succeeded, and then removes what an account that is not
  under erasure has ingested since (`RemovesItsOwn` excludes succeeded targets).
  A claimed job in `manifest_pending` ends in `attention` (finding 1).
* *Dreams*: a first attempt whose turn was charged ends as `error` and keeps the
  charge when its response cannot be parsed or its files cannot be written; a
  recovery of the same response stays `recovery_pending` for ever and, as it is
  live, keeps the agent from dreaming again (`DreamIsOpen` leaves these out). A
  recovery whose reservation finds the owner without funds writes no usage row
  (only a cap's refusal does) and is tried again in every tick until they pay;
  the instance's owner can. Promotion and files are not fenced by the claim: a
  stale owner may still write them, once. Both exceptions of chat turns around a
  failed reversal hold here too.
* *Runtimes*: a chat's build and the job race leaves an agent ready with a
  failed job. A crash between the write of `SOUL.md` and its commit leaves an
  unsaved file (`Unsaved`). `installDefaultAgentSkills` reads the selection
  outside the transaction that rewrites it. An import builds outside the locks
  and without a job; its crash leaves the agent `provisioning` until a chat.
  The managed database role ends a transaction that is idle for 15 s
  (`managed-runtime-bootstrap.ts:54-56`) while the erasure fence of a
  publication holds one; this is outside the model.

### Not modelled

* `Metering`: pure floating-point pricing; the models take any charge.
* Memory distillation: the edit of a text; in a dream it is one step that
  succeeds, is skipped or throws.
* `Turn registry`, `events bus`: memory of one process without
  acknowledgement or money. The worker loop is the fairness of the reapers.
* OpenClaw plugins and the text of the gateway's configuration: documents for
  external programs.
* Authentication, web application, scripts: no protocol state of their own.
* Of the modelled components: the evidence rows and other targets of an
  erasure, voice notes of channels, clones and previews, quotas of dictations,
  channel turns from before the kernel, notifications' contents, imports of
  agents, the customer portal.

## 6. Running

```
tlc -workers 2 -config LedgerAtomicity.cfg MCLedgerTransactions
tlapm TurnAuthorizationProofs.tla
```

`PROJECT.json` names the module and the configuration of every run, the source
lines of every definition (`map`), and for every checked property a mutation of
the model that violates it (`mutants`). The operators of the mutations stand
before the definitions they replace.
