# openlup: models, checks and proofs

openlup is a commerce platform in TypeScript over PostgreSQL: subscriptions,
payments, fulfillment and invoicing, with their side effects moved out of the
request by a transactional outbox and scheduled jobs. This directory holds TLA+
modules of the parts that carry its concurrency and failure handling, TLC
configurations that check them on small instances, and TLAPS proofs of their
properties for every value of the constants. Paths below are relative to `src/`.

    tlc -workers 2 -config MCOutboxRail.cfg MCOutboxRail     # one run
    tlapm OutboxRailProofs.tla                               # one proof module

## 1. Inventory

### Parts that are modelled

**Outbox rail** — `packages/outbox/sql/0001_outbox.sql`, `src/enqueue.ts`,
`src/postgres.ts`. *State*: the rows of `public.outbox_events` (status, attempts,
available_at, created_at, claim token, snooze count, retention). *Operations*:
a producer's `INSERT ... ON CONFLICT DO NOTHING` in its own transaction,
`outbox_claim_batch` (sweep of exhausted rows, head-of-line barrier, `FOR UPDATE
SKIP LOCKED`, lease by moving `available_at`), `outbox_mark_processed`,
`outbox_mark_failed` (retry with backoff, discard, snooze),
`outbox_release_unprocessed`, the compactor. *Hard*: concurrent claimers, lost
and late acknowledgements, leases that end under a live handler, refunds,
visibility of overlapping producer transactions. *Correct when*: a row has one
holder in its lease, an acknowledgement is fenced by its token, settled rows stay
settled, the attempt counter is exact, order holds within an aggregate.

**Dispatch worker** — `packages/outbox/src/worker.ts`, `trace.ts`. *State*: a
run's batch, its elapsed time, rows seen, rows claimed and not started, orphaned
handlers. *Operations*: claim, tail gate, duplicate check, handler with timeout,
acknowledgement, circuit break after a snooze, refund of what was not started.
*Interacts* with the rail by one database call at a time. *Hard*: time that runs
out anywhere, handlers that ignore their abort signal, storage errors in the
middle of a batch, a second worker between any two calls. *Correct when*: nothing
is acknowledged that did not happen, nothing claimed is forgotten, nothing is
charged that was not tried, and every row is eventually settled.

**Job-run ledger** — `packages/platform/sql/20260809150000_job_run_ledger.sql`
and `..._v3.sql`, `src/job-ledger/postgres.ts`. *State*: one control row per job
(enabled, active driver, lease token and end) and the run rows. *Operations*:
claim, finish, the operator's edits. *Hard*: `now()` is read before the wait for
the control row's lock; runners crash, or finish after their lease is gone; a finish
that committed may lose its answer, and a caller that finishes inside its `try` then
finishes the run again, as failed. *Correct when*: leases exclude, the fencing answer
of a finish is exact, a run row changes at the hands of its own runner only.

**Node scheduler and advisory lock** — `packages/platform/src/scheduler/
nodeScheduler.ts`, `advisoryLock.ts`, with the stop order of `composition/
nodeHost.ts`. *State*: the server's advisory locks; per host the backend seen
first, the reserved keys, a refusal flag; per callback how far it is. *Operations*:
timer, `tryAcquire` (two statements), body, release, `stopAll`, close. *Hard*:
every await is an interleaving point, PostgreSQL grants a session its own lock
again, a statement may fail after it took effect, a pooler may change the backend.
*Correct when*: one body per key, the lock is freed by the session that has it,
no grant is forgotten, shutdown waits for what was admitted.

**Payment control** — `packages/core/src/payment/paymentStateMachine.ts`. *State*:
none of its own; it decides what a provider event makes of an intent and its active
attempt. *Operations*: `applyProviderPaymentEvent` with its success, failure, refund
and dispute branches over two transition tables. *Hard*: events arrive twice, late,
in another order than they happened, and after the local attempt was given up.
*Correct when*: an accepted payment is never taken back by a late failure, and a
failure is mended by a late success.

**Subscription engine** — `packages/core/src/subscription/subscriptionEngine*.ts`,
`cycleHardening.ts`. *State*: none of its own; it computes the next subscription and
cycle. *Operations*: plan a due cycle, record a payment or a refusal, the dunning
ladder, skip, slide, pause, cancel, win back, resume after an exhausted ladder.
*Hard*: long sequences of legal calls, late settlements, two readers of one verdict.
*Correct when*: a window that was paid is not charged again, a cycle is paid once,
and everybody judges the ladder's end alike.

**Renewal, retry and settlement rails** — `packages/platform/sql/` (the renewal,
retry, settlement, payment-truth and command functions, each as the last migration
that replaces it leaves it) and `src/subscriptions/automaticRenewal*.ts`,
`nativeRetryDriver.ts`, `postgresRetryStore.ts`, `paymentOutcomes.ts`. *State*: per
subscription its status and next date; per cycle an operation with a leased claim, a
stock reservation, a settlement intent with its order, a dunning case, a retry
obligation with its attempts. *Operations*: the batch (claim, reserve, prepare, ask
the provider, acknowledge, read, record), the retry driver, late evidence, webhooks,
customer commands, the job that ends finite pauses. *Hard*: a process may die or stall
between any two database calls and between the database and the provider; its clock
reading is as old as its batch; webhooks and customers act in between. *Correct when*:
money is asked once at a time, the schedule waits for the money, stock is there while
it may be paid, and what is paid stays paid.

### Parts that are not modelled

| part | source | why |
|---|---|---|
| Schedule factory (partly) | `packages/outbox/src/factory.ts`, `config.ts`, `registry.ts` | its validation is an assumption of the worker's module, its lease is the ledger's, its pruning an action; the rest runs hooks and handlers in sequence and keeps no state |
| Leased jobs | `packages/platform/src/scheduler/jobs.ts` | a ledger claim and finish around a body: a runner of `JobLedger` |
| Subscription edits (part of the engine and of the rail) | template, plan, bundle and add-on edits, quotes | they change what a cycle costs, not when it is due or whether it is paid |
| Checkout payments, provider adapters, reconciliation | `packages/platform/src/payments`, `server/shared/preparedProviderAttempt.ts` | the crash window is modelled where the renewal rail has it; the one-time path repeats it |
| Refunds and disputes in SQL, dunning notices, reminder scans | `packages/platform/sql` | they follow the rows of the rail and change none of those modelled |
| Inventory ATP | `packages/core/src/inventory/atp.ts` | one pure call over one snapshot; in the rail a reservation finds stock or does not |
| Fulfillment, channels, invoicing | `packages/platform/src/fulfillment`, `channels`, `invoicing` | adapters over tables that are claimed and acknowledged as the outbox is |
| Pricing, promotions, shipping, catalog, risk, identity | `packages/core`, `packages/platform` | computations and single-row writes without interleaving |
| Kernel, HTTP, BFF, migrations, blob, portability | `packages/platform/src`, `server` | wiring and I/O without protocol state |
| Storefront, admin UI, MCP, deployment, examples | `src`, `mcp`, `deploy`, `examples` | user interface, tooling and prose |

The models cover the parts where order, concurrency and failure decide the outcome.
They are a small share of the repository's lines: most of its 3600 source files are
screens, contracts, adapters, queries, tests and tools, in which a state machine
would restate the code line by line and have nothing to say about it.

`PROJECT.json` lists every part with its sources, and the hazards of the code at
their lines with the properties that would catch each.

### How the parts interact

A producer's transaction writes an outbox row beside its business rows. A timer of
the Node scheduler (or an external cron) fires a job; the advisory lock keeps other
hosts out, the ledger keeps other *drivers* and overlapping runs out, and the job
body drains the outbox with the dispatch worker. All they share is the database;
none of them sees another one's memory. Each layer is modelled on its own, with an
environment at least as free as the other layers: the rail with arbitrary callers,
the worker with any other worker, the ledger with runners that stall or die, the
lock with bodies that may last for ever.

The renewal batch and the retry driver are such jobs. The SQL rails keep their own
tables and re-implement in SQL what the core kernels define in TypeScript; the two
kernels are composed with each other in `BillingHost` (a payment decision and its
effect on the cycle are stored together), and the SQL rails, which the unattended
renewals really run on, are modelled on their own in `RenewalRail`.

## 2. The modules

| module | models | main correspondence |
|---|---|---|
| `OutboxTable` | the table and every SQL function that moves a row | one operator per function: `BeginEnqueue`/`CommitEnqueue`/`AbortEnqueue`, `ClaimBatch` (with `Exhausted`, `Blocked`, `Candidates`, `IsOldest`), `MarkProcessed`, `MarkFailed`, `Release`, `Compact` |
| `OutboxRail` | the table with arbitrary callers | a caller may present any pair of row and token a claim gave out, late, twice or never; `answer` records what it was told |
| `EventDelivery` | what the rail promises, without a table | the abstract specification of `OutboxRail` |
| `OutboxDispatch` | `runOutboxDispatchWorker` on the table | `RunStep` has one action per branch of the drain loop, cut at every database call |
| `OrderedDelivery` | what producers are promised of the worker: hand-outs in turn and within the attempts, processed only after the effect | the abstract specification of `OutboxDispatch` |
| `JobLedger` | the ledger of one job | `BeginClaim` fixes `now()`, `ClaimGranted`/`ClaimRefused` is the locked body, `Finish` the fenced release, whose answer may be lost (`unsure`), `FinishAgain` the caller's `catch` block that then finishes the run a second time |
| `SchedulerLock` | scheduler and lock on several hosts | `Execute` is the database's side of a statement, `Tried`/`Checked`/`Released` the host's side of its answer |
| `PaymentControl` | the payment state machine | one operator per kernel function, with its name; a decision is a record of kind, intent and attempt |
| `SubscriptionEngine` | the subscription kernel | one operator per kernel function: `paidSubscription`/`paidCycle` is `recordPaymentSuccess`, `refusedCycle` is `recordPaymentFailure`, `restarted` is `restart` |
| `BillingHost` | both kernels with a host, a provider and a customer | `Deliver` stores a decision with its effect on the cycle; the customer's actions have the kernel's names |
| `RenewalRail` | batch, retry driver, their SQL functions, provider, webhooks, customer | one action per SQL function or provider call; `worker` says where a process is in `runOneAutomaticSubscriptionRenewal`; `RowEnds` is every way in which a process drops its row, its death included |
| `RenewalPromise` | what a customer is promised of the renewal: each attempt asked once and in turn, paid only with money the provider took, the date past what is paid | the abstract specification of `RenewalRail` |
| `OutboxTableProofs` | lemmas on the table's operators | shared by the next two |
| `OutboxRailProofs`, `OutboxDispatchProofs`, `JobLedgerProofs`, `SchedulerLockProofs`, `RenewalRailProofs`, `BillingHostProofs` | the proofs | section 5 |
| `MC*` | small constants for TLC | section 3 |

Time. In the outbox modules a row keeps the ticks *remaining* until `available_at`
and until its retention ends; `Tick` lets one unit pass. States that differ only in
absolute time are then the same, and no bound on a clock is needed. The ledger
compares instants of different transactions, so it keeps a clock with the bound
`MaxTime`; so do the renewal rail, in which a worker goes on with the instant its
batch began at, and the billing host, which counts days.

Transactions. A statement or SQL function that locks its rows and commits is one
action. Where the code reads something before it gets a lock (the `now()` of a
claim, the `created_at` of a producer) the transaction is cut there. A claim meets
an arbitrary set `locked` of rows that other transactions hold, because `SKIP
LOCKED` passes over them; the worker's claims do so whenever another run is active
(`OutboxDispatch!LockedSets`).

Operators whose comment begins with *Fault* are plausible mistakes in the code
(a missing token in a fence, a refund that is not paid). They are not used by the
specifications; substituted for the correct operator each makes a property fail, so
they record what every property is able to notice.

### Simplifications, and why they do not matter here

* Payloads, metadata merging, trace fields, error texts, queue statistics and
  privileges are data no property reads.
* The sweep discards every exhausted row; the code at most 100 per claim.
  A larger backlog is swept by later claims. The compactor's limit is the free
  choice of `targets`.
* Visibility, delays and lease seconds are taken after their clamping.
* A token may be reused once nobody knows it (`OutboxDispatch!FreshToken`); the
  claim overwrites it in the row, so it is as new. A row's pool has a token for each
  runner (`Pools`), which is enough: a claiming run has nothing in hand.
  `OutboxRail` never reuses a token.
* The worker's branches for a row without a token or without a handler are left
  out: the claim sets the token and asks for the registry's own types.
* A ledger runner reports once, and once more as failed if the answer to its report
  was lost, as `accountingRuntime.ts:165-168` does. The finish has no guard on
  `finished_at` (`20260809150000_job_run_ledger.sql:269-273` says that this is meant),
  so the second one stamps the run row again.
* The lazy connection of `createEnvAdvisoryLock`, which caches a failed first
  connection, is left out: a host in that state runs nothing.
* `AffinityAssumption`: hosts reach disjoint backends. The code refuses what it
  can detect of transaction pooling (a changed backend, `Rerouted` in the runs);
  two hosts multiplexed on *one* backend would share its locks, which no check of
  the code could notice, and its documentation forbids it.

* `RenewalRail` keeps one instant per cycle key, so a subscription is renewed once
  per instant, as the identity key of an operation makes sure. Amounts,
  fingerprints and evidence checks are left out: a mismatch raises, and the row
  ends. What other orders leave of the stock is free. The order and the cycle row
  change with the intent and are one status, `money`. Notices and the rungs shown
  in a dunning case are left out; the obligation's own ladder is modelled. A pause
  lasts `PauseTime`, or for ever (the code has two lengths); `AutoResume` may come at
  any time after its end, or never, as where the job is not enabled. Delivery
  alignment, which writes next dates as well, is left out: its mode is `off` unless an
  operator changes it, and `20261022090000_fulfillment_delivery_alignment.sql:127-133`
  keeps installations of this rail on `off`.
* `StockReturns` gives its new token to the process that recovered the refusal, which
  goes on from there as `subscription_stock_wait_recover_refusal` lets it. Repeating
  the recovery while that token's lease still runs is left out: it returns the same
  token and changes nothing. The port's caller is outside the repository, whose tests
  alone call it; the model lets it go on as the batch would with the operation it is
  handed back (`contracts/stockWait.ts:43-45`).
* A retry's due date counts from the instant of the provider's evidence, which may
  be anything from the cycle's date to now.
* `BillingHost` is the host the kernels are written for, not a transcription of one:
  it delivers events of the active attempt only (the kernel refuses others) and
  admits a new attempt by `RETRYABLE_ATTEMPT_STATUSES`. An event is delivered with a
  new provider event id or with one seen before (`again`); several distinct events of
  one type may arrive. `seen` keeps the types of an attempt's events only, which is
  enough to say whether a repeated id of that type is possible. An attempt's refusal
  counts once for the ladder, as the dunning case's key makes sure.

## 3. The runs

| run | question | bounds |
|---|---|---|
| `rail` | do fencing, refunds, ceiling, dedupe, compaction and the order within an aggregate survive any order of calls, and does the rail implement `EventDelivery`? | 3 rows: two of one aggregate and two types, produced one after another, and one that repeats a key for another aggregate, its producer overlapping the first's; two kinds of caller, one of which does not know the other's type; 3 tokens, ceiling 2, lease of 2 ticks |
| `rail_overlap` | the order when producers of one aggregate overlap: a counterexample (section 6) | 2 rows |
| `dispatch` | gates, refunds, circuit break, orphans of one worker with a slow store and one interruption | 2 rows, two types with timeouts 2 and 1, soft budget 4, lease of 6 ticks, host limit 5, ceiling 2 |
| `dispatch_pair` | what may two workers do to each other, when either may stall past its lease, and do they implement `OrderedDelivery` together? | 2 rows of one aggregate, 2 runners, lease of 3 ticks, host limit 2; handlers that succeed or snooze (a handler that fails is in `dispatch`, and a cut-off one ends as a failure in both) |
| `dispatch_live` | is every row of a claimed type eventually settled? | 3 rows behind each other, the first of a dormant type; 1 interruption, 1 snooze per row |
| `ledger` | exclusive leases, exact fencing, truthful run rows, one runner at work, when runners stall, crash, or lose the answer to a finish and repeat it | 3 runners of two drivers, 3 runs, lease and host limit 2, clock to 4 |
| `scheduler` | mutual exclusion and bookkeeping under failing statements, rerouting, crashes and lost sessions | 2 hosts, 4 callbacks (two collide on a key on one host, one competes from the other), 2 backends on one host |
| `scheduler_live` | does a key come back, does a host stop? | the same with 3 callbacks, no faults |
| `scheduler_loss` | the same exclusion when the database ends a session: a counterexample (section 6) | 2 hosts, 2 callbacks |
| `renewal` | is money asked once at a time, does the schedule wait for it, is stock there, is what is paid final, and does the rail implement `RenewalPromise`? | 1 subscription, 2 processes, clock to 2, lease 1, hold 2, a pause of 2, 2 claims of an operation, 2 retries after the first attempt |
| `renewal_resume` | does a pause that ends leave the date on an unpaid cycle, as a comment says: a counterexample (section 6) | 1 subscription, 1 process, clock to 1, a pause of 1 |
| `billing` | do paid windows, intent, cycle and ladder agree under every order of provider events and customer actions? | 2 cycles, 2 days, a ladder of one rung, 2 refusals before the customer stops |

Why these bounds. Every hazard of the rail is between one row and at most two claims
of it, or between two rows of one aggregate; a third row repeats a key (run `rail`) or
stands before both with a type nobody claims (run `dispatch_live`). Three tokens allow
claim, lost lease, second claim and a claim after a refund. The ceiling 2 is the
smallest with a retry below it. Lease, budget and backoff are as short as they can be
while a handler can end before, at and after them. For the lock, one key needs an
owner, a competitor on the same host (reentrancy) and one on another (exclusion), and
the refusal needs a callback of another key in the meantime. For the renewal,
subscriptions share only stock, so one is enough; two processes are a stalled one and
the one that takes over its claim; with a clock to 2 a lease and a hold run out under
a worker, a retry falls due and is asked twice, and the customer can move the date
onto an instant that a batch still reaches; a pause of 2 begins and ends around the
whole life of the first cycle. For the billing host, two cycles are the paid one and
the one a late settlement could reach back from; a ladder of one rung has a retry, an
end and a refusal past the end. The safety properties are then proved without bounds.

Deadlock is checked in every run but `ledger`, the two of the renewal and `billing`,
which stop when their clocks and identifiers are used up. Symmetry is used only where
no liveness is checked, over tokens, run ids or runners that no constant tells apart.

### The properties

*Rail.* `SettledByNewest`: whoever is told that it settled a row did so for good, under
the row's newest token. `RefundsBalance`: the attempt and snooze counters are exactly
the claims not handed back and the snoozes. `CeilingHolds`. `TypeOK` includes that a
claimed row was charged for its claim, so that a refund is never cut off at zero
(`GREATEST`). `CompactionIsSafe`: no claim hands out an emptied payload
(`NoCompactedDelivery`) and the key of a settled, emptied row is still taken
(`UniqueKey`). `AggregateOrder`. `LeaseRespected`: in its lease only an acknowledgement
with its own token changes a claimed row. `ImplementsDelivery`: a row's history, mapped
to queued / held / settled, is a history of `EventDelivery` (which includes
`SettledIsFinal`, proved and not run).

*Worker.* `ProcessedHasEffect`, `ClaimsAccounted`, `LeaseOutlivesRun`,
`OneHandlerPerAggregate`, `NoRaceWithOrphan`, `AttemptsWereTried`, the liveness
property `EventuallySettled`, and `ImplementsOrderedDelivery`: with batches, leases,
timeouts, orphans and interrupted runs out of sight, what is left of the worker is
delivery in the order of each aggregate, at least once and settled once.

*Ledger.* `HolderKeepsLease`, `FenceSignalExact` ("released" means nobody else was
granted between claim and finish; a run only ever told "lost" was overtaken; the
repetition of a finish that released is told "lost" too, and that answer alone says
nothing), `OneRunnerAtWork`, `RunRowsTruthful` (a row changes by its own runner's
report, and by the repetition of a report whose answer was lost, which says failed
and leaves the lease alone); `LeaseIsExclusive` is proved only.

*Lock.* `OneBodyPerKey` (refuted, section 6), `OnlyLossDoublesBody`, `SessionHasLock`,
`LocksRemembered`, `ClosedIsQuiet`, `KeyComesBack`, `StopCompletes`;
`RefusedAdmitsNothing` is proved only.

*Renewal.* `KeepsPromise`: money, attempts and dates, with operations, holds, cases
and processes out of sight, behave as `RenewalPromise` (which includes `AskedInTurn`:
an attempt is with the provider only after the one before it was refused or left to
the customer; proved and not run). While a subscription renews, its date leaves a
billed cycle only by the payment; when it begins to renew again, after a pause or an
end, its date is past everything that was billed. `NeverAskedAgain`: no process
repeats a provider call that may have happened. `UnpaidHoldsSchedule`: while a cycle
is unpaid the subscription's date stays on it, unless one of the subscription's cycles
was prepared after its lease or hold had ended or was passed over by an automatic
resume (recorded in `adrift`; section 6). `ResumeKeepsObligation` (refuted, section
6). `PaidCycleNeverDue`: no active subscription is due on a paid cycle.
`StockHeldWhileAsked`: an attempt that is with the provider and undecided has its
stock; one that was left to the customer may be approved after its stock was released.
`TerminalIsFinal`.

*Billing.* `PaidWindowKept`: unless the customer chose a date, the next one is at
least a cadence past every paid cycle. `MoneyAndCycleAgree`: the intent is paid
exactly if a success was accepted, a paid cycle has a paid intent and a paid intent a
paid or given-up cycle, and refunds and disputes are not lost. `RefusedIsJudged`: a
refused cycle without a retry is exhausted for `isDunningLadderExhausted` or was
refused for good.

## 4. Fairness

Only three liveness properties need any.

* `EventuallySettled` assumes weak fairness of `Tick` (time passes) and of each
  worker's own steps: the scheduler starts a run again `Cadence` after the last
  one, a handler returns or is cut off at its timeout, and a database call is
  answered or the run is interrupted; interruptions are finitely many
  (`MaxCrashes`). No fairness is given to producers or orphans. No handler outcome
  is assumed fair: a handler may fail for ever, and the ceiling then discards the
  row. In this run the store is fast; with a store so slow that no handler ever
  fits the budget a row would be gated and refunded for ever, which the code does
  too.
* `KeyComesBack` and `StopCompletes` assume weak fairness of every callback's own
  steps (the event loop runs, statements are answered, job bodies end) and of
  `Close` (the stop procedure goes on once the drain is complete). Timers need not
  fire, a competing host may fire its timers as often as it likes, and no host is
  assumed to restart.

## 5. What is proved

Every theorem holds for all constants that satisfy the named assumptions of its
module: any number of rows, tokens, callers, runners, hosts and keys.

**OutboxRailProofs.** `EveryStepShape` is the common ground: each step of the rail
moves a row in one of five ways (kept, produced, swept, handed out, acknowledged)
and teaches the callers exactly what belongs to it. The invariants are then proved
against these shapes and not against nine actions.
* `TypeCorrect`.
* `SettledCorrect` — `SettledByNewest` is not inductive: a caller's answer says
  something about the row only because a token in a row was issued for that row,
  an unused token has no answer and a holder has not been answered yet. `SettleInv`
  adds these. `SettledForGood` and `LeaseAlwaysRespected` are step properties that
  follow from the same facts.
* `CompactedNeverDelivered` and `KeysUnique`, together `CompactionCorrect`;
  `CeilingCorrect` (with rows not yet in the queue having no attempt).
* `RefundsCorrect` — counts: a claim adds one token to the row's, an acknowledgement
  moves one token of the row from charged to refunded at most once, because only
  the unanswered holder is answered.
* `OrderCorrect` — assumes `SerialProducers`. `OrderInv` adds that a row being
  written is the youngest of its aggregate; this is what the barrier relies on and
  what overlapping producers break.
* `RailImplementsDelivery` — `Spec => Delivery!Spec` under the mapping of
  `OutboxRail`.

**OutboxDispatchProofs.** `RunsInv` says what a run's record may be: a run between
batches has nothing in hand, no row is in hand twice, each under a token of its own
pool, and the handler at work is not one that was cut off. A claimed batch has no row
twice because it is in strict age order. `StepShape` then reduces every step to one of
five: a run settles some of what it has, claims with nothing in hand, or dies; time
passes; a producer writes. On top of it, each theorem has its own strengthening:
* `EffectCorrect` — `EffectInv`: a run about to acknowledge success has the effect
  behind it.
* `AccountCorrect` — a claimed row's token is of the row's pool, so whoever has the
  token has the row.
* `LeaseCorrect` — `LeaseInv`: no token is in two hands, and the age of a run in its
  time plus what is left of a lease in its hands is at least the whole lease. Claims
  and sweeps pass over rows that are not due, so nothing takes them away.
* `OneHandlerCorrect` — needs `SerialProducers`, and `RunnersAgree`: a type that one
  runner claims is a barrier to every other. Without it two registries that do not
  know each other's types run one aggregate side by side, which is what
  `p_known_event_types` is for. The invariant `InTurn` is that a claimed row has no
  older open row of its aggregate, of any type that some runner claims.
* `DispatchImplementsDelivery` — `Spec => Delivery!Spec` under the mapping of
  `OutboxDispatch`. `OutboxTableProofs` first shows what every SQL function is in the
  life of a row (`OperationsLive`, `ClaimLives`): a claim sweeps some rows and hands
  others out, no row both, and those in turn. The worker's steps are then such writes
  (`EveryStepLives`). Two steps need the invariant `DeliveryInv`: a refund lowers
  the counter below the ceiling because a row in hand was counted (`Counted`), and a
  row is acknowledged as processed with its effect behind it (`EffectInv`, and
  `WorldReach`: effects only of events that were handed out).
* `HandedInOrder` — with `SerialProducers`, once an event was handed out every older
  event that holds it back is settled for good. It is proved of the abstract
  specification (`PromiseKeepsOrder`: three lines of state and no runs) and holds
  for the worker by the refinement.
* `AttemptsCorrect` — if no run stalls up to the host limit. A stalled run and the one
  that claimed the row after it may both have it in hand, and only one charge is
  refunded. `RunsEndInTime` shows that the worker itself does not cause this: with a
  store that answers at once the tail gate and the timeouts keep a run within its soft
  budget (`FastStoreAttempts`).

**JobLedgerProofs.** `LeaseKept`, `FenceExact`, `LeaseExclusive`, `RunRowsCorrect`
from `FenceInv`: every run in hand, working or unsure of its answer, is one runner's
and has a row, which is running while its runner works; the token in the control row
was not overtaken and belongs to no run that finished; and a run that was not
overtaken still has it.
`OneRunnerCorrect` adds that the control row's lease covers any runner younger than
the host limit; if the lease is at least that limit, no other claim can have been
granted, even with a `now()` from before its wait for the row.

**SchedulerLockProofs.** `LockInv` has, for each callback, what its phase entitles
it to: an engaged callback has its key reserved; one that was granted, and whose
unlock was not executed yet, has the lock once, under the recorded backend; one
without a grant has no lock in any backend of its host. Across callbacks, a host
engages a key once. The steps split into those of the host (the locks do not
change) and those of the database (the host does not change). From it
`ExclusionCorrect` (two bodies of a key only on two hosts, one of which lost its
session), `MutualExclusion` (none, if the database ends no session in use),
`SessionHasLockCorrect`, `RememberedCorrect`, `ClosedCorrect` and the step property
`RefusedAdmitsNothingCorrect`. Every one holds with statements that fail on either
side of their effect.

**RenewalRailProofs.** None of the safety properties is inductive; `RailInv` proves
them together, in three layers. `CycleOK` relates the tables of one cycle: a cycle
without money was never asked for, a prepared operation or obligation has its hold
committed, the obligation takes over only after the operation's refusal, attempts
below its sequence are over and those above it were never asked. `WorkerOK` says what
a process may conclude from where it stands (one about to ask knows that nobody has),
and `AskingAlone` that no two processes are about to ask for one attempt; this is what
the one-time `prepared` answer is for. `ScheduleOK` relates a cycle to its
subscription's date: it is never behind a cycle that was taken up, it stands on the
cycle while a lease or an unpaid intent says so and nothing is `adrift`, and it is
past a paid one, or on it while the subscription is not active. The commands that set
a date, and the end of a pause, touch nothing of a cycle (`DatedRows`), so only the
last layer has to look at them (`DatedSchedule`, `WakingSchedule`). Each layer is
proved step by step over all actions (`CycleStep`, `WorkerStep`, `AskingStep`,
`ScheduleStep`); the whole days of a late payment and the whole cadences of a resume
are lemmas of their own (`DelayIsNat`, `UnitsPass`, `ResumedDate`).
`UnpaidHoldsScheduleCorrect` needs the history `adrift` because the code compares
lease and hold with an old instant and resumes a finished pause without a fence.
`StrandedForGood` is the one theorem about a state nobody wants: a subscription that
was cancelled on an unpaid cycle which is paid afterwards never changes again. Assumed
are `TimesAssumption` and `SlideAssumption`: positive durations.

`RailKeepsPromise` is the refinement of `RenewalPromise`. `PromiseShape` says of each
of the rail's actions which of seven things it does to money, attempts and dates
(bills, records a refusal, settles, asks, stops a subscription, moves the date of one
that renews, begins it again, or none of them), and `MoneyPromise`, `AskPromise` and
`DatePromise` show each to be a step of the promise in states of `RailInv`: money is
refused or settled only on what the provider said of an attempt or when nobody had
asked, and the date of a renewing subscription leaves a billed cycle only by its
settlement. `SettledWasPaidCorrect` is read off the refinement; `PaidIsPastCorrect`
and `CapturedOnceCorrect` (the provider takes a cycle's money at most once of its own
accord) are properties of the promise proved from `RailInv`.

**BillingHostProofs.** `Decided` states once what an accepted event makes of an
intent and an attempt, from all branches of the kernel, and the other proofs use it
instead of the kernel. `HostInv` adds to the checked properties that a paid intent's
attempt has succeeded (`PaidIsSettled`: no new attempt can be admitted that would
forget the payment) and that intent and attempt begin together (`StartedTogether`).
`WindowStep`, `JudgedStep` and `StoryStep` go through the host's actions one cycle at
a time. `RefusedIsJudgedCorrect` holds for every ladder, whatever its length.

**Only model-checked.** The liveness properties: fairness and ENABLED are outside what
the prover handles. `AttemptsWereTried` is checked besides for one worker that may
stall, which its theorems leave out.
No recursive operator is used in a module with a theorem.

## 6. Where code and comments disagree

* `rail_overlap`. `0001_outbox.sql:79-81` promises that an older unprocessed row of
  an aggregate holds back a newer one. The claim orders by `created_at`, which is
  the *start* of the producer's transaction (`DEFAULT now()`). Of two overlapping
  producers the earlier may commit last; its row is invisible to the barrier while
  the younger one is delivered. The order holds for producers of one aggregate that
  run one after another. A lock on the aggregate's own row does not make them so,
  because a transaction has its `now()` before it waits for the lock.
* `scheduler_loss`. `nodeScheduler.ts:8-10` says several instances must not
  double-run a cron. The lock is as good as its session; nothing watches the session
  while a body works. If the database ends it, another host is granted the key and
  runs the job a second time. Jobs that need more have the ledger's lease.

* `renewal_resume`. `20261024170000_subscription_command_lifecycle.sql:354` says "Do not
  move away from a current payment obligation on resume", and the customer's resume
  looks at the cycle and at running operations first. The job that ends a finite pause
  (`subscription_auto_resume_due`, where it is enabled) calls the lifecycle function
  directly. A pause begun while a cycle is prepared or unpaid, which nothing refuses,
  therefore ends with the date moved past that cycle, whose payment is still asked for.
  What holds all the same: nothing that was billed becomes due again (`KeepsPromise`,
  `PaidCycleNeverDue`).

Seen while modelling, where no document is contradicted by a run here:

* *A run that is both.* A runner whose finish committed without an answer finishes
  again as failed. The run row then says failed while the control row, which only the
  first finish could reach, keeps `last_status` success (`JobLedger!FinishAgain`).
* *A slow batch prepares late.* The renewal functions compare the lease and the hold
  with the instant the batch began (`20261101230000_…terminal_replay.sql:628`, `:656`),
  not with the clock. After the lease has really ended, the fence of
  `subscription_command_apply` admits a command that moves the date; the slow process
  may still prepare and charge the cycle. `RenewalRail!adrift` records it.
* *Paid after the end.* A subscription is cancelled while its cycle waits for a retry;
  then the provider reports that the earlier attempt was approved after all. The
  settlement moves the date of active subscriptions only
  (`20260826100000_…subscription_cycle.sql:175-184`), and the reactivation refuses a
  date whose cycle is paid (`20260808120000_…lifecycle_rail.sql:150-179`): the
  subscription can never be reactivated (`StrandedForGood`).
* *Operations that stay prepared.* After a death between the prepare and the
  provider's call nothing may ask again and nothing ends the operation
  (`automaticRenewalExecution.ts:17-19`). The same follows a capture that the payment
  truth settled first: the batch's own outcome then raises
  (`commerce_settlement_record_intent_already_settled`). In both cases the fence goes
  on refusing the customer's commands.
* *A refusal told by the payment truth first* opens the cycle's dunning case under
  its own key; the batch's handoff then collides with the one case a cycle may have,
  and no obligation is made for the cycle.
* *Restart dates differ.* The engine never moves a date back on a restart; the SQL
  `reactivate` assigns two days from now. `subscriptionEngineLifecycle.ts:494-497`
  says so.
* *Slide is not clamped* in the engine: the customer may move the date into a window
  already paid. `PaidWindowKept` is stated for schedules the customer did not choose.
* *A superseded attempt that succeeds late* is refused as `wrong_attempt`
  (`paymentStateMachine.ts:111`), although an expired attempt may have been charged;
  `paymentControlTypes.ts:38-39` says its status proves that no call is outstanding.

## 7. What is left

Built in this order: OutboxTable, OutboxRail with EventDelivery and its proofs,
OutboxDispatch, JobLedger, SchedulerLock, RenewalRail, the two kernels with
BillingHost, each with its proofs. Worth adding, in this order:

1. The managed checkout's attempts (`server/shared/preparedProviderAttempt.ts`) beside
   the renewal's, with refunds and disputes in SQL.
2. The channel order-ingest saga, the part of the order rails with steps.
