# Herald: a TLA+ model of points, payments and tokens

Herald is an identity and billing backend (Rust, Axum, Postgres, Redis). This
directory holds TLA+ modules for the part of it in which state is shared by many
concurrent writers and mistakes cost money or access: the points ledger, its transactions,
the idempotent consume endpoint, scheduled grants, the settlement and the refunds of a
purchase, and the token families behind every login. Paths below are relative to `src/backend/`.

## 1. Inventory

| Component | State | Operations | Talks to | Hard behaviour |
|---|---|---|---|---|
| Points ledger and wallets (`infra/src/points/postgres_repository.rs`) | `points_credit_ledger`, `points_wallets`, `points_transactions`, `points_revocation_records`, `points_quota_entitlements` | grant, recharge, consume, revoke by type / source / distribution source, reclaim of pre-granted rows, top-up refund, expiry, wallet status, entitlement grant / revoke / expiry | Postgres row locks, READ COMMITTED | every operation locks wallets and rows in its own order; the clock is read before lock waits; windows and pool are drawn in one transaction |
| External consume (`api-ext/src/points.rs`, `domain/src/points/idempotency_service.rs`, `infra/src/points/redis_idempotency_store.rs`) | three Redis keys per idempotency key: fingerprint, record, status marker, each with its own TTL | fingerprint guard, record lookup, lock, failed-retry claim, consume, save, mark failed | Redis, the ledger | duplicate deliveries, timeouts, Redis failing, a crash between commit and save |
| Top-up refunds (same repository, `payment_refunds`) | recorded refunds per payment attempt, cumulative amount | record refund, full-refund gate, duplicate report | payment webhooks, ledger | concurrent partial refunds, rounding, refund before fulfilment |
| Distribution rules and grant schedules (`domain/src/points/services/grant_scheduler.rs`, `domain/src/points/service.rs`, the points repository, rule edits in `infra/src/billing/postgres_repository.rs`) | rules, events with a unique key, schedules, ledger rows | register, grant the next period (worker and read path), stop by subscription or by a rule edit, replace or revoke a source | registration, worker, balance and consume requests | lists read before the transaction that uses them; a stop racing a grant; one failing schedule before others |
| Payment attempts and fulfilment (`domain/src/payment_attempt`, `infra/src/payment_attempt`, `infra/src/purchase`, `api-billing/src/stripe_webhook_handlers.rs`) | attempt status, captured rules, rows and roles of the purchase, debts | create, succeed, fail, cancel, expire, fulfil, recover | webhooks, worker, ledger | several events of one payment handled at once, a crash between any two writes, a late success against expiry |
| Webhook inbox (`infra/src/webhook/event_repository.rs`, worker jobs) | `payment_event` with a processing lease | claim, process, fail, retry, compensate | provider handlers | lease expiry, crash between effect and mark |
| Subscriptions, invoices, credit notes | billing tables | life-cycle changes by webhooks | inbox | out-of-order provider events |
| Worker, distributed lock (`worker/`, `infra/src/redis/distributed_lock.rs`) | job schedule, lock key | run jobs | all of the above | lock expiry under a running job |
| Authentication, OAuth (`infra/src/authentication/mod.rs`, `api-oauth/src/token.rs`, `api-auth/src/browser_token.rs`) | authorization codes, token families and their indexes in Redis; client rows and user status in Postgres | exchange, rotate, verify, revoke one family, a client's or a user's | HTTP, administration | a row read before a Redis write it decides about; a revocation half done; replayed tokens |
| Authorization | permissions and their Redis cache | check, invalidate | HTTP | a stale cache |
| Administration, provider adapters, frontend, SDKs | records, none, none | CRUD, HTTP | - | - |

What makes them correct: points are neither created nor lost (a row never gives more
than it holds, and its status says so); a consume is all or nothing, nearest
expiry first, and never overspends a window; an operation on the ledger behaves
as one step whatever runs beside it; every transaction ends; one idempotency key
deducts once and answers only its own request; a payment is granted once, only when it
succeeded, and refunded at most in full; an event is processed, once in effect; every period
of a schedule is granted once, in order and in the end; a code gives one family, a family
has one usable refresh token, and what was revoked stays so.

## 2. Plan

Done:

1. `PointsLedger`, the promise of the ledger; `PointsTx`, its implementation under
   row locks; `ConsumeIdempotency`; proofs about `PointsLedger`.
2. `TopupRefund`: `payment_refunds`, the advisory lock, the cumulative gate,
   duplicate deliveries, rounding, the race with the fulfilment.
3. `PaymentSettlement`: the attempt, its events, both strategies, cancel, expiry.
4. `TokenFamilies`: code exchange, rotation, revocation, the MCP generation.
5. `GrantSchedules`: registration, the job and the read path, stopping.
6. Proofs of the safety properties of all of these, and that `PointsTx` implements
   `PointsLedger` (section 5).

Left, in this order:

7. `ConsumeIdempotency` past the 24 h life of its record.
8. The lease of the shared webhook service; subscriptions and their invoices, whose
   state is driven by the same handlers; the distributed lock of the worker.

## 3. Modules

### PointsLedger: what the store promises

One user's points. `rows` is `points_credit_ledger` (a row that does not exist yet
is `absent`), `wallets`, `recharged` and `consumed` are `points_wallets`, `recorded`
sums each row's revocation records, `windowed` the consume transactions that drew
on quota windows. Each repository transaction is one action:

| Action | Code |
|---|---|
| `Grant` | `grant_points_atomic`, `recharge_points_atomic`, `pregrant_next_period_atomic` (its row), fixed rules of `execute_first_run_in_tx` |
| `Consume` | `consume_points_atomic`, by its contract: any split between windows and pool that respects expiry order and takes no more than a row holds |
| `RevokeByCreditType`, `RevokeBySourceId`, `RevokeDistributionSource` | the three revocations |
| `ReclaimPregrant` | `revoke_pregrant_ledger_row_atomic` |
| `RefundTopup` | the ledger part of `revoke_topup_refund_atomic`, half-up rounding included |
| `ExpirePoints` | `scan_and_expire_points_atomic` |
| `UpdateWalletStatus` | `update_wallet_status` |

Row ids stand for creation order. SQL leaves the order of rows with the same
`expires_at` and `created_at` open; the model fixes it by id. Amounts are small
naturals; `i64` is never near its limit for amounts the API admits. `total_topup_granted`
and `total_subscription_granted` move with `total_recharged` and are left out.

### PointsTx: the same transactions, lock by lock

Every transaction is a process: `Begin` reads the clock and fixes the request,
`LockWallet` is a `SELECT ... FOR UPDATE` or the insertion of a wallet,
`SelectRows` is the snapshot of a row query and `LockRow` the wait for each row
with the re-evaluation of the WHERE clause that READ COMMITTED performs,
`ReadWindow` and `DrawWindow` are the two window computations, and a commit
publishes all writes. `Fail` is a rollback: frozen wallet, not enough points, window
drift, or the victim of Postgres' deadlock detector (`DeadlockVictim`, enabled only
inside a wait cycle). Granters are distribution events whose rules lock wallets
in `display_order`; the expiration job is the one transaction that runs again and
again. Entitlements are written without a lock, as in the code. Revocation by
source and by distribution source, reclaim and refund of several payments are
covered at the level of `PointsLedger` only.

A loop of the code over wallets, rows or window keys is the set still to be visited and
the order of its query: `NextWallet`, `NextRow` and `NextKey` single out the member that comes first.

`Ledger == INSTANCE PointsLedger WITH windowed <- ...` is the refinement mapping: the
window consumption of a bucket is the sum of its logged window transactions.

### ConsumeIdempotency: one idempotency key

Deliveries of requests under one key run `consume_points_ext`. Each Redis command or
Redis Function call is a step; so is the database transaction, which either
commits or reports an error. `RedisFails` lets a call fail, without or with its effect
on the keys, and follows the code's reaction (the fingerprint guard answers 500, a
failed lookup counts as a miss, a failed lock creation lets the request through,
...). `CutOff` drops the handler between two awaits: route timeout, client
gone, process crash. `Tick` ages the keys; no request outlives the route's timeout.
The timeout and the processing marker both last 60 s, hence `Lifetime = LockTTL`.

### TopupRefund: the refunds of one purchase

The handlers `handle_refund_created` (Creem) and `handle_charge_refunded` (Stripe) run
once per delivery of an unprocessed event, in a webhook request or in the retry sweep.
Both look the event up without a lease, so two workers may hold the same event.

| Action | Code |
|---|---|
| `Deliver`, `Repush` | the event is found unprocessed and parses; the same refund comes under another event id |
| `Tombstone` | `reprocess_creem_event` closes an event that lacks a field, with no other effect |
| `Serialise` | BEGIN of `revoke_topup_refund_atomic`; for Creem the advisory lock of the attempt |
| `RecordRefund` | the INSERT with its cumulative figure; it waits for an open transaction with the same refund id |
| `Duplicate` | the row exists: its recorded gate is reported |
| `Clawback` | the gate, the proportional revocation of every row and the commit |
| `RevokeRoles` | `revoke_payment_roles_for_source`, a statement of its own |
| `MarkProcessed` | `mark_payment_event_processed` |
| `HandlerFails`, `HandlerReruns` | error, crash or lost connection at any of these points; Stripe's webhook may rerun the handler at once |
| `GrantPoints`, `GrantRoles`, `CloseFulfilment`, `FulfilmentFails` | `fulfill_one_time_purchase` and its rerun when the purchase event stays unprocessed |
| `Issue`, `Spend` | the provider; a consume |

`missing` are the refunds whose Creem event lacks a field the handler needs. The webhook refuses such an
event; the retry sweep and the compensation job mark it processed. The compensation job builds every refund
event from Creem's list of transactions, which has neither the payment id nor the original amount, so a refund whose
webhook was lost is always of this kind (`CompensatedIsCorrect`, `MCTopupTombstone.cfg`). `ProcessedIsSettled` and `FullRefundSettles`
speak of the events that parse, beside others that do not.

`told` is the cumulative figure in an event's payload, fixed when the provider issues
the refund; only Stripe's handler uses it. Locking, updating and committing the rows is
one step, since the row locks keep other writers out until the commit (`PointsTx` has the
locks). The Redis record of the webhook is left out: it only answers for a handler
call that has already succeeded. The model starts when the attempt is marked succeeded, with a
provider that never returns more than was paid and an attempt whose amount is the
provider's; all roles of the purchase are one flag. `overtaken` is a history variable:
the fulfilment wrote something after the first refund was issued.

### PaymentSettlement: one payment attempt

A one-time purchase through Stripe Checkout. Stripe creates events (`Pay`, `PayLater`, `Settle`,
`Bounce`, `SessionExpires`, `Decline`); any worker may hold any event that is not marked
processed, since webhook, retry sweep and compensation job take no lease on this path.

| Action | Code |
|---|---|
| `Deliver` | `handle_stripe_webhook` or the sweep finds the event unprocessed and dispatches it (`FirstStep`) |
| `ReadStrategy`, `StrategyUnreadable` | `read_async_points_strategy`; an unreadable one counts as conservative |
| `CheckSucceeded`, `CheckFailed` | `handle_checkout_session_async_succeeded` / `_failed` up to their status tests |
| `FindAttempt`, `FindForRecovery` | the read and the transition test of `mark_payment_*` |
| `GuardedUpdate` | `update_payment_attempt_with_status_guard`: UPDATE ... WHERE status = what was read |
| `ClaimEvent`, `GrantPoints`, `GrantRoles` | `fulfill_one_time_purchase`: the event row with its unique key, the rows of the captured rules, the roles |
| `RevokeBucket`, `RevokeRoles`, `RecordDebt` | the recovery of an eager fulfilment, bucket by bucket, and its debt |
| `MarkProcessed`, `HandlerFails` | the end of the call; error, crash or lost connection anywhere |
| `RequestCancel`, `ListExpired` | the user's cancel; `mark_expired_attempts`; both end in `GuardedUpdate` |
| `Spend` | a consume |

`RequiresAction` is a status no code sets; a disabled mapping, and the Redis record of the
webhook, are left out (the latter for the reason given under `TopupRefund`).
The model begins when `create_payment_attempt` has answered. Its last write, `update_provider_reference`, puts the
whole row back with no guard on the status; no other writer can meet it, since the user learns the
attempt's id and the way to pay it only from that answer and the expiry job waits two hours.
A declined card marks the attempt `Failed`, so a later success in the same session is
dropped; `PaidIsFulfilled` names that outcome.

A recovery is weaker than it looks, and the model keeps its weaknesses. `revoke_points_by_source_id_atomic` takes one
row per bucket and the event is then processed, so of two captured rules that pay into one bucket the points of one stay
for good (run `payment_shared_bucket`); what does hold is `FailedIsTakenBack`. The debt is the grant of one arbitrary row of the
purchase less what this run revoked, so a rerun after a failure records points as owed that the first run had
recovered, and with several rows spent points may go unrecorded (`DebtIsSpent`, `MCPaymentDebt.cfg`); what does hold, as long as a recovery is not
rerun, is `NothingClaimedTwice`. `recoveries` and `overtaken` are history variables.

### TokenFamilies: logins as families of tokens

Each Redis command or Function call and each SQL statement is a step; a request keeps what
it read. `fam` holds a family with its refresh tokens `1..issued`, the `dead` ones and the
usable access tokens; `byClient` and `byUser` are the index sets.

| Action | Code |
|---|---|
| `ExchangeCode`, `ExchangeClient`, `ExchangeUser`, `ExchangeCreate` | `token` with `authorization_code`: GETDEL, the client row, the user row, `create_family` |
| `BrowserRefresh`, `McpRefresh`, `McpRefreshClient`, `McpRefreshUser`, `Rotate` | the two refresh paths and the Redis Function that rotates or detects reuse |
| `DisableClient`, `EnableClient` | `set_enabled`, the generation, and the revocation of the client's families |
| `ForbidUser`, `RestoreUser`, `RevokeUserSessions`, `ChangePassword` | writes to the user and the revocations that follow or precede them |
| `ListFamilies`, `RevokeNext`, `RevocationDone`, `RevocationFails` | SMEMBERS with `prune_stale_family_ids`, one revocation per family, the first error ends it |
| `Logout`, `SwitchClient`, `SwitchCreate`, `SwitchRevoke` | logout; the move of a browser login to another first-party client |
| `Expire` | the keys of a family run out |

The life of an access token is left out (it only removes tokens); pruning is one step, as
a family id never returns. Two remarks on comments in the code. The note on the rotation in
`mod.rs` says that it fails closed when the client was disabled meanwhile; it may succeed, and
it is the generation test at the next use that refuses the token (`DisableCutsForGood`). The note in
`token.rs` says that a disabled user must not receive credentials of any face, while the status is
tested for MCP and OpenID exchanges only. Only MCP credentials have generations: a browser
family that survives a failed revocation is usable again once its client is enabled.

### GrantSchedules: free points, period by period

| Action | Code |
|---|---|
| `Register`, `RegisterCommit` | the registration event: rules read, then a schedule and first period for each periodic one, an entitlement for each quota |
| `ListDue` | the list of due schedules, of the job (`process_due_schedules`) or of a request (`reconcile_due_for_user`) |
| `InsertEvent` | `execute_distribution_event_atomic` for one period: the unique key, the bucket, the policy of the rule as it is now |
| `LockSchedule`, `GrantCommit` | a fixed policy: the locked schedule, which must be active, the wallet, row and advance |
| `EntitleCommit` | a quota policy: the entitlement and the end of the event; the schedule is not looked at |
| `GrantFails` | a failing transaction; the job goes on with the next schedule, a request reports the error |
| `Subscribe`, `DisableRule`, `DeactivateRow`, `DeactivateCommit` | the two ways to stop schedules, row by row |
| `EditRule`, `ToggleBucket`, `FreezeWallet`, `Tick` | an edit of the rule's policy that leaves or makes it enabled; bucket and wallet; the clock |

The bucket test and the failure are in the transaction, as in the code: a request whose user
has a due schedule on a disabled bucket, or with a frozen wallet, fails. `max_periods` is NULL in every schedule the code
makes, `pregrant_next_period_atomic` has no caller, and the schedule of a rule of period `once` is made inactive,
so none of them is here. The job takes no distributed lock.

An edit may change a rule's grant mode or its triggers and leaves its schedules alone, while the event of a period asks the rule
what to do. Once the rule is a quota, the event of the next period writes an entitlement and completes without
moving the schedule on; later rounds replay its key, also when the rule is fixed again, and the schedule is due
for good (`Stuck`; `MCGrantRuleEdit.cfg`). A rule without its free-periodic trigger (`"single"`) keeps its schedule
running, and a subscription does not stop it. A disabled bucket or a frozen wallet blocks a schedule for as
long as it lasts. Stuck schedules are the oldest due ones and come first in every list, so once they fill the job's batch
of a thousand no other is granted; `CatchesUp` makes exactly that exception.

`raced` records a second gap: a registration that has read a rule as enabled commits after the edit that
disables it, and its schedule stays active. `DisableStopsSchedules` excepts these schedules, `DueImpliesEnabled`
(`MCGrantRegisterRace.cfg`) does not. The comment of `load_single_rule_in_tx` rules them out, and says
of the race it does know, a schedule fetched just before the disable, that it executes; a fixed one is refused
under its lock (`StoppedIsFinal`; `MCGrantInFlight.cfg`).

### MC modules

Every module has an `MC` module with the constants too structured for a configuration
file: which buckets an app covers, the scripts of grants, revocations and refunds, quota
windows, request bodies, the client of a code. `Sums` defines the sum of a function over a
finite set, which the totals of the other modules are written with.

## 4. Runs

| Run | Checks | Result |
|---|---|---|
| `ledger` | `TypeOK`, `StatusAgreesWithBalance`, `AnalyticsDriftFree`, `UnrecordedOnlyIfUnspent`, `NoResurrection` | hold, 435,066 states |
| `tx_pool` | `TypeOK` (with lock hygiene), `LedgerRefined` | hold, 148,573 states |
| `tx_window` | `WindowNeverOverspent`, `DrawWithinEntitlement`, `LedgerRefined` | hold, 215,992 states up to symmetry |
| `tx_live` | `EveryTxEnds` under `FairSpec` | holds, 10,111 states |
| `idempotency` | `TypeOK`, `DeductedOnce`, `OneExecutor` | hold, 706,125 states up to symmetry |
| `idempotency_lost_ack` | `DeductedOnce` with lost commit acknowledgements | violated, see below |
| `refund` | `TypeOK`, `PartialTakesItsShare`, `GateOpensAtFull`, `FullRefundSweepsSource`, `RolesKeptOnPartial`, `ProcessedIsSettled`, `FullRefundSettles` under `FairSpec` | hold, 894,222 states |
| `payment` | `TypeOK`, `RewardNeedsSuccess`, `ConservativeGrantsPaid`, `GrantedOnce`, `FailedIsTakenBack`, `NothingClaimedTwice`, `TerminalIsFinal`, `PaidIsFulfilled` under `FairSpec` | hold, 1,092,754 states |
| `payment_shared_bucket` | `FailedHoldsNothing` | violated, see below |
| `tokens` | `TypeOK`, `CodeOnce`, `OneLiveRefresh`, `EndedStaysDead`, `IndexedWhileLive`, `DisableCutsForGood` | hold, 3,430,219 states up to symmetry |
| `grants` | `TypeOK`, `GrantsInStep`, `StoppedIsFinal`, `DisableStopsSchedules` | hold, 1,075,306 states |
| `grants_catch_up` | `CatchesUp` under `FairSpec` | holds, 93,432 states |

Further configurations each end in a counterexample, explained below, and are not in the list of runs:

| Configuration | Module | Violates |
|---|---|---|
| `MCPointsTxLockOrder.cfg` | `MCPointsTx` | `NoWaitCycle` |
| `MCIdempotencyReplay.cfg` | `MCConsumeIdempotency` | `ReplayOnlySameRequest` |
| `MCTopupRefundLate.cfg` | `MCTopupRefund` | `NoMissedRevoke` |
| `MCTopupTombstone.cfg` | `MCTopupRefund` | `CompensatedIsCorrect` |
| `MCPaymentDebt.cfg` | `MCPaymentSettlement` | `DebtIsSpent` |
| `MCPaymentExpiry.cfg` | `MCPaymentSettlement` | `WaitsForSettlement` |
| `MCGrantRuleEdit.cfg` | `MCGrantSchedules` | `DueIsExecuted` |
| `MCGrantRegisterRace.cfg` | `MCGrantSchedules` | `DueImpliesEnabled` |
| `MCGrantInFlight.cfg` | `MCGrantSchedules` | `FetchedIsExecuted` |

**Bounds.** Two rows and two buckets are the least in which expiry order, id order,
bucket order and display order can all disagree, which is what the transactions
differ in; amounts up to 2 (4 for a consume over both rows) allow empty, partial and
full draws; `MaxTime` is just large enough for a row to expire under a waiting
transaction, in `tx_window` for a window to slide past a consume. `MaxWindowed` and
`MaxPoints` cap counters only. In `idempotency` three copies of a request let one fail,
one retry and one race the retry; `MaxTime` stays below `MainTTL`, so the run is about
the 24 h in which the record lives. Copies of the same request, and the two consumes of `tx_window`, are symmetric.
In `refund` a payment of three units is returned in two parts, which complete it or do not, against
grants of one and four points: the shares do not divide evenly, so half-up rounding both
leaves a residue and takes too much early; two workers suffice for two handlers to overlap,
and two failures or repeated pushes to interrupt each of them; the second refund may be one that does not parse. In `payment` two workers beside the user
and the expiry job hold any two events of a payment at once, each of which may be the one that
fails (`MaxFaults`); a recovery finds two rows in one bucket, one of which may be spent (`MaxUsed`). In `tokens` two families
and two requests let a family be created or rotated beside a revocation of the other; three
refresh tokens are two rotations, the least for a replay of a token older than the last;
two revocations, one failing call. In `grants` two rules, one of which is edited, and three periods let the job, a
request and two administrative transactions meet on one schedule that is two periods behind; `ReadLimit` 1 is below
the number of due schedules and `Batch` 2 is not. `grants_catch_up` leaves the job alone with one
administrative request, with one rule that is edited and one whose bucket and wallet are switched.
`CHECK_DEADLOCK` is off because the scripts end: all transactions, requests and refunds are
finite. In `grants` it is on.

**Fairness.** In `PointsTx`, `FairSpec` has weak fairness on the steps of a transaction that need no
lock (its code runs, and the deadlock detector fires) and strong fairness on taking
a lock: Postgres queues waiters, so a lock that is free again and again is granted.
Nothing is assumed of `Begin`, the clock, entitlement changes or wallet updates. In
`TopupRefund`, `FairSpec` has weak fairness on each worker's handler call and on the
fulfilment (code that does not fail goes on; the holder of the advisory lock ends and
nobody holds it for good) and on the delivery of each unprocessed event, which the
retry sweep of `payment_event_retry_job.rs` repeats until it is marked. Failures are
finitely many; without that no retry could promise anything. In `PaymentSettlement` a handler call
goes on (weak fairness), and strong fairness is assumed of one delivery only, that of
`payment_intent.succeeded`: the sweep comes back to it as long as it is unprocessed, though its
back-off and other events may take the workers in between. In `GrantSchedules` the job's timer
fires again and its loop goes on, strongly for the steps that wait for a unique key or a row
lock, of the job and of the transactions that stop schedules, which Postgres hands to its waiters in turn; nobody must read a balance, register,
subscribe or edit a rule.

**Where code and documentation disagree.**

* `MCPointsTxLockOrder.cfg`: the comment before the ledger query of `consume_points_atomic` and
  `docs-web/content/docs/points/consumption.mdx` promise a fixed, deadlock-free lock
  order. `revoke_topup_refund_atomic` locks rows by bucket and id without a wallet
  lock, a consume locks them by expiry: TLC shows the cycle with two rows of one
  payment. Postgres resolves it by aborting one side (`tx_live` shows that both
  end, `tx_pool` that nothing is half done), so the cost is an error for the user or a
  webhook redelivery.
* `MCIdempotencyReplay.cfg`: the fingerprint guard is three Redis calls. A delivery whose
  probe sees the record of its own twin deletes the live fingerprint; then two
  copies of a different request can pass the guard and receive the first
  request's transaction.
* `idempotency_lost_ack`: every error of the consume is marked `failed`, including an
  error of COMMIT itself, after which a retry is allowed to deduct again.
* `MCTopupRefundLate.cfg`: the retry job (`payment_event_retry_job.rs:21-24`) promises that a refund can never permanently miss its
  role revoke, the refund rules (`refund-clawback.md:48`) that a full refund takes back all remaining points.
  The fulfilment does not look at `payment_refunds`: when it is delayed or rerun after a
  full refund was handled, it grants the points, or inserts the deleted role again, and no
  event is left that would take them back. The passing run excludes exactly this case
  (`overtaken`).
* `MCPaymentExpiry.cfg`: `mark_expired_attempts` closes a pending attempt two hours after its creation and
  asks nobody. An asynchronous payment under the conservative strategy is pending while the
  bank collects it, so the attempt expires and the success that follows is dropped. The user
  stories have the system wait for the result (`async-payment-points.md:97`), and ask the provider before it
  closes an attempt (`payment-attempt.md:255-256`).
* `MCTopupTombstone.cfg`: the requirements (`subscription.md:268`, `webhook-compensation.md:40`) promise that an event found missing is processed as if its webhook had
  arrived. A Creem refund found that way lacks what the handler needs; it is marked processed, and the
  user keeps the points and roles of a refunded payment. The code's own comment calls this a best-effort skip.
* `payment_shared_bucket`: the user stories (`async-payment-points.md:140`) promise that a bounced one-time purchase is taken back in full, less what
  was spent. One row per bucket is.
* `MCPaymentDebt.cfg`: by the user stories (`async-payment-points.md:190-194`) the debt is what was spent. After a rerun it also contains what was recovered.
* `MCGrantRuleEdit.cfg`: the scheduler's comment (`grant_scheduler.rs:37-39`) says that each due schedule is executed on the terms of its snapshot; the grant mode
  is not in the snapshot, and a schedule whose rule has become a quota is never executed again.
* `MCGrantRegisterRace.cfg` and `MCGrantInFlight.cfg`: the two halves of the comment on `load_single_rule_in_tx`
  (`points/postgres_repository.rs:1744-1749`). "A due schedule implies an enabled rule" fails for a registration that had read
  the rule before; a schedule fetched just before the disable does not "execute like any event already in flight": a fixed
  one is refused as inactive.

## 5. Proofs

Each `*Proofs` module proves, for every value of the constants, safety properties that a run
of section 4 checks on one instance: any number of rows, buckets, workers, requests, rules,
families, amounts and failures. Every inductive invariant below was first checked by TLC as an
invariant of the run's instance.

| Module | Theorems, and the property each one states |
|---|---|
| `PointsLedgerProofs` | `LedgerTyped` (`TypeOK`), `StatusTruthful` (`StatusAgreesWithBalance`), `RowsNeverResurrected` (`NoResurrection`), `LossesRecorded` (`UnrecordedOnlyIfUnspent`), `AnalyticsNeverDrift` (`AnalyticsDriftFree`) |
| `PointsTxProofs` | `TxInvariant`, `TxTyped` (`TypeOK`), `WindowsRespected` (`WindowNeverOverspent`), `DrawsEntitled` (`DrawWithinEntitlement`), `CommitsKnow`, `WindowsBounded`, `LedgerImplemented` (`LedgerRefined`) |
| `PaymentSettlementProofs` | `CoreInvariant`, `PaymentTyped` (`TypeOK`), `RewardOnlyAfterSuccess` (`RewardNeedsSuccess`), `PurchaseGrantedOnce` (`GrantedOnce`), `TerminalFinal` (`TerminalIsFinal`), `ConservativeOnlyPaid` (`ConservativeGrantsPaid`), `FailedTakenBack` (`FailedIsTakenBack`), `DebtBounded` (`NothingClaimedTwice`) |
| `TopupRefundProofs` | `RefundInvariant`, `RefundTyped` (`TypeOK`), `PartialShareBounded` (`PartialTakesItsShare`), `GateOpens` (`GateOpensAtFull`), `FullRefundSweeps` (`FullRefundSweepsSource`), `PartialKeepsRoles` (`RolesKeptOnPartial`), `ProcessedSettled` (`ProcessedIsSettled`) |
| `TokenFamiliesProofs` | `BaseInvariant`, `FamiliesTyped` (`TypeOK`), `RotationNeverForks` (`OneLiveRefresh`), `LiveIsListed` (`IndexedWhileLive`), `EndedForGood` (`EndedStaysDead`), `CodeSpentOnce` (`CodeOnce`), `CutForGood` (`DisableCutsForGood`) |
| `GrantSchedulesProofs` | `SchedulesInvariant`, `SchedulesTyped` (`TypeOK`), `PeriodsGrantedInStep` (`GrantsInStep`), `StoppedForGood` (`StoppedIsFinal`), `DisabledIsStopped` (`DisableStopsSchedules`) |
| `ConsumeIdempotencyProofs` | `IdempotencyTyped` (`TypeOK`), `IdempotencyInvariant`, `OneExecutorAtATime` (`OneExecutor`), `KeyDeductsOnce` (`DeductedOnce`) |
| `SumTheorems` | what the sum over a finite set does when a summand, or the set, changes; what a greedy split in a total order adds up to |

**Sums.** Totals, cumulative refunds and debts are sums over finite sets. `SumOf` (module `Sums`) is
the fold of the community modules; `SumTheorems` proves its laws (removing, adding and updating a
summand, addition, monotonicity, subsets, sums taken class by class) by taking a smallest set for which a law fails: a
finite set of finite sets has one (`SmallestFinite`), and removing one element of it gives the contradiction.
`GreedySum` is the law of `plan_consume_allocation`: taking from each element, in order, what it has of
what is still wanted takes all that is wanted or all there is; its induction removes the last element.

**PointsLedger.** The inductive invariant is `TypeOK /\ StatusAgreesWithBalance`. Neither half is
inductive alone: that a consume or a revocation stays within a row needs
`used + revoked <= granted`, and that a status flips exactly at zero needs the typing of the
amounts. The argument goes row by row: lemmas say what `Consumption`, `Revocation` and the
change to `expired` do to one well-formed row (for the refund, that the half-up share capped
by the balance lies between zero and the balance); each action is then a step that
changes each row in one of these ways or not at all. `NoResurrection` follows from the same
lemmas, since only live rows are consumed and an expired row can only be revoked.
For the totals, the sums over the rows of a bucket are written as sums over all rows with zeros
elsewhere (`TotalsByRow`), so that a grant that puts unused row ids into a bucket, and a consume
over several buckets, add a second function to the first.

**PointsTx.** `Inv` types the ledger and the windows, says that a lock is held by a transaction
under way, and, in `TxGood`, what a transaction has secured: a consume past its wallets holds every
covered one, and each draw it has planned but not committed is covered by an entitlement
(`Entitled`) and fits, with what is logged, into every window of the entitlements that were in force
before the instant it began (`Room`). `Room` of one consume survives the commit of another
because both would need the wallet of the same key (`CommitConsumeKeeps`), and it survives the
grant of an entitlement because the grant is stamped no earlier than any instant read so far
(`EntitlementWritten`); that is why `WindowNeverOverspent` only speaks of instants after the grant.
The code sums what is stamped from a window length before the consume's instant on, with no upper end,
so consumes that began later and committed first count too: every window that holds the new
stamp lies within that sum (`WindowsDrawn`). `SpendableSound` says what `compute_window_spendable_in_tx` guarantees.

That `PointsTx` implements `PointsLedger` needs a second invariant, `Sound`: what a transaction found under its
locks is still so at its commit. Its rows match its query and are locked by it (`RowsHeld`); a consume or a
revocation has, or will still visit, every row that matches (`PoolComplete`), because a row that begins to match
is inserted under a wallet it holds; its wallets are usable; a distribution event holds exactly the
wallets of its rules and its rows are not there yet; the plan of a consume covers the request, and what is drawn and
left to draw is the part planned for the windows. `FrameSound` says what the others must leave alone for
this to last, `CommitSound` that a commit of another transaction does. Each commit is then shown to be one action
of the ledger (`GrantRefines`, `LossRefines`, `ConsumeRefines`): for the consume, that the greedy loop and the
windows together give exactly what was asked for (`PoolGivesAll`) and nothing is taken while a row that expires
sooner has points left (`NearestTaken`). `PointsLedger` bounds the window consumption of a bucket by
`MaxWindowed`; a consume commits once, so under `WindowedAssumption` (room for one request per consume) the bound
is never what stops a commit (`Budget`, `WindowsBounded`). What `PointsLedgerProofs` proves of the ledger
therefore holds of the committed state under every interleaving; that last inference is made here and
not by the prover, which carries no temporal theorem through an `INSTANCE`.

**PaymentSettlement.** `Core` says what a handler may rely on between its read and its write: a
job in the fulfilment knows that the attempt succeeded at some time, a recovery that it
is about the failed settlement, a pending status update that the transition it tested is
allowed; the event row keeps all but one job out of the granting step. `RecoverySound` follows a recovery
bucket by bucket: in every bucket it has dealt with a row is empty and stays so, since only a fulfilment could fill it.
`FirstRecovery` says that until the first recovery has recorded its debt no other runs and what it counts as recovered
is all that is revoked; debt and revocations together are then the grant of one row or the revocations alone, which the typing
bounds. Neither theorem assumes anything of how the rules are spread over buckets.

**TopupRefund.** `Inv` holds what a worker has secured at each step of the handler (`JobSound`), that
no two workers are between the insertion and the commit with the same refund and, for Creem, no two in a
transaction at all (`Apart`), and that the last cumulative figure the provider told is what it has returned.
The gate then opens for Stripe because the event that completes the payment carries the
full figure, and for Creem because the figures are summed one transaction at a time. That a
partial refund stays within its share is the arithmetic of rounding half up (`RoundedHalfUp`). An event that does
not parse never becomes a job, so it is neither recorded nor clawed back, and `ProcessedSettled` is about the others.

**TokenFamilies.** The invariants are layered. `Base` types the records and says that only the newest
refresh token can be usable; on it rest the indexes, the sweeps (`Swept`: a running sweep still has
every family in view that was alive when it began and is alive now), the codes (`CodesOnce`: a
code is in Redis, or held by one exchange, or spent on one family) and the generations
(`Generations`: nothing is bound to the generation of a disabled client). Two lemmas,
`StepKind` and `FamLater`, say what any step does to a request and to a family.

**GrantSchedules.** What keeps two grants of one schedule apart is the unique key of the event,
not the row lock: the event of every period from 2 to the count is done (`RuleSound`), so a key that is
claimed and not done names a period still to come; a period that was given as a quota is ahead of the count, and stays so
because its event is done too (`QuotaAhead`). The row lock (`Holding`) is what keeps a stopped schedule stopped.
`Stopping` adds that a running edit still has the active schedule of its rule in sight.

**ConsumeIdempotency.** `Exclusive` is the inductive core, for as long as no lock creation failed open: one delivery at a time is
between the lock and the end of its save; until it has committed nothing is deducted, and the marker says
`failed` only when nobody is busy and nothing is deducted. It needs `RecordLives`, the record does not expire
under its users. Two hypotheses are stated with the theorems: `Acknowledged`, the answer to COMMIT is not lost
(`idempotency_lost_ack` is the counterexample without it), and `WithinTTL`, the clock stays within the 24 h of the
record (afterwards the key is a new key by design). `IdempotencyTyped` needs neither.

**Assumptions on constants**, all named in the modules and evaluated by TLC in the runs: ids are naturals, amounts are
naturals within their bounds, a refund is not larger than its payment, the sets that are summed over are finite, every rule of a distribution event inserts a row of its own, `MaxWindowed` has room for
every consume, and names used as
markers ("absent", "none", no process, no family...) are not themselves names of processes, rules, families or requests.

**Only model-checked.**

* Liveness (`EveryTxEnds`, `FullRefundSettles`, `PaidIsFulfilled`, `CatchesUp`) and everything with fairness: beyond
  the prover.
* The statements of the violation runs, which are false of the code.

## 6. Not modelled

Of points: the database idempotency keys of direct grants and revocations, read-only queries
(balances, allocations, next expiry) and the `balance_after` snapshots;
`revoke_topup_proportional_atomic` is the one-bucket form of the refund and has no action of
its own. Of payments: the routing of an event to a purchase or a subscription, an attempt amount
that differs from the provider's, the fulfilment of subscriptions, the handlers of the
other providers, the lease of the shared webhook service and the back-off of the sweep.
Of authentication: passwords, TOTP, passkeys, e-mail codes, consent, the device flow, id_tokens and
keys. Subscriptions, invoices and credit notes, the reconciliation with the app stores, the worker's lock
and the permission cache are further state machines that have no module yet. Administrative
records are single statements, the provider adapters and the user interfaces keep no
state of the system. The component list in `PROJECT.json` gives the reason for each part, its
hazards the open questions.
