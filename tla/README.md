# dymo-core: specifications

TLA+ specifications of the concurrent parts of the dymo SaaS backend
(`src/src/dymo_saas_core`), the TLC configurations that check them on small
instances, and TLAPS proofs of their safety properties for every instance.
Paths below are relative to `src/src/dymo_saas_core`.

## 1. Inventory

The backend is a FastAPI application over PostgreSQL (SQLite in the tests), with
Redis (or nothing) as cache, Stripe for payments, and three command-line jobs:
`process-outbox` (long-lived workers), `cleanup-jobs` and the seeding commands.
Each HTTP request has its own database session; handlers are synchronous and run
on a thread pool (the Stripe webhook alone is `async` and overlaps with itself only
in several processes), so requests interleave at every query and every commit. There
is no lock besides `with_for_update(skip_locked=True)` in the outbox worker, no
retry of a failed transaction, and the isolation level is the database's default
(read committed).

| Component | State it keeps | Operations | Hard behaviour | Correct when |
|---|---|---|---|---|
| Outbox worker `jobs/outbox_worker.py`, dispatcher `core/webhook_dispatcher.py` | `outbox_events`, `webhook_deliveries`: status, attempt_count, next_retry_at, updated_at | claim a batch, run handlers, enqueue webhooks, record outcome, POST a delivery | several workers, crash between any two commits, a lease nobody renews, stop in the middle of a batch | a row has one holder, outcomes are earned and final, no row is forgotten, attempts are bounded |
| Outbox emission `core/outbox.py` | the same table; in-memory subscriber list | `emit_event` in the caller's transaction | callers commit before they emit | an event exists exactly when what it reports was committed |
| Webhook subscriptions `tenant_app/webhooks.py` | `webhook_subscriptions` | create, update, delete (cascades to deliveries), test ping by a background task | edits under a delivery in progress; the task's session | as for the worker |
| Idempotency keys `core/idempotency.py`, middleware in `app.py` | `idempotency_keys`: status, hash, stored response, expires_at | look up, store, complete (handler and middleware), clean up | concurrent retries; three commits per request; completion by any response | executed once, replay what was answered, no key blocked for ever |
| Quotas `core/quota.py`, cash register `modules/cash_register_simple` | `usage_counters`, `cash_register_sales`, `cash_register_day_closures` | check, increment, sale, cancellation, closure, report | check-then-act, read-modify-write, several commits per operation | counter equals sales, limit respected, closure equals the day's sales |
| Subscriptions and billing `tenant_app/billing.py`, `platform/webhooks.py`, `platform/payments.py`, `platform/plans.py` | `subscriptions`, `scheduled_subscription_changes`, `billing_invoices`, `billing_payments` | change, upgrade, downgrade, cancel, checkout; Stripe events; refund, retry | events delivered at least once and out of order, tenant operations in between, scheduled changes applied later | one current subscription, payments counted once, a withdrawn change is never applied, a decision is undone only by who has seen it |
| Sessions `tenant_app/auth.py`, `platform/auth.py`; users `tenant_app/users.py` | refresh tokens (revoked, expires_at), users (status, deleted_at) | login, refresh with rotation, logout; create, update, delete a user | two logins or two refreshes at once; an edit of a user that is being deleted | one session per user, a token is used once, a deleted user stays out |
| Invitations `tenant_app/invitations.py`, accept in `tenant_app/router.py` | `tenant_invitations` | create, revoke, accept, expire | two acceptances, acceptance against revocation | accepted once, never after revocation |
| API keys `tenant_app/api_keys.py`, `core/tenant_context.py` | `tenant_api_keys` | create, use, expire, revoke, delete | requests that read the key before its revocation write after it | revoked for good |
| Access control and caches `core/permissions.py`, `core/tenant_context.py`, `core/module_registry.py`, `core/cache.py`, `core/cache_helpers.py`; `tenant_app/roles.py`, `users.py` | roles, permissions, users, modules; cache entries with a TTL | read through the cache; change and invalidate | a reader stores what it read before a change, after the invalidation | what the cache says and the database does not is named and passes |
| Clean-up jobs `jobs/cleanup.py` | deletes or changes rows of others | expired keys, expired invitations, scheduled changes | run beside the requests that use the rows | as for the owners |
| Tenant provisioning `platform/tenants.py`, `platform/modules.py`, `tenant_app/settings` | tenants, enabled modules, settings | create with owner, suspend, enable | one transaction each | nothing beyond the transaction |
| Providers `platform/providers.py`, `integrations/` | provider configurations with one default per type and environment; calls to Stripe, Brevo, Twilio | create, update, activate, test; call | a bulk UPDATE with row locks, two saves that wait for each other | one default, no deadlock that lasts |
| Analytics, audit logs, storage, observability, encryption | append-only logs, files | read, append | none | out of scope |

How they interact: API handlers emit events into the outbox inside their own
transactions; workers turn events into deliveries for the tenant's active
subscriptions and post them; the idempotency dependency and middleware wrap
`POST /api/v1/app/invitations`; every route asks access control, which reads
tenants, roles, modules and subscriptions through the cache; Stripe events
change what billing and quotas read; the clean-up jobs act on the rows of
idempotency keys, invitations and subscriptions. `PROJECT.json` lists every
component with its status, and under `hazards` each place where one of these
behaviours bites, with the property that covers it.

## 2. Plan

Modules in the order of their importance to the program:

1. `OutboxWorker` (done): the only component with several long-lived processes
   and a hand-made lease; proofs in `OutboxWorkerProofs`.
2. `Idempotency` (done): the only guarantee of once-only execution; proofs in
   `IdempotencyProofs`.
3. `CashRegister` (done): quota check and increment, sale, cancellation and
   closure as the separate commits they are; proofs in `CashRegisterProofs`.
4. `Billing` (done): tenant operations, Stripe events (at least once, any order),
   scheduled changes, refunds; proofs in `BillingProofs`.
5. `Accounts` (done): sessions, users, invitations and API keys, which act on the
   same rows; proofs in `AccountsProofs`.
6. `Access` (done): the read-through caches with TTL and invalidation, as
   permissions, tenant status and enabled modules use them; proofs in `AccessProofs`.
7. `Providers` (done): the default provider, its bulk UPDATE and row locks; proofs in
   `ProvidersProofs`.
8. `WorkQueue` (done): what the outbox promises, an at-least-once queue, which
   `OutboxWorker` implements; checked in the outbox runs and proved in
   `OutboxQueueProofs`.

Every safety property that a passing run checks is also stated by a theorem. Still
to come: safety facts that the liveness properties rest on (a cycle of waits in
`Providers` always has a victim, a row nobody holds can always be claimed), which
would be invariants of their own.

`OutboxWorker` has two runs, for an event and the delivery that comes of it and for
the delivery of a test ping. Every other module has one run for what holds, and one
more for each documented promise that does not.

## 3. The modules

### OutboxWorker

One step is one committed transaction or one external call; everything other
processes can do in between is explored. A session's loaded row is `copy[a]`:
`attempt_count += 1` and "write only changed columns" act on that copy, as the
ORM does (`Column`, `Store`).

| State | Code |
|---|---|
| `rows[i]`: status, attempts, retry | a row of `outbox_events` or `webhook_deliveries`: `status`, `attempt_count`, and `next_retry_at` as `"null"`, `"later"`, `"due"` |
| `aged` | the rows with `updated_at <= now - 10 minutes` (`stalled_cutoff`) |
| `subs` | `status` of the webhook subscriptions |
| `running`, `todo` | `self.running`; `event_ids` and `delivery_ids` of the batch |
| `pc`, `cur`, `copy` | where a process is, its row and the copy in its session |
| `contended`, `repeats`, `done` | history only: rows whose claim ceased to be exclusive, why work may be repeated, how often it was done |

| Actions | Code |
|---|---|
| `Start`, `Claim`, `ClaimRolledBack`, `Stop`, `Leave` | `OutboxWorker.run`, `stop` |
| `LoadEvent`, `CountEventAttempt`, `EnqueueWebhooks`, `MarkProcessed`, `HandlerRaises`, `EventCommitFails`, `RecordFailure`, `FailureNotSaved` | `_process_single_event`, `enqueue_webhooks_for_event` |
| `LoadDelivery`, `RefuseDelivery`, `CountDeliveryAttempt`, `PostAccepted`, `SaveDelivered`, `PostRejected`, `DispatchRaises`, `DeliveryCommitFails` | `_process_single_delivery`, `dispatch_webhook_delivery` |
| `EmitEvent`, `UpdateSubscription`, `DeleteSubscription`, `TestSubscription`, `DetachedDispatch` | `emit_event`, `tenant_app/webhooks.py`, the background task of a test ping |
| `Crash`, `LeaseExpires`, `LeaseOverrun`, `RetryDue` | a process dies; ten minutes pass with the row on nobody's hands, or on somebody's; the retry date is reached |

The background task dispatches with the session of the request. Depending on the
FastAPI release that session is still open or already closed by then; the
constant `TaskSessions` says which outcomes an instance explores
(`DetachedDispatch` is the closed one). The task passes no `max_attempts`, so that the
default of `dispatch_webhook_delivery` is its limit (`PingAttempts`). Abstracted: back-off lengths, payloads,
signatures, HTTP codes other than "2xx or not". The tables are bounded by the
sets of rows: a delivery for which an enqueue finds no free slot is not followed.

### WorkQueue

The outbox as those who put work into it may rely on it: an item is open until it
is finished, finished only when its work has been done and then for good, possibly
withdrawn; work is done again only while the item is open or while two actors
may have it (`shared`). `OutboxWorker!Queue` maps a row to its item: pending,
processing and failed rows are open, processed and delivered rows are finished,
deleted deliveries are withdrawn (`ItemState`); the history variables `done` and `contended` are
the queue's `done` and `shared`. So the refinement says in one formula that outcomes are earned,
that they are final, and that a crash, a retry or a stop never makes the outbox do settled
work again.

### Idempotency

One scope (only `POST /api/v1/app/invitations` uses `require_idempotency`), a set
of keys and requests with a payload each. `record[k]` is the row of
`idempotency_keys`; its `owner` is the request that stored it and stands for
`request_hash`; a response is a kind and the request that produced it.

| Actions | Code |
|---|---|
| `Refuse` | `require_permission`, which runs before `require_idempotency` |
| `LookUpNothing`, `LookUpCompleted`, `LookUpConflict`, `StoreKey`, `KeyTaken` | `require_idempotency` |
| `Reject`, `CreateInvitation`, `StorePlaceholder` | `create_invitation` with its commit and its own `mark_idempotency_completed` |
| `StoreResponse` | `idempotency_middleware` |
| `CommitFails`, `Crash` | a failed commit as each place handles it; a process dies |
| `Expire`, `Cleanup` | `expires_at` passes; `cleanup_expired_idempotency_keys` |

Assumptions: a request is shorter than the 24 hours of a record, so a record
expires only after its owner has ended (a replay may still be in progress); a
completion reads and writes the record in one step, two completions that overlap
column by column are not distinguished.

### CashRegister

One tenant, one business day, the metric `cash_register_simple.sales.monthly`. A
sale is named for the request that books it; an amount is abstracted to the sale
it belongs to, so that a closure is the set of sales it summed over.

| State | Code |
|---|---|
| `sub` | the row of `subscriptions`: is its status active or trialing, its period (start and end) |
| `counter[p]` | `current_value` of the `usage_counters` row of period `p`; 0 without a row (`increment_usage` never commits a row with 0) |
| `sale`, `saleEvents`, `cancelEvents`, `closures` | `cash_register_sales.status`, the events in the outbox, `cash_register_day_closures` |
| `pc`, `seen`, `target`, `day` | where a request is; the period and counter it read; the sale it loaded; the sales it summed over |
| `sold`, `overlaps`, `entered`, `interrupted`, `crossed` | history only: sales booked per period; how many of them while another sale was between its check and its commit; changes into a period under such a sale; sales whose request died before the event; cancellations of a sale while another one was about to commit |

| Actions | Code |
|---|---|
| `CheckLimit` | `check_limit` |
| `CountUsage`, `CommitSale`, `CounterExists` | `increment_usage`: its reads, its commit (with the flushed sale), the unique constraint |
| `EmitSaleEvent` | `emit_event` and the commit of `write_audit_log` |
| `LoadSale`, `CommitCancel` | `cancel_sale` |
| `ReadDay`, `CommitClosure` | `create_day_closure` |
| `EnterPeriod`, `Lapse` | the Stripe handlers and plan changes, as far as they touch status and period |
| `Fail` | a process dies or a commit fails; the session is closed and rolled back |

Assumptions: the two or three queries of `check_limit`, and those of
`increment_usage`, are one step each; the subscription is read afresh by
`increment_usage` (the session's identity map is weak and nothing in a request
for a sale holds the object `check_limit` loaded); the plan's limit does not
change during a run. When `sub` is not active, `increment_usage` books on the
period "now, now + 30 days", which nobody looks up again: `NoPeriod`.

### Billing

One tenant. An operation is two steps: it reads, which fixes what it will write
(`tx[h]`), and it commits; `Merge` is the ORM's UPDATE of the columns whose value
differs from the one read. `query.delete()` takes effect, and locks, at once;
a row that another transaction has deleted makes the job's UPDATE miss and its
commit fail (`StaleDataError`), which is the missing branch of `CommitRun`.

| State | Code |
|---|---|
| `subs[s]`, `tenant` | the tenant's rows of `subscriptions`: plan, status, `cancel_at_period_end` (`ending`), `stripe_subscription_id`; `tenants.status` |
| `changes[c]` | `subscription_scheduled_changes`: `pending` (not executed), `executed`, or deleted; `due` when `execute_at` has passed |
| `bills[i]`, `payments[i]` | `billing_invoices` of a Stripe invoice: status and `amount_paid`; how many `billing_payments` it has |
| `tx[h]` | the rows a request, delivery or job run holds (`old`), what it will write (`new`, `insert`, `newBill`), the changes it deletes or applies (`takes`) |
| `doubled`, `raced`, `ended`, `ran` | history only |

| Actions | Code |
|---|---|
| `ChangePlan`, `CancelAtPeriodEnd`, `Upgrade`, `Downgrade`, `CancelDowngrade` | `tenant_app/billing.py` |
| `Checkout`, `InvoicePaid`, `PaymentFailed`, `SubscriptionUpdated`, `SubscriptionDeleted` | the handlers of `platform/webhooks.py`; at least once and in any order, since every event may be processed at any time |
| `Refund` | `refund_payment` |
| `RunChanges` | `process_scheduled_subscription_changes` (called only by tests so far, no command runs it) |
| `CommitSubscription`, `CommitDowngrade`, `CommitCancelDowngrade`, `CommitRun`, `CommitPaid`, `CommitRefund`, `Abort` | `db.commit()` of each, and its failure |
| `PeriodEnds` | the clock passes `execute_at` |

Assumptions: several queries of one operation are one read; `invoice.paid` is of a
fully paid invoice of `Total` (Stripe sends it then), whose number no other invoice
has; a Stripe status other than these behaves like `past_due`; billing cycles,
periods, amounts due, the invoices of upgrades, subscription events and audit logs
are left out; so is the administrator's PATCH of the tenant's status; plans are not
withdrawn. A first subscription is inserted into a free element of `SubIds`.

### Accounts

One tenant. As in `Billing` an operation reads (`tx[r]`) and later commits the
columns that differ from its copy (`Merge`). Login has a step in between, the UPDATE
that revokes the tokens it can see: these rows are locked until it commits (`Locked`). Another
login that wants them waits (`waits`), and so do the commit of a refresh and a logout.

| State | Code |
|---|---|
| `users[e]` | the row of `tenant_users` with email `e`: status, `deleted_at` (every status but active and deleted is "suspended") |
| `tokens[t]` | `tenant_refresh_tokens`: live, expired or revoked, and whose |
| `invitations[i]` | `tenant_invitations`: status, email, and whether `expires_at` has passed (`late`) |
| `keys[k]` | `tenant_api_keys`: status, and whether `expires_at` has passed |
| `crossed`, `raced`, `forked`, `contested`, `overtaken`; `spent`, `admitted`, `withdrawn` | history only: where requests overlapped; how often a token or invitation was used; the keys whose revocation was committed |

| Actions | Code |
|---|---|
| `Login`, `RevokeTokens`, `CommitLogin`, `Refresh`, `CommitRefresh`, `Logout`, `TokenExpires` | `tenant_app/auth.py`, `platform/auth.py` |
| `CreateUser`, `UpdateUser`, `DeleteUser`, `CommitUser` | `tenant_app/users.py` |
| `CreateInvitation`, `RevokeInvitation`, `AcceptInvitation`, `AcceptExpired`, `CommitAccept`, `CommitSettle`, `InvitationExpires`, `CleanupInvitations` | `tenant_app/invitations.py`, `accept_invitation`, `cleanup_expired_invitations` |
| `CreateApiKey`, `UseApiKey`, `RevokeApiKey`, `DeleteApiKey`, `CommitKey`, `ApiKeyExpires` | `tenant_app/api_keys.py`, `get_current_user` |
| `Abort` | a process dies or a commit fails |

Assumptions: the PATCH of a user writes one of the statuses the schema's comment names
(active, inactive, suspended), not `deleted`; the tenant is active; passwords, roles and
names are left out (roles are in `Access`); an access token is signed and kept nowhere.

### Access

One tenant. `cache[k]` is the Redis entry of a user's permissions, of the tenant's
modules or of the tenant; `Truth(k)` is what the database answers for it.

| Actions | Code |
|---|---|
| `Fetch`, `Store` | the readers: `require_permission`, `is_module_enabled_for_tenant`, `get_current_tenant`; the query, and the `CacheService.set` after it |
| `Expire` | `ex=ttl` of `CacheService.set` |
| `UpdateUser`, `AcceptInvitation`, `CommitRoles` | operations on the roles of a user |
| `CreateRole`, `UpdateRole`, `AssociatePermission`, `RemovePermission`, `DeleteRole`, `CommitGrants`, `ListUsers`, `CommitDrop` | `tenant_app/roles.py` |
| `UpdateTenant`, `ChangeSubscription`, `SettleInvoice`, `StripeChange`, `Flush`, `CommitTenant` | operations on status and subscription, with the ORM listeners of `models.py`, which delete entries in the flush and so before the commit |
| `Invalidate` | `invalidate_..._cache` of `core/cache_helpers.py`, one key at a time |
| `Abort` | a process dies, a commit fails, or Redis refuses a deletion (`CacheService` logs it and goes on) |

`excused` is a history variable: the keys whose entry may be out of date for one of
the reasons the comment of `Fresh` names, until the entry is deleted, expires or is replaced
by an answer that is not late.
Operations do not overlap on one database row here (`Accounts` and `Billing` have those races),
except where the cache depends on it: a role that is deleted while it is given to a user.
Cached entries of a process-local fall-back (no Redis) are not modelled. The several
queries of one reader (the user, its roles and their permissions in
`require_permission`; the module, the subscription and the plan in
`is_module_enabled_for_tenant`) are one snapshot in `Fetch`: an answer put together
from both sides of a commit is assumed away. It would be stored after that commit, so
`Fresh` would excuse it as it excuses an answer that is late.

### Providers

Provider configurations of the platform. A save of a default first clears the flag
of every other provider of its slot (type and environment) in one UPDATE: it starts with the rows
committed at that moment (`StartClearing`), then takes and re-reads each row in any order
(`ClearRow`), waiting for a row that another transaction holds. `lock` is who holds a
row; `Needs`, `WaitsFor` and `Cycle` are the wait-for graph, `DeadlockDetected` is the
database killing one of a cycle.

| Actions | Code |
|---|---|
| `CreateProvider`, `UpdateProvider`, `TestProvider`, `SetActive` | the routes of `platform/providers.py`: what they read |
| `StartClearing`, `ClearRow`, `Commit`, `Abort` | the UPDATE of the others, `db.commit()`, its failure |

A save or switch that changes none of the modelled columns may still change others (the
name, the administrator who saved it), or none at all; `writes` says which. In the second
case the ORM has no UPDATE of the row to send, and the request does not wait for its lock.
Credentials, priorities and the calls to the services are left out. `chosen`,
`contended` and `unguarded` are history only: the provider last saved as the default;
slots of two saves that overlapped in a slot or in their provider; those of them that an
insertion or a move entered meanwhile.

### MC modules

The `MC` modules give the constants their values and, where a run has one, a symmetry:
requests of one kind and periods in `MCCashRegister`, all sets but invoices in
`MCBilling`, requests, users and tokens in `MCAccounts`. Symmetry is used only in runs
without liveness.

## 4. Runs

| Run | Instance | Shows |
|---|---|---|
| `outbox_events` | 2 workers, 1 event, 1 subscription and its delivery, 2 attempts, 1 fault, 1 lease overrun, fairness | exclusive claims (`ExclusiveClaim`), the at-least-once queue (`ImplementsQueue`), every repetition, and under exclusive claims every attempt above the limit, accounted for (`RepeatsAccounted`, `AttemptsAccounted`), no lost attempt, no failed event without a retry date; every event is settled in the end, but in one case (see below), and every delivery whose subscription ends up active (`EventsSettle`, `DeliveriesSettle`) |
| `outbox_deliveries` | 2 workers, 1 background task, 1 delivery, both session outcomes, 2 faults, 1 overrun, fairness | `ImplementsQueue`, `RepeatsAccounted` and `DeliveriesSettle` for the delivery of a test ping, with subscriptions switched off, on and deleted meanwhile |
| `idempotency` | 4 requests on 1 key, one with another payload, 1 fault, fairness | `AtMostOnce`, `ReplayIsHonest`, `SuccessIsRemembered`, `KeyFreed` |
| `idempotency_replay` | 3 requests, no fault | violated: a replay is the response of the request that holds the key |
| `cash_register` | 3 sales with a quota of 2, 2 cancellations, 1 closure, 2 periods, 2 changes of the subscription, 1 fault | `CounterHonest`, `QuotaRespected`, `SalesReported`, `CancellationReportedOnce` |
| `cash_register_events` | 2 sales, 1 cancellation, 1 closure, 1 fault | violated: "transactional outbox event" |
| `cash_register_closure` | 1 sale, 1 cancellation, 1 closure | violated: a cancelled sale does not count in a day closure |
| `billing` | 2 operations at a time, 5 in all, 2 plans, 2 Stripe subscriptions, 2 scheduled changes, 1 invoice of 2 units | `OneSubscription`, `WithdrawnNeverRuns`, `StripeCancelsItsOwn`, `NoBlindReset` |
| `billing_redelivery` | 2 at a time, 3 in all | violated: events deduplicated by their id |
| `accounts` | 2 users, 3 tokens, 1 invitation, 1 API key, 3 requests at a time, 5 in all | `SingleSession`, `TokenSpentOnce`, `DeletedStaysOut`, `InvitationHonest`, `RevokedForGood` |
| `access` | 1 user, the roles owner and admin, 2 permissions, 2 requests at a time, 2 operations, fairness | `Fresh`: an entry is right, about to be deleted, or wrong for a named reason; `Converges`: in the end every entry is right |
| `providers` | 3 providers, 2 slots, 2 requests at a time, 3 in all, fairness | `OneDefault`, `DefaultKept`, `RequestsEnd` |

Bounds. Rows of a table do not interact except through the batch, so one event, or
one delivery, with two workers shows every race on a row; in `outbox_events` a worker can
have the event and its delivery in one batch, and a repeated enqueue finds no slot for
a second delivery, which is then not followed. Two attempts give a first, a retried and a
last attempt; a fault and an overrun (and two faults in `outbox_deliveries`) allow a crash of the recovery. A third holder of a row would need a second
overrun; `OutboxQueueProofs` covers that case for the two accounts. Keys do not interact at all; four requests are an owner, a
concurrent retry, a foreign payload and a retry after the clean-up. Three sales
are two that overlap and one after or before them, against a quota that the third
exceeds; two changes are there and back, or lapsed and active again; closures do
not see each other, and nothing sees them, so one is enough. In `billing` five operations are, for
instance, a subscription, a checkout, a second checkout and the deletion of the first
Stripe subscription overlapping with one more, or a subscription, a downgrade, the
job and a withdrawal; races between two handlers are pairwise, as all locks and
copies are. Two subscription rows are what two simultaneous first requests create.
In `accounts` three requests at a time are two that overlap and a third that ends what
one of them holds; five in all are, for instance, a login, two refreshes and two more
logins, and two users show that the races of one leave the other alone. In `access` readers are not
counted, only operations: two are one that changes an answer and one that hides
it again, or a deletion and an assignment of one role. In `providers` two requests can close a
cycle of waits, and a third one sees what they have left.
`MaxFaults`
and `MaxOverruns` bound nothing else.
`CHECK_DEADLOCK FALSE` except in `access`, where readers can always go on: when everything is
settled and nobody calls the API, nothing happens.

Fairness. `OutboxWorker`: a supervisor restarts a dead worker (the CLI is started
as a service), a live worker goes on (no step waits for another process; posts
have a timeout of 5 s), the clock advances. Nothing is assumed of the API's users
or of faults, which are bounded by `MaxFaults`. `DeliveriesSettle` supposes that
the subscription eventually stays active: a delivery refused while its retry date
is past is claimed and refused by every poll. `Idempotency`: a request that has
begun goes on, and somebody runs `cleanup-jobs` now and then. Nothing in the
repository schedules that job, and `require_idempotency` does not look at
`expires_at`: without the job `KeyFreed` is false. `Access`: a request that has
begun goes on or dies, and an entry expires (every `set` has a TTL); without expiry a
stale entry stays for ever. `Providers`: a request that is not waiting goes on,
PostgreSQL looks for deadlocks (`deadlock_timeout`, 1 s); nothing is assumed of `Abort`.

Violated runs. Each is a promise of the repository the code does not keep;
`PROJECT.json` quotes it under `findings`. The passing runs state what holds instead: a
replay is always of an answer given for this key, a sale without its event is one whose
request died, and a subscription, unlike a payment, is not doubled by a redelivered
event. What holds of `quota.py` is weaker than its name: two sales that overlap may both
pass the check and one of their increments may be lost. `QuotaRespected` and
`CounterHonest` say how much weaker, in every period: each sale that is booked while
another is between its check and its commit can take one unit more than the limit and
lose one increment, and each change into the period under a sale that was checked before
can take one unit more; nothing else can, and the counter never runs ahead of the sales.
`CancellationReportedOnce` counts the overlapping cancellations in the same way. A day
closure holds what stood when its one query ran, and nothing about the moment it is
committed: `CancelledNotCounted` is violated with one sale, and no weaker promise is left
that says more than the query. `EventsSettle` has an exception that came out of the run
with an overrun: two workers hold an event, one counts the last attempt, the other writes
the lower count that it had read before, and the first records a final failure, which
leaves no retry date. The event is then failed with attempts left, and no poll selects it. Likewise the
worker's "safe multi-instance concurrency" and "maximum execution attempts" hold up to
the cases `ExclusiveClaim` and `AttemptsAccounted` name (a lease that ends under its
holder, a claim whose commit failed, one attempt more for every claim of a stalled row
while claims are exclusive), and the "single session" of login up to logins and
refreshes that overlap.

## 5. Proofs

For every value of the constants allowed by `ConstantsAssumption`, by
`tlapm` (SMT and Zenon; PTL for the temporal step).

Eight modules hold proofs.

`OutboxWorkerProofs`: `Inductive` shows `Spec => []IInv`. `ExclusiveClaim` alone is
not inductive: a claim takes rows that are pending, failed and due, or processing
and aged, so the proof needs that a row in somebody's hands is none of these
(`HeldIsClaimed`), hence that aged rows are processing rows
(`AgedIsClaimed`), that a retry date in the future is only on failed rows
(`LaterMeansFailed`, or the clock would make a held row due), where a process is
when it has a row (`InHand`), and that an exclusive holder's copy is the row
(`CopyIsFresh`), which excludes the lost update. `OutcomeEarned` needs that work
about to be recorded has been done (`AboutToFinish`). One lemma per action, one
step per conjunct it can disturb. From `IInv` follow `TypeCorrect`,
`ClaimsAreExclusive`, `OutcomesAreEarned`, `NoEventStranded`, and, as action
properties, `OutcomesAreFinal` and `AttemptsAreKept`.

`OutboxQueueProofs` shows `Refinement`, `Spec => ImplementsQueue`: the initial state is
an empty queue, and every action is one of the queue's or a stutter. Those that matter are the posts and handlers (`Perform`), the recorded
outcomes (`Finish`, since `AboutToFinish` says that the work has been done), the
overwritten outcomes (`Reopen`, where `HeldIsClaimed` shows that the row must be
contended) and the overruns (`Share`, where `ContendedExist` shows that only
rows that exist become contended).

It also proves the two accounts. `RepeatsAccounted` says nothing of who is about to do
work, so `WorkCounted` counts that too: the work done on a row, the actors that may
still do it (`MayDo`) and the next claim that needs no repeat (`Unclaimed`) are together
one and the repeats. Each step moves one of these to another, or raises `repeats`: a
claim in turn makes the free claim a doer, a post or handler makes a doer work done, a
failure makes a doer a free claim, and only the claim of a stale row, a rolled-back
claim and a lost outcome add one. `AttemptsCounted` says that an attempt which may still
be counted is below the limit. It holds of rows that are not contended, and so does
`AttemptsAccounted`: the attempt at a proof showed that it fails in general. With
overlapping leases three workers can hold one row, and the slowest writes the count it
read plus one over the higher count of the others; the row then is below
`--max-attempts` again and is claimed in turn. TLC finds it with three workers and two
overruns, and the bounds of the run had hidden it. Theorems: `RepeatsAreAccounted`,
`AttemptsAreAccounted`.

`IdempotencyProofs`: `Inductive` again. `AtMostOnce` rests on `ExecutedHolds`: an
executed request holds its key until the clean-up, so that another
`StoreKey` needs a clean-up first, which moves the epoch. `ReplayIsHonest` rests on
`RecordIsHonest` (a stored success is one of this key and payload) and
`ReplayUnderway` (the record a replay came from is still in place unless cleaned
up). Corollaries: `ExecutedAtMostOnce`, `RepliesAreHonest`, `SuccessesAreRemembered`.

`CashRegisterProofs`: `Inductive` again. `CounterHonest` and `QuotaRespected` rest on
`CopyIsFresh`: a sale that passed the check still has room when it counts and when it
commits (`HasRoom`), and what it read is the number of sales of the period, both but for
the overlaps counted so far. A commit takes that room from every other sale that is under
way in the period, and is then an overlap itself, which makes it good again. `SalesReported` rests on `SaleShape` (a sale is in the table exactly from
its commit on), `CancellationReportedOnce` on `CancelShape` (what was reported of a
loaded sale before this cancellation commits was reported by overlapping requests).
Corollaries: `TypeCorrect`, `CountersAreHonest`, `QuotasAreRespected`,
`SalesAreReported`, `CancellationsAreReportedOnce`.

`AccessProofs`: `Inductive` again. `Fresh` needs that an answer a reader carries to the
cache is right or known to be late (`FillsKnown`), and what an operation in each stage
holds (`TxShape`): the roles of an acceptance only grow, the owner's role is not dropped,
an operation that has flushed is one of the ORM listeners'. The lemma
`CommitStep` carries the argument: a commit keeps the invariant when every key whose truth it
changes (`Changed`) is about to be deleted or excused, and nothing others had to delete is
forgotten; `InvStep` shows that of each commit. Corollaries: `TypeCorrect`, `EntriesAreFresh`.

`AccountsProofs`: `Inductive` again, one lemma for each of the four tables, and lemmas
that say which part of the API leaves which table alone. `SingleSession` needs
`TokensInHand`: unless sessions crossed, a login that has done its UPDATE, or a refresh,
holds every live token of its user, so that what it inserts is the only one left.
`TokenSpentOnce` needs `SpentIsRevoked`: what was spent is revoked, and a token somebody
is exchanging is unspent unless forked. `DeletedStaysOut` needs `CopyIsFresh`, since
`Merge` writes `status` and `deleted_at` only where they differ from the copy: a stale
copy is what separates the two. `InvitationHonest` needs `OpenUntilSettled`,
`RevokedForGood` needs `WithdrawalSeen` (a request that has read a withdrawn key as
active is overtaken). Corollaries: `TypeCorrect`, `OneSession`, `TokensSpentOnce`,
`DeletionsLast`, `InvitationsHonest`, `RevocationsLast`.

`ProvidersProofs`: `Inductive` again. A save commits a default after it has cleared the
others, so `OneDefault` (as `Unique`, without counting) needs that it has had all of
them in view (`AllInView`), that a row it has cleared stays locked and in the slot until
then (`ClearedIsHeld`), and that nobody knows a row being inserted (`OwnRow`); a
provider that moves needs `SlotIsFresh` and `MoveIsFresh`. `DefaultKept` needs
`CopyIsFresh`: a provider edited from a copy that is not the row belongs to slots that
are contended. That two saves of one provider which move it to different slots overlap
too came out of this proof, and `contended` now counts them. Corollaries: `TypeCorrect`,
`AtMostOneDefault`, `DefaultIsTheLastSaved`.

`BillingProofs`: `Inductive` again. `OneSubscription` needs `Alone`: as long as the
first subscription was not doubled, whoever is to insert one still finds none.
`WithdrawnNeverRuns` needs `TakesAreHeld`: what a request has deleted and not yet
committed is pending for everybody else and deleted by nobody else, so that the job's
UPDATE either comes first or misses its row. `StripeCancelsItsOwn` needs `CopyIsFresh`
and that only the handler of a deletion writes `cancelled` or suspends the tenant, with
the link it has read (`Shaped`). `ReferencesExist` is what the types need.
`NoBlindReset` is an action property: by the `Merge` lemmas a column changes only to
what the operation means to write, and differs from what it read. Corollaries:
`TypeCorrect`, `OneRow`, `WithdrawalsLast`, `CancelledByItsOwn`, `ResetsAreSeen`.

In all of them the invariants the proofs use stand in the component's module (section
"The inductive invariant" of each), so that TLC can check them as well.

Only model-checked: liveness (`EventsSettle`, `DeliveriesSettle`, `KeyFreed`,
`Converges`, `RequestsEnd`), which is out of the prover's reach.

## 6. Not modelled

Plans and the catalogue of modules (single rows that one request writes), the settings
of a tenant (the same), the synchronisation of modules at start-up (before the first request),
`retry_payment` (no code creates a failed payment), reports and logs (read-only or
append-only), storage and encryption (pure I/O and pure functions), e-mail and SMS (no
state), the frontend, migrations and seeding (run once, alone), `process_outbox_events`
in `core/outbox.py` (no caller).
