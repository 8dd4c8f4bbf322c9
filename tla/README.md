# A TLA+ model of NexusTok

NexusTok is a gateway to large language models written in Go: it authenticates a
caller, picks an upstream channel and key, converts and forwards the request,
and charges the caller's wallet or subscription. This directory holds TLA+
specifications of the parts of it that keep shared state, the TLC runs that check
them on small instances, and proofs of their main properties for every value of
the constants.

The specifications are written from the Go code, definition by definition;
`PROJECT.json` names for every definition the file and the lines it stands for.

## 1. The system

### Components

| Component | Code | State it keeps | Operations | Modelled by |
|---|---|---|---|---|
| Billing session | `service/billing_session.go`, `funding_source.go`, `billing.go`, `violation_fee.go` | amounts pre-consumed, reserved, settled; the funding source | open (with fallback between wallet and subscription), Reserve, Settle, Refund, violation fee | `BillingSession`, `BillingLedger` |
| Quota of users and tokens | `model/quota_reserve.go`, `utils.go`, `token_cache.go`, parts of `user.go`, `token.go` | quota column, Redis hash, mutation fence, batch store | TryReserve, Increase, Decrease, hydrate, batch flush | `QuotaReserve` |
| Subscriptions: purchase and expiry | `model/subscription.go` | orders, subscriptions, the user's group and wallet | complete or expire an order, bind, buy from balance, invalidate, delete, expire due rows | `SubscriptionPurchase` |
| Authority cache of users | `model/user_auth_cache.go`, `user_cache.go`, parts of `user.go` | auth version, Redis hash, fence, floor | GetUserCache, security changes, profile edits, group refresh, delete | `UserAuthCache` |
| Subscription quota and reset | `model/subscription.go` 1238-1531, `service/subscription_reset_task.go` | used amount, reset times, idempotency records | pre-consume, settle, refund, reset by request, task and administrator, plan edits, cleanup | `SubscriptionQuota` |
| Asynchronous tasks | `service/task_polling.go`, `task_billing.go`, `model/task.go`, parts of `controller/relay.go`, `relay/relay_task.go` | task status, task quota, poll failures | submit, poll, time out, live query, settle, refund | `TaskSettlement` |
| System tasks | `model/system_task.go`, `service/system_task.go` | task rows, leases, active keys | create, claim, renew, finish, expire, hand over | `SystemTask`, `SystemTaskTurns` (hand-over left out) |
| Login sessions | `model/user_session.go`, `service/auth_session.go`, `controller/auth_session.go` | session rows, refresh hashes, cached snapshots, deny fences | log in, validate, rotate, revoke, advance, clean up | `UserSession` |
| Web client: authentication | `web/src/lib/auth-session.ts`, `auth-session-sync.ts`, `http-client.ts`, `stores/auth-store.ts`, `features/auth/api.ts`, `routes/__root.tsx` | the session in memory of each tab, the shared cookie, the refresh promise and its lock | bootstrap, refresh, log in, log out, follow other tabs | `AuthTabs` |
| Routing keys and channels | `model/routing_key*.go`, `channel*.go`, `upstream_channel.go`, `service/channel_select.go`, `middleware/distributor.go` | health windows, disabled keys, in-memory index | select, report, disable, recover, retry | planned |
| Money in | `model/topup.go`, `redemption.go`, `checkin.go` | orders, codes, daily check-ins | complete, redeem, check in | planned |
| Login flow | `model/auth_flow.go`, `twofa.go`, `passkey.go` | pending flows, failure counters, backup codes | start, verify, consume, lock | planned |
| Shared helpers | `pkg/cachex/hybrid_cache.go`, `middleware/*rate-limit.go`, `common/limiter`, `service/channel_affinity.go`, `pkg/jsplugin/registry.go` | caches, counters, generations | claim and release, allow, remember, reload | planned, low priority |
| Prices and usage | `service/text_quota.go`, `tiered_settle.go`, `pkg/billingexpr` | none | compute a price | inputs of the models (any quota from a set) |
| Conversion and adaptors, OAuth, options, logging, pages | `relay/`, `relaykit/`, `oauth/`, `model/option.go`, `logger/`, the rest of `web/`, `electron/` | none shared, or configuration | format, forward, display | not modelled |

### How they interact

`controller/relay.go` opens a billing session before it forwards a request and
settles or refunds it afterwards; a session charges a *funding source* (wallet or
subscription) and, beside it, the *token*. Wallet and token amounts go through
`quota_reserve.go` and the Increase/Decrease functions, which keep a database row
and a Redis hash (and optionally a batch store in memory) in step. A subscription
is charged by transactions on its own row. Payment callbacks, administrators and
users create subscriptions, which may move the user to another group; a task on
the master node expires them and moves the user back. Groups, status and role of
the user are read from a Redis hash on every request, guarded by an auth version.

The quota of a subscription is renewed at the boundaries of its plan's period, by
whichever of a request, the same task or an administrator comes first.

An asynchronous task is charged when it is submitted and charged again, or given
back, when a polling pass, a timeout sweep or a user's query learns how it ended;
the passes are system tasks, for which the master nodes compete by a lease. A
browser keeps its session in memory and a refresh secret in a cookie that all its
tabs share; the gateway keeps the session's row and, in Redis, a snapshot of it.

The models follow these seams. Each module takes its neighbours' operations as
single steps: `BillingSession` charges rows atomically, `QuotaReserve` opens those
steps up for one row; `SubscriptionPurchase` commits a new group, `UserAuthCache`
opens up how the new group reaches Redis; `AuthTabs` takes a request to the server
as one step, `UserSession` looks inside it; `TaskSettlement` lets passes overlap,
`SystemTask` says when they can.

### What is hard here

* Several requests of one user charge one row, between reads that decide whether
  they may; two gateways, or a gateway and a background task, share every row.
* Redis and the database are written one after the other, by goroutines that may
  run much later; the hash may expire, be deleted and be filled again in between.
* Every step can fail on its own, and the code answers with rollbacks, retries and
  compensations that can fail too. A process can die between two steps.
* Payment gateways repeat their callbacks; refunds are retried.
* Fences, hashes and leases have TTLs that race with the work they protect; a
  holder that stalls goes on with what it has read.
* Tabs of one browser act on one cookie, by requests whose answers may be slow,
  lost, or overtaken by an event from another tab.

Section "hazards" of `PROJECT.json` lists these at their lines, with the property
that would catch each one, or the reason why none does yet.

## 2. Modules

### BillingSession, BillingLedger

Requests of one user share one wallet, one token and one subscription. The
session's in-memory flags (`settled`, `refunded`, `fundingSettled`) are the
program counter of a request; its amounts (`preConsumedQuota`, `tokenConsumed`,
`extraReserved`, `consumed`) are variables. One action per database statement:

| Actions | Code |
|---|---|
| `Begin`, `CheckSubscription`, `CheckWallet`, `Fallback` | `NewBillingSession` with `tryWallet`, `trySubscription` and the four preferences |
| `PreConsumeToken`, `PreConsumeWallet`, `PreConsumeSubscription`, `RollbackToken` | `preConsume`, `WalletFunding`/`SubscriptionFunding.PreConsume` |
| `ReserveFunding`, `ReserveToken`, `ReserveRollback` | `Reserve` and `rollbackFundingReserve` |
| `SettleFunding`, `SettleToken` | `Settle` |
| `Fail`, `RefundWallet`, `RefundSubscription`, `RefundRecord`, `RefundExtra`, `RefundToken`, `RetryRefund` | `Refund` and its goroutine, `refundWithRetry`, `RefundSubscriptionPreConsume` |
| `ChargeFeeFunding`, `ChargeFeeToken`, `LoseFee` | `ChargeViolationFeeIfNeeded` |
| `ExpireSubscription` | the subscription ends while requests run |

`walletNet`, `subNet` and `tokenNet` record what each request has drawn and not
given back; no action reads them. `faults` counts failed writes and the crash a
request met.

`BillingLedger` says what a session promises: an account is held on while it is
open and closed once, at its price on source and token, or at nothing on both; a
failed write may leave it abandoned. `BillingSession` implements it under the
mapping at its end (`Ledger`).

### QuotaReserve

One row (a user's or a token's) with its hash. A caller reserves, increases or
decreases once. `TryCache`, `Hydrate`, `Populate`, `RetryCache`, `DBReserve`,
`Persist`, `Compensate` are the steps of `TryReserveUserQuota` and
`TryReserveTokenQuota`; `Launch`, `Write` and `ApplyAsync` those of the
Increase/Decrease functions, whose cache side is a goroutine; `TakeBatch` and
`WriteBatch` the two halves of `batchUpdate`. `Hydrate` may give up at a fence of
`UserAuthCache` (`ErrUserAuthCachePending`), which this module does not follow, so that
it may be up at any time. `Expire` covers TTL and
invalidation, `Crash` the loss of the process with its batch store. The variable
`deployment` fixes the kind of row and whether Redis and batch updates are on; a
run gives the set it is chosen from. `at` is the place of a caller, `async` that of
its goroutine; `lost` records what died with a process. The specification is
`QuotaSpec`.

### SubscriptionPurchase

One user, orders, plans, and up to `MaxSubs` subscription rows. Transactions hold
row locks on the order and the user (`orderLock`, `userLock`) and commit in one
step; between two locks others run. `CompleteOrder`, `Bind`, `LockUser`, `Create`,
`Rollback` are the three ways to a subscription; `AdminInvalidate` and
`AdminDelete` end one by hand; `ScanDue`, `ExpireRows`, `ExpireGroup`, `ExpireFails`
are `ExpireDueSubscriptions`, whose decision and user lock are two steps in the
code as well. Plain reads see committed data (READ COMMITTED). Under MySQL's default,
REPEATABLE READ, the first plain read of a transaction fixes what later ones see:
`PurchaseSubscriptionWithBalance` reads the plan before it locks the user when the plan
is not cached (`src/model/subscription.go:766`), and its count may then miss a purchase
committed while it waited. `src/model/email_binding.go:105` guards against this effect
elsewhere; `PurchaseLimitHolds` is shown for READ COMMITTED only.

### UserAuthCache

The row of one user (auth version, group, live or deleted) and its three Redis
keys: the hash, the pending *fence* with a TTL and the permanent *floor*. Readers
run `GetUserCache`; changers run a security change (fence, commit of the next
version, floor, hash); refreshers run a subscription's group transition with
`RefreshUserGroupCache`; editors write a profile at an unchanged version. Every
Redis script and SQL statement is a step; Redis errors, expirations, rollbacks
and crashes may come between. `exposed` marks the one situation the code does not
cover: a lost publication together with a read slower than the fence's TTL. That a
transaction and its publication take less time than that TTL is an assumption
(`FenceExpires`): the TTL is chosen to be longer than a hash lives, and nothing in the
code bounds a transaction by it.

### SubscriptionQuota

Subscriptions of one user with their used amount and reset times, the plans they
belong to and what the plan cache shows of them. `PreConsume`, `Refuse`, `Settle`
and `Refund` are the transactions of a request; `maybeResetUserSubscriptionWithPlanTx`
is the operators from `Base` to `BringUpToDate`, used by `PreConsume` and by the
task; `AdminReset` and `EditPlan` are the administrator's; `ExpireDue`, `ScanDue`,
`ResetRow`, `SkipRow` (a plan or row that cannot be read), `EndBatch` and `TaskFails`
are the loops of the maintenance task, with one transaction per row. `Boundaries` gives the times that repeated calls of
`calcNextResetTime` produce: daily, weekly and monthly periods fall on multiples
of a length, custom ones count from the last reset. A transaction reads the clock
before it has its locks, so its time may be `Delay` old. `drawn` and `crossed` are
history: what a request has drawn in the current period, and which rows were
settled or refunded across a reset. The idempotency record is followed while its
request is open; that it guards a second refund is the subject of `BillingSession`.

### UserSession

The rows of one user's sessions and their snapshots in Redis. A request is one of
seven operations and takes one step per statement or script; the clock may advance
between any two. `CacheHit` to `Confirm` are `GetUserSessionCached` with the rule
that an active snapshot is written for the rest of a window that began before the
row was read, and confirmed against the row when it comes too late. `RotateRead`
and `RotateCas` are `RotateUserSessionRefresh`; a refresh secret is its generation,
since `deriveNextRefreshSecret` makes the successor a function of the secret.
`RevokeRead`, `Fence`, `RevokeCommit`, `Tombstone` are the revocations, of one
session, of all but one, by a cookie, or after a replay; `AdvanceTx` a security
change; `Create` and `Renew` a login with its limits. A request that takes no
further step stalls or has died, so crashes need no action.

All nodes share one Redis, the first of the three deployments that
`docs/authentication.md` describes. With a Redis per node a tombstone reaches the node
that published it only, so `TombstoneIsFinal` is about that node's cache; without Redis
every validation reads the row.

Left out: the expiry of a session and the auth version, which `UserAuthCache`
covers. The second read by which the refresh handler writes its cookie is a
validation like any other. The row lock of a logout is not taken, which only adds
interleavings. `ended`, `tombed` and `doomed` are history.

### AuthTabs

The tabs of one profile (`TabSpec`). `session`, `valid` and `boot` are the auth
store of a tab, `stage` and `current` its `refreshPromise` and whether `authEpoch`
still is the one it began with; `locks` is the queue of the browser lock, which a
tab leaves by `Without`. `StartRefresh`, `TakeLock`, `HandleRefresh`,
`AnswerArrives`, `MismatchArrives` are a refresh from the tab through the server and
back; `Login`, `Logout` and their answers, `RecoverLogout` and `LogoutRecovered` the
forms; `EventArrives` the listener of `__root.tsx`. An event whose time stamp is a minute
away from the clock of the tab (it was frozen or asleep, or the clock was changed) does
not get there, `EventTooLate`; since time is not modelled, any event may be one.
`missed` records what a tab was signed in to when it discarded one. Answers may be lost
(`AnswerLost`, `FormLost`), a page may be reloaded with its request under way
(`Reload`, `HandleOrphan`), a session may be revoked elsewhere, and a 401 may come
for a request that outlived the session (`LateRefusal`).

The server answers the loser of a refresh race with the derived successor, so the
client's retries of `AUTH_REFRESH_RACE` do not occur. Browsers without
`navigator.locks`, `applyAuthRotation` and the session hint are left out.

### TaskSettlement

One task, from `Insert` to the last write of its charge, and the charges made for it:
`fund` (wallet or subscription), `tok` and `used`. With `BatchUpdateEnabled` a wallet, a
token and the usage are moved in the memory of a process first: `queues` says which of
the three books go that way in this deployment, `queued` what a process holds of them
(`Enqueue`), `Flush` writes it, and a failed flush or a crash (`Crash`, `RelayCrash`)
drops it and is recorded in `lost`. A move that is queued never fails; one that is
written at once may (`Settle`, `Log`, `AdjustFunding`, `AdjustUsed`). `Flush` is one step:
batch stores of several users or their order on disk do not matter to one task. Pollers read a copy of the
row, ask the upstream, and write the copy back under the status they read
(`UpdateWithStatus`); the winner of a terminal write bills in the steps
`AdjustFunding`, `AdjustToken`, `AdjustUsed`, `UpdateQuota`, in the order of a
refund or of a recalculation. `Sweep` is the timeout, `BulkFail` the failure of all
tasks of a deleted channel, `Fetch` and `Fetched` a live query, which writes (news of
the progress alone too) but never bills. `silent` marks a task finished by a path that moves no money,
`rewritten` one whose final status a live query wrote over (section 5, item 5).

### SystemTask, SystemTaskTurns

The tasks of one type, the row of their lease, and the runners. A pass first
expires (`ListStale`, `MarkStale`, `DeleteStale`), then claims (`Pick`,
`CreateLock`, `TakeOver`, `FailOld`, `Start`, `Undo`), one statement per step; a
statement compares the lease with a clock value up to `MaxDelay` ticks old. A
handler renews its lease or not, and ends by `Finish` and `Release` or finds the
lease lost (`Abandon`). `botched` marks a claim that broke off between moving the
lease and starting its task. Runners keep their names over a crash; a process that
returns under another name does strictly less, as nothing names it.

`SystemTaskTurns` is the promise: a key has one active task, a task starts once and
ends once, and a result is recorded only in turn. `SystemTask` implements it with
`turn` the task whose lease and row name the same process. The hand-over of a lease
to the update helper (`TransferSystemTaskLock`) is left out: it multiplies the states
beyond what a run can cover.

### Sums and the MC modules

`Sums` proves what the books of several modules need to know of `SumFunction`, and that
a set of naturals has a least element, which two proofs need. The MC modules give the
finite instances; `MCBillingSession` also states properties that only TLC looks at.

## 3. What TLC checks

States are those of one run with two workers.

| Run | Instance and bounds | Shows |
|---|---|---|
| `billing_contention` | 2 symmetric requests, 4 preferences, amounts 1-2, wallet 2, token 3, subscription 2, 1 fault each | exact settlement (`SettledFundingExact`), no charge for failures (`FailedRequestFree`), no over-refund (`NeverOverRefunded`), subscription within its total, wallet debt only from what is drawn afterwards (`DebtIsPostpaid`), the subscription row is the sum of its requests (`SubscriptionBooksBalance`) |
| `billing_trust` | a playground request and one that may be trusted, unlimited token, wallet 3 against a trust threshold of 1, amounts 0 and 2; 1,095,255 states | `ImplementsLedger`; `RequestsEnd` under fairness |
| `billing_refund_retry` | violation | the finding of section 5 |
| `quota_operations` | 3 callers, amounts 1-2, quota 2; user and token row, with and without Redis and batch, hash warm or cold, 1 expiry, 1 Redis error, 1 fault; 2,075,263 states | `BooksBalance`: each success moved the row once; `SteadyReservesFit`: a warm hash admits no more than the quota; `QuietCacheAgrees` |
| `purchase_contention` | 3 callers, 1 order, 2 plans (limit 2; named downgrade), wallet 2, 3 rows, 1 tick, 1 fault; 1,116,156 states | `OneSubscriptionPerOrder`, `PurchaseLimitHolds`, `WalletPaysForPurchases`, `UpgradeSurvivesRequests` |
| `auth_fence` | 2 readers, 2 changers, 1 editor, versions to 3, 1 expiry, 1 Redis error, 1 fault; 2,547,123 states | `NoStaleAuthority` |
| `auth_group` | 1 reader, 1 changer, 2 transitions; 665,494 states | `GroupRefreshConverges`; `FenceClears` under fairness |
| `subscription_resets` | 2 requests, amounts 1-2, 2 subscriptions (custom period 2, calendar period 3; totals 2 and 3), clock to 4, delay 1, batch of 1, and one plan edit, manual reset, skipped row or failed pass; 411,850 states | `BoundaryAhead`, `PeriodUsageExact`, `BoundaryUsedOnce`; `DueGetsReset` under fairness |
| `user_sessions` | 3 requests, 2 at a time, of any operation, 2 SIDs, snapshots that live 1 tick, a clock to 2, versions and rotations to 2, 1 Redis error; 2,979,358 states | `GrantWithinWindow`: nobody is granted a session that ended longer ago than a snapshot may live; `TombstoneIsFinal`; `GenerationNeverRegresses` |
| `auth_tabs` | 2 tabs, 2 sessions, 1 incident, any event late; 4.06 million states | `ReuseNeedsLoss`: the server sees a spent secret only after a lost answer; `QuietTabsAgree`: no tab acts for another session than the cookie's once everything is quiet, lost answers or not, but for a tab that has discarded a late event; `SignedOutStaysOut` |
| `task_settlement` | 2 pollers, 1 live query at a time, charge 2 with 0 or 1 reserved beyond it, final charges 1 and 3, 2 poll failures, 1 fault, no batch stores, or stores with and without the funding; 3.49 million states | `NeverRefundedTwice`, `BooksFollowRow`, `FailedTaskFree`; `UnrefundedStaysVisible`: what could not be refunded is still in the row, unless a batch store lost it |
| `system_tasks` | 2 tasks of one key or two, 2 runners, lease 1 tick, clocks up to 1 tick old, 1 fault; 435,276 states | `RunningIsCovered`: a running task can be found through a lease; `ImplementsTurns`; `TasksEnd` under fairness |

The runs of `QuotaReserve`, `UserSession`, `AuthTabs`, `TaskSettlement` and `SystemTask`
check their types as well (`TypeOK`, `QuotaTypeOK`, `TabTypeOK`). For the other modules it is proved and no run repeats it
(section 4). The same goes for `SettledTokenExact`, `ClosedAccountsStay`,
`FloorFollowsRow` and `UsedWithinTotal`.

**Why the bounds are enough.** Two requests suffice for every race on a row, as a
step of one can only meet the other's between two of its own; amounts 1 and 2
against a quota of 2 or 3 give "both fit", "one fits" and "neither fits". One
fault per request places a failure at every step and lets a refund be retried
once; that it is tried three times at most is proved (`Typing`), not run. Three
callers of `QuotaReserve` let one expire or fill the hash between the two that
conflict. Three subscription rows allow one of each plan and a renewal. Version 3
is two committed security changes, so that a fill may be two versions late. A
batch of one makes every batch full, so that the task's loop goes round; times to
4 hold a boundary of each plan, one at the end of a lifetime, and one skipped.

A session race has an actor that ends a session, one that publishes an old
snapshot, and one that is granted by it; two are under way at a time and the third
comes after them. With a grace of 0 and a snapshot of 1 tick, a clock to 2 holds a
time inside and one after each window. Two tabs show every crossing of a cookie;
the one incident is any of a lost answer, a reload, an expired token, a revocation
and a late 401. Two passes and a live query are the most that meet on one copy of a
task; final charges of 1 and 3 against 2 give a part back, and take more. Two tasks
and two runners give a takeover from another task and a restart of the same one.
`task_settlement` does not follow states in which a live query has written over a
finished task or a batch store has lost money of the task (`Undisturbed`), since every
property but the types excludes them.

A session is trusted in `billing_trust` only; requests that must never be
(`ForcePreConsume`, the constant `AsyncTasks`) are in no run and covered by
the theorems, which hold for any set of them.

**Fairness.** `RequestsEnd` assumes that a request that can take its next step
does (`WF` of each request and of its fee): request goroutines and the refund
pool are scheduled by the Go runtime and every database call returns, with an
error if need be. A crash ends a request. `FenceClears` assumes that a transaction
that has begun ends and that Redis honours a TTL. Nothing is assumed of readers,
or of new changes. `DueGetsReset` assumes that the ticker of the maintenance task
goes on and that a cached plan is reloaded some time (its TTL). `TasksEnd` assumes
of each runner that its ticker goes on and its statements return (`WF` of a pass)
and that a handler returns some time (`WF` of finishing, its requests have
deadlines), and that time passes (`SF` of `Tick`, which a pass between its clock
reading and its statement holds back for a moment). No heartbeat is assumed. The
assumption `MaxDelay <= TTL` says that a statement is not delayed for longer than a
lease lives.

**Mutants.** For every property `PROJECT.json` names a small change to a
definition (a missing lock, clamp, re-read or guard), defined beside it in the
module, under which TLC refutes the property.

## 4. What is proved

TLAPS checks these for all constants that satisfy the modules' assumptions: any
number of requests, callers, tabs, orders, plans and rows, any amounts and any bound on
faults. The assumptions say that amounts, bounds and times are natural numbers, that
names do not collide, that the requests or callers of a module with books are finitely many,
and, in `SystemTask`, that `MaxDelay <= TTL` (section 3).

Every temporal theorem follows the same pattern: an inductive invariant `IInv`, a
lemma that it holds initially, lemmas per action or per part that it is kept, and the
property as a consequence. `IInv` is needed because the properties speak of finished requests,
granted sessions or settled tasks only, and say nothing of a state half way.

**BillingSession_proofs.** `IInv == TypeOK /\ Accounts /\ SubscriptionWithinTotal`.
None of the listed properties is inductive, since they speak of finished requests
only. `Accounts` states, for every place a request can be, how what it has drawn
(`walletNet`, `subNet`, `tokenNet`) relates to the session's own fields, with
cases for the half-done steps of Reserve, Settle and Refund. A step changes one
request (`StepKinds`), so each action is proved once for its request and framed
for the others. From `IInv`: `Typing`, `SettlementIsExact`,
`TokenSettlementIsExact`, `FailureIsFree`, `RefundsAreBounded`,
`SubscriptionIsBounded`; `ClosedAccountsAreFinal` (an action property) and the
refinement `SessionsImplementLedger`.

The books of the shared rows, `WalletDebtIsPostpaid` and `SubscriptionBalances`, are
proved on top of `IInv`. `Books` adds to the two properties three facts of a single
request (`Booked`): no fee before the request has failed, a wallet reservation never
below what was checked, no negative draw of an unsettled request. A step moves the
entry of one request and the row together (`Money`); by `SumChange` the sum moves as
the row does, and by `SumNat` a row that is the sum of what its requests hold cannot
be pushed below zero by one of them, so the clamp at zero changes nothing. `Booked` was
checked with TLC on both billing instances before it was proved.

**Sums.** `SumFunction` of the community modules is a recursive choice over subsets.
The module shows that the recursion has exactly one solution on a finite set
(`SumsUpUnique`, `SumsUpExists`) and that the entry taken out first does not matter
(`SumOverRemove`); from it `SumType`, `SumChange`, `SumMonotone`, `SumOfZeros` and
`SumNat`. Induction over the set is by a minimal counterexample (`SubsetInduction`):
strict inclusion is well founded on the subsets of a finite set, so that no induction
theorem with an operator parameter is needed.

**SubscriptionPurchase_proofs.** `IInv` adds to the types and the two properties
what the locks protect: whoever is past a lock still owns it (`LocksHeld`), so
limit, balance and order status are still what they were when checked
(`ChecksStillHold`), and ids are handed out in order (`RowsInOrder`). From it:
`PurchaseTyping`, `CompletionIsIdempotent`, `LimitIsKept`. `RequestsKeepUpgrades`
proves `UpgradeSurvivesRequests` for plans that do not upgrade to the base group.
`WalletBalances`: a commit moves the wallet by the price of the one row it creates,
everything else moves neither.

**UserAuthCache_proofs.** `IInv` relates the three Redis keys to the row: a
change that is about to commit has its fence up (`FencedCommit`), snapshots in
flight were committed (`SnapshotsCommitted`), a fence is never older than the row
it protects (`FenceIsNewer`), and either fence or floor covers the committed
version, or nothing older is left anywhere (`Shielded`); hence what a reader has
accepted is fresh (`ReadsFresh`). From it: `AuthTyping`, `NoStaleAuthorityServed`,
`FloorNeverLeads`.

`TransitionsConverge` adds `Converging`: while there are only reads and transitions,
nobody replaces the hash, and when it shows an old group some refresh is about to
correct it (`Corrects`: it has yet to read the row, will write the committed group, or
will find on reading again that what it wrote is old) or has used up its writes. Each
step that makes the hash wrong leaves such a refresh behind.

**Quota_proofs, SubscriptionQuota.** `IInv` is the types, `UsedWithinTotal`, `BoundaryAhead`
and `OpenDraws` (an open request has drawn what it asked for, or its row was reset
since). The heart is `UpToDate`: what `maybeResetUserSubscriptionWithPlanTx` leaves in
a row, from the facts that a least later boundary and a latest passed one exist
(`NextResetFacts`, `LatestFacts`, by well-foundedness of the naturals). From it:
`QuotaTyping`, `TotalIsKept`, `BoundariesLieAhead`, and the action property
`BoundariesCountOnce`, for clocks of any age. `PeriodsAreExact` is proved on top of
it, with `IdleDrewNothing`: a charge, settlement or refund moves one draw and the row
together, and a reset empties the row and all draws on it.

**Quota_proofs, QuotaReserve.** `ReserveInv` is the types and the three properties, with
what they need of a state half way. `CallersPlaced` says what a caller can be doing at
each place. `BooksBalance` (row, batch store, taken batch and what was lost add up to
the effects of the operations) is inductive with it: a step moves the entry of one
caller and one of these by the same amount, and `SumChange` does the rest.
`SteadyReservesFit` speaks of reservations that succeeded; it needs `HashCovers`, which
counts those that have only passed the hash as well (`Holds`) and the credits that have
reached it (`Arrived`): the script compares and subtracts in one step, so the sum is
kept, and by `SumMonotone` the successful ones are no more. Without a hash the row
takes its place (`RowCovers`): the inequality is stated for the row with and without the
deltas in the batch store and the taken batch, since a crash may lose either.
`QuietCacheAgrees` follows from `HashBooks` (a hash that is always reached shows the
start and what each operation has done to it) and `BooksBalance`: in a quiet state the
two sums are the same function. `Steady`, `HashStays`, `NoHash` and `NothingLost` say
when these apply. From it: `QuotaRowTyping`, `QuotaBooksBalance`, `ReservationsFit`,
`QuietHashAgrees`. Every part was checked with TLC before it was proved.

**Sessions_proofs, UserSession.** `SessionOK` says of a session that the versions it may still
have are not over, that an active snapshot ends within `TTL` of the time at which its
version was last active, and that no active snapshot replaces a tombstone.
`TrustOK` says of a request that what it is about to publish was active when its
window began (`SeenInTime`), and that its window ends no later than a tombstone that
has come between: so the snapshot is refused as long as the tombstone is there and too
late once it has expired. A request that came after a tombstone (`doomed`) never
reaches a place from which it is granted. From this: `Typing` and the action
properties `WindowBoundsGrants`, `TombstoneLasts`, `SecretsMoveForward`.

**Sessions_proofs, AuthTabs.** `TabInv` has a part for each property and two they share.
`TabShape` is the types, the form of every answer under way (`Answered`, `FormOK`), and
`LockOK`: the lock is a queue without repetition of the tabs that have a promise, and
only its head has sent; so one refresh at most is on the wire (`OneOnWire`).
`SidsKnown` and `OffersPrivate` say that what the client has seen of a session (`Bears`)
exists, and that a session whose login is still under way (`Offers`) is unrefreshed and
known to nobody else. The *moves* lemmas (`WireMoves`, `CookieMoves`, `FormMoves`,
`RowMoves`, ...) reduce the eighteen disjuncts of `TabStep` to the few things that can
happen to one variable, and the properties are proved from those.

* `NoReuseWithoutLoss`: `SecretsFresh` says that, unless an answer of its session was
  lost, the cookie is the current secret or the answer with the current one is on its
  way, and a request carries the current secret. Sending is where the lock matters: no
  answer with a newer secret can be under way then.
* `SignedOutForGood`: `LeftEnded` says that what a tab has left is ended, and that no
  answer it will still listen to brings it back; a sign-out moves the epoch in the same
  step, and the server gives an answer only to a live session. A login brings a session
  the tab cannot have left (`OffersPrivate`).
* `TabsAgree`: `Uncrossed` says that, until a form meets a refresh, a refresh on the
  wire is of the current cookie and a form is alone. Then a new SID comes by a login
  only, and a tab with another session has the announcement before it (`TabsFollow`), or
  had that session when it discarded an announcement that came too late (`missed`).
  Lost answers make no difference, and the property does not exclude them.
* `TabTyping`.

**TaskSettlement_proofs.** While no live query has written over a finished task,
`OneBiller` holds: `UpdateWithStatus` has one winner. `Begun` and `Exact` say for every
stage of its billing what has moved already, without faults and with them; `Untouched`,
`Rested` and `Balanced` say it for an open task and for one that nobody bills. From
this: `Typing`, `RefundedOnce`, `BooksAgree`, `FailureCostsNothing`,
`HeldChargeVisible`. `RefundedOnce` and `HeldChargeVisible` cover crashes and failed
writes at any stage, in every deployment, as long as no batch store has lost a part of
the funding: a lost charge makes a refund too large, and a lost refund is the
counterexample 7 of section 5. Without batch updates, and for a subscription, no funding
is ever lost (`lost` is a subset of `queues`, part of the types), and the two theorems
have no exception.

**SystemTask_proofs.** `Covered` (a running task has its lease or is about to be failed)
needs two facts of every pass: the lease it would delete or take over is not that of a
running task of its own (`LapsedIsNotRunning`: a task starts under a lease that is valid
by every clock, which is where `MaxDelay <= TTL` enters), and whoever holds the lease
and is about to start a task is the first to (`StartsOnce`). From this: `Typing`,
`RunningCovered`, and the refinement `LeasesImplementTurns`, one lemma per statement
(`...Turns`), of `SystemTaskTurns`.

**Only model-checked.** Liveness (`RequestsEnd`, `FenceClears`, `DueGetsReset`,
`TasksEnd`), which TLAPS does not do under fairness. Every invariant, action property
and refinement that a passing run checks is also proved.

## 5. Where code and comments disagree

**Finding** (`billing_refund_retry`): a subscription refund commits its amount in a
transaction of its own before the record is marked refunded; when the mark fails,
the retry returns the amount again.

**Known counterexamples.** The first four and the last have a configuration that TLC refutes; they
are kept to be run by hand (`tlc -config X.cfg MCModule`), beside the runs that show
what does hold. The fifth and sixth are excluded from a run's properties by a history
variable; without it TLC finds them.

1. `QuotaColdRefund.cfg` (`MCQuotaReserve`; `NoOverReserve` of `QuotaReserve`): a refund's goroutine
   adds to a hash that was filled from the row the refund is already in; later
   reservations pass on quota that does not exist.
2. `PurchaseRenewalRace.cfg` (`MCSubscriptionPurchase`, `ActiveUpgradeKeepsGroup`):
   the expiry task decides before it locks the user; a renewal in between is
   downgraded.
3. `PurchaseOverlap.cfg` (`MCSubscriptionPurchase`, `ExpiryRevertsGroup`): of two
   overlapping subscriptions the later has no previous group, and when both are over
   it is the one consulted: the user stays upgraded.
4. `SubscriptionResetStuck.cfg` (`MCSubscriptionQuota`, `DueGetsReset`): a plan
   changed to never reset (or to a longer period) leaves rows that stay due; each
   pass counts them as reset, and a full batch of them keeps the maintenance loop
   running on the same rows for ever. No later row is reset, expired or cleaned up
   by the task.
5. `TaskSettlement`, flag `rewritten`: a live query (`src/relay/relay_task.go:559`)
   may read a failed, refunded task, learn of progress from the upstream, and write
   the open status back; the task is then polled and refunded again.
   `docs/architecture/tasks-and-plugins.md` says that reads use the persisted
   snapshot.
6. `SystemTask`, flag `botched`: a claim moves the lease to its own task and fails
   the old task in a second statement, although the comment at
   `src/model/system_task.go:364` describes the other order. A crash or an error in
   between leaves a running task that no lease row names; nothing finds it again
   and its active key stays taken.
7. `TaskRefundLost.cfg` (`MCTaskSettlement`, `RefundSurvives`): the comment on
   `RefundTaskQuota` (`src/service/task_billing.go:213`) says "返回资金来源是否已成功退还；失败时保留
   quota，供显式重试或人工对账", and that the mark is cleared after the refund (line 249). With
   `BatchUpdateEnabled`, on in `src/docker-compose.yml:49`, `IncreaseUserQuota` only queues
   the refund of a wallet (`src/model/user.go:1348`) and reports success; quota 0 is
   committed, and a crash or a failed flush then loses the refund without a trace in the
   row. TLC needs eleven states.

**Limits of what is shown.** `GroupRefreshConverges` speaks of a hash that was there
from the start. A reader that found none may read the row, be overtaken by a transition
and its whole refresh, which finds no hash either, and then fill in the old group
(`src/model/user_cache.go:88`); it stays until the hash expires or the next refresh. The
exception for a fourth write is needed as well: with five overlapping transitions TLC
finds a refresh whose last write is late, and the code returns an error there. The
property also excludes profile edits: an edit (`src/model/user.go:809`) writes its whole snapshot, group included,
at an unchanged auth version, over a group that may have been refreshed since; a
security change that read the row before the group changed does the same under its
new version. `MarkSystemTaskLeaseExpired` does not look at the lease again, so a
task renewed just before is failed with a live lease; its handler then records
nothing, and the lease blocks the type until it lapses. `QuietTabsAgree` excludes a
login or logout that crosses a refresh on the wire, which the lock does not cover, and
a tab that stays with the session it had when it discarded an event for coming too late
(`src/web/src/lib/auth-session-sync.ts:89`): it finds out by the answer to its next
request or refresh. `NeverRefundedTwice` and `UnrefundedStaysVisible` exclude a task of
whose funding a batch store has lost a part (counterexample 7).

**Hazards no property covers.** Beside those noted in `PROJECT.json`:

* `src/model/subscription.go:789`: a balance purchase checks the quota column while
  reservations of the user are only in Redis (a composition, section 6);
* `src/model/subscription.go:502`: a paid order refused by the purchase limit stays
  pending, and every callback meets the same refusal;
* `src/model/user_cache.go:88`: a read slower than the fence's TTL can publish a
  revoked authority (`exposed` in `UserAuthCache`);
* `src/model/user.go:809`: see above;
* `src/model/token.go:315`: a token edit writes `remain_quota` absolutely while
  reservations are in flight;
* `src/service/quota.go:231`: a realtime session charges every turn and settles the
  sum at the close;
* `src/model/user_session.go:857`: a sign-out with an expired access token and a
  spent secret in its cookie answers success and revokes nothing; nothing in the
  repository promises more, and `SignedOutStaysOut` speaks of ended sessions only;
* `src/web/src/lib/auth-session.ts:280`: the refresh request has no timeout; while it
  hangs, every tab of the profile waits behind its lock;
* `src/web/src/lib/http-client.ts:104`: a request refused with 401 is repeated under
  whatever session the refresh adopted (`AuthTabs` follows no owner of a request);
* `src/service/task_polling.go:437` and `src/controller/relay.go:762`: tasks of a
  deleted channel, and tasks an adaptor answers with a failure at once, are failed
  without a refund; `FailedTaskFree` excludes them by `silent`;
* `src/model/task.go:367`: a task with progress 100% and an open status is read by no
  poll (`TaskSettlement` leaves the progress out).

## 6. Plan

Next, in this order:

1. `RoutingKey`: health windows, disabling and recovery, selection and retry.
2. `TopUp`: orders, redemption codes, check-ins: money is credited once.
3. `AuthFlow`: single-use flows, failure counters, backup codes.
4. Compositions: wallet purchases beside Redis reservations (`QuotaReserve` with
   `SubscriptionPurchase`); an administrator's edit of the group beside an expiry;
   `AuthTabs` with the server of `UserSession`.
5. `RealtimeBilling`: charges per turn and the settlement at the close.
6. Claims of the hybrid cache, rate limiters, affinity, plugin generations.

**Not modelled.** Conversion, adaptors, price arithmetic, OAuth protocols, options and
self-update are formatting, pure data or external I/O; the hand-over of a lease to
the update helper is left out for its size. Of the web client only authentication
is modelled. Its other files, by far most of the TypeScript in the repository, are
pages, tables, dialogs and forms: what a page holds is what its user has typed, it
sends one request and shows one answer, and the state that several actors share is
in the Go server, where the models are. The share of the TypeScript that the map
names is therefore small and will stay so.
