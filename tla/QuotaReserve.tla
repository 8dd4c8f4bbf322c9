----------------------------- MODULE QuotaReserve -----------------------------
(***************************************************************************)
(* The quota of one row (a user's wallet or a token) behind its Redis hash *)
(* and the batch updater: model/quota_reserve.go, the Increase/Decrease    *)
(* functions of model/user.go and model/token.go, model/utils.go.          *)
(*                                                                         *)
(* Each caller performs one operation.  The database row, the hash and the *)
(* batch store are changed by single statements, scripts or under a lock;  *)
(* everything between two of them is an interleaving point, and the cache  *)
(* side of Increase/Decrease is a goroutine of its own.                    *)
(***************************************************************************)
EXTENDS Integers, FiniteSets, Functions

CONSTANTS
    Callers,       \* concurrent operations
    Operations,    \* which of "reserve", "increase", "decrease" they may be
    QuotaAmounts,       \* amounts of quota
    Deployments,   \* what the operations may meet: see Deployment
    InitQuota,     \* the row before the first operation
    MaxQuota,      \* common.MaxWalletQuota
    MaxExpiries,   \* bound on expirations of the hash
    MaxRedis,      \* bound on Redis errors
    MaxFaults      \* bound on database errors and process crashes

\* The kind of row, common.RedisEnabled, common.BatchUpdateEnabled, and whether
\* the hash exists when the first operation begins.
Deployment == [row : {"user", "token"}, redis : BOOLEAN, batch : BOOLEAN, warm : BOOLEAN]

ASSUME CallerAssumption  == IsFiniteSet(Callers)
ASSUME RowAssumption     == InitQuota \in Nat /\ MaxQuota \in Nat
ASSUME ChoiceAssumption  == Operations \subseteq {"reserve", "increase", "decrease"} /\ QuotaAmounts \subseteq Nat \ {0}
ASSUME SwitchAssumption  == Deployments \subseteq Deployment
ASSUME FaultAssumption   == MaxExpiries \in Nat /\ MaxRedis \in Nat /\ MaxFaults \in Nat

VARIABLES
    deployment,  \* one of Deployments, for good
    db,        \* quota / remain_quota of the row
    warm,      \* the Redis hash of the row exists ...
    cache,     \* ... with this quota
    fence,     \* token:fence:<key> exists: no snapshot may be published
    queue,     \* batchUpdateStores entry of the row
    taken,     \* the entry batchUpdate has swapped out and not yet written
    at, op, amount,
    seen,      \* the row as a hydrating caller read it
    async,     \* the goroutine that brings an operation to the hash
    expiries, redisErrors, faults,
    lost       \* deltas that a failed flush or a crash dropped

quotaVars   == <<db, queue, taken, lost>>
cacheVars == <<warm, cache, fence>>
callVars  == <<at, op, amount, seen, async>>
budget    == <<expiries, redisErrors, faults>>
reserveVars      == <<deployment, quotaVars, cacheVars, callVars, budget>>

Row          == deployment.row
RedisEnabled == deployment.redis
Batch        == deployment.batch

QuotaInit ==
    /\ deployment \in Deployments
    /\ db = InitQuota
    /\ warm = (RedisEnabled /\ deployment.warm)
    /\ cache = IF RedisEnabled /\ deployment.warm THEN InitQuota ELSE 0
    /\ fence = FALSE
    /\ queue = 0 /\ taken = 0 /\ lost = 0
    /\ at = [c \in Callers |-> "idle"]
    /\ op = [c \in Callers |-> "reserve"]
    /\ amount = [c \in Callers |-> 0]
    /\ seen = [c \in Callers |-> 0]
    /\ async = [c \in Callers |-> "none"]
    /\ expiries = 0 /\ redisErrors = 0 /\ faults = 0

-----------------------------------------------------------------------------
Go(c, label) == at' = [at EXCEPT ![c] = label]

Delta(c) == IF op[c] = "increase" THEN amount[c] ELSE -amount[c]

RedisError ==
    /\ redisErrors < MaxRedis
    /\ redisErrors' = redisErrors + 1
    /\ UNCHANGED <<cacheVars, expiries, faults>>

DBError ==
    /\ faults < MaxFaults
    /\ faults' = faults + 1
    /\ UNCHANGED <<quotaVars, expiries, redisErrors>>

\* Mutant: a plain HINCRBY, which creates a hash with nothing but a quota.
AddToCacheUnguarded(n) == cache' = cache + n /\ UNCHANGED <<warm, fence>>

\* userQuotaDeltaScript / tokenQuotaDeltaScript: an absent hash is left absent.
AddToCache(n) ==
    /\ cache' = IF warm THEN cache + n ELSE cache
    /\ UNCHANGED <<warm, fence>>

\* addNewRecord, or the update of the row itself.
AddToRow(n) ==
    /\ queue' = IF Batch THEN queue + n ELSE queue
    /\ db' = IF Batch THEN db ELSE db + n
    /\ UNCHANGED <<taken, lost>>

-----------------------------------------------------------------------------
(* TryReserveUserQuota / TryReserveTokenQuota.                              *)

\* Mutant: the script asks for a positive balance, not for a sufficient one.
HashAdmitsAny(c) == cache > 0

HashAdmits(c) == cache >= amount[c]

\* The reserve scripts.
CacheReserve(c, onMiss) ==
    /\ \/ /\ warm /\ HashAdmits(c)
          /\ cache' = cache - amount[c]
          /\ Go(c, "persist") /\ UNCHANGED <<warm, fence, budget>>
       \/ warm /\ ~HashAdmits(c) /\ Go(c, "refused") /\ UNCHANGED <<cacheVars, budget>>
       \/ ~warm /\ Go(c, onMiss) /\ UNCHANGED <<cacheVars, budget>>
       \/ RedisError /\ Go(c, "dbReserve")
    /\ UNCHANGED <<quotaVars, op, amount, seen, async>>

TryCache(c) == at[c] = "try" /\ CacheReserve(c, "hydrate")

\* GetUserCache / GetTokenByKey on a cold hash: read the row (GetUserCache first
\* looks whether another caller has filled the hash meanwhile, and gives up with
\* ErrUserAuthCachePending at a fence of UserAuthCache, which may be up at any time) ...
Hydrate(c) ==
    /\ at[c] = "hydrate"
    /\ \/ Row = "user" /\ warm /\ Go(c, "retry") /\ UNCHANGED <<quotaVars, budget, seen>>
       \/ seen' = [seen EXCEPT ![c] = db] /\ Go(c, "populate") /\ UNCHANGED <<quotaVars, budget>>
       \/ Row = "user" /\ Go(c, "dbReserve") /\ UNCHANGED <<quotaVars, budget, seen>>
       \/ DBError /\ Go(c, "dbReserve") /\ UNCHANGED seen
    /\ UNCHANGED <<cacheVars, op, amount, async>>

\* writeUserCache / cacheInitToken: the quota of a live hash is never overwritten,
\* and nothing is published behind a fence.
Publish(n) ==
    /\ warm' = (warm \/ ~fence)
    /\ cache' = IF warm \/ fence THEN cache ELSE n
    /\ UNCHANGED fence

\* ... and publish the snapshot; an error of Redis is only logged.
Populate(c) ==
    /\ at[c] = "populate"
    /\ \/ Publish(seen[c]) /\ UNCHANGED budget
       \/ RedisError
    /\ Go(c, "retry")
    /\ UNCHANGED <<quotaVars, op, amount, seen, async>>

RetryCache(c) == at[c] = "retry" /\ CacheReserve(c, "dbReserve")

\* WHERE quota >= ?
RowAdmits(c) == db >= amount[c]

\* reserveUserQuotaDB / reserveTokenQuotaDB: check and decrement in one statement.
DBReserve(c) ==
    /\ at[c] = "dbReserve"
    /\ \/ /\ RowAdmits(c)
          /\ db' = db - amount[c]
          /\ Go(c, "done") /\ UNCHANGED <<queue, taken, lost, budget>>
       \/ ~RowAdmits(c) /\ Go(c, "refused") /\ UNCHANGED <<quotaVars, budget>>
       \/ DBError /\ Go(c, "failed")
    /\ UNCHANGED <<cacheVars, op, amount, seen, async>>

\* Mutant: a failed write is reported as a reservation.
PersistUnchecked(c) ==
    /\ at[c] = "persist"
    /\ Go(c, "done")
    /\ \/ AddToRow(-amount[c]) /\ UNCHANGED budget
       \/ ~Batch /\ DBError
    /\ UNCHANGED <<cacheVars, op, amount, seen, async>>

\* persistUserQuotaDelta / persistTokenQuotaDelta.
Persist(c) ==
    /\ at[c] = "persist"
    /\ \/ AddToRow(-amount[c]) /\ Go(c, "done") /\ UNCHANGED budget
       \/ ~Batch /\ DBError /\ Go(c, "compensate")
    /\ UNCHANGED <<cacheVars, op, amount, seen, async>>

\* The reserved quota goes back to the hash; a failure is only logged.
Compensate(c) ==
    /\ at[c] = "compensate"
    /\ \/ AddToCache(amount[c]) /\ UNCHANGED budget
       \/ RedisError
    /\ Go(c, "failed")
    /\ UNCHANGED <<quotaVars, op, amount, seen, async>>

-----------------------------------------------------------------------------
(* Increase/DecreaseUserQuota, Increase/DecreaseTokenQuota.                 *)

\* IncreaseUserQuota alone starts the cache goroutine after the row is written.
LaunchesFirst(c) == Row = "token" \/ op[c] = "decrease"

\* Mutant: a refund is written to the row and never brought to the hash.
CachedNeverIncrease(c) == op[c] = "decrease"

\* The operations whose delta is brought to the hash: all of them.
Cached(c) == op[c] \in {"increase", "decrease"}

Launch(c) ==
    /\ at[c] = "launch"
    /\ async' = [async EXCEPT ![c] = IF RedisEnabled /\ Cached(c) THEN "launched" ELSE "none"]
    /\ Go(c, "write")
    /\ UNCHANGED <<quotaVars, cacheVars, op, amount, seen, budget>>

\* increaseUserQuota refuses to pass the wallet limit.
FitsWallet(c) == Batch \/ Row = "token" \/ op[c] = "decrease" \/ db + amount[c] <= MaxQuota

Write(c) ==
    /\ at[c] = "write"
    /\ \/ /\ FitsWallet(c) /\ AddToRow(Delta(c)) /\ Go(c, "done") /\ UNCHANGED budget
          /\ async' = IF RedisEnabled /\ Cached(c) /\ ~LaunchesFirst(c) THEN [async EXCEPT ![c] = "launched"] ELSE async
       \/ ~FitsWallet(c) /\ Go(c, "failed") /\ UNCHANGED <<quotaVars, budget, async>>
       \/ ~Batch /\ DBError /\ Go(c, "failed") /\ UNCHANGED async
    /\ UNCHANGED <<cacheVars, op, amount, seen>>

\* The goroutine brings the delta to the hash.
ApplyAsync(c) ==
    /\ async[c] = "launched"
    /\ async' = [async EXCEPT ![c] = "gone"]
    /\ \/ AddToCache(Delta(c)) /\ UNCHANGED budget
       \/ RedisError
    /\ UNCHANGED <<quotaVars, at, op, amount, seen>>

-----------------------------------------------------------------------------
First(o) ==
    IF o = "reserve" THEN IF RedisEnabled THEN "try" ELSE "dbReserve"
    ELSE IF Row = "token" \/ o = "decrease" THEN "launch" ELSE "write"

Begin(c, o, n) ==
    /\ at[c] = "idle"
    /\ Go(c, First(o))
    /\ op' = [op EXCEPT ![c] = o]
    /\ amount' = [amount EXCEPT ![c] = n]
    /\ UNCHANGED <<quotaVars, cacheVars, seen, async, budget>>

\* batchUpdate, first half: swap the store out under its lock.
TakeBatch ==
    /\ queue # 0 /\ taken = 0
    /\ taken' = queue /\ queue' = 0
    /\ UNCHANGED <<db, lost, cacheVars, callVars, budget>>

\* batchUpdate, second half: an error is logged and the delta is gone.
WriteBatch ==
    /\ taken # 0
    /\ taken' = 0
    /\ \/ db' = db + taken /\ UNCHANGED <<lost, budget>>
       \/ /\ faults < MaxFaults /\ faults' = faults + 1
          /\ lost' = lost + taken /\ UNCHANGED <<db, expiries, redisErrors>>
    /\ UNCHANGED <<queue, cacheVars, callVars>>

\* The TTL of the hash runs out, or invalidateUserCache deletes it; a change of
\* the token's metadata (invalidateTokenCacheForMutation) raises the fence too.
Expire ==
    /\ RedisEnabled /\ expiries < MaxExpiries
    /\ expiries' = expiries + 1
    /\ warm' = FALSE /\ cache' = 0
    /\ \/ warm /\ UNCHANGED fence
       \/ Row = "token" /\ fence' = TRUE
    /\ UNCHANGED <<quotaVars, callVars, redisErrors, faults>>

\* The fence has a TTL of its own.
LowerFence ==
    /\ fence /\ fence' = FALSE
    /\ UNCHANGED <<quotaVars, warm, cache, callVars, budget>>

Finished == {"done", "refused", "failed", "crashed"}

\* The process dies with its batch store, its callers and its goroutines.
Crash ==
    /\ faults < MaxFaults /\ faults' = faults + 1
    /\ lost' = lost + queue + taken /\ queue' = 0 /\ taken' = 0
    /\ at' = [c \in Callers |-> IF at[c] \in Finished \cup {"idle"} THEN at[c] ELSE "crashed"]
    /\ async' = [c \in Callers |-> IF async[c] = "launched" THEN "gone" ELSE async[c]]
    /\ UNCHANGED <<db, cacheVars, op, amount, seen, expiries, redisErrors>>

CallerStep(c) ==
    \/ TryCache(c) \/ Hydrate(c) \/ Populate(c) \/ RetryCache(c) \/ DBReserve(c)
    \/ Persist(c) \/ Compensate(c) \/ Launch(c) \/ Write(c) \/ ApplyAsync(c)

Quiet ==
    /\ \A c \in Callers : at[c] \in Finished /\ async[c] # "launched"
    /\ queue = 0 /\ taken = 0

QuotaNext ==
    /\ UNCHANGED deployment
    /\ \/ \E c \in Callers :
             \/ \E o \in Operations, n \in QuotaAmounts : Begin(c, o, n)
             \/ CallerStep(c)
       \/ TakeBatch \/ WriteBatch \/ Expire \/ LowerFence \/ Crash
       \/ Quiet /\ UNCHANGED reserveVars

QuotaSpec == QuotaInit /\ [][QuotaNext]_reserveVars

-----------------------------------------------------------------------------
CallLabels ==
    {"idle", "try", "hydrate", "populate", "retry", "dbReserve", "persist", "compensate",
     "launch", "write"} \cup Finished

\* Every variable has its type; a hash that does not exist holds no quota.
QuotaTypeOK ==
    /\ deployment \in Deployments
    /\ db \in Int /\ queue \in Int /\ taken \in Int /\ lost \in Int
    /\ warm \in BOOLEAN /\ fence \in BOOLEAN /\ cache \in Int /\ (~warm => cache = 0)
    /\ at \in [Callers -> CallLabels]
    /\ op \in [Callers -> {"reserve", "increase", "decrease"}]
    /\ amount \in [Callers -> Nat] /\ seen \in [Callers -> Int]
    /\ async \in [Callers -> {"none", "launched", "gone"}]
    /\ expiries \in 0..MaxExpiries /\ redisErrors \in 0..MaxRedis /\ faults \in 0..MaxFaults

-----------------------------------------------------------------------------
\* What each caller's operation has done to the row, now or through the batch store.
Effects == [c \in Callers |-> IF at[c] = "done" THEN Delta(c) ELSE 0]

\* An operation that reported success has moved the row exactly once, one that
\* was refused, failed or died has not moved it at all; between the caller and
\* the row a delta is in the batch store, in the batch being written, or lost
\* with a failed flush or a crash (TryReserve*Quota, batchUpdate).
BooksBalance == db + queue + taken + lost = InitQuota + SumFunction(Effects)

\* The quota a caller holds, and the quota a caller brings.
Reserves == [c \in Callers |-> IF op[c] = "reserve" /\ at[c] \in {"persist", "done"} THEN amount[c] ELSE 0]
Credits  == [c \in Callers |-> IF op[c] = "increase" /\ at[c] # "idle" THEN amount[c] ELSE 0]

\* Concurrent reservations never pass the check together and take more than
\* the row ever had (PreConsumeTokenQuota, TryReserveUserQuota).
NoOverReserve == SumFunction(Reserves) <= InitQuota + SumFunction(Credits)

\* The hash has been there from the start and nobody failed to reach it, or there
\* is none.
Undisturbed == ~RedisEnabled \/ (deployment.warm /\ expiries = 0 /\ redisErrors = 0)

\* So it is through one hash, or on the row alone: the script and the conditional
\* UPDATE each decide and decrement in one step, whatever refunds, batches,
\* database errors and crashes come between.
SteadyReservesFit == Undisturbed => NoOverReserve

\* When everything is quiet and the database has not failed either, a hash that
\* existed all along agrees with its row: every goroutine brought its delta once.
QuietCacheAgrees == Quiet /\ warm /\ Undisturbed /\ faults = 0 => cache = db
=============================================================================
