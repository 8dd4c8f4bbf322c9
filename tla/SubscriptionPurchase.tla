-------------------------- MODULE SubscriptionPurchase --------------------------
(***************************************************************************)
(* How one user comes by subscriptions and loses them again: payment       *)
(* callbacks, admin binds and balance purchases (model/subscription.go)    *)
(* create them, an admin cancels or deletes them, the maintenance task     *)
(* expires them; each may move the user to another group.                  *)
(*                                                                         *)
(* Transactions take row locks (SELECT ... FOR UPDATE) on the order and on *)
(* the user, and commit or roll back as a whole; between two locks other   *)
(* transactions run.  A plain SELECT sees what is committed, as under      *)
(* PostgreSQL's READ COMMITTED.  Timestamps are small naturals.            *)
(*                                                                         *)
(* The mirror TopUp row of upsertSubscriptionTopUpTx lives and dies with   *)
(* its transaction, so its failure is a Rollback.  What the handlers do to *)
(* Redis after the commit is modelled elsewhere: the group refresh in      *)
(* UserAuthCache, the balance decrement in QuotaReserve.                   *)
(***************************************************************************)
EXTENDS Integers, FiniteSets, Functions

CONSTANTS
    Workers,     \* callers: payment callbacks, admin requests, user requests
    Orders,      \* SubscriptionOrder rows
    Plans,       \* SubscriptionPlan rows ...
    OrderPlan,   \* ... the plan of each order
    Upgrade,     \* ... UpgradeGroup (NoGroup = no change)
    Downgrade,   \* ... DowngradeGroup (NoGroup = the group held before)
    Limit,       \* ... MaxPurchasePerUser (0 = unlimited)
    Price,       \* ... the price in quota
    Duration,    \* ... how long a subscription lasts
    BaseGroup,   \* the user's group before any subscription
    InitWallet,  \* the user's quota
    MaxSubs,     \* bound on subscriptions ever created
    MaxTime,     \* bound on the clock
    MaxFaults    \* bound on failed transactions

\* The empty string: no group is named.
NoGroup == "none"

GroupNames == {BaseGroup} \cup {Upgrade[p] : p \in Plans} \cup {Downgrade[p] : p \in Plans} \cup {NoGroup}

ASSUME PlanAssumption ==
    /\ Plans # {} /\ OrderPlan \in [Orders -> Plans]
    /\ Upgrade \in [Plans -> GroupNames] /\ Downgrade \in [Plans -> GroupNames]
    /\ Limit \in [Plans -> Nat] /\ Price \in [Plans -> Nat] /\ Duration \in [Plans -> Nat \ {0}]
ASSUME PurchaseBounds ==
    BaseGroup # NoGroup /\ InitWallet \in Nat /\ MaxSubs \in Nat /\ MaxTime \in Nat /\ MaxFaults \in Nat
ASSUME NameAssumption == "free" \notin Workers /\ Orders \cap {"admin", "balance", "none"} = {}

SubIds == 1..MaxSubs

VARIABLES
    now, wallet, group,
    order,       \* Status of each order
    orderLock,   \* the transaction that holds the row of the order
    userLock,    \* the transaction that holds the row of the user
    status, plan, end, prev,   \* the UserSubscription rows ...
    source,      \* ... and the order, or the way, each was created by
    created,     \* rows created so far; ids are handed out in order
    pc, via, want,   \* each caller: its step, its source, its plan
    exPc, exNow, exRows, exLast,   \* ExpireDueSubscriptions
    faults

userVars  == <<now, wallet, group>>
lockVars  == <<orderLock, userLock>>
subVars   == <<status, plan, end, prev, source, created>>
callVars  == <<pc, via, want>>
expireVars == <<exPc, exNow, exRows, exLast>>
vars == <<userVars, order, lockVars, subVars, callVars, expireVars, faults>>

Init ==
    /\ now = 0 /\ wallet = InitWallet /\ group = BaseGroup
    /\ order = [o \in Orders |-> "pending"]
    /\ orderLock = [o \in Orders |-> "free"] /\ userLock = "free"
    /\ status = [i \in SubIds |-> "none"]
    /\ plan = [i \in SubIds |-> CHOOSE p \in Plans : TRUE]
    /\ end = [i \in SubIds |-> 0]
    /\ prev = [i \in SubIds |-> NoGroup]
    /\ source = [i \in SubIds |-> "none"]
    /\ created = 0
    /\ pc = [w \in Workers |-> "idle"]
    /\ via = [w \in Workers |-> "none"]
    /\ want = [w \in Workers |-> CHOOSE p \in Plans : TRUE]
    /\ exPc = "idle" /\ exNow = 0 /\ exRows = {} /\ exLast = 0
    /\ faults = 0

-----------------------------------------------------------------------------
Exists(i) == status[i] \in {"active", "expired", "cancelled"}

Live(i, t) == status[i] = "active" /\ end[i] > t

\* Another active subscription that carries an upgrade.
LiveUpgrade(t, except) ==
    \E i \in SubIds \ except : Live(i, t) /\ Upgrade[plan[i]] # NoGroup

Bought(p) == Cardinality({i \in SubIds : Exists(i) /\ plan[i] = p})

-----------------------------------------------------------------------------
(* CompleteSubscriptionOrder, AdminBindSubscription,                        *)
(* PurchaseSubscriptionWithBalance.                                         *)

\* Mutant: the callback reads the order without locking its row.
OrderRowIsFree_NoLock(o) == TRUE

\* SELECT ... FOR UPDATE on the order.
OrderRowIsFree(o) == orderLock[o] = "free"

\* A callback, possibly a repeated one, takes the order's row and looks at its status.
CompleteOrder(w, o) ==
    /\ pc[w] = "idle" /\ OrderRowIsFree(o)
    /\ IF order[o] = "pending"
       THEN orderLock' = [orderLock EXCEPT ![o] = w] /\ pc' = [pc EXCEPT ![w] = "lock"]
       ELSE pc' = [pc EXCEPT ![w] = "done"] /\ UNCHANGED orderLock
    /\ via' = [via EXCEPT ![w] = o]
    /\ want' = [want EXCEPT ![w] = OrderPlan[o]]
    /\ UNCHANGED <<userVars, order, userLock, subVars, expireVars, faults>>

\* An admin binds a plan to the user, or the user pays one from the wallet.
Bind(w, how, p) ==
    /\ pc[w] = "idle"
    /\ pc' = [pc EXCEPT ![w] = "lock"]
    /\ via' = [via EXCEPT ![w] = how]
    /\ want' = [want EXCEPT ![w] = p]
    /\ UNCHANGED <<userVars, order, lockVars, subVars, expireVars, faults>>

\* Mutant: the user's row is read without a lock.
UserRowIsFree_NoLock == TRUE

\* SELECT ... FOR UPDATE on the user.
UserRowIsFree == userLock = "free"

\* Lock the user; everything that is checked next is read under this lock.
LockUser(w) ==
    /\ pc[w] = "lock" /\ UserRowIsFree
    /\ userLock' = w
    /\ LET p == want[w]
           fits == Limit[p] = 0 \/ Bought(p) < Limit[p]
           pays == via[w] = "balance" => wallet >= Price[p]
       IN  pc' = [pc EXCEPT ![w] = IF fits /\ pays /\ created < MaxSubs THEN "create" ELSE "refuse"]
    /\ UNCHANGED <<userVars, order, orderLock, subVars, via, want, expireVars, faults>>

Release(w) ==
    /\ userLock' = "free"
    /\ orderLock' = [o \in Orders |-> IF orderLock[o] = w THEN "free" ELSE orderLock[o]]

\* CreateUserSubscriptionFromPlanTx, then the order is saved and the transaction
\* commits.
Create(w) ==
    LET i == created + 1
        p == want[w]
        moves == Upgrade[p] # NoGroup /\ group # Upgrade[p]
    IN  /\ pc[w] = "create"
        /\ created' = i
        /\ status' = [status EXCEPT ![i] = "active"]
        /\ plan' = [plan EXCEPT ![i] = p]
        /\ end' = [end EXCEPT ![i] = now + Duration[p]]
        /\ prev' = [prev EXCEPT ![i] = IF moves THEN group ELSE NoGroup]
        /\ source' = [source EXCEPT ![i] = via[w]]
        /\ group' = IF moves THEN Upgrade[p] ELSE group
        /\ wallet' = IF via[w] = "balance" THEN wallet - Price[p] ELSE wallet
        /\ order' = IF via[w] \in Orders THEN [order EXCEPT ![via[w]] = "success"] ELSE order
        /\ Release(w)
        /\ pc' = [pc EXCEPT ![w] = "done"]
        /\ UNCHANGED <<now, via, want, expireVars, faults>>

\* Mutant: the wallet is charged outside the transaction.
Rollback_KeepsCharge(w) ==
    /\ pc[w] = "create" /\ faults < MaxFaults /\ faults' = faults + 1
    /\ wallet' = IF via[w] = "balance" THEN wallet - Price[want[w]] ELSE wallet
    /\ Release(w)
    /\ pc' = [pc EXCEPT ![w] = "done"]
    /\ UNCHANGED <<now, group, order, subVars, via, want, expireVars>>

\* The limit or the balance refuses, or the database fails: all is rolled back.
Rollback(w) ==
    /\ \/ pc[w] = "refuse" /\ UNCHANGED faults
       \/ pc[w] = "create" /\ faults < MaxFaults /\ faults' = faults + 1
    /\ Release(w)
    /\ pc' = [pc EXCEPT ![w] = "done"]
    /\ UNCHANGED <<userVars, order, subVars, via, want, expireVars>>

\* ExpireSubscriptionOrder: the gateway reports the order as lapsed.
ExpireOrder(o) ==
    /\ orderLock[o] = "free" /\ order[o] = "pending"
    /\ order' = [order EXCEPT ![o] = "expired"]
    /\ UNCHANGED <<userVars, lockVars, subVars, callVars, expireVars, faults>>

-----------------------------------------------------------------------------
(* AdminInvalidateUserSubscription, AdminDeleteUserSubscription.            *)

\* Mutant: other active subscriptions are not looked at.
DowngradeTarget_Alone(i) ==
    IF Downgrade[plan[i]] # NoGroup THEN Downgrade[plan[i]]
    ELSE IF group = Upgrade[plan[i]] THEN prev[i] ELSE NoGroup

\* downgradeUserGroupForSubscriptionTx: the group the user falls back to, or NoGroup.
DowngradeTarget(i) ==
    IF LiveUpgrade(now, {i}) THEN NoGroup
    ELSE IF Downgrade[plan[i]] # NoGroup THEN Downgrade[plan[i]]
    ELSE IF group = Upgrade[plan[i]] THEN prev[i]
    ELSE NoGroup

\* Ends a subscription by hand; rows that the maintenance task is changing wait.
Remove(i, how) ==
    /\ Exists(i) /\ i \notin exRows /\ userLock = "free"
    /\ group' = IF DowngradeTarget(i) = NoGroup THEN group ELSE DowngradeTarget(i)
    /\ status' = [status EXCEPT ![i] = how]
    /\ end' = IF how = "cancelled" THEN [end EXCEPT ![i] = now] ELSE end
    /\ UNCHANGED <<now, wallet, order, lockVars, plan, prev, source, created, callVars, expireVars, faults>>

AdminInvalidate(i) == Remove(i, "cancelled")

AdminDelete(i) == Remove(i, "deleted")

-----------------------------------------------------------------------------
(* ExpireDueSubscriptions, for this user.                                   *)

Due(i, t) == status[i] = "active" /\ end[i] <= t

\* The task finds due rows and takes the time once.
ScanDue ==
    /\ exPc = "idle" /\ \E i \in SubIds : Due(i, now)
    /\ exPc' = "rows" /\ exNow' = now
    /\ UNCHANGED <<userVars, order, lockVars, subVars, callVars, exRows, exLast, faults>>

\* Order("end_time desc, id desc").Limit(1)
Latest(i, S) == i \in S /\ \A j \in S : end[j] < end[i] \/ (end[j] = end[i] /\ j <= i)

\* "downgrade_group <> '' OR upgrade_group <> ''"
DefinesTransition(i) == Downgrade[plan[i]] # NoGroup \/ Upgrade[plan[i]] # NoGroup

\* The transaction updates its rows and, unless an upgrade is still active, picks
\* the expired subscription that decides the group.
ExpireRows ==
    LET rows  == {i \in SubIds : Due(i, exNow)}
        ended == {i \in SubIds : (i \in rows \/ status[i] = "expired") /\ DefinesTransition(i)}
        keeps == LiveUpgrade(exNow, {}) \/ ended = {}
    IN  /\ exPc = "rows"
        /\ \/ /\ keeps
              /\ status' = [i \in SubIds |-> IF i \in rows THEN "expired" ELSE status[i]]
              /\ exPc' = "idle" /\ UNCHANGED <<exRows, exLast>>
           \/ /\ ~keeps
              /\ \E i \in SubIds : Latest(i, ended) /\ exLast' = i
              /\ exPc' = "group" /\ exRows' = rows /\ UNCHANGED status
        /\ UNCHANGED <<userVars, order, lockVars, plan, end, prev, source, created, callVars, exNow, faults>>

ExpiryTarget ==
    IF Downgrade[plan[exLast]] # NoGroup THEN Downgrade[plan[exLast]]
    ELSE IF group = Upgrade[plan[exLast]] THEN prev[exLast] ELSE NoGroup

\* It locks the user, changes the group and commits.
ExpireGroup ==
    /\ exPc = "group" /\ userLock = "free"
    /\ group' = IF ExpiryTarget = NoGroup THEN group ELSE ExpiryTarget
    /\ status' = [i \in SubIds |-> IF i \in exRows THEN "expired" ELSE status[i]]
    /\ exPc' = "idle" /\ exRows' = {}
    /\ UNCHANGED <<now, wallet, order, lockVars, plan, end, prev, source, created, callVars, exNow, exLast, faults>>

\* The transaction fails: its rows stay active, the next tick tries again.
ExpireFails ==
    /\ exPc \in {"rows", "group"} /\ faults < MaxFaults
    /\ faults' = faults + 1
    /\ exPc' = "idle" /\ exRows' = {}
    /\ UNCHANGED <<userVars, order, lockVars, subVars, callVars, exNow, exLast>>

Tick ==
    /\ now < MaxTime
    /\ now' = now + 1
    /\ UNCHANGED <<wallet, group, order, lockVars, subVars, callVars, expireVars, faults>>

-----------------------------------------------------------------------------
Quiet ==
    /\ \A w \in Workers : pc[w] = "done"
    /\ exPc = "idle" /\ ~ \E i \in SubIds : Due(i, now)

Next ==
    \/ \E w \in Workers :
          \/ \E o \in Orders : CompleteOrder(w, o)
          \/ \E p \in Plans, how \in {"admin", "balance"} : Bind(w, how, p)
          \/ LockUser(w) \/ Create(w) \/ Rollback(w)
    \/ \E o \in Orders : ExpireOrder(o)
    \/ \E i \in SubIds : AdminInvalidate(i) \/ AdminDelete(i)
    \/ ScanDue \/ ExpireRows \/ ExpireGroup \/ ExpireFails
    \/ Tick
    \/ Quiet /\ UNCHANGED vars

Spec == Init /\ [][Next]_vars

-----------------------------------------------------------------------------
Statuses == {"none", "active", "expired", "cancelled", "deleted"}
Sources  == Orders \cup {"admin", "balance", "none"}

UserType   == now \in 0..MaxTime /\ wallet \in Nat /\ group \in GroupNames \ {NoGroup} /\ faults \in 0..MaxFaults
OrderType  ==
    /\ order \in [Orders -> {"pending", "success", "expired"}]
    /\ orderLock \in [Orders -> Workers \cup {"free"}] /\ userLock \in Workers \cup {"free"}
SubType    ==
    /\ status \in [SubIds -> Statuses] /\ plan \in [SubIds -> Plans] /\ end \in [SubIds -> Nat]
    /\ prev \in [SubIds -> GroupNames] /\ source \in [SubIds -> Sources] /\ created \in 0..MaxSubs
CallType   ==
    /\ pc \in [Workers -> {"idle", "lock", "create", "refuse", "done"}]
    /\ via \in [Workers -> Sources] /\ want \in [Workers -> Plans]
ExpireType ==
    /\ exPc \in {"idle", "rows", "group"} /\ exNow \in 0..MaxTime
    /\ exRows \subseteq SubIds /\ exLast \in SubIds \cup {0}

\* Every variable has its type, and no interleaving of purchases takes the wallet
\* below zero.
TypeOK == UserType /\ OrderType /\ SubType /\ CallType /\ ExpireType

\* A paid order is fulfilled by exactly one subscription, an order that is not
\* paid by none, however often and however concurrently the gateway calls back
\* (CompleteSubscriptionOrder is idempotent).
OneSubscriptionPerOrder ==
    /\ \A i, j \in SubIds : source[i] \in Orders /\ source[i] = source[j] => i = j
    /\ \A o \in Orders : order[o] = "success" <=> \E i \in SubIds : source[i] = o

\* Concurrent purchases of several kinds never take a user past the plan's limit
\* (MaxPurchasePerUser is counted under the lock of the user).
PurchaseLimitHolds == \A p \in Plans : Limit[p] > 0 => Bought(p) <= Limit[p]

\* What the wallet paid for a subscription: the price of its plan, if it was
\* bought with the balance.
Paid(i) == IF source[i] = "balance" THEN Price[plan[i]] ELSE 0

\* The wallet has paid for exactly the subscriptions bought with it: a purchase
\* that the limit refuses, or whose transaction fails, costs nothing.
WalletPaysForPurchases == wallet + SumFunction([i \in SubIds |-> Paid(i)]) = InitWallet

\* While a subscription with an upgrade is active the user is not put back into
\* the group of those who have none: "If there's an active upgraded subscription,
\* keep current group."
ActiveUpgradeKeepsGroup ==
    (\E i \in SubIds : Live(i, now) /\ Upgrade[plan[i]] # NoGroup) => group # BaseGroup

\* No purchase, callback, cancellation, deletion or rollback takes a user whose
\* upgrade is still active out of the upgraded group: only a step of the expiry
\* task may (ActiveUpgradeKeepsGroup says that it should not either).
UpgradeSurvivesRequests ==
    [][exPc' = exPc /\ ActiveUpgradeKeepsGroup => ActiveUpgradeKeepsGroup']_vars

\* Once the maintenance task has expired every subscription, the user is not left
\* in a group that an expired subscription gave: the task finds "the most recently
\* expired subscription that defines a group transition (an explicit downgrade
\* target or an upgrade snapshot to revert)".
ExpiryRevertsGroup ==
    exPc = "idle" /\ (\A i \in SubIds : status[i] \in {"none", "expired"}) => group = BaseGroup

-----------------------------------------------------------------------------
\* What the row locks protect: a transaction past its first lock owns the rows it
\* has read, so what it has checked still holds when it writes.
LocksHeld ==
    /\ \A w \in Workers : pc[w] \in {"create", "refuse"} => userLock = w
    /\ \A w \in Workers :
          pc[w] \in {"lock", "create", "refuse"} /\ via[w] \in Orders
             => orderLock[via[w]] = w /\ order[via[w]] = "pending"

ChecksStillHold ==
    \A w \in Workers : pc[w] = "create" =>
        /\ created < MaxSubs
        /\ via[w] = "balance" => wallet >= Price[want[w]]
        /\ Limit[want[w]] = 0 \/ Bought(want[w]) < Limit[want[w]]

RowsInOrder ==
    /\ \A i \in SubIds : i > created => status[i] = "none" /\ source[i] = "none"
    /\ \A i \in exRows : status[i] = "active"
    /\ exPc # "group" => exRows = {}
    /\ exPc = "group" => exLast \in SubIds

\* The inductive invariant of the proofs.
IInv == TypeOK /\ LocksHeld /\ ChecksStillHold /\ RowsInOrder /\ OneSubscriptionPerOrder /\ PurchaseLimitHolds
=============================================================================
