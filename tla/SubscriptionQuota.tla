--------------------------- MODULE SubscriptionQuota ---------------------------
(***************************************************************************)
(* The quota of a user's subscriptions over time: requests pre-consume,    *)
(* settle and refund it, and it is reset at the boundaries of the plan's   *)
(* reset period by the next request, by the maintenance task or by an      *)
(* administrator (model/subscription.go, service/subscription_reset_task.go).*)
(*                                                                         *)
(* A transaction holds the locks of the rows it changes and is one step.   *)
(* The time it works with was read before it had the locks, so it may be   *)
(* a little old (Recent).  The two transactions of a refund and the        *)
(* session around them are opened up in BillingSession, the expiry of      *)
(* subscriptions in SubscriptionPurchase.  Times are small naturals.       *)
(***************************************************************************)
EXTENDS Integers, FiniteSets, Functions

CONSTANTS
    Subs,        \* UserSubscription ids, all active at first
    Requests,    \* requests of their user
    Amounts,     \* amounts of quota
    Plans,       \* SubscriptionPlan ids
    PlanOf,      \* the plan of each subscription
    Period,      \* the reset period of each plan at first
    Edits,       \* reset periods an administrator may change a plan to
    Total,       \* AmountTotal of each subscription (0 = unlimited)
    End,         \* EndTime of each subscription
    BatchSize,   \* subscriptionResetBatchSize
    Retention,   \* how long idempotency records are kept
    Delay,       \* bound on the age of the time a transaction works with
    MaxTime,     \* bound on the clock
    MaxEvents    \* bound on plan edits, resets by an administrator, failed passes and skipped rows

StartTime == 1

\* QuotaResetPeriod: "custom" counts from the last reset, "calendar" stands for
\* daily, weekly and monthly, which fall on multiples of their length.
Periods == [kind : {"never", "calendar", "custom"}, len : Nat \ {0}]

ASSUME RequestAssumption == IsFiniteSet(Requests)
ASSUME SubsAssumption    == Subs \subseteq Nat /\ PlanOf \in [Subs -> Plans]
ASSUME PeriodAssumption  == Period \in [Plans -> Periods] /\ Edits \subseteq Periods
ASSUME RowsAssumption    == Total \in [Subs -> Nat] /\ End \in [Subs -> Nat] /\ Amounts \subseteq Nat \ {0}
ASSUME TaskAssumption    == BatchSize \in Nat \ {0} /\ Retention \in Nat /\ Delay \in Nat
ASSUME BoundsAssumption  == MaxTime \in Nat /\ MaxEvents \in Nat

VARIABLES
    now,
    period,      \* the plan rows
    shown,       \* what getSubscriptionPlanByIdTx answers (the plan cache)
    active, used, last, next,   \* Status, AmountUsed, LastResetTime, NextResetTime
    pc, sub, asked,             \* each request: its step, subscription and amount ...
    record,                     \* ... UpdatedAt of its SubscriptionPreConsumeRecord (0 = none)
    task, taskNow, todo, count, \* runSubscriptionQuotaResetOnce
    events,
    drawn,       \* history: what each request has drawn in the current period
    crossed      \* history: subscriptions charged or refunded across a reset

planVars == <<period, shown>>
rowVars  == <<active, used, last, next>>
reqVars  == <<pc, sub, asked, record>>
taskVars == <<task, taskNow, todo, count>>
history  == <<drawn, crossed>>
vars == <<now, planVars, rowVars, reqVars, taskVars, events, history>>

-----------------------------------------------------------------------------
(* calcNextResetTime and the loop over it.                                  *)

\* The boundaries that follow base: what repeated calls of calcNextResetTime give.
Boundaries(base, p, end) ==
    {b \in (base + 1)..end :
        \/ p.kind = "calendar" /\ b % p.len = 0
        \/ p.kind = "custom" /\ (b - base) % p.len = 0}

\* The first of them; 0 when there is none before the end.
NextReset(base, p, end) ==
    LET B == Boundaries(base, p, end)
    IN  IF B = {} THEN 0 ELSE CHOOSE b \in B : \A c \in B : b <= c

Latest(B) == CHOOSE b \in B : \A c \in B : c <= b

Init ==
    /\ now = StartTime
    /\ period = Period /\ shown = Period
    /\ active = [s \in Subs |-> TRUE]
    /\ used = [s \in Subs |-> 0]
    /\ next = [s \in Subs |-> NextReset(StartTime, Period[PlanOf[s]], End[s])]
    /\ last = [s \in Subs |-> IF NextReset(StartTime, Period[PlanOf[s]], End[s]) > 0 THEN StartTime ELSE 0]
    /\ pc = [r \in Requests |-> "idle"]
    /\ sub = [r \in Requests |-> 0]
    /\ asked = [r \in Requests |-> 0]
    /\ record = [r \in Requests |-> 0]
    /\ task = "idle" /\ taskNow = 0 /\ todo = {} /\ count = 0
    /\ events = 0
    /\ drawn = [r \in Requests |-> 0] /\ crossed = {}

\* GetDBTimestamp, as read before the transaction got its locks.
Recent == {t \in StartTime..now : t + Delay >= now}

-----------------------------------------------------------------------------
(* maybeResetUserSubscriptionWithPlanTx                                     *)

Base(s) == IF last[s] > 0 THEN last[s] ELSE StartTime

\* Mutant: a boundary has passed only when it is over.
Passed_Strict(s, p, t) == {b \in Boundaries(Base(s), p, End[s]) : b < t}

\* Boundaries that have passed since the last reset.
Passed(s, p, t) == {b \in Boundaries(Base(s), p, End[s]) : b <= t}

MayReset(s, p, t) == ~(next[s] > 0 /\ next[s] > t) /\ p.kind # "never"

Resets(s, p, t) == MayReset(s, p, t) /\ Passed(s, p, t) # {}

\* A plan that had no period when the subscription began has one now.
Schedules(s, p, t) ==
    MayReset(s, p, t) /\ Passed(s, p, t) = {} /\ next[s] = 0 /\ NextReset(Base(s), p, End[s]) > 0

\* Mutant: the reset moves the boundary and leaves the amount.
UsedAfter_Kept(s, p, t) == used[s]

UsedAfter(s, p, t) == IF Resets(s, p, t) THEN 0 ELSE used[s]

\* Mutant: a reset does not record the boundary it was for.
LastAfter_Kept(s, p, t) == Base(s)

LastAfter(s, p, t) ==
    IF Resets(s, p, t) THEN Latest(Passed(s, p, t))
    ELSE IF Schedules(s, p, t) THEN Base(s) ELSE last[s]

\* Mutant: the next boundary is counted from the last reset before this one.
NextAfter_Base(s, p, t) ==
    IF Resets(s, p, t) \/ Schedules(s, p, t) THEN NextReset(Base(s), p, End[s]) ELSE next[s]

NextAfter(s, p, t) ==
    IF Resets(s, p, t) THEN NextReset(Latest(Passed(s, p, t)), p, End[s])
    ELSE IF Schedules(s, p, t) THEN NextReset(Base(s), p, End[s]) ELSE next[s]

\* What r has drawn, once the rows of S are reset that are due.
DrawnAfter(r, S, t) ==
    IF sub[r] \in S /\ Resets(sub[r], shown[PlanOf[sub[r]]], t) THEN 0 ELSE drawn[r]

\* The rows of S are brought up to date, each with the plan it is shown.
BringUpToDate(S, t) ==
    /\ last' = [s \in Subs |-> IF s \in S THEN LastAfter(s, shown[PlanOf[s]], t) ELSE last[s]]
    /\ next' = [s \in Subs |-> IF s \in S THEN NextAfter(s, shown[PlanOf[s]], t) ELSE next[s]]

-----------------------------------------------------------------------------
(* PreConsumeUserSubscription, PostConsumeUserSubscriptionDelta,            *)
(* RefundSubscriptionPreConsume.                                            *)

Current(s, t) == UsedAfter(s, shown[PlanOf[s]], t)

Candidates(t) == {s \in Subs : active[s] /\ End[s] > t}

\* Order("end_time asc, id asc")
Before(s, u) == End[s] < End[u] \/ (End[s] = End[u] /\ s <= u)

HasRoom(s, n, t) == Total[s] = 0 \/ Current(s, t) + n <= Total[s]

\* The first subscription with room is charged; those before it are brought up to
\* date by the same transaction.
PreConsume(r, n, t) ==
    \E s \in Candidates(t) :
        LET looked == {u \in Candidates(t) : Before(u, s)}
        IN  /\ pc[r] = "idle"
            /\ HasRoom(s, n, t) /\ \A u \in looked \ {s} : ~HasRoom(u, n, t)
            /\ BringUpToDate(looked, t)
            /\ used' = [u \in Subs |->
                          IF u = s THEN Current(u, t) + n ELSE IF u \in looked THEN Current(u, t) ELSE used[u]]
            /\ pc' = [pc EXCEPT ![r] = "consumed"]
            /\ sub' = [sub EXCEPT ![r] = s]
            /\ asked' = [asked EXCEPT ![r] = n]
            /\ record' = [record EXCEPT ![r] = now]
            /\ drawn' = [q \in Requests |-> IF q = r THEN n ELSE DrawnAfter(q, looked, t)]
            /\ UNCHANGED <<now, planVars, active, taskVars, events, crossed>>

\* No subscription, or none with room: the resets are rolled back as well.
Refuse(r, n, t) ==
    /\ pc[r] = "idle" /\ \A s \in Candidates(t) : ~HasRoom(s, n, t)
    /\ pc' = [pc EXCEPT ![r] = "refused"]
    /\ UNCHANGED <<now, planVars, rowVars, sub, asked, record, taskVars, events, history>>

NewUsed(s, delta) == IF used[s] + delta < 0 THEN 0 ELSE used[s] + delta

Fits(s, delta) == Total[s] = 0 \/ NewUsed(s, delta) <= Total[s]

\* The delta reaches the row as it is now, whatever period it was charged in.
Apply(r, delta) ==
    LET s == sub[r]
    IN  /\ used' = [used EXCEPT ![s] = NewUsed(s, delta)]
        /\ drawn' = [drawn EXCEPT ![r] = IF @ > 0 THEN @ + delta ELSE 0]
        /\ crossed' = IF drawn[r] = 0 /\ delta # 0 THEN crossed \cup {s} ELSE crossed
        /\ UNCHANGED <<active, last, next>>

\* The session is over: its amount and its record are not looked at again.
Finish(r, step) ==
    /\ pc' = [pc EXCEPT ![r] = step]
    /\ asked' = [asked EXCEPT ![r] = 0]
    /\ record' = [record EXCEPT ![r] = 0]
    /\ UNCHANGED <<now, planVars, sub, taskVars, events>>

\* SubscriptionFunding.Settle with the actual cost.
Settle(r, cost) ==
    LET delta == cost - asked[r]
    IN  /\ pc[r] = "consumed"
        /\ \/ Fits(sub[r], delta) /\ Apply(r, delta) /\ Finish(r, "settled")
           \/ ~Fits(sub[r], delta) /\ UNCHANGED <<rowVars, history>> /\ Finish(r, "unsettled")

\* SubscriptionFunding.Refund; a record that was cleaned up is not found.
Refund(r) ==
    /\ pc[r] = "consumed"
    /\ \/ record[r] > 0 /\ Apply(r, -asked[r]) /\ Finish(r, "refunded")
       \/ record[r] = 0 /\ UNCHANGED <<rowVars, history>> /\ Finish(r, "unsettled")

-----------------------------------------------------------------------------
(* Administrators.                                                          *)

\* AdminUpdateSubscriptionPlan
EditPlan(p, new) ==
    /\ events < MaxEvents /\ events' = events + 1
    /\ new # period[p]
    /\ period' = [period EXCEPT ![p] = new]
    /\ UNCHANGED <<now, shown, rowVars, reqVars, taskVars, history>>

\* The cached plan is invalidated after the commit, or its TTL runs out.
ReloadPlan(p) ==
    /\ shown[p] # period[p]
    /\ shown' = [shown EXCEPT ![p] = period[p]]
    /\ UNCHANGED <<now, period, rowVars, reqVars, taskVars, events, history>>

\* AdminResetPlanSubscriptions, AdminResetUserSubscriptionsByPlan
AdminReset(p, advance, t) ==
    LET S == {s \in Candidates(t) : PlanOf[s] = p}
        after(s) == NextReset(t, shown[p], End[s])
    IN  /\ events < MaxEvents /\ events' = events + 1
        /\ S # {}
        /\ used' = [s \in Subs |-> IF s \in S THEN 0 ELSE used[s]]
        /\ drawn' = [r \in Requests |-> IF sub[r] \in S THEN 0 ELSE drawn[r]]
        /\ next' = [s \in Subs |-> IF s \in S /\ advance THEN after(s) ELSE next[s]]
        /\ last' = [s \in Subs |->
                      IF s \in S /\ advance THEN IF after(s) > 0 THEN t ELSE 0 ELSE last[s]]
        /\ UNCHANGED <<now, planVars, active, reqVars, taskVars, crossed>>

-----------------------------------------------------------------------------
(* runSubscriptionQuotaResetOnce                                            *)

\* The ticker; ExpireDueSubscriptions comes first.
ExpireDue ==
    /\ task = "idle"
    /\ task' = "scan"
    /\ active' = [s \in Subs |-> active[s] /\ End[s] > now]
    /\ UNCHANGED <<now, planVars, used, last, next, reqVars, taskNow, todo, count, events, history>>

DueAt(s, t) == next[s] > 0 /\ next[s] <= t

\* Order("next_reset_time asc").Limit(limit)
Batches(S) ==
    {B \in SUBSET S :
        /\ Cardinality(B) <= BatchSize
        /\ Cardinality(B) < BatchSize => B = S
        /\ \A b \in B, c \in S \ B : next[b] <= next[c]}

\* A full batch may have left others behind.
MoreToDo(n) == n >= BatchSize

ScanDue ==
    /\ task = "scan"
    /\ todo' \in Batches({s \in Subs : active[s] /\ DueAt(s, now)})
    /\ taskNow' = now /\ count' = 0
    /\ task' = "rows"
    /\ UNCHANGED <<now, planVars, rowVars, reqVars, events, history>>

\* One row of the batch: locked, looked at again, reset and counted.
ResetRow(s) ==
    /\ task = "rows" /\ s \in todo
    /\ todo' = todo \ {s}
    /\ IF DueAt(s, taskNow)
       THEN /\ BringUpToDate({s}, taskNow)
            /\ used' = [used EXCEPT ![s] = Current(s, taskNow)]
            /\ drawn' = [r \in Requests |-> DrawnAfter(r, {s}, taskNow)]
            /\ count' = count + 1
       ELSE UNCHANGED <<used, last, next, drawn, count>>
    /\ UNCHANGED <<now, planVars, active, reqVars, task, taskNow, events, crossed>>

\* Its plan or the row itself cannot be read: the loop goes on with the next one.
SkipRow(s) ==
    /\ task = "rows" /\ s \in todo
    /\ events < MaxEvents /\ events' = events + 1
    /\ todo' = todo \ {s}
    /\ UNCHANGED <<now, planVars, rowVars, reqVars, task, taskNow, count, history>>

\* CleanupSubscriptionPreConsumeRecords, when half an hour has passed since the last.
Cleanup ==
    /\ record' = [r \in Requests |-> IF record[r] < now - Retention THEN 0 ELSE record[r]]
    /\ UNCHANGED <<pc, sub, asked>>

EndBatch ==
    /\ task = "rows" /\ todo = {}
    /\ taskNow' = 0 /\ count' = 0
    /\ \/ MoreToDo(count) /\ task' = "scan" /\ UNCHANGED reqVars
       \/ ~MoreToDo(count) /\ task' = "idle" /\ (Cleanup \/ UNCHANGED reqVars)
    /\ UNCHANGED <<now, planVars, rowVars, todo, events, history>>

\* A query or a transaction fails: the pass is given up, the next tick starts over.
TaskFails ==
    /\ task \in {"scan", "rows"}
    /\ events < MaxEvents /\ events' = events + 1
    /\ task' = "idle" /\ taskNow' = 0 /\ todo' = {} /\ count' = 0
    /\ UNCHANGED <<now, planVars, rowVars, reqVars, history>>

Tick ==
    /\ now < MaxTime /\ now' = now + 1
    /\ UNCHANGED <<planVars, rowVars, reqVars, taskVars, events, history>>

-----------------------------------------------------------------------------
TaskStep == ExpireDue \/ ScanDue \/ (\E s \in Subs : ResetRow(s)) \/ EndBatch

RequestStep(r) ==
    \/ \E n \in Amounts, t \in Recent : PreConsume(r, n, t) \/ Refuse(r, n, t)
    \/ \E cost \in Amounts \cup {0} : Settle(r, cost)
    \/ Refund(r)

Next ==
    \/ \E r \in Requests : RequestStep(r)
    \/ \E p \in Plans : ReloadPlan(p) \/ \E new \in Edits : EditPlan(p, new)
    \/ \E p \in Plans, advance \in BOOLEAN, t \in Recent : AdminReset(p, advance, t)
    \/ TaskStep \/ TaskFails \/ \E s \in Subs : SkipRow(s)
    \/ Tick

\* The ticker of the maintenance task never stops; a cached plan is not kept for ever.
Fairness == WF_vars(TaskStep) /\ \A p \in Plans : WF_vars(ReloadPlan(p))

Spec     == Init /\ [][Next]_vars
FairSpec == Spec /\ Fairness

-----------------------------------------------------------------------------
Steps == {"idle", "consumed", "refused", "settled", "unsettled", "refunded"}

RowType ==
    /\ active \in [Subs -> BOOLEAN]
    /\ used \in [Subs -> Nat] /\ last \in [Subs -> Nat] /\ next \in [Subs -> Nat]

PlanType == period \in [Plans -> Periods] /\ shown \in [Plans -> Periods]

RequestType ==
    /\ pc \in [Requests -> Steps] /\ sub \in [Requests -> Subs \cup {0}]
    /\ asked \in [Requests -> Nat] /\ record \in [Requests -> Nat]
    /\ \A r \in Requests : pc[r] = "consumed" => sub[r] \in Subs

TaskType ==
    /\ now \in Nat /\ taskNow \in 0..now /\ todo \subseteq Subs /\ count \in Nat
    /\ task \in {"idle", "scan", "rows"}

HistoryType ==
    /\ drawn \in [Requests -> Nat] /\ crossed \subseteq Subs
    /\ events \in Nat

\* Every variable has its type; AmountUsed is never negative.
TypeOK == RowType /\ PlanType /\ RequestType /\ TaskType /\ HistoryType

\* No mixture of charges, settlements, refunds and resets takes a limited
\* subscription past its total.
UsedWithinTotal == \A s \in Subs : Total[s] > 0 => used[s] <= Total[s]

\* What each request has drawn from s in its current period.
Draws(s) == [r \in Requests |-> IF sub[r] = s THEN drawn[r] ELSE 0]

\* As long as nobody settled or refunded across a reset, a row holds what the
\* requests of its current period have drawn, no more and no less.
PeriodUsageExact == \A s \in Subs \ crossed : used[s] = SumFunction(Draws(s))

\* A row that waits for a boundary waits for one after its last reset and within
\* its own lifetime, whatever was edited and whoever reset it last; and no row
\* has been reset in the future.
BoundaryAhead ==
    \A s \in Subs :
        /\ last[s] <= now
        /\ next[s] > 0 => 0 < last[s] /\ last[s] < next[s] /\ next[s] <= End[s]

\* What a request has drawn is forgotten, without its doing and without an
\* administrator, only for a boundary that has come and lies after the last reset.
ForgetsAtBoundary ==
    (\A p \in Plans, advance \in BOOLEAN, t \in Recent : ~AdminReset(p, advance, t))
      => \A r \in Requests :
             pc'[r] = pc[r] /\ drawn'[r] # drawn[r]
               => last[sub[r]] < last'[sub[r]] /\ last'[sub[r]] <= now

\* A boundary gives fresh quota once, however requests and the maintenance task
\* race to reset the row.
BoundaryUsedOnce == [][ForgetsAtBoundary]_vars

\* ResetDueSubscriptions "resets subscriptions whose next_reset_time has passed":
\* a row that is due under a plan that still has a reset period does not stay due.
DueGetsReset ==
    \A s \in Subs :
        LET waiting == active[s] /\ DueAt(s, now) /\ period[PlanOf[s]].kind # "never"
        IN  waiting ~> ~waiting
=============================================================================
