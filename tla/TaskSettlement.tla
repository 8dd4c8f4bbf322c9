----------------------------- MODULE TaskSettlement -----------------------------
(***************************************************************************)
(* One asynchronous task from its submission to its final charge:          *)
(* controller/relay.go executeTaskSubmissionWith, service/task_polling.go, *)
(* service/task_billing.go, model/task.go, and the live query of           *)
(* relay/relay_task.go.                                                    *)
(*                                                                         *)
(* Passes overlap: a runner that lost its lease goes on with the row it    *)
(* has read.  A worker holds such a copy while the upstream is asked, then *)
(* writes all of it back if the status is still the one it read, and only  *)
(* the winner of a terminal write moves money, one store at a time.  With  *)
(* BatchUpdateEnabled a wallet, a token and the usage statistics are moved *)
(* in the memory of the process first (model/utils.go), and a crash or a   *)
(* failed flush loses what is there.  Times, progress, result data and the *)
(* reasons are left out: a finished task has progress 100%.                *)
(***************************************************************************)
EXTENDS Integers

CONSTANTS
    Pollers,      \* passes of async_task_poll
    Fetchers,     \* users asking for the task of a Gemini or Vertex channel
    Relay,        \* the process that serves the submission
    Quota,        \* what the task is charged at submission
    Actuals,      \* final charges that usage may come to
    Keep,         \* no final charge: the charge at submission stands
    MaxFailures,  \* TASK_POLL_MAX_FAILURES
    MaxFaults     \* bound on failed writes, failed flushes and crashes

ASSUME TaskAssumption == Quota \in Nat \ {0} /\ Actuals \subseteq Nat /\ Keep \notin Nat
ASSUME TaskBounds == MaxFailures \in Nat \ {0} /\ MaxFaults \in Nat /\ Pollers \cap Fetchers = {}
ASSUME RelayAssumption == Relay \notin Pollers \cup Fetchers

VARIABLES
    row,       \* tasks: status, quota, PollFailures
    mode,      \* BillingContext: "tiered", "percall", or "usage" (adaptor or tokens decide)
    extra,     \* reserved beyond the final estimate
    legacy,    \* submitted before TaskRefundLegacyCutoff
    queues,    \* the books that go through the batch stores
    late,      \* older than TaskTimeoutMinutes
    channel,   \* its channel still exists
    sub,       \* stage of the submission
    fund, tok, used,  \* charged for this task: funding, token, usage statistics;
                      \* what a batch store still holds is counted
    queued,    \* batchUpdateStores of a process: the part of the books not written yet
    pc, mem,   \* of a worker: its stage and the copy it read
    goal,      \* the final charge it carries out
    silent,    \* history: the task was finished by a path that moves no money
    rewritten, \* history: a live query wrote over a finished task
    lost,      \* history: the books of which a batch store lost a part
    faults     \* what is left of MaxFaults

Workers == Pollers \cup Fetchers
Processes == Workers \cup {Relay}
books == <<fund, tok, used, queued>>
work == <<pc, mem, goal>>
fixed == <<mode, legacy, extra, queues>>
history == <<silent, rewritten, lost>>
vars == <<row, fixed, late, channel, sub, books, work, history, faults>>

Open == {"QUEUED", "IN_PROGRESS"}
Final == {"SUCCESS", "FAILURE"}
NoTask == [st |-> "none", quota |-> 0, fails |-> 0]

Books == {"fund", "tok", "used"}
Nothing == [b \in Books |-> 0]
\* BatchUpdateEnabled is off; or on, and a subscription is written at once all the same
Deployments == {{}, {"tok", "used"}, Books}

\* PreConsumeBilling took at least what the submission comes to (ForcePreConsume, Reserve)
Init ==
    /\ row = NoTask /\ mode \in {"tiered", "percall", "usage"} /\ legacy \in BOOLEAN
    /\ late = FALSE /\ channel = TRUE /\ sub = "reserved"
    /\ extra \in {0, 1} /\ fund = Quota + extra /\ tok = fund /\ used = 0
    /\ queues \in Deployments
    /\ queued = [n \in Processes |->
                   [b \in Books |-> IF n = Relay /\ b \in queues \ {"used"} THEN fund ELSE 0]]
    /\ pc = [w \in Workers |-> "idle"] /\ mem = [w \in Workers |-> NoTask]
    /\ goal = [w \in Workers |-> Keep]
    /\ silent = FALSE /\ rewritten = FALSE /\ lost = {} /\ faults = MaxFaults

Fault == faults > 0 /\ faults' = faults - 1

-----------------------------------------------------------------------------
(* The batch stores *)

\* addNewRecord: n has moved bs by d
Enqueue(n, bs, d) ==
    queued' = [queued EXCEPT ![n] = [b \in Books |-> queued[n][b] + IF b \in bs \cap queues THEN d ELSE 0]]

Without(n, b, bs, amount) == IF b \in bs THEN amount - queued[n][b] ELSE amount
Emptied(n) == queued' = [queued EXCEPT ![n] = Nothing]
Lose(n, bs) ==
    /\ fund' = Without(n, "fund", bs, fund)
    /\ tok' = Without(n, "tok", bs, tok)
    /\ used' = Without(n, "used", bs, used)
    /\ lost' = lost \cup {b \in bs : queued[n][b] # 0}
    /\ Emptied(n)

\* batchUpdate takes the stores and writes them; what it cannot write is only logged:
\* the token, the channel, or the user, whose quota and usage are one UPDATE
Flush(n) ==
    /\ queued[n] # Nothing
    /\ \/ Emptied(n) /\ UNCHANGED <<fund, tok, used, lost, faults>>
       \/ Fault /\ \E bs \in {{"tok"}, {"used"}, {"fund", "used"}} : Lose(n, bs)
    /\ UNCHANGED <<row, fixed, late, channel, sub, work, silent, rewritten>>

-----------------------------------------------------------------------------
(* executeTaskSubmissionWith *)

\* an adaptor may answer at once with a final state; no settlement follows it
Insert(st) ==
    /\ sub = "reserved" /\ sub' = "inserted"
    /\ row' = [st |-> st, quota |-> Quota, fails |-> 0]
    /\ silent' = (st = "FAILURE")
    /\ UNCHANGED <<fixed, late, channel, books, work, rewritten, lost, faults>>

\* not durable: the deferred Billing.Refund
InsertFails ==
    /\ sub = "reserved" /\ Fault
    /\ sub' = "refused" /\ fund' = fund - (Quota + extra) /\ tok' = tok - (Quota + extra)
    /\ Enqueue(Relay, {"fund", "tok"}, 0 - (Quota + extra))
    /\ UNCHANGED <<row, fixed, late, channel, used, work, history>>

\* SettleBilling gives back what was reserved too much; workers may have the task
\* already.  An error ends the request: of the funding source, or of the token after it
Settle ==
    /\ sub = "inserted"
    /\ \/ /\ sub' = "settled" /\ fund' = fund - extra /\ tok' = tok - extra /\ UNCHANGED faults
          /\ Enqueue(Relay, {"fund", "tok"}, 0 - extra)
       \/ /\ extra > 0 /\ "fund" \notin queues /\ Fault
          /\ sub' = "unsettled" /\ UNCHANGED <<fund, tok, queued>>
       \/ /\ extra > 0 /\ "tok" \notin queues /\ Fault
          /\ sub' = "unlogged" /\ fund' = fund - extra /\ UNCHANGED <<tok, queued>>
    /\ UNCHANGED <<row, fixed, late, channel, used, work, history>>

\* LogTaskConsumption; a failed write is only logged
Log ==
    /\ sub = "settled" /\ sub' = "done"
    /\ \/ used' = used + Quota /\ Enqueue(Relay, {"used"}, Quota) /\ UNCHANGED faults
       \/ "used" \notin queues /\ Fault /\ UNCHANGED <<used, queued>>
    /\ UNCHANGED <<row, fixed, late, channel, fund, tok, work, history>>

\* the process dies; before the insert it leaves no task
RelayCrash ==
    /\ sub \notin {"reserved", "refused"} /\ Fault
    /\ sub \in {"inserted", "settled"} \/ queued[Relay] # Nothing
    /\ Lose(Relay, Books)
    /\ sub' = IF sub = "inserted" THEN "unsettled" ELSE IF sub = "settled" THEN "unlogged" ELSE sub
    /\ UNCHANGED <<row, fixed, late, channel, work, silent, rewritten>>

-----------------------------------------------------------------------------
(* What a worker reads and writes back *)

\* mutant: the compare-and-swap without its comparison
UnmovedAlways(w) == TRUE

\* UpdateWithStatus: every column of the copy, if the status is the one it read
Unmoved(w) == row.st = mem[w].st
Write(w, st, fails) == row' = [st |-> st, quota |-> mem[w].quota, fails |-> fails]

Idle(w) == pc' = [pc EXCEPT ![w] = "idle"] /\ mem' = [mem EXCEPT ![w] = NoTask]

\* GetAllUnFinishSyncTasks, GetTimedOutUnfinishedTasks
Read(w) ==
    /\ pc[w] = "idle" /\ row.st \in Open
    /\ \/ pc' = [pc EXCEPT ![w] = "poll"]
       \/ late /\ pc' = [pc EXCEPT ![w] = "sweep"]
    /\ mem' = [mem EXCEPT ![w] = row]
    /\ UNCHANGED <<row, fixed, late, channel, sub, books, goal, history, faults>>

\* the upstream reports progress
Progress(w, st) ==
    /\ pc[w] = "poll" /\ channel
    /\ IF Unmoved(w) THEN Write(w, st, 0) ELSE UNCHANGED row
    /\ Idle(w)
    /\ UNCHANGED <<fixed, late, channel, sub, books, goal, history, faults>>

\* mutant: the per-call short cut taken before the status is looked at
ChargesPerCallFirst(st) ==
    IF mode = "percall" THEN {Keep}
    ELSE IF st = "SUCCESS" THEN Actuals \cup {Keep}
    ELSE IF mode = "usage" THEN Actuals \cup {0} ELSE {0}

\* settleTaskBillingOnComplete and the refund of its callers: what the task will cost
Charges(st) ==
    IF st = "SUCCESS" THEN IF mode = "percall" THEN {Keep} ELSE Actuals \cup {Keep}
    ELSE IF mode = "usage" THEN Actuals \cup {0} ELSE {0}

\* mutant: the copy that is billed keeps the status it was read with
BillStaleCopy(w, st, c) ==
    IF c = Keep \/ c = mem[w].quota
    THEN Idle(w) /\ UNCHANGED goal
    ELSE /\ pc' = [pc EXCEPT ![w] = "fund"] /\ UNCHANGED mem
         /\ goal' = [goal EXCEPT ![w] = c]

\* a refund and a recalculation do the same to the stores in another order, and
\* neither does anything for a charge that is already right
Bill(w, st, c) ==
    IF c = Keep \/ c = mem[w].quota
    THEN Idle(w) /\ UNCHANGED goal
    ELSE /\ pc' = [pc EXCEPT ![w] = "fund"]
         /\ mem' = [mem EXCEPT ![w].st = st]
         /\ goal' = [goal EXCEPT ![w] = c]

Finish(w, st, c) ==
    \/ /\ Unmoved(w) /\ Write(w, st, mem[w].fails)
       /\ Bill(w, st, c)
    \/ /\ ~Unmoved(w) /\ Idle(w) /\ UNCHANGED <<row, goal>>

\* SUCCESS or FAILURE from the upstream, or 404 and 410 (failTaskFromPoll)
Complete(w, st, c) ==
    /\ pc[w] = "poll" /\ channel /\ c \in Charges(st)
    /\ Finish(w, st, c)
    /\ UNCHANGED <<fixed, late, channel, sub, books, history, faults>>

\* recordPollFailure, up to the limit
PollFails(w, c) ==
    /\ pc[w] = "poll" /\ channel /\ c \in Charges("FAILURE")
    /\ IF mem[w].fails + 1 >= MaxFailures
       THEN Finish(w, "FAILURE", c)
       ELSE /\ IF Unmoved(w) THEN Write(w, mem[w].st, mem[w].fails + 1) ELSE UNCHANGED row
            /\ Idle(w) /\ UNCHANGED goal
    /\ UNCHANGED <<fixed, late, channel, sub, books, history, faults>>

\* sweepTimedOutTasks; an old task is not refunded and its quota goes with the status
Sweep(w) ==
    /\ pc[w] = "sweep"
    /\ \/ ~legacy /\ Finish(w, "FAILURE", 0)
       \/ /\ legacy /\ Idle(w)
          /\ row' = IF Unmoved(w) THEN [st |-> "FAILURE", quota |-> 0, fails |-> mem[w].fails] ELSE row
          /\ UNCHANGED goal
    /\ UNCHANGED <<fixed, late, channel, sub, books, history, faults>>

\* the channel is gone: TaskBulkUpdateByID, whatever the status is by now
BulkFail(w) ==
    /\ pc[w] = "poll" /\ ~channel
    /\ row' = [row EXCEPT !.st = "FAILURE"]
    /\ silent' = TRUE
    /\ Idle(w)
    /\ UNCHANGED <<fixed, late, channel, sub, books, goal, rewritten, lost, faults>>

\* the context is cancelled, or the write fails
GiveUp(w) ==
    /\ pc[w] \in {"poll", "sweep", "fetch"}
    /\ Idle(w)
    /\ UNCHANGED <<row, fixed, late, channel, sub, books, goal, history, faults>>

-----------------------------------------------------------------------------
(* RefundTaskQuota and RecalculateTaskQuota *)

Delta(w) == goal[w] - mem[w].quota
Refunds(w) == mem[w].st = "FAILURE" /\ goal[w] = 0
To(w, stage) == pc' = [pc EXCEPT ![w] = stage] /\ UNCHANGED <<mem, goal>>

\* mutant: a failed funding write is logged and the rest goes on
AdjustFundingGoesOn(w) ==
    /\ pc[w] = "fund"
    /\ \/ fund' = fund + Delta(w) /\ Enqueue(w, {"fund"}, Delta(w)) /\ UNCHANGED faults
       \/ "fund" \notin queues /\ Fault /\ UNCHANGED <<fund, queued>>
    /\ To(w, "token")
    /\ UNCHANGED <<row, fixed, late, channel, sub, tok, used, history>>

\* taskAdjustFunding; when it fails, nothing else is done.  A queued move never fails
AdjustFunding(w) ==
    /\ pc[w] = "fund"
    /\ \/ fund' = fund + Delta(w) /\ Enqueue(w, {"fund"}, Delta(w)) /\ To(w, "token") /\ UNCHANGED faults
       \/ "fund" \notin queues /\ Fault /\ Idle(w) /\ UNCHANGED <<fund, queued, goal>>
    /\ UNCHANGED <<row, fixed, late, channel, sub, tok, used, history>>

\* taskAdjustTokenQuota; the token may not be found, and a failure is logged
AdjustToken(w) ==
    /\ pc[w] = "token"
    /\ \/ tok' = tok + Delta(w) /\ Enqueue(w, {"tok"}, Delta(w)) /\ UNCHANGED faults
       \/ Fault /\ UNCHANGED <<tok, queued>>
    /\ To(w, IF Refunds(w) THEN "used" ELSE "quota")
    /\ UNCHANGED <<row, fixed, late, channel, sub, fund, used, history>>

\* UpdateUserUsedQuota and UpdateChannelUsedQuota; a failure is logged
AdjustUsed(w) ==
    /\ pc[w] = "used"
    /\ \/ used' = used + Delta(w) /\ Enqueue(w, {"used"}, Delta(w)) /\ UNCHANGED faults
       \/ "used" \notin queues /\ Fault /\ UNCHANGED <<used, queued>>
    /\ IF Refunds(w) THEN To(w, "quota") ELSE Idle(w) /\ UNCHANGED goal
    /\ UNCHANGED <<row, fixed, late, channel, sub, fund, tok, history>>

\* mutant: the charge that was moved is not written back to the row
UpdateQuotaForgotten(w) ==
    /\ pc[w] = "quota"
    /\ IF Refunds(w) THEN Idle(w) /\ UNCHANGED goal ELSE To(w, "used")
    /\ UNCHANGED <<row, fixed, late, channel, sub, books, history, faults>>

\* UpdateQuota; a failure is logged
UpdateQuota(w) ==
    /\ pc[w] = "quota"
    /\ \/ row' = [row EXCEPT !.quota = goal[w]] /\ UNCHANGED faults
       \/ Fault /\ UNCHANGED row
    /\ IF Refunds(w) THEN Idle(w) /\ UNCHANGED goal ELSE To(w, "used")
    /\ UNCHANGED <<fixed, late, channel, sub, books, history>>

\* the process dies, with the copy of its worker and what it had queued
Crash(w) ==
    /\ pc[w] # "idle" \/ queued[w] # Nothing
    /\ Fault
    /\ Idle(w) /\ Lose(w, Books)
    /\ UNCHANGED <<row, fixed, late, channel, sub, goal, silent, rewritten>>

-----------------------------------------------------------------------------
(* tryRealtimeFetch: reads the task whatever its status and never bills;   *)
(* news of the progress alone are written back too                         *)

Fetch(f) ==
    /\ pc[f] = "idle" /\ row.st # "none"
    /\ pc' = [pc EXCEPT ![f] = "fetch"] /\ mem' = [mem EXCEPT ![f] = row]
    /\ UNCHANGED <<row, fixed, late, channel, sub, books, goal, history, faults>>

Fetched(f, st) ==
    /\ pc[f] = "fetch" /\ channel
    /\ \/ /\ Unmoved(f) /\ Write(f, st, mem[f].fails)
          /\ silent' = (silent \/ st \in Final)
          /\ rewritten' = (rewritten \/ mem[f].st \in Final)
          /\ UNCHANGED lost
       \/ (~Unmoved(f) \/ st = mem[f].st) /\ UNCHANGED <<row, history>>
    /\ Idle(f)
    /\ UNCHANGED <<fixed, late, channel, sub, books, goal, faults>>

-----------------------------------------------------------------------------
Deadline ==
    /\ ~late /\ late' = TRUE
    /\ UNCHANGED <<row, fixed, channel, sub, books, work, history, faults>>

ChannelDeleted ==
    /\ channel /\ channel' = FALSE
    /\ UNCHANGED <<row, fixed, late, sub, books, work, history, faults>>

PollerStep(w) ==
    \/ Read(w) \/ Sweep(w) \/ BulkFail(w)
    \/ \E st \in Open : Progress(w, st)
    \/ \E st \in Final, c \in Actuals \cup {0, Keep} : Complete(w, st, c)
    \/ \E c \in Actuals \cup {0} : PollFails(w, c)
    \/ AdjustFunding(w) \/ AdjustToken(w) \/ AdjustUsed(w) \/ UpdateQuota(w) \/ Crash(w)

Next ==
    \/ \E st \in {"QUEUED"} \cup Final : Insert(st)
    \/ InsertFails \/ Settle \/ Log \/ RelayCrash \/ Deadline \/ ChannelDeleted
    \/ \E w \in Pollers : PollerStep(w)
    \/ \E f \in Fetchers : Fetch(f) \/ (\E st \in Open \cup Final : Fetched(f, st))
    \/ \E w \in Workers : GiveUp(w)
    \/ \E n \in Processes : Flush(n)

Spec == Init /\ [][Next]_vars

-----------------------------------------------------------------------------
(* Properties *)

Row == [st : Open \cup Final \cup {"none"}, quota : Nat, fails : 0..MaxFailures]
Billing(w) == pc[w] \in {"fund", "token", "used", "quota"}

TaskType ==
    /\ row \in Row /\ mode \in {"tiered", "percall", "usage"} /\ extra \in {0, 1}
    /\ sub \in {"reserved", "refused", "inserted", "unsettled", "settled", "unlogged", "done"}
    /\ queues \in Deployments
FlagType ==
    /\ legacy \in BOOLEAN /\ late \in BOOLEAN /\ channel \in BOOLEAN
    /\ silent \in BOOLEAN /\ rewritten \in BOOLEAN /\ faults \in 0..MaxFaults
BooksType == fund \in Int /\ tok \in Int /\ used \in Int
QueueType ==
    /\ queued \in [Processes -> [Books -> Int]] /\ lost \subseteq queues
    /\ \A n \in Processes, b \in Books \ queues : queued[n][b] = 0
WorkType ==
    /\ pc \in [Workers -> {"idle", "poll", "sweep", "fetch", "fund", "token", "used", "quota"}]
    /\ mem \in [Workers -> Row] /\ goal \in [Workers -> Nat \cup {Keep}]

\* Type correctness; a worker bills only a final status and a definite charge, and a
\* subscription's money is never in a batch store.
TypeOK ==
    /\ TaskType /\ FlagType /\ BooksType /\ QueueType /\ WorkType
    /\ \A w \in Workers : Billing(w) => mem[w].st \in Final /\ goal[w] \in Nat

\* Nothing is under way, nothing failed, crashed or was lost, and no live query wrote
\* over a finished task.
Calm ==
    sub = "done" /\ faults = MaxFaults /\ lost = {} /\ ~rewritten /\ \A w \in Workers : pc[w] = "idle"

\* However polls, the timeout sweep, live queries and the submission overlap, a
\* task is never refunded more than it was charged: one caller wins the terminal
\* write of UpdateWithStatus, and a write that comes later finds another status.
\* Where wallets are batched, this is as long as no batch store loses a charge.
NeverRefundedTwice == ~rewritten /\ "fund" \notin lost => fund >= 0

\* Once the workers are done, funding, token and usage all come to the quota the
\* row records, whichever path finished the task and whatever is still queued.
BooksFollowRow == Calm /\ ~legacy => fund = row.quota /\ tok = row.quota /\ used = row.quota

\* A task that a poll or the timeout sweep failed costs nothing, unless its adaptor
\* charges for usage.
FailedTaskFree ==
    Calm /\ row.st = "FAILURE" /\ ~silent /\ ~legacy /\ mode # "usage" => fund = 0

\* RefundTaskQuota keeps the quota of a task it could not refund "for an explicit
\* retry or manual reconciliation": a failed task whose charge is neither given back
\* nor queued to be shows it in its row.  For a subscription and without batch updates
\* this is so after any failed write or crash; of a batched wallet only until a batch
\* store that holds money of this task is lost (RefundSurvives).
UnrefundedStaysVisible ==
    sub = "done" /\ row.st = "FAILURE" /\ ~legacy /\ ~rewritten /\ "fund" \notin lost /\ fund > 0
        => row.quota > 0

\* What the comment on RefundTaskQuota says without that exception.  It does not hold
\* (TaskRefundLost.cfg): the quota is cleared when the refund is queued, and the batch
\* store that holds the refund can be lost.
RefundSurvives ==
    sub = "done" /\ row.st = "FAILURE" /\ ~legacy /\ ~rewritten /\ fund > 0 => row.quota > 0
=============================================================================
