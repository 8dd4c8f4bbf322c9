------------------------------- MODULE SystemTask -------------------------------
(***************************************************************************)
(* System tasks of one type: model/system_task.go and the runner of        *)
(* service/system_task.go.                                                 *)
(*                                                                         *)
(* Every runner repeats one pass (stale locks, then a claim) and starts a  *)
(* handler with a heartbeat for a task it has claimed.  One statement is   *)
(* one step, and a process may stall or die between any two.  A statement  *)
(* compares locked_until with a clock that was read `age' ticks before, up *)
(* to MaxDelay.  Times are relative to the present: `left' is locked_until *)
(* minus now.  Payload, progress and result are left out.                  *)
(***************************************************************************)
EXTENDS Integers

CONSTANTS
    Tasks,      \* ids, in the order of creation
    KeyPlans,   \* the active keys tasks are created with: functions on Tasks
    Runners,    \* master nodes
    Nobody,
    TTL,        \* systemTaskLockTTL
    MaxDelay,   \* bound on the ticks between reading the clock and the statement
    MaxFaults   \* bound on crashes and failed statements

ASSUME SystemTaskAssumption ==
    /\ Tasks \subseteq Nat \ {0} /\ TTL \in Nat /\ MaxDelay \in Nat /\ MaxFaults \in Nat
    /\ MaxDelay <= TTL /\ Nobody \notin Runners

VARIABLES
    st, key, by,  \* system_tasks: status, active key, locked_by
    lock,         \* system_task_locks: the row of the type
    pass,         \* of a runner: where its pass is
    run,          \* of a task and a process: its handler
    botched,      \* history: a claim lost its lease, or died, half way
    faults

rows == <<st, key, by>>
vars == <<rows, lock, pass, run, botched, faults>>

NoLock == [task |-> 0, by |-> Nobody, left |-> 0]
At(pc, task, old, who, age) == [pc |-> pc, task |-> task, old |-> old, by |-> who, age |-> age]
Resting == At("idle", 0, 0, Nobody, 0)

Init ==
    /\ st = [t \in Tasks |-> "none"] /\ key \in KeyPlans /\ by = [t \in Tasks |-> Nobody]
    /\ lock = NoLock
    /\ pass = [r \in Runners |-> Resting]
    /\ run = [t \in Tasks |-> [p \in Runners |-> "off"]]
    /\ botched = FALSE /\ faults = MaxFaults

Ages == 0..MaxDelay
Fault == faults > 0 /\ faults' = faults - 1
IsActive(t) == st[t] \in {"pending", "running"}
Final(t) == st[t] \in {"succeeded", "failed"}

\* locked_until >= now and locked_until < now, for a clock read `age' ticks ago
Valid(age) == lock.task # 0 /\ lock.left >= -age
Lapsed(age) == lock.task # 0 /\ lock.left < -age
Locked(t, p) == lock.task = t /\ lock.by = p
Lease(t, p, age) == [task |-> t, by |-> p, left |-> TTL - age]

\* MarkSystemTaskLeaseExpired asks for the status and not for the lease
MarkExpired(t) == st' = IF st[t] = "running" THEN [st EXCEPT ![t] = "failed"] ELSE st

ReleaseLock(t, p) == lock' = IF Locked(t, p) THEN NoLock ELSE lock

-----------------------------------------------------------------------------
(* CreateSystemTaskWithActiveKey, for the scheduler and for requests: the      *)
(* unique index refuses a second active task of a key                          *)

Submit(t) ==
    /\ st[t] = "none" /\ \A u \in Tasks : u < t => st[u] # "none"
    /\ \A u \in Tasks : IsActive(u) => key[u] # key[t]
    /\ st' = [st EXCEPT ![t] = "pending"]
    /\ UNCHANGED <<key, by, lock, pass, run, botched, faults>>

-----------------------------------------------------------------------------
(* ExpireStaleSystemTaskLocks *)

Goto(r, pc) == pass' = [pass EXCEPT ![r] = At(pc, @.task, @.old, @.by, @.age)]
Locking(r, pc, old) == pass' = [pass EXCEPT ![r] = At(pc, @.task, old, @.by, 0)]
EndPass(r) == pass' = [pass EXCEPT ![r] = Resting]

\* mutant: the pass returns early when no task waits
ListStaleWhenBusy(r) ==
    /\ pass[r].pc = "idle" /\ Lapsed(0) /\ \E t \in Tasks : st[t] = "pending"
    /\ pass' = [pass EXCEPT ![r] = At("mark", lock.task, 0, lock.by, 0)]
    /\ UNCHANGED <<rows, lock, run, botched, faults>>

ListStale(r) ==
    /\ pass[r].pc = "idle" /\ Lapsed(0)
    /\ pass' = [pass EXCEPT ![r] = At("mark", lock.task, 0, lock.by, 0)]
    /\ UNCHANGED <<rows, lock, run, botched, faults>>

MarkStale(r) ==
    /\ pass[r].pc = "mark"
    /\ MarkExpired(pass[r].task) /\ Goto(r, "delete")
    /\ UNCHANGED <<key, by, lock, run, botched, faults>>

DeleteStale(r) ==
    /\ pass[r].pc = "delete" /\ EndPass(r)
    /\ lock' = IF Locked(pass[r].task, pass[r].by) /\ Lapsed(pass[r].age) THEN NoLock ELSE lock
    /\ UNCHANGED <<rows, run, botched, faults>>

-----------------------------------------------------------------------------
(* ClaimSystemTask *)

\* FindEarliestPendingSystemTasks
Pick(r) ==
    /\ pass[r].pc = "idle"
    /\ \E t \in Tasks :
          /\ st[t] = "pending" /\ \A u \in Tasks : u < t => st[u] # "pending"
          /\ pass' = [pass EXCEPT ![r] = At("create", t, 0, Nobody, 0)]
    /\ UNCHANGED <<rows, lock, run, botched, faults>>

\* acquireSystemTaskLock: an insert that fails is followed by a look at the lock
CreateLock(r) ==
    /\ pass[r].pc = "create"
    /\ \/ /\ lock = NoLock /\ lock' = Lease(pass[r].task, r, pass[r].age)
          /\ Locking(r, "start", 0) /\ UNCHANGED faults
       \/ /\ Lapsed(pass[r].age) /\ pass' = [pass EXCEPT ![r] = At("take", @.task, lock.task, @.by, @.age)]
          /\ UNCHANGED <<lock, faults>>
       \/ Valid(pass[r].age) /\ EndPass(r) /\ UNCHANGED <<lock, faults>>
       \/ lock = NoLock /\ Fault /\ EndPass(r) /\ UNCHANGED lock
    /\ UNCHANGED <<rows, run, botched>>

\* mutant: the task that had the lease is forgotten
TakeOverForgets(r) ==
    /\ pass[r].pc = "take"
    /\ \/ /\ Lapsed(pass[r].age) /\ lock' = Lease(pass[r].task, r, pass[r].age)
          /\ Locking(r, "start", 0)
       \/ ~Lapsed(pass[r].age) /\ EndPass(r) /\ UNCHANGED lock
    /\ UNCHANGED <<rows, run, botched, faults>>

\* the lease is moved first, and then the task that had it is failed
TakeOver(r) ==
    /\ pass[r].pc = "take"
    /\ \/ /\ Lapsed(pass[r].age) /\ lock' = Lease(pass[r].task, r, pass[r].age)
          /\ botched' = (botched \/ lock.task # pass[r].old)
          /\ IF pass[r].old = pass[r].task
             THEN Locking(r, "start", 0) ELSE Locking(r, "fail old", pass[r].old)
       \/ ~Lapsed(pass[r].age) /\ EndPass(r) /\ UNCHANGED <<lock, botched>>
    /\ UNCHANGED <<rows, run, faults>>

FailOld(r) ==
    /\ pass[r].pc = "fail old"
    /\ \/ MarkExpired(pass[r].old) /\ Locking(r, "start", 0) /\ UNCHANGED <<lock, botched, faults>>
       \/ /\ Fault /\ ReleaseLock(pass[r].task, r) /\ EndPass(r)
          /\ botched' = TRUE /\ UNCHANGED st
    /\ UNCHANGED <<key, by, run>>

\* mutant: locked_by is not written
StartAnonymous(r) ==
    /\ pass[r].pc = "start" /\ EndPass(r)
    /\ st' = [st EXCEPT ![pass[r].task] = "running"]
    /\ run' = [run EXCEPT ![pass[r].task][r] = "run"]
    /\ UNCHANGED <<key, by, lock, botched, faults>>

\* the row becomes running if it is still pending, is read again, and the handler
\* starts; when the second read fails, the lock is released and the row stays
Start(r) ==
    /\ pass[r].pc = "start"
    /\ LET t == pass[r].task IN
       \/ /\ st[t] = "pending"
          /\ st' = [st EXCEPT ![t] = "running"] /\ by' = [by EXCEPT ![t] = r]
          /\ botched' = (botched \/ ~(Locked(t, r) /\ Valid(0)))
          /\ \/ /\ run' = [run EXCEPT ![t][r] = "run"]
                /\ EndPass(r) /\ UNCHANGED faults
             \/ Fault /\ Goto(r, "undo") /\ UNCHANGED run
          /\ UNCHANGED lock
       \/ /\ st[t] # "pending" /\ ReleaseLock(t, r) /\ EndPass(r)
          /\ UNCHANGED <<st, by, run, botched, faults>>
       \/ /\ Fault /\ ReleaseLock(t, r) /\ EndPass(r)
          /\ UNCHANGED <<st, by, run, botched>>
    /\ UNCHANGED key

Undo(r) ==
    /\ pass[r].pc = "undo" /\ EndPass(r)
    /\ ReleaseLock(pass[r].task, r) /\ botched' = TRUE
    /\ UNCHANGED <<rows, run, faults>>

-----------------------------------------------------------------------------
(* runWithLeaseHeartbeat *)

\* RenewSystemTaskLock, while the handler runs.  The heartbeat may come late, or have
\* ended after an error that cancelled the handler's context: no renewal is certain.
Renew(t, p, age) ==
    /\ run[t][p] # "off" /\ Locked(t, p) /\ Valid(age)
    /\ lock' = Lease(t, p, age)
    /\ UNCHANGED <<rows, pass, run, botched, faults>>

Return(t, p) == run' = [run EXCEPT ![t][p] = "off"]

\* mutant: the row is asked, and the lease is not
HoldsByRow(t, p, age) == st[t] = "running" /\ by[t] = p

Holds(t, p, age) == st[t] = "running" /\ by[t] = p /\ Locked(t, p) /\ Valid(age)

\* UpdateSystemTaskState finds the lock lost: the handler leaves the task as it is
Abandon(t, p, age) ==
    /\ run[t][p] = "run" /\ ~Holds(t, p, age)
    /\ Return(t, p)
    /\ UNCHANGED <<rows, lock, pass, botched, faults>>

\* FinishSystemTask; when the lock is lost, the result is only logged
Finish(t, p, s, age) ==
    /\ run[t][p] = "run"
    /\ \/ /\ Holds(t, p, age)
          /\ st' = [st EXCEPT ![t] = s]
          /\ run' = [run EXCEPT ![t][p] = "release"]
       \/ ~Holds(t, p, age) /\ Return(t, p) /\ UNCHANGED st
    /\ UNCHANGED <<key, by, lock, pass, botched, faults>>

\* a state or result that could not be written, or a release that failed, is only logged
WriteFails(t, p) ==
    /\ run[t][p] \in {"run", "release"} /\ Fault
    /\ Return(t, p)
    /\ UNCHANGED <<rows, lock, pass, botched>>

Release(t, p) ==
    /\ run[t][p] = "release"
    /\ ReleaseLock(t, p) /\ Return(t, p)
    /\ UNCHANGED <<rows, pass, botched, faults>>

-----------------------------------------------------------------------------
\* a process dies, and another takes its place: nothing it did goes on
Crash(p) ==
    /\ Fault /\ (pass[p].pc # "idle" \/ \E t \in Tasks : run[t][p] # "off")
    /\ run' = [t \in Tasks |-> [run[t] EXCEPT ![p] = "off"]]
    /\ botched' = (botched \/ pass[p].pc = "fail old")
    /\ EndPass(p)
    /\ UNCHANGED <<rows, lock>>

\* time passes; how long a lease has lapsed matters up to MaxDelay, and a pass that
\* has read the clock uses it within MaxDelay ticks
Timed(r) == pass[r].pc \in {"mark", "delete", "create", "take"}
Tick ==
    /\ \A r \in Runners : Timed(r) => pass[r].age < MaxDelay
    /\ pass' = [r \in Runners |-> IF Timed(r) THEN [pass[r] EXCEPT !.age = @ + 1] ELSE pass[r]]
    /\ lock' = IF lock.task # 0 /\ lock.left >= -MaxDelay THEN [lock EXCEPT !.left = @ - 1] ELSE lock
    /\ UNCHANGED <<rows, run, botched, faults>>

PassStep(r) ==
    \/ ListStale(r) \/ MarkStale(r) \/ DeleteStale(r)
    \/ Pick(r) \/ CreateLock(r) \/ TakeOver(r) \/ FailOld(r) \/ Start(r) \/ Undo(r)

HandlerStep(t, p) ==
    \/ Release(t, p)
    \/ \E age \in Ages, s \in {"succeeded", "failed"} : Finish(t, p, s, age)

Next ==
    \/ Tick
    \/ \E t \in Tasks : Submit(t)
    \/ \E r \in Runners : PassStep(r)
    \/ \E t \in Tasks, p \in Runners :
          \/ HandlerStep(t, p) \/ WriteFails(t, p)
          \/ \E age \in Ages : Abandon(t, p, age) \/ Renew(t, p, age)
    \/ \E p \in Runners : Crash(p)

Spec == Init /\ [][Next]_vars

\* A runner's pass is driven by a ticker; handlers end (their requests have
\* deadlines); statements return; time passes.
Fairness ==
    /\ SF_vars(Tick)
    /\ \A r \in Runners : WF_vars(PassStep(r)) /\ WF_vars(\E t \in Tasks : HandlerStep(t, r))

LiveSpec == Spec /\ Fairness

-----------------------------------------------------------------------------
(* Properties *)

RowsType ==
    /\ st \in [Tasks -> {"none", "pending", "running", "succeeded", "failed"}]
    /\ key \in KeyPlans /\ by \in [Tasks -> Runners \cup {Nobody}]
LockType == lock \in [task : Tasks \cup {0}, by : Runners \cup {Nobody}, left : (-MaxDelay - 1)..TTL]
Pass == [pc : {"idle", "mark", "delete", "create", "take", "fail old", "start", "undo"},
         task : Tasks \cup {0}, old : Tasks \cup {0}, by : Runners \cup {Nobody}, age : Ages]
PassType == pass \in [Runners -> Pass]
RunType == run \in [Tasks -> [Runners -> {"off", "run", "release"}]]
FlagType == botched \in BOOLEAN /\ faults \in 0..MaxFaults

\* Type correctness; exactly the tasks that were started name a runner.
TypeOK ==
    /\ RowsType /\ LockType /\ PassType /\ RunType /\ FlagType
    /\ \A t \in Tasks : by[t] = Nobody <=> st[t] \in {"none", "pending"}

\* Somebody is about to fail task t.
BeingFailed(t) ==
    \E r \in Runners : pass[r].pc = "fail old" /\ pass[r].old = t

\* ExpireStaleSystemTaskLocks and ClaimSystemTask find a dead task only through its
\* lease.  Unless a claim broke off half way, every running task still has its
\* lease row, or the claim that took the row over is about to fail the task.
RunningIsCovered ==
    ~botched => \A t \in Tasks : st[t] = "running" => lock.task = t \/ BeingFailed(t)

\* Every task ends, whatever crashes and stalls meet its runner: a
\* dead handler's lease lapses, and a pass fails the task.  A broken-off claim is
\* the exception.
TasksEnd == \A t \in Tasks : IsActive(t) ~> (Final(t) \/ botched)

\* The task that has the turn: the lease names the task and the process on its row,
\* or a pending task that is being claimed.
Turn ==
    IF lock.task # 0 /\ (st[lock.task] = "pending" \/ by[lock.task] = lock.by)
    THEN lock.task ELSE 0

\* A handler that stalled past its lease never records a result once the lease has
\* moved on; a task starts once and ends once; a key has one active task.
Turns == INSTANCE SystemTaskTurns WITH turn <- Turn
ImplementsTurns == Turns!TurnSpec
=============================================================================
