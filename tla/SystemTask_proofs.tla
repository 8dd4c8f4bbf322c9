--------------------------- MODULE SystemTask_proofs ---------------------------
(***************************************************************************)
(* For any tasks, keys and runners: a running task can be found through    *)
(* its lease unless a claim broke off half way, and the statements on      *)
(* tasks and leases implement one turn at a time.                          *)
(***************************************************************************)
EXTENDS SystemTask, TLAPS

Claiming == {"create", "take", "fail old", "start"}

\* The lease row is absent or names a task that was submitted.
LockShape ==
    /\ lock.task = 0 => lock = NoLock
    /\ lock.task # 0 => st[lock.task] # "none"

\* A pass at work has a submitted task, knows whose lease it takes over, and has
\* not started the task it claims before.
PassShape(r) ==
    /\ pass[r].pc # "idle" => pass[r].task \in Tasks /\ st[pass[r].task] # "none"
    /\ pass[r].pc \in {"take", "fail old"} => pass[r].old \in Tasks
    /\ pass[r].pc \in Claiming => st[pass[r].task] = "pending" \/ by[pass[r].task] # r

\* A lease is released by its handler after the result was recorded.
ReleasesFollowResults ==
    \A t \in Tasks, p \in Runners : run[t][p] = "release" => Final(t)

\* Every running task has its lease row, or is about to be failed.
Covered == \A t \in Tasks : st[t] = "running" => lock.task = t \/ BeingFailed(t)

\* A pass that would delete or take over the lease of its own task does not find
\* that task running: a task starts under a lease that is valid by every clock.
LapsedIsNotRunning(r) ==
    pass[r].pc \in {"delete", "create", "take"} /\ lock.task = pass[r].task /\ Lapsed(pass[r].age)
    => st[pass[r].task] # "running"

\* A runner that has the lease and is about to start its task is the first to.
StartsOnce(r) ==
    pass[r].pc \in {"fail old", "start"} /\ Locked(pass[r].task, r)
    => st[pass[r].task] # "running" \/ BeingFailed(pass[r].task)

Sound(r) == LapsedIsNotRunning(r) /\ StartsOnce(r)

IInv ==
    /\ TypeOK /\ LockShape /\ ReleasesFollowResults /\ \A r \in Runners : PassShape(r)
    /\ ~botched => Covered /\ \A r \in Runners : Sound(r)

-----------------------------------------------------------------------------
\* Only r's pass moves.
Others(r) == \A q \in Runners : q # r => pass'[q] = pass[q]

\* No task starts, and none is forgotten.
NoStart ==
    /\ by' = by
    /\ \A t \in Tasks : /\ st[t] # "none" => st'[t] # "none"
                        /\ st[t] = "pending" => st'[t] = "pending"
                        /\ st'[t] = "running" => st[t] = "running"
                        /\ Final(t) => Final(t)'

\* The lease row stays, goes, or is given to r for as long as every clock agrees.
LockMoves(r) == lock' = lock \/ lock'.task = 0 \/ (lock'.by = r /\ lock'.left \in Nat)

\* A running task that loses its cover by a lease or a claim has another one.
CoverKept ==
    \A t \in Tasks : st'[t] = "running" =>
        /\ BeingFailed(t) => BeingFailed(t)'
        /\ lock.task = t => lock'.task = t \/ BeingFailed(t)'

\* The fields of a pass.
LEMMA PassFields ==
    ASSUME IInv, NEW r \in Runners
    PROVE  /\ pass[r] \in Pass /\ pass[r].age \in Ages /\ pass[r].age \in Nat
           /\ pass[r].age <= MaxDelay /\ pass[r].age <= TTL
           /\ pass[r].task \in Tasks \cup {0} /\ pass[r].old \in Tasks \cup {0}
           /\ pass[r].by \in Runners \cup {Nobody}
<1>1. PassType
  BY DEF IInv, TypeOK
<1>2. pass[r] \in Pass
  BY <1>1 DEF PassType
<1>3. /\ pass[r].age \in Ages /\ pass[r].task \in Tasks \cup {0} /\ pass[r].old \in Tasks \cup {0}
      /\ pass[r].by \in Runners \cup {Nobody}
  BY <1>2 DEF Pass
<1> QED
  BY <1>2, <1>3, SystemTaskAssumption DEF Ages

\* A pass goes to another place.
LEMMA PassMove ==
    ASSUME IInv, NEW r \in Runners, NEW x \in Pass, pass' = [pass EXCEPT ![r] = x]
    PROVE  PassType' /\ Others(r) /\ pass'[r] = x
  BY DEF IInv, TypeOK, PassType, Others

\* A clock that has just been read.
LEMMA FreshAge == 0 \in Ages /\ 0 \notin Tasks
  BY SystemTaskAssumption DEF Ages

\* What another pass relies on.
LEMMA OtherPass ==
    ASSUME IInv, NEW r, NoStart, NEW q \in Runners, pass'[q] = pass[q]
    PROVE  PassShape(q)'
  BY DEF IInv, PassShape, NoStart, Claiming

\* What another pass has read stays true while the lease moves for r.
LEMMA OtherSound ==
    ASSUME IInv, LockType', ~botched, NEW r, NoStart, LockMoves(r), CoverKept,
           NEW q \in Runners, q # r, pass'[q] = pass[q]
    PROVE  Sound(q)'
<1> USE DEF NoStart
<1>1. pass[q].age \in Nat
  BY PassFields
<1>a. PassShape(q) /\ Sound(q)
  BY DEF IInv
<1>b. Lapsed(pass[q].age)' => lock' = lock
  BY <1>1 DEF LockMoves, Lapsed
<1>2. LapsedIsNotRunning(q)'
  BY <1>a, <1>b DEF LapsedIsNotRunning, Sound, PassShape, Lapsed
<1>3. StartsOnce(q)'
  BY <1>a, SystemTaskAssumption DEF StartsOnce, Sound, PassShape, LockMoves, Locked, CoverKept
<1> QED
  BY <1>2, <1>3 DEF Sound

\* A step that starts nothing keeps the invariant if it is right for its own pass.
LEMMA StepKeeps ==
    ASSUME IInv, NEW r, TypeOK', LockShape', Others(r), NoStart, LockMoves(r),
           \A t \in Tasks, p \in Runners : run'[t][p] = "release" => run[t][p] = "release" \/ Final(t)',
           r \in Runners => PassShape(r)',
           ~botched' => ~botched /\ CoverKept /\ (r \in Runners => Sound(r)')
    PROVE  IInv'
<1>1. \A q \in Runners : PassShape(q)'
  BY OtherPass DEF Others
<1>2. ReleasesFollowResults'
  BY DEF IInv, ReleasesFollowResults, NoStart
<1>3. ASSUME ~botched' PROVE Covered'
  BY <1>3 DEF IInv, Covered, NoStart, CoverKept
<1>4. ASSUME ~botched', NEW q \in Runners PROVE Sound(q)'
  BY <1>4, OtherSound DEF Others, TypeOK
<1> QED
  BY <1>1, <1>2, <1>3, <1>4 DEF IInv

-----------------------------------------------------------------------------
\* Nothing happens to the tasks.
LEMMA SameRows == ASSUME UNCHANGED rows PROVE NoStart
  BY DEF rows, NoStart, Final

\* ListStale: what is listed is the task of the lease.
LEMMA ListStaleKeeps == ASSUME IInv, NEW r \in Runners, ListStale(r) PROVE IInv'
<1>1. lock.task \in Tasks /\ lock.by \in Runners \cup {Nobody} /\ st[lock.task] # "none"
  BY SystemTaskAssumption DEF ListStale, Lapsed, IInv, TypeOK, LockType, LockShape
<1>a. LET x == At("mark", lock.task, 0, lock.by, 0) IN
      x \in Pass /\ x.pc = "mark" /\ x.task = lock.task
  BY <1>1, FreshAge DEF At, Pass
<1>2. PassType' /\ Others(r) /\ pass'[r].pc = "mark" /\ pass'[r].task = lock.task
  BY <1>a, PassMove DEF ListStale
<1>3. PassShape(r)' /\ Sound(r)'
  BY <1>1, <1>2 DEF ListStale, rows, PassShape, Claiming, Sound, LapsedIsNotRunning, StartsOnce
<1>4. TypeOK' /\ LockShape'
  BY <1>2 DEF ListStale, rows, IInv, TypeOK, RowsType, LockType, RunType, FlagType, LockShape
<1>5. CoverKept
  BY <1>2, SystemTaskAssumption DEF ListStale, CoverKept, BeingFailed, Others
<1> QED
  BY <1>2, <1>3, <1>4, <1>5, SameRows, StepKeeps DEF ListStale, LockMoves

\* MarkExpired: a running task is failed and nothing else happens.
LEMMA MarkExpiredFacts ==
    ASSUME IInv, NEW t \in Tasks, MarkExpired(t), UNCHANGED <<key, by>>
    PROVE  /\ NoStart /\ RowsType' /\ st'[t] # "running"
           /\ \A u \in Tasks : by'[u] = Nobody <=> st'[u] \in {"none", "pending"}
           /\ \A u \in Tasks : st[u] # "none" => st'[u] # "none"
  BY DEF IInv, TypeOK, RowsType, MarkExpired, NoStart, Final

\* Failing a stale task keeps the invariant.
LEMMA MarkStaleKeeps == ASSUME IInv, NEW r \in Runners, MarkStale(r) PROVE IInv'
<1>a. LET x == At("delete", pass[r].task, pass[r].old, pass[r].by, pass[r].age) IN
      x \in Pass /\ x.pc = "delete" /\ x.task = pass[r].task
  BY PassFields DEF At, Pass
<1>1. PassType' /\ Others(r) /\ pass'[r].pc = "delete" /\ pass'[r].task = pass[r].task
  BY <1>a, PassMove DEF MarkStale, Goto
<1>2. pass[r].task \in Tasks /\ st[pass[r].task] # "none"
  BY DEF MarkStale, IInv, PassShape
<1>3. /\ NoStart /\ RowsType' /\ st'[pass[r].task] # "running"
      /\ \A u \in Tasks : by'[u] = Nobody <=> st'[u] \in {"none", "pending"}
      /\ \A u \in Tasks : st[u] # "none" => st'[u] # "none"
  BY <1>2, MarkExpiredFacts DEF MarkStale
<1>4. PassShape(r)' /\ Sound(r)'
  BY <1>1, <1>2, <1>3 DEF PassShape, Claiming, Sound, LapsedIsNotRunning, StartsOnce
<1>5. TypeOK' /\ LockShape'
  BY <1>1, <1>3 DEF MarkStale, IInv, TypeOK, LockType, RunType, FlagType, LockShape
<1>6. CoverKept
  BY <1>1, SystemTaskAssumption DEF MarkStale, CoverKept, BeingFailed, Others
<1> QED
  BY <1>1, <1>3, <1>4, <1>5, <1>6, StepKeeps DEF MarkStale, LockMoves

\* The end of a pass.
LEMMA EndPassFacts ==
    ASSUME IInv, NEW r \in Runners, EndPass(r)
    PROVE  PassType' /\ Others(r) /\ pass'[r].pc = "idle" /\ PassShape(r)' /\ Sound(r)'
<1>1. PassType' /\ Others(r) /\ pass'[r].pc = "idle"
  <2>1. Resting \in Pass /\ Resting.pc = "idle"
    BY FreshAge DEF Resting, At, Pass
  <2> QED
    BY <2>1, PassMove DEF EndPass
<1> QED
  BY <1>1 DEF PassShape, Claiming, Sound, LapsedIsNotRunning, StartsOnce

\* A lease that goes is not the only cover of a running task.
LeaseNotMissed(r) ==
    \A t \in Tasks : st[t] = "running" /\ lock.task = t
        => lock' = lock \/ \E q \in Runners \ {r} : pass[q].pc = "fail old" /\ pass[q].old = t
EndsSoundly(r) == ~botched' => ~botched /\ pass[r].pc # "fail old" /\ LeaseNotMissed(r)

\* A pass that ends, with the rows left alone and the lease kept or given back.
LEMMA EndsWell ==
    ASSUME IInv, NEW r \in Runners, EndPass(r), UNCHANGED <<rows, run>>, FlagType',
           lock' = lock \/ lock' = NoLock,
           EndsSoundly(r)
    PROVE  IInv'
<1>1. PassType' /\ Others(r) /\ pass'[r].pc = "idle" /\ PassShape(r)' /\ Sound(r)'
  BY EndPassFacts
<1>2. LockType' /\ LockMoves(r)
  BY SystemTaskAssumption DEF IInv, TypeOK, LockType, NoLock, LockMoves
<1>3. TypeOK' /\ LockShape'
  BY <1>1, <1>2 DEF rows, IInv, TypeOK, RowsType, RunType, LockShape, NoLock
<1>4. ASSUME pass[r].pc # "fail old", LeaseNotMissed(r) PROVE CoverKept
  <2> SUFFICES ASSUME NEW t \in Tasks, st'[t] = "running"
               PROVE  /\ BeingFailed(t) => BeingFailed(t)'
                      /\ lock.task = t => lock'.task = t \/ BeingFailed(t)'
    BY DEF CoverKept
  <2>1. ASSUME NEW q \in Runners, q # r, pass[q].pc = "fail old", pass[q].old = t PROVE BeingFailed(t)'
    BY <1>1, <2>1 DEF BeingFailed, Others
  <2>2. lock.task = t => lock' = lock \/ BeingFailed(t)'
    BY <1>4, <2>1 DEF LeaseNotMissed, rows
  <2> QED
    BY <1>4, <2>1, <2>2 DEF BeingFailed
<1> QED
  BY <1>1, <1>2, <1>3, <1>4, SameRows, StepKeeps DEF EndsSoundly

\* Deleting the stale lease keeps the invariant.
LEMMA DeleteStaleKeeps == ASSUME IInv, NEW r \in Runners, DeleteStale(r) PROVE IInv'
<1>1. FlagType'
  BY DEF DeleteStale, IInv, TypeOK, FlagType
<1>2. ASSUME ~botched, NEW t \in Tasks, st[t] = "running", lock.task = t PROVE lock' = lock
  BY <1>2 DEF DeleteStale, IInv, Sound, LapsedIsNotRunning, Locked
<1> QED
  BY <1>1, <1>2, EndsWell DEF DeleteStale, EndsSoundly, LeaseNotMissed

\* Picking a pending task keeps the invariant.
LEMMA PickKeeps == ASSUME IInv, NEW r \in Runners, Pick(r) PROVE IInv'
<1>1. PICK t \in Tasks : st[t] = "pending" /\ pass' = [pass EXCEPT ![r] = At("create", t, 0, Nobody, 0)]
  BY DEF Pick
<1>a. LET x == At("create", t, 0, Nobody, 0) IN x \in Pass /\ x.pc = "create" /\ x.task = t
  BY FreshAge DEF At, Pass
<1>2. PassType' /\ Others(r) /\ pass'[r].pc = "create" /\ pass'[r].task = t
  BY <1>1, <1>a, PassMove
<1>3. PassShape(r)' /\ Sound(r)'
  BY <1>1, <1>2 DEF Pick, rows, PassShape, Claiming, Sound, LapsedIsNotRunning, StartsOnce
<1>4. TypeOK' /\ LockShape'
  BY <1>2 DEF Pick, rows, IInv, TypeOK, RowsType, LockType, RunType, FlagType, LockShape
<1>5. CoverKept
  BY <1>2, SystemTaskAssumption DEF Pick, CoverKept, BeingFailed, Others
<1> QED
  BY <1>2, <1>3, <1>4, <1>5, SameRows, StepKeeps DEF Pick, LockMoves

\* A lease given at a clock reading that is not too old.
LEMMA LeaseFacts ==
    ASSUME NEW t \in Tasks, NEW p \in Runners, NEW a \in Ages, lock' = Lease(t, p, a)
    PROVE  LockType' /\ lock'.task = t /\ lock'.by = p /\ lock'.left \in Nat
<1>1. TTL - a \in 0..TTL /\ TTL - a \in (-MaxDelay - 1)..TTL
  BY SystemTaskAssumption DEF Ages
<1> QED
  BY <1>1 DEF Lease, LockType

\* A claim goes on to its next statement.
LEMMA LockingFacts ==
    ASSUME IInv, NEW r \in Runners, NEW l \in {"start", "fail old"}, NEW o \in Tasks \cup {0}, Locking(r, l, o)
    PROVE  /\ PassType' /\ Others(r) /\ pass'[r].pc = l /\ pass'[r].task = pass[r].task
           /\ pass'[r].old = o /\ pass'[r].age = 0
<1>1. LET x == At(l, pass[r].task, o, pass[r].by, 0) IN
      x \in Pass /\ x.pc = l /\ x.task = pass[r].task /\ x.old = o /\ x.age = 0
  BY FreshAge, PassFields DEF At, Pass
<1> QED
  BY <1>1, PassMove DEF Locking

\* What a claim knows of its task.
LEMMA ClaimFacts ==
    ASSUME IInv, NEW r \in Runners, pass[r].pc \in Claiming
    PROVE  /\ pass[r].task \in Tasks /\ pass[r].task # 0 /\ st[pass[r].task] # "none"
           /\ st[pass[r].task] = "pending" \/ by[pass[r].task] # r
           /\ pass[r].age \in Ages
           /\ pass[r].pc \in {"take", "fail old"} => pass[r].old \in Tasks
  BY PassFields, SystemTaskAssumption DEF IInv, PassShape, Claiming

\* Creating the lease row keeps the invariant.
LEMMA CreateLockKeeps == ASSUME IInv, NEW r \in Runners, CreateLock(r) PROVE IInv'
<1>t. PICK t \in Tasks : t = pass[r].task
  BY ClaimFacts DEF CreateLock, Claiming
<1>1. /\ t \in Tasks /\ t # 0 /\ st[t] # "none" /\ (st[t] = "pending" \/ by[t] # r)
      /\ pass[r].age \in Ages
  BY <1>t, ClaimFacts DEF CreateLock, Claiming
<1>2. NoStart /\ run' = run /\ botched' = botched /\ st' = st /\ by' = by
  BY SameRows DEF CreateLock, rows
<1>3. CASE lock = NoLock /\ lock' = Lease(t, r, pass[r].age) /\ Locking(r, "start", 0) /\ UNCHANGED faults
  <2>1. LockType' /\ lock'.task = t /\ lock'.by = r /\ lock'.left \in Nat
    BY <1>1, <1>3, LeaseFacts
  <2>2. PassType' /\ Others(r) /\ pass'[r].pc = "start" /\ pass'[r].task = t /\ pass'[r].age = 0
    BY <1>t, <1>3, LockingFacts
  <2>3. TypeOK' /\ LockShape'
    BY <1>1, <1>3, <2>1, <2>2 DEF CreateLock, rows, IInv, TypeOK, RowsType, RunType, FlagType, LockShape
  <2>4. PassShape(r)'
    BY <1>1, <1>2, <2>2 DEF PassShape, Claiming
  <2>5. CoverKept
    BY <1>3, <2>2, SystemTaskAssumption DEF CreateLock, CoverKept, BeingFailed, Others, NoLock
  <2>6. ASSUME ~botched PROVE Sound(r)'
    <3>1. st[t] # "running" \/ BeingFailed(t)
      BY <1>1, <1>3, <2>6 DEF IInv, Covered, NoLock
    <3>2. st'[t] # "running" \/ BeingFailed(t)'
      BY <1>1, <1>2, <2>5, <3>1 DEF CoverKept
    <3> QED
      BY <2>2, <3>2 DEF Sound, StartsOnce, LapsedIsNotRunning
  <2> QED
    BY <1>2, <2>1, <2>2, <2>3, <2>4, <2>5, <2>6, StepKeeps DEF LockMoves
<1>4. CASE /\ Lapsed(pass[r].age) /\ UNCHANGED <<lock, faults>>
           /\ pass' = [pass EXCEPT ![r] = At("take", @.task, lock.task, @.by, @.age)]
  <2>1. lock.task \in Tasks
    BY <1>4 DEF Lapsed, IInv, TypeOK, LockType
  <2>2. /\ PassType' /\ Others(r) /\ pass'[r].pc = "take" /\ pass'[r].task = t
        /\ pass'[r].old = lock.task /\ pass'[r].age = pass[r].age
    <3>1. LET x == At("take", t, lock.task, pass[r].by, pass[r].age) IN
          x \in Pass /\ x.pc = "take" /\ x.task = t /\ x.old = lock.task /\ x.age = pass[r].age
      BY <1>t, <2>1, PassFields DEF At, Pass
    <3> QED
      BY <1>t, <1>4, <3>1, PassMove
  <2>3. TypeOK' /\ LockShape'
    BY <1>4, <2>2 DEF CreateLock, rows, IInv, TypeOK, RowsType, LockType, RunType, FlagType, LockShape
  <2>4. PassShape(r)'
    BY <1>1, <1>2, <2>1, <2>2 DEF PassShape, Claiming
  <2>5. CoverKept
    BY <1>4, <2>2, SystemTaskAssumption DEF CreateLock, CoverKept, BeingFailed, Others
  <2>6. ASSUME ~botched PROVE Sound(r)'
    <3>1. LapsedIsNotRunning(r)
      BY <2>6 DEF IInv, Sound
    <3> QED
      BY <1>t, <1>2, <1>4, <2>2, <3>1 DEF CreateLock, Sound, StartsOnce, LapsedIsNotRunning, Lapsed
  <2> QED
    BY <1>2, <1>4, <2>2, <2>3, <2>4, <2>5, <2>6, StepKeeps DEF LockMoves
<1>5. CASE EndPass(r) /\ UNCHANGED lock /\ (UNCHANGED faults \/ Fault)
  <2>1. FlagType'
    BY <1>5, SystemTaskAssumption DEF CreateLock, Fault, IInv, TypeOK, FlagType
  <2> QED
    BY <1>5, <2>1, EndsWell DEF CreateLock, EndsSoundly, LeaseNotMissed
<1> QED
  BY <1>t, <1>3, <1>4, <1>5 DEF CreateLock

\* TakeOver: the lease is moved to r, for the task it claims; the task that had it
\* is r's own and not running, or is failed next.
LEMMA TakeOverKeeps == ASSUME IInv, NEW r \in Runners, TakeOver(r) PROVE IInv'
<1>t. PICK t \in Tasks : t = pass[r].task
  BY ClaimFacts DEF TakeOver, Claiming
<1>o. PICK o \in Tasks : o = pass[r].old
  BY ClaimFacts DEF TakeOver, Claiming
<1>1. /\ t # 0 /\ st[t] # "none" /\ (st[t] = "pending" \/ by[t] # r) /\ pass[r].age \in Ages
  BY <1>t, ClaimFacts DEF TakeOver, Claiming
<1>2. NoStart /\ run' = run /\ st' = st /\ by' = by
  BY SameRows DEF TakeOver, rows
<1>3. CASE /\ Lapsed(pass[r].age) /\ lock' = Lease(t, r, pass[r].age)
           /\ botched' = (botched \/ lock.task # o)
           /\ IF o = t THEN Locking(r, "start", 0) ELSE Locking(r, "fail old", o)
  <2> DEFINE l == IF o = t THEN "start" ELSE "fail old"
             n == IF o = t THEN 0 ELSE o
  <2>1. LockType' /\ lock'.task = t /\ lock'.by = r /\ lock'.left \in Nat
    BY <1>1, <1>3, LeaseFacts
  <2>2. /\ PassType' /\ Others(r) /\ pass'[r].pc = l /\ pass'[r].task = t
        /\ pass'[r].old = n /\ pass'[r].age = 0
    BY <1>t, <1>3, LockingFacts
  <2>3. FlagType'
    BY <1>3 DEF TakeOver, IInv, TypeOK, FlagType
  <2>4. TypeOK' /\ LockShape'
    BY <1>1, <2>1, <2>2, <2>3 DEF TakeOver, rows, IInv, TypeOK, RowsType, RunType, LockShape
  <2>5. PassShape(r)'
    BY <1>1, <1>2, <2>2 DEF PassShape, Claiming
  <2>6. ASSUME ~botched' PROVE ~botched /\ lock.task = o
    BY <1>3, <2>6 DEF IInv, TypeOK, FlagType
  <2>7. ASSUME ~botched' PROVE CoverKept
    <3> SUFFICES ASSUME NEW u \in Tasks, st'[u] = "running"
                 PROVE  /\ BeingFailed(u) => BeingFailed(u)'
                        /\ lock.task = u => lock'.task = u \/ BeingFailed(u)'
      BY DEF CoverKept
    <3>1. BeingFailed(u) => BeingFailed(u)'
      BY <2>2 DEF BeingFailed, Others, TakeOver
    <3>2. ASSUME o # t PROVE BeingFailed(o)'
      BY <2>2, <3>2 DEF BeingFailed
    <3> QED
      BY <2>1, <2>6, <2>7, <3>1, <3>2
  <2>8. ASSUME ~botched' PROVE Sound(r)'
    <3>1. CASE o = t
      <4>1. st[t] # "running"
        BY <1>t, <1>3, <2>6, <2>8, <3>1 DEF TakeOver, IInv, Sound, LapsedIsNotRunning
      <4> QED
        BY <1>2, <2>2, <3>1, <4>1 DEF Sound, StartsOnce, LapsedIsNotRunning
    <3>2. CASE o # t
      <4>1. st[t] # "running" \/ BeingFailed(t)
        BY <2>6, <2>8, <3>2 DEF IInv, Covered
      <4>2. st'[t] # "running" \/ BeingFailed(t)'
        BY <1>2, <2>7, <2>8, <4>1 DEF CoverKept
      <4> QED
        BY <2>2, <3>2, <4>2 DEF Sound, StartsOnce, LapsedIsNotRunning
    <3> QED
      BY <3>1, <3>2
  <2> QED
    BY <1>2, <2>1, <2>2, <2>4, <2>5, <2>6, <2>7, <2>8, StepKeeps DEF LockMoves
<1>4. CASE EndPass(r) /\ UNCHANGED <<lock, botched>>
  <2>1. FlagType'
    BY <1>4 DEF TakeOver, IInv, TypeOK, FlagType
  <2> QED
    BY <1>4, <2>1, EndsWell DEF TakeOver, EndsSoundly, LeaseNotMissed
<1> QED
  BY <1>t, <1>o, <1>3, <1>4 DEF TakeOver

\* FailOld: the task that had the lease is failed.
LEMMA FailOldKeeps == ASSUME IInv, NEW r \in Runners, FailOld(r) PROVE IInv'
<1>t. PICK t \in Tasks : t = pass[r].task
  BY ClaimFacts DEF FailOld, Claiming
<1>o. PICK o \in Tasks : o = pass[r].old
  BY ClaimFacts DEF FailOld, Claiming
<1>1. /\ t # 0 /\ st[t] # "none" /\ (st[t] = "pending" \/ by[t] # r) /\ pass[r].age \in Ages
  BY <1>t, ClaimFacts DEF FailOld, Claiming
<1>2. CASE MarkExpired(o) /\ Locking(r, "start", 0) /\ UNCHANGED <<lock, botched, faults>>
  <2>1. /\ NoStart /\ RowsType' /\ st'[o] # "running"
        /\ \A u \in Tasks : by'[u] = Nobody <=> st'[u] \in {"none", "pending"}
        /\ \A u \in Tasks : st[u] # "none" => st'[u] # "none"
    BY <1>2, MarkExpiredFacts DEF FailOld
  <2>2. /\ PassType' /\ Others(r) /\ pass'[r].pc = "start" /\ pass'[r].task = t
        /\ pass'[r].old = 0 /\ pass'[r].age = 0
    BY <1>t, <1>2, LockingFacts
  <2>3. TypeOK' /\ LockShape'
    BY <1>2, <2>1, <2>2 DEF FailOld, IInv, TypeOK, LockType, RunType, FlagType, LockShape
  <2>4. PassShape(r)'
    BY <1>1, <2>1, <2>2 DEF PassShape, Claiming, NoStart
  <2>5. CoverKept
    <3> SUFFICES ASSUME NEW u \in Tasks, st'[u] = "running"
                 PROVE  /\ BeingFailed(u) => BeingFailed(u)'
                        /\ lock.task = u => lock'.task = u \/ BeingFailed(u)'
      BY DEF CoverKept
    <3>1. u # o
      BY <2>1
    <3> QED
      BY <1>o, <1>2, <2>2, <3>1 DEF BeingFailed, Others
  <2>6. ASSUME ~botched PROVE Sound(r)'
    <3>1. StartsOnce(r)
      BY <2>6 DEF IInv, Sound
    <3>2. Locked(t, r) => st[t] # "running" \/ BeingFailed(t)
      BY <1>t, <3>1 DEF FailOld, StartsOnce
    <3>3. Locked(t, r) => st'[t] # "running" \/ BeingFailed(t)'
      BY <2>1, <2>5, <3>2 DEF CoverKept, NoStart
    <3> QED
      BY <1>2, <2>2, <3>3 DEF Sound, StartsOnce, LapsedIsNotRunning, Locked
  <2> QED
    BY <1>2, <2>1, <2>2, <2>3, <2>4, <2>5, <2>6, StepKeeps DEF FailOld, LockMoves
<1>3. CASE Fault /\ ReleaseLock(t, r) /\ EndPass(r) /\ botched' = TRUE /\ UNCHANGED st
  <2>1. FlagType'
    BY <1>3, SystemTaskAssumption DEF Fault, IInv, TypeOK, FlagType
  <2> QED
    BY <1>3, <2>1, EndsWell DEF FailOld, EndsSoundly, ReleaseLock, rows
<1> QED
  BY <1>t, <1>o, <1>2, <1>3 DEF FailOld

\* Undo: the claim is broken off.
LEMMA UndoKeeps == ASSUME IInv, NEW r \in Runners, Undo(r) PROVE IInv'
<1>1. FlagType'
  BY DEF Undo, IInv, TypeOK, FlagType
<1> QED
  BY <1>1, EndsWell DEF Undo, EndsSoundly, ReleaseLock

\* Start: a task starts once, under a lease that is valid by every clock; otherwise
\* the claim was botched, or it ends and gives its lease back.
LEMMA StartKeeps == ASSUME IInv, NEW r \in Runners, Start(r) PROVE IInv'
<1>t. PICK t \in Tasks : t = pass[r].task
  BY ClaimFacts DEF Start, Claiming
<1>1. /\ t # 0 /\ st[t] # "none" /\ (st[t] = "pending" \/ by[t] # r) /\ pass[r].age \in Ages
      /\ pass[r].pc = "start"
  BY <1>t, ClaimFacts DEF Start, Claiming
<1>2. CASE /\ st[t] = "pending"
           /\ st' = [st EXCEPT ![t] = "running"] /\ by' = [by EXCEPT ![t] = r]
           /\ botched' = (botched \/ ~(Locked(t, r) /\ Valid(0)))
           /\ \/ /\ run' = [run EXCEPT ![t][r] = "run"]
                 /\ EndPass(r) /\ UNCHANGED faults
              \/ Fault /\ Goto(r, "undo") /\ UNCHANGED run
           /\ UNCHANGED lock
  <2>1. /\ PassType' /\ Others(r) /\ pass'[r].pc \in {"idle", "undo"}
        /\ pass'[r].pc = "undo" => pass'[r].task = t
    <3>1. LET x == At("undo", t, pass[r].old, pass[r].by, pass[r].age) IN
          x \in Pass /\ x.pc = "undo" /\ x.task = t
      BY PassFields DEF At, Pass
    <3> QED
      BY <1>t, <1>2, <3>1, PassMove, EndPassFacts DEF Goto
  <2>2. RowsType' /\ \A u \in Tasks : by'[u] = Nobody <=> st'[u] \in {"none", "pending"}
    BY <1>2, SystemTaskAssumption DEF Start, IInv, TypeOK, RowsType
  <2>3. RunType'
    BY <1>2 DEF IInv, TypeOK, RunType
  <2>4. FlagType'
    BY <1>2, SystemTaskAssumption DEF Fault, IInv, TypeOK, FlagType
  <2>5. \A u \in Tasks : u # t => st'[u] = st[u] /\ by'[u] = by[u]
    BY <1>2 DEF IInv, TypeOK, RowsType
  <2>6. st'[t] = "running" /\ by'[t] = r
    BY <1>2 DEF IInv, TypeOK, RowsType
  <2>7. TypeOK' /\ LockShape'
    <3>1. LockType /\ LockShape /\ lock' = lock
      BY <1>2 DEF IInv, TypeOK
    <3> QED
      BY <2>1, <2>2, <2>3, <2>4, <2>5, <2>6, <3>1 DEF TypeOK, LockType, LockShape
  <2>8. \A q \in Runners : PassShape(q)'
    <3> SUFFICES ASSUME NEW q \in Runners PROVE PassShape(q)'
      OBVIOUS
    <3>1. CASE q = r
      BY <2>1, <2>6, <3>1 DEF PassShape, Claiming
    <3>2. CASE q # r
      <4>1. PassShape(q) /\ pass'[q] = pass[q]
        BY <2>1, <3>2 DEF IInv, Others
      <4> QED
        BY <2>5, <2>6, <3>2, <4>1 DEF PassShape, Claiming
    <3> QED
      BY <3>1, <3>2
  <2>9. ReleasesFollowResults'
    <3>1. ASSUME NEW u \in Tasks, NEW p \in Runners, run'[u][p] = "release" PROVE run[u][p] = "release"
      BY <1>2, <3>1 DEF IInv, TypeOK, RunType
    <3> QED
      BY <1>2, <2>5, <3>1 DEF IInv, ReleasesFollowResults, Final
  <2>10. ASSUME ~botched' PROVE ~botched /\ lock.task = t /\ lock.by = r /\ lock.left >= 0 /\ lock' = lock
    <3>1. ~botched /\ Locked(t, r) /\ Valid(0) /\ lock' = lock
      BY <1>2, <2>10
    <3>2. lock.left \in Int
      BY SystemTaskAssumption DEF IInv, TypeOK, LockType
    <3> QED
      BY <3>1, <3>2 DEF Locked, Valid
  <2>11. ASSUME ~botched' PROVE Covered'
    <3> SUFFICES ASSUME NEW u \in Tasks, st'[u] = "running", u # t PROVE BeingFailed(u)'
      BY <2>10, <2>11 DEF Covered
    <3>1. BeingFailed(u)
      BY <2>5, <2>10, <2>11 DEF IInv, Covered
    <3> QED
      BY <1>1, <2>1, <3>1 DEF BeingFailed, Others
  <2>12. ASSUME ~botched', NEW q \in Runners PROVE Sound(q)'
    <3>1. LapsedIsNotRunning(q)'
      <4>1. CASE q = r
        BY <2>1, <4>1 DEF LapsedIsNotRunning
      <4>2. CASE q # r
        <5>1. pass'[q] = pass[q] /\ pass[q].age \in Nat /\ lock.left \in Int
          BY <2>1, <4>2, PassFields, SystemTaskAssumption DEF Others, IInv, TypeOK, LockType
        <5> QED
          BY <2>10, <2>12, <5>1 DEF LapsedIsNotRunning, Lapsed
      <4> QED
        BY <4>1, <4>2
    <3>2. StartsOnce(q)'
      BY <2>1, <2>10, <2>12 DEF StartsOnce, Locked
    <3> QED
      BY <3>1, <3>2 DEF Sound
  <2> QED
    BY <2>7, <2>8, <2>9, <2>11, <2>12 DEF IInv
<1>3. CASE ReleaseLock(t, r) /\ EndPass(r) /\ UNCHANGED <<st, by, run, botched>> /\ (UNCHANGED faults \/ Fault)
  <2>1. FlagType'
    BY <1>3, SystemTaskAssumption DEF Fault, IInv, TypeOK, FlagType
  <2>2. UNCHANGED <<rows, run>>
    BY <1>3 DEF Start, rows
  <2>3. ASSUME ~botched, NEW u \in Tasks, st[u] = "running", lock.task = u, lock' # lock
        PROVE  \E q \in Runners \ {r} : pass[q].pc = "fail old" /\ pass[q].old = u
    <3>1. Locked(t, r) /\ u = t
      BY <1>3, <2>3 DEF ReleaseLock, Locked
    <3>2. BeingFailed(u)
      BY <1>1, <1>t, <2>3, <3>1 DEF IInv, Sound, StartsOnce
    <3> QED
      BY <1>1, <3>2 DEF BeingFailed
  <2> QED
    BY <1>1, <1>3, <2>1, <2>2, <2>3, EndsWell DEF EndsSoundly, LeaseNotMissed, ReleaseLock
<1> QED
  BY <1>t, <1>2, <1>3 DEF Start

-----------------------------------------------------------------------------
\* A step that no pass takes, and that moves no lease.
LEMMA QuietKeeps ==
    ASSUME IInv, TypeOK', LockShape', UNCHANGED <<pass, botched>>, NoStart,
           lock' = lock \/ lock' = NoLock,
           \A t \in Tasks, p \in Runners : run'[t][p] = "release" => run[t][p] = "release" \/ Final(t)',
           ~botched => CoverKept
    PROVE  IInv'
<1>1. Others(Nobody) /\ LockMoves(Nobody) /\ Nobody \notin Runners
  BY SystemTaskAssumption DEF Others, LockMoves, NoLock
<1> QED
  BY <1>1, StepKeeps

\* A handler ends without a result.
LEMMA ReturnFacts ==
    ASSUME IInv, NEW t \in Tasks, NEW p \in Runners, Return(t, p)
    PROVE  /\ RunType'
           /\ \A u \in Tasks, q \in Runners : run'[u][q] = "release" => run[u][q] = "release"
  BY DEF IInv, TypeOK, RunType, Return

\* A handler that returns without recording anything keeps the invariant.
LEMMA AbandonKeeps ==
    ASSUME IInv, NEW t \in Tasks, NEW p \in Runners, Return(t, p), UNCHANGED <<rows, lock, pass, botched>>, FlagType'
    PROVE  IInv'
<1>1. TypeOK' /\ LockShape'
  BY ReturnFacts DEF rows, IInv, TypeOK, RowsType, LockType, PassType, LockShape
<1>2. CoverKept
  BY DEF CoverKept, BeingFailed
<1> QED
  BY <1>1, <1>2, ReturnFacts, SameRows, QuietKeeps

\* FinishSystemTask keeps the invariant, with the lease still held or not.
LEMMA FinishKeeps ==
    ASSUME IInv, NEW t \in Tasks, NEW p \in Runners, NEW s \in {"succeeded", "failed"}, NEW a \in Ages, Finish(t, p, s, a)
    PROVE  IInv'
<1>1. CASE Holds(t, p, a) /\ st' = [st EXCEPT ![t] = s] /\ run' = [run EXCEPT ![t][p] = "release"]
  <2>1. st[t] = "running"
    BY <1>1 DEF Holds
  <2>2. /\ RowsType' /\ NoStart /\ Final(t)'
        /\ \A u \in Tasks : by'[u] = Nobody <=> st'[u] \in {"none", "pending"}
        /\ \A u \in Tasks : st[u] # "none" => st'[u] # "none"
    BY <1>1, <2>1 DEF Finish, IInv, TypeOK, RowsType, NoStart, Final
  <2>3. /\ RunType'
        /\ \A u \in Tasks, q \in Runners : run'[u][q] = "release" => run[u][q] = "release" \/ u = t
    BY <1>1 DEF IInv, TypeOK, RunType
  <2>4. TypeOK' /\ LockShape'
    BY <2>2, <2>3 DEF Finish, IInv, TypeOK, LockType, PassType, FlagType, LockShape
  <2>5. CoverKept
    BY DEF Finish, CoverKept, BeingFailed
  <2> QED
    BY <2>2, <2>3, <2>4, <2>5, QuietKeeps DEF Finish
<1>2. CASE Return(t, p) /\ UNCHANGED st
  <2>1. FlagType'
    BY DEF Finish, IInv, TypeOK, FlagType
  <2> QED
    BY <1>2, <2>1, AbandonKeeps DEF Finish, rows
<1> QED
  BY <1>1, <1>2 DEF Finish

\* Giving the lease back keeps the invariant.
LEMMA ReleaseKeeps == ASSUME IInv, NEW t \in Tasks, NEW p \in Runners, Release(t, p) PROVE IInv'
<1>1. (lock' = lock \/ lock' = NoLock) /\ LockType'
  BY SystemTaskAssumption DEF Release, ReleaseLock, IInv, TypeOK, LockType, NoLock
<1>2. RunType' /\ \A u \in Tasks, q \in Runners : run'[u][q] = "release" => run[u][q] = "release"
  BY ReturnFacts DEF Release
<1>3. TypeOK' /\ LockShape'
  BY <1>1, <1>2 DEF Release, rows, IInv, TypeOK, RowsType, PassType, FlagType, LockShape, NoLock
<1>4. Final(t)
  BY DEF Release, IInv, ReleasesFollowResults
<1>5. CoverKept
  BY <1>4 DEF Release, rows, ReleaseLock, Locked, CoverKept, BeingFailed, Final
<1> QED
  BY <1>1, <1>2, <1>3, <1>5, SameRows, QuietKeeps DEF Release

\* A heartbeat keeps the invariant.
LEMMA RenewKeeps == ASSUME IInv, NEW t \in Tasks, NEW p \in Runners, NEW a \in Ages, Renew(t, p, a) PROVE IInv'
<1>1. LockType' /\ lock'.task = t /\ lock'.by = p /\ lock'.left \in Nat
  BY LeaseFacts DEF Renew
<1>2. lock.task = t /\ lock.by = p /\ t # 0
  BY SystemTaskAssumption DEF Renew, Locked
<1>3. TypeOK' /\ LockShape'
  BY <1>1, <1>2 DEF Renew, rows, IInv, TypeOK, RowsType, PassType, RunType, FlagType, LockShape
<1>4. CoverKept
  BY <1>1, <1>2 DEF Renew, CoverKept, BeingFailed
<1>5. NoStart /\ LockMoves(p) /\ Others(p) /\ botched' = botched /\ run' = run
  BY <1>1, SameRows DEF Renew, LockMoves, Others
<1>6. PassShape(p)'
  BY <1>5, OtherPass DEF Renew
<1>7. ASSUME ~botched PROVE Sound(p)'
  <2>1. Sound(p) /\ PassShape(p) /\ pass[p].age \in Nat /\ pass' = pass /\ st' = st
    BY <1>7, PassFields DEF IInv, Renew, rows
  <2>2. LapsedIsNotRunning(p)'
    BY <1>1, <2>1 DEF LapsedIsNotRunning, Lapsed
  <2>3. StartsOnce(p)'
    BY <1>1, <1>2, <2>1 DEF Sound, StartsOnce, Locked, BeingFailed
  <2> QED
    BY <2>2, <2>3 DEF Sound
<1> QED
  BY <1>3, <1>4, <1>5, <1>6, <1>7, StepKeeps

\* A failed write, of the result or of the release, keeps the invariant.
LEMMA WriteFailsKeeps == ASSUME IInv, NEW t \in Tasks, NEW p \in Runners, WriteFails(t, p) PROVE IInv'
<1>1. FlagType'
  BY SystemTaskAssumption DEF WriteFails, Fault, IInv, TypeOK, FlagType
<1> QED
  BY <1>1, AbandonKeeps DEF WriteFails

\* The death of a runner keeps the invariant.
LEMMA CrashKeeps == ASSUME IInv, NEW p \in Runners, Crash(p) PROVE IInv'
<1>1. PassType' /\ Others(p) /\ pass'[p].pc = "idle" /\ PassShape(p)' /\ Sound(p)'
  BY EndPassFacts DEF Crash
<1>2. /\ RunType'
      /\ \A u \in Tasks, q \in Runners : run'[u][q] = "release" => run[u][q] = "release"
  BY DEF Crash, IInv, TypeOK, RunType
<1>3. FlagType'
  <2>1. faults' \in 0..MaxFaults
    <3>1. faults \in 0..MaxFaults /\ faults > 0 /\ faults' = faults - 1
      BY DEF Crash, Fault, IInv, TypeOK, FlagType
    <3> QED
      BY <3>1, SystemTaskAssumption
  <2>2. botched' \in BOOLEAN
    BY DEF Crash
  <2> QED
    BY <2>1, <2>2 DEF FlagType
<1>4. TypeOK' /\ LockShape'
  BY <1>1, <1>2, <1>3 DEF Crash, rows, IInv, TypeOK, RowsType, LockType, LockShape
<1>5. ASSUME pass[p].pc # "fail old" PROVE CoverKept
  BY <1>1, <1>5 DEF Crash, CoverKept, BeingFailed, Others
<1>6. ~botched' => ~botched /\ pass[p].pc # "fail old"
  BY DEF Crash, IInv, TypeOK, FlagType
<1>7. NoStart /\ LockMoves(p)
  BY SameRows DEF Crash, LockMoves
<1> QED
  BY <1>1, <1>2, <1>4, <1>5, <1>6, <1>7, StepKeeps

\* Creating a task keeps the invariant.
LEMMA SubmitKeeps == ASSUME IInv, NEW t \in Tasks, Submit(t) PROVE IInv'
<1>1. /\ RowsType' /\ NoStart
      /\ \A u \in Tasks : by'[u] = Nobody <=> st'[u] \in {"none", "pending"}
      /\ \A u \in Tasks : st[u] # "none" => st'[u] # "none"
  BY DEF Submit, IInv, TypeOK, RowsType, NoStart, Final
<1>2. TypeOK' /\ LockShape'
  BY <1>1 DEF Submit, IInv, TypeOK, LockType, PassType, RunType, FlagType, LockShape
<1>3. CoverKept
  BY DEF Submit, CoverKept, BeingFailed
<1> QED
  BY <1>1, <1>2, <1>3, QuietKeeps DEF Submit

\* Tick: a clock reading ages as fast as a lease does.
LEMMA TickKeeps == ASSUME IInv, Tick PROVE IInv'
<1>1. ASSUME NEW q \in Runners
      PROVE  /\ pass'[q] \in Pass /\ pass'[q].pc = pass[q].pc /\ pass'[q].task = pass[q].task
             /\ pass'[q].old = pass[q].old
             /\ Timed(q) => pass'[q].age = pass[q].age + 1 /\ pass[q].age < MaxDelay
  <2>1. pass[q] \in Pass /\ pass[q].age \in Nat
    BY PassFields
  <2>2. CASE Timed(q)
    <3>1. pass'[q] = [pass[q] EXCEPT !.age = @ + 1] /\ pass[q].age < MaxDelay
      BY <2>2 DEF Tick
    <3>2. pass[q].age + 1 \in Ages
      BY <2>1, <3>1, SystemTaskAssumption DEF Ages
    <3> QED
      BY <2>1, <3>1, <3>2 DEF Pass
  <2>3. CASE ~Timed(q)
    BY <2>1, <2>3 DEF Tick
  <2> QED
    BY <2>2, <2>3
<1>2. PassType'
  BY <1>1 DEF Tick, PassType
<1>3. /\ LockType' /\ lock'.task = lock.task /\ lock'.by = lock.by
      /\ lock.task = 0 => lock' = lock
      /\ lock.left \in Int /\ lock'.left \in Int
      /\ lock'.left = lock.left - 1 \/ (lock'.left = lock.left /\ lock.left < -MaxDelay) \/ lock.task = 0
  <2>1. LockType /\ lock.left \in Int /\ lock.left \in (-MaxDelay - 1)..TTL
    BY SystemTaskAssumption DEF IInv, TypeOK, LockType
  <2>2. CASE lock.task # 0 /\ lock.left >= -MaxDelay
    <3>1. lock' = [lock EXCEPT !.left = @ - 1]
      BY <2>2 DEF Tick
    <3>2. lock.left - 1 \in (-MaxDelay - 1)..TTL
      BY <2>1, <2>2, SystemTaskAssumption
    <3> QED
      BY <2>1, <2>2, <3>1, <3>2, SystemTaskAssumption DEF LockType
  <2>3. CASE ~(lock.task # 0 /\ lock.left >= -MaxDelay)
    <3>1. lock' = lock
      BY <2>3 DEF Tick
    <3> QED
      BY <2>1, <2>3, <3>1, SystemTaskAssumption DEF LockType
  <2> QED
    BY <2>2, <2>3
<1>4. st' = st /\ by' = by /\ key' = key /\ run' = run /\ botched' = botched /\ faults' = faults
  BY DEF Tick, rows
<1>5. TypeOK' /\ LockShape'
  BY <1>2, <1>3, <1>4, SystemTaskAssumption DEF IInv, TypeOK, RowsType, RunType, FlagType, LockShape, NoLock
<1>6. \A q \in Runners : PassShape(q)'
  BY <1>1, <1>4 DEF IInv, PassShape
<1>7. ReleasesFollowResults'
  BY <1>4 DEF IInv, ReleasesFollowResults, Final
<1>8. ASSUME NEW u PROVE BeingFailed(u)' <=> BeingFailed(u)
  BY <1>1 DEF BeingFailed
<1>9. ASSUME ~botched PROVE Covered'
  BY <1>3, <1>4, <1>8, <1>9 DEF IInv, Covered
<1>10. ASSUME ~botched, NEW q \in Runners PROVE Sound(q)'
  <2>1. LapsedIsNotRunning(q) /\ StartsOnce(q) /\ pass[q].age \in Nat
    BY <1>10, PassFields DEF IInv, Sound
  <2>2. Timed(q) /\ lock'.task # 0 /\ lock'.left < -pass'[q].age => Lapsed(pass[q].age)
    BY <1>1, <1>3, <2>1, SystemTaskAssumption DEF Lapsed
  <2>3. LapsedIsNotRunning(q)'
    BY <1>1, <1>3, <1>4, <2>1, <2>2 DEF LapsedIsNotRunning, Timed, Lapsed
  <2>4. StartsOnce(q)'
    BY <1>1, <1>3, <1>4, <1>8, <2>1 DEF StartsOnce, Locked
  <2> QED
    BY <2>3, <2>4 DEF Sound
<1> QED
  BY <1>4, <1>5, <1>6, <1>7, <1>9, <1>10 DEF IInv

-----------------------------------------------------------------------------
\* The initial state satisfies the inductive invariant.
LEMMA InitHolds == Init => IInv
<1> SUFFICES ASSUME Init PROVE IInv
  OBVIOUS
<1>1. Resting \in Pass /\ Resting.pc = "idle"
  BY FreshAge DEF Resting, At, Pass
<1>2. PassType /\ \A r \in Runners : pass[r].pc = "idle"
  BY <1>1 DEF Init, PassType
<1>3. LockType /\ lock.task = 0 /\ lock = NoLock
  BY SystemTaskAssumption DEF Init, LockType, NoLock
<1>4. RowsType /\ RunType /\ \A t \in Tasks : by[t] = Nobody /\ st[t] = "none"
  BY DEF Init, RowsType, RunType
<1>5. FlagType
  <2>1. MaxFaults \in 0..MaxFaults
    BY SystemTaskAssumption
  <2> QED
    BY <2>1 DEF Init, FlagType
<1>6. \A t \in Tasks, p \in Runners : run[t][p] = "off"
  BY DEF Init
<1>7. TypeOK /\ LockShape /\ ReleasesFollowResults
  BY <1>2, <1>3, <1>4, <1>5, <1>6 DEF TypeOK, LockShape, ReleasesFollowResults
<1>8. Covered /\ \A r \in Runners : PassShape(r) /\ Sound(r)
  BY <1>2, <1>4 DEF Covered, PassShape, Claiming, Sound, LapsedIsNotRunning, StartsOnce
<1> QED
  BY <1>7, <1>8 DEF IInv

\* Every step keeps the invariant.
LEMMA NextKeeps == IInv /\ [Next]_vars => IInv'
<1> SUFFICES ASSUME IInv, [Next]_vars PROVE IInv'
  OBVIOUS
<1>1. CASE Tick
  BY <1>1, TickKeeps
<1>2. CASE \E t \in Tasks : Submit(t)
  BY <1>2, SubmitKeeps
<1>3. ASSUME NEW r \in Runners, PassStep(r) PROVE IInv'
  BY <1>3, ListStaleKeeps, MarkStaleKeeps, DeleteStaleKeeps, PickKeeps, CreateLockKeeps, TakeOverKeeps,
     FailOldKeeps, StartKeeps, UndoKeeps DEF PassStep
<1>4. ASSUME NEW t \in Tasks, NEW p \in Runners, HandlerStep(t, p) PROVE IInv'
  BY <1>4, FinishKeeps, ReleaseKeeps DEF HandlerStep
<1>5. ASSUME NEW t \in Tasks, NEW p \in Runners, NEW a \in Ages, Abandon(t, p, a) PROVE IInv'
  <2>1. FlagType'
    BY <1>5 DEF Abandon, IInv, TypeOK, FlagType
  <2> QED
    BY <1>5, <2>1, AbandonKeeps DEF Abandon
<1>6. CASE \E p \in Runners : Crash(p)
  BY <1>6, CrashKeeps
<1>7. CASE UNCHANGED vars
  <2>1. UNCHANGED <<st, key, by, lock, pass, run, botched, faults>>
    BY <1>7 DEF vars, rows
  <2>2. TypeOK' /\ LockShape' /\ NoStart /\ CoverKept
    BY <2>1 DEF IInv, TypeOK, RowsType, LockType, PassType, RunType, FlagType, LockShape, NoStart, Final, CoverKept, BeingFailed
  <2> QED
    BY <2>1, <2>2, QuietKeeps
<1> QED
  BY <1>1, <1>2, <1>3, <1>4, <1>5, <1>6, <1>7, WriteFailsKeeps, RenewKeeps DEF Next

\* The invariant: types, and why no lease of a running task goes unnoticed.
THEOREM Invariance == Spec => []IInv
<1> QED
  BY InitHolds, NextKeeps, PTL DEF Spec

\* Types, for every set of tasks and runners and every lease time.
THEOREM Typing == Spec => []TypeOK
<1>1. IInv => TypeOK
  BY DEF IInv
<1> QED
  BY <1>1, Invariance, PTL

\* ExpireStaleSystemTaskLocks and ClaimSystemTask reach every running task: it has its
\* lease row, or is about to be failed, unless a claim broke off half way.
THEOREM RunningCovered == Spec => []RunningIsCovered
<1>1. IInv => RunningIsCovered
  BY DEF IInv, Covered, RunningIsCovered
<1> QED
  BY <1>1, Invariance, PTL

-----------------------------------------------------------------------------
(* The turns *)

\* One step of the specification of turns, or none.
TurnStep == [Turns!TurnNext]_(Turns!turnVars)

\* The turn stays while the row of the lease's task is only finished or failed.
LEMMA SameTurn ==
    ASSUME IInv, by' = by, lock'.task = lock.task, lock'.by = lock.by,
           \A t \in Tasks : st'[t] = "pending" <=> st[t] = "pending"
    PROVE  Turn' = Turn
<1>1. lock.task # 0 => lock.task \in Tasks
  BY DEF IInv, TypeOK, LockType
<1> QED
  BY <1>1 DEF Turn

\* A step that keeps the rows and the lease's holder is no step of the turns.
LEMMA SameRowsSameTurn ==
    ASSUME IInv, UNCHANGED rows, lock'.task = lock.task, lock'.by = lock.by
    PROVE  TurnStep
<1>1. Turn' = Turn
  BY SameTurn DEF rows
<1> QED
  BY <1>1 DEF rows, TurnStep, Turns!turnVars

\* A lease that is given back or deleted ends the turn.
LEMMA DropsTurn ==
    ASSUME IInv, UNCHANGED rows, lock' = lock \/ lock' = NoLock
    PROVE  TurnStep
<1>1. CASE lock' = lock
  BY <1>1, SameRowsSameTurn
<1>2. CASE lock' = NoLock
  <2>1. Turn' = 0
    BY <1>2 DEF Turn, NoLock
  <2> QED
    BY <2>1 DEF rows, TurnStep, Turns!TurnNext, Turns!Drop
<1> QED
  BY <1>1, <1>2

\* A claim that writes the lease takes the turn for a pending task, and otherwise for none.
LEMMA TakesTurn ==
    ASSUME IInv, UNCHANGED rows, NEW r \in Runners, NEW t \in Tasks, t # 0,
           st[t] = "pending" \/ by[t] # r, lock'.task = t, lock'.by = r
    PROVE  TurnStep
<1>1. CASE st[t] = "pending"
  <2>1. Turn' = t
    BY <1>1 DEF Turn, rows
  <2> QED
    BY <1>1, <2>1 DEF rows, TurnStep, Turns!TurnNext, Turns!Take
<1>2. CASE st[t] # "pending"
  <2>1. Turn' = 0
    BY <1>2 DEF Turn, rows
  <2> QED
    BY <2>1 DEF rows, TurnStep, Turns!TurnNext, Turns!Drop
<1> QED
  BY <1>1, <1>2

\* MarkSystemTaskLeaseExpired fails a task in or out of its turn.
LEMMA ExpiresTask ==
    ASSUME IInv, NEW t \in Tasks, MarkExpired(t), UNCHANGED <<key, by, lock>>
    PROVE  TurnStep
<1>1. \A u \in Tasks : st'[u] = "pending" <=> st[u] = "pending"
  BY DEF MarkExpired, IInv, TypeOK, RowsType
<1>2. Turn' = Turn
  BY <1>1, SameTurn
<1>3. CASE st[t] = "running"
  <2>1. Turns!Expire(t)
    BY <1>2, <1>3 DEF MarkExpired, Turns!Expire
  <2> QED
    BY <2>1 DEF TurnStep, Turns!TurnNext
<1>4. CASE st[t] # "running"
  BY <1>2, <1>4 DEF MarkExpired, TurnStep, Turns!turnVars
<1> QED
  BY <1>3, <1>4

\* The writes of ClaimSystemTask to the lease.
LEMMA CreateLockTurns == ASSUME IInv, NEW r \in Runners, CreateLock(r) PROVE TurnStep
<1>t. PICK t \in Tasks : t = pass[r].task
  BY ClaimFacts DEF CreateLock, Claiming
<1>1. t # 0 /\ (st[t] = "pending" \/ by[t] # r) /\ pass[r].age \in Ages /\ UNCHANGED rows
  BY <1>t, ClaimFacts DEF CreateLock, Claiming
<1>2. CASE lock' = Lease(t, r, pass[r].age)
  BY <1>1, <1>2, LeaseFacts, TakesTurn
<1>3. CASE UNCHANGED lock
  BY <1>1, <1>3, SameRowsSameTurn
<1> QED
  BY <1>t, <1>2, <1>3 DEF CreateLock

\* A takeover hands the turn over.
LEMMA TakeOverTurns == ASSUME IInv, NEW r \in Runners, TakeOver(r) PROVE TurnStep
<1>t. PICK t \in Tasks : t = pass[r].task
  BY ClaimFacts DEF TakeOver, Claiming
<1>1. t # 0 /\ (st[t] = "pending" \/ by[t] # r) /\ pass[r].age \in Ages /\ UNCHANGED rows
  BY <1>t, ClaimFacts DEF TakeOver, Claiming
<1>2. CASE lock' = Lease(t, r, pass[r].age)
  BY <1>1, <1>2, LeaseFacts, TakesTurn
<1>3. CASE UNCHANGED lock
  BY <1>1, <1>3, SameRowsSameTurn
<1> QED
  BY <1>t, <1>2, <1>3 DEF TakeOver

\* Failing the old task is a step of the turns.
LEMMA FailOldTurns == ASSUME IInv, NEW r \in Runners, FailOld(r) PROVE TurnStep
<1>o. PICK o \in Tasks : o = pass[r].old
  BY ClaimFacts DEF FailOld, Claiming
<1>1. CASE MarkExpired(o) /\ UNCHANGED lock
  BY <1>1, ExpiresTask DEF FailOld
<1>2. CASE ReleaseLock(pass[r].task, r) /\ UNCHANGED st
  BY <1>2, DropsTurn DEF FailOld, ReleaseLock, rows
<1> QED
  BY <1>o, <1>1, <1>2 DEF FailOld

\* A task that starts keeps the turn, or has lost it.
LEMMA StartTurns == ASSUME IInv, NEW r \in Runners, Start(r) PROVE TurnStep
<1>t. PICK t \in Tasks : t = pass[r].task
  BY ClaimFacts DEF Start, Claiming
<1>1. CASE /\ st[t] = "pending" /\ st' = [st EXCEPT ![t] = "running"]
           /\ by' = [by EXCEPT ![t] = r] /\ UNCHANGED lock
  <2>1. /\ st'[t] = "running" /\ by'[t] = r
        /\ \A u \in Tasks : u # t => st'[u] = st[u] /\ by'[u] = by[u]
    BY <1>1 DEF IInv, TypeOK, RowsType
  <2>2. lock.task # 0 => lock.task \in Tasks
    BY DEF IInv, TypeOK, LockType
  <2>3. Turn' = Turn \/ Turn' = 0
    BY <1>1, <2>1, <2>2 DEF Turn
  <2>4. Turns!Start(t)
    BY <1>1, <2>3 DEF Start, Turns!Start
  <2> QED
    BY <2>4 DEF TurnStep, Turns!TurnNext
<1>2. CASE ReleaseLock(t, r) /\ UNCHANGED <<st, by>>
  BY <1>2, DropsTurn DEF Start, ReleaseLock, rows
<1> QED
  BY <1>t, <1>1, <1>2 DEF Start

\* FinishSystemTask records a result only in the task's turn.
LEMMA FinishTurns ==
    ASSUME IInv, NEW t \in Tasks, NEW p \in Runners, NEW s \in {"succeeded", "failed"}, NEW a \in Ages, Finish(t, p, s, a)
    PROVE  TurnStep
<1>1. CASE Holds(t, p, a) /\ st' = [st EXCEPT ![t] = s]
  <2>1. st[t] = "running" /\ Turn = t
    BY <1>1 DEF Holds, Locked, Valid, Turn
  <2>2. \A u \in Tasks : st'[u] = "pending" <=> st[u] = "pending"
    BY <1>1, <2>1 DEF IInv, TypeOK, RowsType
  <2>3. Turn' = Turn
    BY <2>2, SameTurn DEF Finish
  <2>4. Turns!Finish(t)
    BY <1>1, <2>1, <2>3 DEF Finish, Turns!Finish
  <2> QED
    BY <2>4 DEF TurnStep, Turns!TurnNext
<1>2. CASE UNCHANGED st
  BY <1>2, SameRowsSameTurn DEF Finish, rows
<1> QED
  BY <1>1, <1>2 DEF Finish

\* Creating a task is a step of the turns.
LEMMA SubmitTurns == ASSUME IInv, NEW t \in Tasks, Submit(t) PROVE TurnStep
<1>1. lock.task # 0 => lock.task \in Tasks /\ lock.task # t
  BY DEF Submit, IInv, TypeOK, LockType, LockShape
<1>2. \A u \in Tasks : u # t => st'[u] = st[u]
  BY DEF Submit, IInv, TypeOK, RowsType
<1>3. Turn' = Turn
  BY <1>1, <1>2 DEF Submit, Turn
<1>4. Turns!Submit(t)
  BY <1>3 DEF Submit, Turns!Submit, IsActive, Turns!IsActive
<1> QED
  BY <1>4 DEF TurnStep, Turns!TurnNext

\* Every step is a step of the turns, or leaves them alone.
LEMMA StepTurns == IInv /\ [Next]_vars => TurnStep
<1> SUFFICES ASSUME IInv, [Next]_vars PROVE TurnStep
  OBVIOUS
<1>1. CASE Tick
  <2>1. lock'.task = lock.task /\ lock'.by = lock.by
    <3>1. LockType
      BY DEF IInv, TypeOK
    <3> QED
      BY <1>1, <3>1 DEF Tick, LockType
  <2> QED
    BY <1>1, <2>1, SameRowsSameTurn DEF Tick
<1>2. CASE \E t \in Tasks : Submit(t)
  BY <1>2, SubmitTurns
<1>3. ASSUME NEW r \in Runners, PassStep(r) PROVE TurnStep
  <2>1. CASE ListStale(r) \/ Pick(r)
    BY <2>1, SameRowsSameTurn DEF ListStale, Pick
  <2>2. CASE MarkStale(r)
    <3>1. pass[r].task \in Tasks
      BY <2>2 DEF MarkStale, IInv, PassShape
    <3> QED
      BY <2>2, <3>1, ExpiresTask DEF MarkStale
  <2>3. CASE DeleteStale(r)
    BY <2>3, DropsTurn DEF DeleteStale
  <2>4. CASE Undo(r)
    BY <2>4, DropsTurn DEF Undo, ReleaseLock
  <2> QED
    BY <1>3, <2>1, <2>2, <2>3, <2>4, CreateLockTurns, TakeOverTurns, FailOldTurns, StartTurns DEF PassStep
<1>4. ASSUME NEW t \in Tasks, NEW p \in Runners, HandlerStep(t, p) PROVE TurnStep
  <2>1. CASE Release(t, p)
    BY <2>1, DropsTurn DEF Release, ReleaseLock
  <2> QED
    BY <1>4, <2>1, FinishTurns DEF HandlerStep
<1>5. ASSUME NEW t \in Tasks, NEW p \in Runners, NEW a \in Ages, Renew(t, p, a) PROVE TurnStep
  <2>1. lock'.task = t /\ lock'.by = p
    BY <1>5, LeaseFacts DEF Renew
  <2> QED
    BY <1>5, <2>1, SameRowsSameTurn DEF Renew, Locked
<1>6. ASSUME NEW t \in Tasks, NEW p \in Runners, WriteFails(t, p) \/ \E a \in Ages : Abandon(t, p, a)
      PROVE  TurnStep
  BY <1>6, SameRowsSameTurn DEF WriteFails, Abandon
<1>7. CASE \E p \in Runners : Crash(p)
  BY <1>7, SameRowsSameTurn DEF Crash
<1>8. CASE UNCHANGED vars
  BY <1>8, SameRowsSameTurn DEF vars
<1> QED
  BY <1>1, <1>2, <1>3, <1>4, <1>5, <1>6, <1>7, <1>8 DEF Next

\* Tasks and leases implement the specification of turns: a handler that stalled past
\* its lease never records a result once the lease has moved on, a task starts once
\* and ends once, and a key has one active task.
THEOREM LeasesImplementTurns == Spec => ImplementsTurns
<1>1. Init => Turns!TurnInit
  BY DEF Init, Turns!TurnInit, Turn, NoLock
<1>2. IInv /\ [Next]_vars => [Turns!TurnNext]_(Turns!turnVars)
  BY StepTurns DEF TurnStep
<1> QED
  BY <1>1, <1>2, Invariance, PTL DEF Spec, ImplementsTurns, Turns!TurnSpec
=============================================================================
