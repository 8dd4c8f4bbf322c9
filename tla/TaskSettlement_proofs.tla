------------------------- MODULE TaskSettlement_proofs -------------------------
(***************************************************************************)
(* For any number of passes, live queries and faults: a task is never      *)
(* refunded more than it was charged, its books follow its row, and what   *)
(* could not be refunded stays visible.                                    *)
(***************************************************************************)
EXTENDS TaskSettlement, TLAPS

\* What the submission has charged so far, and what settlements have added to it.
Submitted == sub \notin {"reserved", "refused"}
Base ==
    IF sub = "refused" THEN 0 ELSE IF sub \in {"settled", "unlogged", "done"} THEN Quota ELSE Quota + extra
FundMoved == fund - Base
TokMoved == tok - Base
UsedMoved == used - (IF sub = "done" THEN Quota ELSE 0)

\* Before the task is inserted there is nothing to work on.
Early ==
    /\ ~Submitted => row = NoTask /\ ~rewritten /\ \A w \in Workers : pc[w] = "idle"
    /\ Submitted => row.st # "none"
    /\ sub = "reserved" /\ "fund" \notin lost => fund = Quota + extra
    /\ sub = "reserved" /\ faults = MaxFaults => tok = Quota + extra /\ used = 0
    /\ sub = "refused" /\ "fund" \notin lost => fund = 0

\* A copy that will be written back is one of an open task.
OpenCopies == \A w \in Workers : pc[w] \in {"poll", "sweep"} => mem[w].st \in Open

\* A failed task that must cost nothing.
MustBeFree == row.st = "FAILURE" /\ ~silent /\ ~legacy /\ mode # "usage"

\* An open task has its first quota, and nobody has touched its books.
Untouched ==
    row.st \in Open =>
        row.quota = Quota /\ FundMoved = 0 /\ (faults = MaxFaults => TokMoved = 0 /\ UsedMoved = 0)

CopySound(w) ==
    /\ pc[w] \in {"poll", "sweep"} => mem[w].quota = Quota
    /\ pc[w] = "fetch" /\ mem[w].st \in Open => mem[w].quota = Quota
    /\ Billing(w) => mem[w].quota = Quota

OneBiller == \A w, v \in Workers : Billing(w) /\ Billing(v) => w = v

\* What the stages of a settlement have done, whatever failed on the way.
Begun(w) ==
    /\ row.st \in Final
    /\ FundMoved = IF pc[w] = "fund" THEN 0 ELSE Delta(w)
    /\ row.quota = Quota \/ (row.quota = goal[w] /\ pc[w] # "fund")
    /\ MustBeFree => goal[w] = 0

\* The same while nothing has failed.
Exact(w) ==
    /\ TokMoved = IF pc[w] \in {"fund", "token"} THEN 0 ELSE Delta(w)
    /\ UsedMoved = IF pc[w] = "quota" /\ Refunds(w) THEN Delta(w) ELSE 0
    /\ row.quota = IF pc[w] = "used" /\ ~Refunds(w) THEN goal[w] ELSE Quota

\* Nobody is settling: what has moved, and what the row says of it.
Rested ==
    /\ FundMoved >= -Quota
    /\ Submitted /\ ~legacy /\ row.quota = 0 => FundMoved = -Quota

Balanced ==
    /\ FundMoved = row.quota - Quota /\ TokMoved = row.quota - Quota /\ UsedMoved = row.quota - Quota
    /\ MustBeFree => row.quota = 0

Sound ==
    /\ Untouched /\ OneBiller
    /\ \A w \in Workers : CopySound(w) /\ (Billing(w) => Begun(w))
    /\ faults = MaxFaults => \A w \in Workers : Billing(w) => Exact(w)
    /\ (\A w \in Workers : ~Billing(w)) => Rested
    /\ (\A w \in Workers : ~Billing(w)) /\ faults = MaxFaults /\ ~legacy /\ Submitted => Balanced

\* No live query wrote over the task and no batch store lost money of it.
Clean == ~rewritten /\ "fund" \notin lost

IInv == TypeOK /\ Early /\ OpenCopies /\ (Clean => Sound)

-----------------------------------------------------------------------------
(* Steps in general *)

\* Only w moves.
Others(w) == \A v \in Workers : v # w => pc'[v] = pc[v] /\ mem'[v] = mem[v] /\ goal'[v] = goal[v]

BooksKept ==
    FundMoved' = FundMoved /\ (faults' = MaxFaults => TokMoved' = TokMoved /\ UsedMoved' = UsedMoved)

\* Whoever settles goes on as before.
BillersKept ==
    \A v \in Workers : /\ Billing(v)' <=> Billing(v)
                       /\ Billing(v) => pc'[v] = pc[v] /\ mem'[v] = mem[v] /\ goal'[v] = goal[v]

\* A finished task stays finished; the quota is forgotten only with a legacy task.
RowMoves ==
    /\ row.st \in Final => row'.st \in Final
    /\ row'.quota = row.quota \/ (legacy /\ row.st \in Open /\ row'.st \in Final)
    /\ MustBeFree' => MustBeFree

FaultsGrow == faults' = MaxFaults => faults = MaxFaults

\* A step that settles nothing.
LEMMA QuietSound ==
    ASSUME IInv, Sound, Submitted, Submitted', BooksKept, BillersKept, RowMoves, FaultsGrow,
           TypeOK', UNCHANGED fixed, \A v \in Workers : CopySound(v)'
    PROVE  Sound'
<1> USE DEF fixed
<1>1. row.st \in Open \/ row.st \in Final
  BY DEF IInv, TypeOK, TaskType, Row, Early
<1>2. Untouched'
  <2>1. row'.st \in Open => row.st \in Open /\ row'.quota = row.quota
    BY <1>1 DEF RowMoves, Open, Final
  <2> QED
    BY <2>1 DEF Sound, Untouched, BooksKept, FaultsGrow
<1>3. OneBiller'
  BY DEF Sound, OneBiller, BillersKept
<1>4. ASSUME NEW v \in Workers, Billing(v)' PROVE Begun(v)' /\ (faults' = MaxFaults => Exact(v)')
  <2>1. Billing(v) /\ pc'[v] = pc[v] /\ mem'[v] = mem[v] /\ goal'[v] = goal[v]
    BY <1>4 DEF BillersKept
  <2>2. Begun(v) /\ (faults = MaxFaults => Exact(v))
    BY <2>1 DEF Sound
  <2>3. row.st \in Final /\ row'.st \in Final /\ row'.quota = row.quota
    BY <2>2 DEF Begun, RowMoves, Open, Final
  <2>4. Begun(v)'
    BY <2>1, <2>2, <2>3 DEF Begun, RowMoves, BooksKept, Delta
  <2>5. ASSUME faults' = MaxFaults PROVE Exact(v)'
    <3>1. Exact(v)
      BY <2>2, <2>5 DEF FaultsGrow
    <3> QED
      BY <2>1, <2>3, <2>5, <3>1 DEF Exact, BooksKept, Delta, Refunds
  <2> QED
    BY <2>4, <2>5
<1>5. ASSUME \A w \in Workers : ~Billing(w)' PROVE Rested'
  <2>1. Rested
    BY <1>5 DEF Sound, BillersKept
  <2> QED
    BY <2>1 DEF Rested, BooksKept, RowMoves
<1>6. ASSUME \A w \in Workers : ~Billing(w)', faults' = MaxFaults, ~legacy' PROVE Balanced'
  <2>1. Balanced
    BY <1>6 DEF Sound, BillersKept, FaultsGrow
  <2> QED
    BY <1>6, <2>1 DEF Balanced, BooksKept, RowMoves
<1> QED
  BY <1>2, <1>3, <1>4, <1>5, <1>6 DEF Sound

\* What is known of the worker that settles.
LEMMA BillerFacts ==
    ASSUME IInv, Sound, NEW w \in Workers, Billing(w)
    PROVE  /\ mem[w].quota = Quota /\ mem[w].st \in Final /\ goal[w] \in Nat /\ Delta(w) = goal[w] - Quota
           /\ Begun(w) /\ (faults = MaxFaults => Exact(w)) /\ row.st \in Final
           /\ \A v \in Workers : v # w => ~Billing(v)
<1>1. mem[w].quota = Quota /\ Begun(w) /\ (faults = MaxFaults => Exact(w))
  BY DEF Sound, CopySound
<1>2. \A v \in Workers : v # w => ~Billing(v)
  BY DEF Sound, OneBiller
<1> QED
  BY <1>1, <1>2 DEF IInv, TypeOK, Delta, Begun

\* A settlement goes on.
LEMMA BillGoesOn ==
    ASSUME IInv, Sound, NEW w \in Workers, Billing(w), Others(w), row'.st \in Final, Billing(w)',
           mem'[w] = mem[w], Begun(w)', faults' = MaxFaults => Exact(w)'
    PROVE  Sound'
<1>1. /\ mem[w].quota = Quota
      /\ \A v \in Workers : v # w => ~Billing(v)
  BY BillerFacts
<1>2. \A v \in Workers : v # w => ~Billing(v)' /\ CopySound(v)'
  BY <1>1 DEF Others, Billing, Sound, CopySound
<1>3. CopySound(w)'
  BY <1>1 DEF CopySound, Billing
<1>4. Untouched' /\ OneBiller'
  BY <1>2 DEF Untouched, OneBiller, Open, Final
<1> QED
  BY <1>2, <1>3, <1>4 DEF Sound

\* A settlement ends, or is given up.
LEMMA BillEnds ==
    ASSUME IInv, Sound, NEW w \in Workers, Billing(w), Others(w), row'.st \in Final, pc'[w] = "idle",
           Rested', faults' = MaxFaults /\ ~legacy' /\ Submitted' => Balanced'
    PROVE  Sound'
<1>1. \A v \in Workers : v # w => ~Billing(v)
  BY BillerFacts
<1>2. \A v \in Workers : v # w => ~Billing(v)' /\ CopySound(v)'
  BY <1>1 DEF Others, Billing, Sound, CopySound
<1>3. CopySound(w)' /\ ~Billing(w)'
  BY DEF CopySound, Billing
<1>4. Untouched' /\ OneBiller'
  BY <1>2, <1>3 DEF Untouched, OneBiller, Open, Final
<1> QED
  BY <1>2, <1>3, <1>4 DEF Sound

\* A settlement begins: the row was open and is finished with this step.
LEMMA BillBegins ==
    ASSUME IInv, Sound, NEW w \in Workers, row.st \in Open, BooksKept, FaultsGrow, Others(w), UNCHANGED fixed,
           row'.st \in Final, row'.quota = Quota, pc'[w] = "fund", mem'[w].quota = Quota,
           goal'[w] \in Nat, MustBeFree' => goal'[w] = 0
    PROVE  Sound'
<1>1. \A v \in Workers : ~Billing(v)
  BY DEF Sound, Begun, Open, Final
<1>2. \A v \in Workers : v # w => ~Billing(v)' /\ CopySound(v)'
  BY <1>1 DEF Others, Billing, Sound, CopySound
<1>3. CopySound(w)' /\ Billing(w)'
  BY DEF CopySound, Billing
<1>4. Untouched' /\ OneBiller'
  BY <1>2, <1>3 DEF Untouched, OneBiller, Open, Final
<1>5. FundMoved' = 0 /\ (faults' = MaxFaults => TokMoved' = 0 /\ UsedMoved' = 0)
  BY DEF Sound, Untouched, BooksKept, FaultsGrow
<1>6. Begun(w)' /\ (faults' = MaxFaults => Exact(w)')
  BY <1>5 DEF Begun, Exact
<1> QED
  BY <1>2, <1>3, <1>4, <1>6 DEF Sound

\* A worker's step keeps the invariant if it keeps the types and the books.
LEMMA WorkerKeeps ==
    ASSUME IInv, NEW w \in Workers, Submitted, sub' = sub, Others(w), TaskType', FlagType', BooksType', QueueType', WorkType',
           row'.st # "none", Billing(w)' => mem'[w].st \in Final /\ goal'[w] \in Nat,
           pc'[w] \in {"poll", "sweep"} => mem'[w].st \in Open,
           Clean' => Sound'
    PROVE  IInv'
<1>1. TypeOK'
  <2>1. ASSUME NEW v \in Workers, Billing(v)' PROVE mem'[v].st \in Final /\ goal'[v] \in Nat
    BY <2>1 DEF IInv, TypeOK, Others, Billing
  <2> QED
    BY <2>1 DEF TypeOK
<1>2. OpenCopies'
  BY DEF IInv, OpenCopies, Others
<1>3. Early'
  BY DEF Early, Submitted
<1> QED
  BY <1>1, <1>2, <1>3 DEF IInv

-----------------------------------------------------------------------------
(* The batch stores *)

\* A step that leaves the batch stores alone.
LEMMA QueueKept == ASSUME IInv, UNCHANGED <<queued, lost, fixed>> PROVE QueueType' /\ lost' = lost
  BY DEF IInv, TypeOK, QueueType, fixed

\* A step that adds to a batch store.
LEMMA EnqueueFacts ==
    ASSUME IInv, NEW n \in Processes, NEW bs, NEW d \in Int, Enqueue(n, bs, d), UNCHANGED <<lost, fixed>>
    PROVE  QueueType' /\ lost' = lost
<1>1. queued \in [Processes -> [Books -> Int]] /\ queues' = queues /\ lost \subseteq queues
  BY DEF IInv, TypeOK, QueueType, fixed
<1> DEFINE q == [b \in Books |-> queued[n][b] + IF b \in bs \cap queues THEN d ELSE 0]
<1>2. q \in [Books -> Int]
  <2>1. ASSUME NEW b \in Books PROVE (queued[n][b] + IF b \in bs \cap queues THEN d ELSE 0) \in Int
    BY <1>1
  <2> QED
    BY <2>1
<1>3. queued' = [queued EXCEPT ![n] = q]
  BY DEF Enqueue
<1>4. ASSUME NEW m \in Processes, NEW b \in Books \ queues PROVE queued'[m][b] = 0
  <2>1. queued[m][b] = 0
    BY DEF IInv, TypeOK, QueueType
  <2>2. CASE m = n
    BY <1>1, <1>3, <2>1, <2>2
  <2>3. CASE m # n
    BY <1>1, <1>3, <2>1, <2>3
  <2> QED
    BY <2>2, <2>3
<1> HIDE DEF q
<1>5. queued' \in [Processes -> [Books -> Int]]
  BY <1>1, <1>2, <1>3
<1> QED
  BY <1>1, <1>4, <1>5 DEF QueueType

\* A step that empties a batch store.
LEMMA EmptiedFacts ==
    ASSUME IInv, NEW n \in Processes, Emptied(n), lost' \subseteq queues, UNCHANGED fixed
    PROVE  QueueType'
<1>1. queued \in [Processes -> [Books -> Int]] /\ queues' = queues
  BY DEF IInv, TypeOK, QueueType, fixed
<1>2. Nothing \in [Books -> Int] /\ queued' = [queued EXCEPT ![n] = Nothing]
  BY DEF Nothing, Emptied
<1>3. ASSUME NEW m \in Processes, NEW b \in Books \ queues PROVE queued'[m][b] = 0
  <2>1. queued[m][b] = 0 /\ Nothing[b] = 0
    BY DEF IInv, TypeOK, QueueType, Nothing
  <2>2. CASE m = n
    BY <1>1, <1>2, <2>1, <2>2
  <2>3. CASE m # n
    BY <1>1, <1>2, <2>1, <2>3
  <2> QED
    BY <2>2, <2>3
<1> QED
  BY <1>1, <1>2, <1>3 DEF QueueType

\* A loss is of what was queued, and it is remembered: the funding is as before unless
\* "fund" is among the books that lost something.
LEMMA LoseFacts ==
    ASSUME IInv, NEW n \in Processes, NEW bs \in SUBSET Books, Lose(n, bs), UNCHANGED fixed
    PROVE  /\ BooksType' /\ QueueType' /\ lost \subseteq lost'
           /\ "fund" \notin lost' => fund' = fund
<1>1. queued[n] \in [Books -> Int] /\ fund \in Int /\ tok \in Int /\ used \in Int /\ lost \subseteq queues
  BY DEF IInv, TypeOK, QueueType, BooksType
<1>2. queued[n]["fund"] \in Int /\ queued[n]["tok"] \in Int /\ queued[n]["used"] \in Int
  BY <1>1 DEF Books
<1>3. BooksType'
  BY <1>1, <1>2 DEF Lose, Without, BooksType
<1>4. lost' = lost \cup {b \in bs : queued[n][b] # 0}
  BY DEF Lose
<1>5. lost' \subseteq queues
  BY <1>1, <1>4 DEF IInv, TypeOK, QueueType
<1>6. ASSUME "fund" \notin lost' PROVE fund' = fund
  <2>1. "fund" \in bs => queued[n]["fund"] = 0
    BY <1>4, <1>6
  <2> QED
    BY <1>1, <2>1 DEF Lose, Without
<1> QED
  BY <1>3, <1>4, <1>5, <1>6, EmptiedFacts DEF Lose

-----------------------------------------------------------------------------
(* Polls, sweeps and live queries *)

\* A worker that is at work, and its copy.
LEMMA AtWork ==
    ASSUME IInv, NEW w \in Workers, pc[w] # "idle"
    PROVE  Submitted /\ row.st # "none" /\ mem[w] \in Row /\ mem[w].quota \in Nat /\ mem[w].fails \in 0..MaxFailures
<1>1. Submitted /\ row.st # "none" /\ mem[w] \in Row
  BY DEF IInv, Early, TypeOK, WorkType
<1> QED
  BY <1>1 DEF Row

\* A worker is done.
LEMMA IdleFacts ==
    ASSUME IInv, NEW w \in Workers, Idle(w), UNCHANGED goal
    PROVE  Others(w) /\ WorkType' /\ pc'[w] = "idle" /\ ~Billing(w)'
<1>1. NoTask \in Row
  BY TaskBounds DEF NoTask, Row
<1> QED
  BY <1>1 DEF Idle, IInv, TypeOK, WorkType, Others, Billing

\* A fault is counted.
LEMMA FaultFacts ==
    ASSUME IInv, faults' = faults \/ Fault
    PROVE  faults' \in 0..MaxFaults /\ FaultsGrow /\ (Fault => faults' # MaxFaults)
<1>1. faults \in 0..MaxFaults
  BY DEF IInv, TypeOK, FlagType
<1> QED
  BY <1>1, TaskBounds DEF Fault, FaultsGrow

\* The parts of the state that workers mostly leave alone.
Rest == UNCHANGED <<fixed, late, channel, sub>>

\* A worker that settles nothing comes to rest, having written the row or not.
LEMMA RestsKeeps ==
    ASSUME IInv, NEW w \in Workers, pc[w] # "idle", ~Billing(w), Idle(w), UNCHANGED goal, Rest, faults' = faults \/ Fault,
           row' \in Row, row'.st # "none", silent' \in BOOLEAN, rewritten' \in BOOLEAN,
           BooksType', QueueType', Clean' => BooksKept /\ Clean /\ (Sound => RowMoves)
    PROVE  IInv'
<1>1. Submitted
  BY AtWork
<1>2. Others(w) /\ WorkType' /\ pc'[w] = "idle" /\ ~Billing(w)'
  BY IdleFacts
<1>f. faults' \in 0..MaxFaults /\ FaultsGrow
  BY FaultFacts
<1>3. TaskType' /\ FlagType'
  BY <1>f DEF Rest, fixed, IInv, TypeOK, TaskType, FlagType
<1>4. ASSUME Clean' PROVE Sound'
  <2>1. Sound /\ RowMoves
    BY <1>4 DEF IInv
  <2>2. BooksKept /\ FaultsGrow /\ Submitted' /\ UNCHANGED fixed
    BY <1>1, <1>4, <1>f DEF Rest, fixed, Submitted
  <2>3. BillersKept
    BY <1>2 DEF BillersKept, Others, Billing
  <2>4. \A v \in Workers : CopySound(v)'
    BY <1>2, <2>1 DEF Others, Sound, CopySound, Billing
  <2>5. TypeOK'
    BY <1>2, <1>3 DEF TypeOK, IInv, Others, Billing
  <2> QED
    BY <1>1, <1>f, <2>1, <2>2, <2>3, <2>4, <2>5, QuietSound
<1> QED
  BY <1>1, <1>2, <1>3, <1>4, WorkerKeeps DEF Rest

\* The same when no money moves and nothing is lost.
LEMMA QuietRests ==
    ASSUME IInv, NEW w \in Workers, pc[w] # "idle", ~Billing(w), Idle(w), UNCHANGED <<goal, books, lost>>, Rest, faults' = faults \/ Fault,
           row' \in Row, row'.st # "none", silent' \in BOOLEAN, rewritten' \in BOOLEAN,
           ~rewritten' => ~rewritten /\ (Sound => RowMoves)
    PROVE  IInv'
<1>1. BooksType' /\ QueueType' /\ UNCHANGED fixed
  BY QueueKept DEF books, Rest, IInv, TypeOK, BooksType
<1>2. BooksKept
  BY <1>1 DEF Rest, books, fixed, BooksKept, FundMoved, TokMoved, UsedMoved, Base
<1>3. Clean' => Clean /\ (Sound => RowMoves)
  BY DEF Clean
<1> QED
  BY <1>1, <1>2, <1>3, RestsKeeps

\* A worker takes a copy of the row.
LEMMA ReadsKeeps ==
    ASSUME IInv, NEW w \in Workers, pc[w] = "idle", NEW l \in {"poll", "sweep", "fetch"},
           pc' = [pc EXCEPT ![w] = l], mem' = [mem EXCEPT ![w] = row],
           row.st # "none", l # "fetch" => row.st \in Open,
           UNCHANGED <<row, fixed, late, channel, sub, books, goal, history, faults>>
    PROVE  IInv'
<1>1. Submitted
  BY DEF IInv, Early, NoTask
<1>2. /\ Others(w) /\ WorkType' /\ pc'[w] = l /\ mem'[w] = row /\ ~Billing(w)' /\ ~Billing(w)
      /\ pc'[w] \in {"poll", "sweep"} => mem'[w].st \in Open
  BY DEF IInv, TypeOK, TaskType, WorkType, Others, Billing
<1>3. TaskType' /\ FlagType' /\ BooksType' /\ QueueType'
  BY QueueKept DEF fixed, books, history, IInv, TypeOK, TaskType, FlagType, BooksType
<1>4. ASSUME Clean' PROVE Sound'
  <2>1. Sound
    BY <1>4 DEF IInv, Clean, history
  <2>2. BooksKept /\ FaultsGrow /\ Submitted' /\ UNCHANGED fixed /\ RowMoves
    BY <1>1 DEF books, fixed, history, BooksKept, FundMoved, TokMoved, UsedMoved, Base, FaultsGrow,
                Submitted, RowMoves, MustBeFree
  <2>3. BillersKept
    BY <1>2 DEF BillersKept, Others, Billing
  <2>4. \A v \in Workers : v # w => CopySound(v)'
    BY <1>2, <2>1 DEF Others, Sound, CopySound, Billing
  <2>5. CopySound(w)'
    BY <1>2, <2>1 DEF Sound, Untouched, CopySound
  <2>6. TypeOK'
    BY <1>2, <1>3 DEF TypeOK, IInv, Others, Billing
  <2> QED
    BY <1>1, <2>1, <2>2, <2>3, <2>4, <2>5, <2>6, QuietSound
<1> QED
  BY <1>1, <1>2, <1>3, <1>4, WorkerKeeps

\* A poll that reads its copy keeps the invariant.
LEMMA ReadKeeps == ASSUME IInv, NEW w \in Workers, Read(w) PROVE IInv'
<1>1. row.st # "none"
  BY DEF Read, Open
<1> QED
  BY <1>1, ReadsKeeps DEF Read

\* A live query that reads its copy keeps the invariant.
LEMMA FetchKeeps == ASSUME IInv, NEW w \in Workers, Fetch(w) PROVE IInv'
  BY ReadsKeeps DEF Fetch

\* A poll that gives up its copy keeps the invariant.
LEMMA GiveUpKeeps == ASSUME IInv, NEW w \in Workers, GiveUp(w) PROVE IInv'
<1>1. row \in Row /\ row' = row /\ silent' \in BOOLEAN /\ rewritten' \in BOOLEAN /\ (~rewritten' => ~rewritten)
  BY DEF GiveUp, history, IInv, TypeOK, TaskType, FlagType
<1>2. row'.st # "none" /\ ~Billing(w) /\ pc[w] # "idle"
  BY <1>1, AtWork DEF GiveUp, Billing
<1>3. RowMoves
  BY DEF GiveUp, history, fixed, RowMoves, MustBeFree
<1> QED
  BY <1>1, <1>2, <1>3, QuietRests DEF GiveUp, Rest, history

\* A write that finds the status it read.
LEMMA WriteFacts ==
    ASSUME IInv, NEW w \in Workers, pc[w] # "idle", NEW s \in Open \cup Final, NEW n \in 0..MaxFailures, Write(w, s, n)
    PROVE  row' \in Row /\ row'.st = s /\ row'.quota = mem[w].quota /\ row'.st # "none"
  BY AtWork DEF Write, Row, Open, Final

\* Writing progress back keeps the invariant.
LEMMA ProgressKeeps == ASSUME IInv, NEW w \in Workers, NEW s \in Open, Progress(w, s) PROVE IInv'
<1>1. row \in Row /\ row.st # "none" /\ pc[w] # "idle" /\ ~Billing(w) /\ mem[w].st \in Open
  BY AtWork DEF Progress, Billing, IInv, TypeOK, TaskType, OpenCopies
<1>2. silent' \in BOOLEAN /\ rewritten' \in BOOLEAN /\ (~rewritten' => ~rewritten)
  BY DEF Progress, history, IInv, TypeOK, FlagType
<1>3. CASE Unmoved(w)
  <2>1. row' \in Row /\ row'.st = s /\ row'.quota = mem[w].quota /\ row'.st # "none"
    BY <1>1, <1>3, WriteFacts, TaskBounds DEF Progress
  <2>2. ASSUME Sound PROVE RowMoves
    <3>1. row.st \in Open /\ row.quota = Quota /\ mem[w].quota = Quota
      BY <1>1, <1>3, <2>2 DEF Unmoved, Sound, Untouched, CopySound, Progress
    <3> QED
      BY <2>1, <3>1 DEF RowMoves, MustBeFree, Open, Final
  <2> QED
    BY <1>1, <1>2, <2>1, <2>2, QuietRests DEF Progress, Rest, history
<1>4. CASE ~Unmoved(w)
  <2>1. row' = row /\ RowMoves
    BY <1>4 DEF Progress, history, fixed, RowMoves, MustBeFree
  <2> QED
    BY <1>1, <1>2, <2>1, QuietRests DEF Progress, Rest, history
<1> QED
  BY <1>3, <1>4

\* Failing all tasks of a channel keeps the invariant.
LEMMA BulkFailKeeps == ASSUME IInv, NEW w \in Workers, BulkFail(w) PROVE IInv'
<1>1. row \in Row /\ pc[w] # "idle" /\ ~Billing(w)
  BY DEF BulkFail, Billing, IInv, TypeOK, TaskType
<1>2. row' \in Row /\ row'.st = "FAILURE" /\ row'.quota = row.quota
  BY <1>1 DEF BulkFail, Row, Final
<1>3. silent' \in BOOLEAN /\ rewritten' \in BOOLEAN /\ (~rewritten' => ~rewritten)
  BY DEF BulkFail, IInv, TypeOK, FlagType
<1>4. RowMoves
  BY <1>2 DEF BulkFail, RowMoves, MustBeFree, Final
<1> QED
  BY <1>1, <1>2, <1>3, <1>4, QuietRests DEF BulkFail, Rest

\* The write of a live query keeps the invariant, or sets rewritten.
LEMMA FetchedKeeps == ASSUME IInv, NEW w \in Workers, NEW s \in Open \cup Final, Fetched(w, s) PROVE IInv'
<1>1. /\ row \in Row /\ row.st # "none" /\ pc[w] # "idle" /\ ~Billing(w) /\ mem[w] \in Row
      /\ mem[w].fails \in 0..MaxFailures
  BY AtWork DEF Fetched, Billing, IInv, TypeOK, TaskType
<1>2. CASE /\ Unmoved(w) /\ Write(w, s, mem[w].fails)
           /\ silent' = (silent \/ s \in Final) /\ rewritten' = (rewritten \/ mem[w].st \in Final) /\ lost' = lost
  <2>1. row' \in Row /\ row'.st = s /\ row'.quota = mem[w].quota /\ row'.st # "none"
    BY <1>1, <1>2, WriteFacts
  <2>2. silent' \in BOOLEAN /\ rewritten' \in BOOLEAN
    BY <1>2
  <2>3. ASSUME ~rewritten' PROVE ~rewritten /\ mem[w].st \notin Final
    BY <1>2, <2>3
  <2>4. ASSUME ~rewritten', Sound PROVE RowMoves
    <3>1. row.st \in Open
      BY <1>1, <1>2, <2>3, <2>4 DEF Unmoved, Row
    <3>2. row.quota = Quota /\ mem[w].quota = Quota
      BY <1>2, <2>4, <3>1 DEF Unmoved, Sound, Untouched, CopySound, Fetched
    <3>3. ~MustBeFree'
      BY <1>2, <2>1 DEF MustBeFree, Final
    <3> QED
      BY <2>1, <3>1, <3>2, <3>3 DEF RowMoves, Open, Final
  <2> QED
    BY <1>1, <1>2, <2>1, <2>2, <2>3, <2>4, QuietRests DEF Fetched, Rest
<1>3. CASE UNCHANGED <<row, history>>
  <2>1. RowMoves /\ silent' \in BOOLEAN /\ rewritten' \in BOOLEAN /\ (~rewritten' => ~rewritten)
    BY <1>3 DEF Fetched, history, fixed, RowMoves, MustBeFree, IInv, TypeOK, FlagType
  <2> QED
    BY <1>1, <1>3, <2>1, QuietRests DEF Fetched, Rest, history
<1> QED
  BY <1>2, <1>3 DEF Fetched

\* The terminal write of a poll or a sweep: one of them finds the task open, and it
\* settles the charge unless that is right already.
LEMMA FinishKeeps ==
    ASSUME IInv, NEW w \in Workers, pc[w] \in {"poll", "sweep"}, NEW s \in Final, NEW c \in Nat \cup {Keep},
           s = "FAILURE" /\ mode # "usage" => c = 0,
           Finish(w, s, c), UNCHANGED <<books, history, faults>>, Rest
    PROVE  IInv'
<1>1. /\ row \in Row /\ row.st # "none" /\ pc[w] # "idle" /\ ~Billing(w) /\ mem[w].st \in Open
      /\ mem[w] \in Row /\ mem[w].quota \in Nat /\ mem[w].fails \in 0..MaxFailures /\ Submitted
  BY AtWork DEF Billing, IInv, TypeOK, TaskType, OpenCopies
<1>2. silent' \in BOOLEAN /\ rewritten' \in BOOLEAN /\ (~rewritten' => ~rewritten) /\ UNCHANGED books
  BY DEF history, IInv, TypeOK, FlagType
<1>3. CASE ~Unmoved(w) /\ Idle(w) /\ UNCHANGED <<row, goal>>
  <2>1. RowMoves
    BY <1>3 DEF history, Rest, fixed, RowMoves, MustBeFree
  <2> QED
    BY <1>1, <1>2, <1>3, <2>1, QuietRests DEF history
<1>4. CASE Unmoved(w) /\ Write(w, s, mem[w].fails) /\ Bill(w, s, c)
  <2>1. row' \in Row /\ row'.st = s /\ row'.quota = mem[w].quota /\ row'.st # "none"
    BY <1>1, <1>4, WriteFacts
  <2>2. ASSUME Sound PROVE row.st \in Open /\ row.quota = Quota /\ mem[w].quota = Quota
    BY <1>1, <1>4, <2>2 DEF Unmoved, Sound, Untouched, CopySound
  <2>3. MustBeFree' => c = 0
    BY <2>1 DEF MustBeFree, Rest, fixed
  <2>4. CASE c = Keep \/ c = mem[w].quota
    <3>1. ASSUME Sound PROVE RowMoves
      <4>1. c # 0
        BY <2>2, <2>4, <3>1, TaskAssumption
      <4> QED
        BY <2>1, <2>2, <2>3, <3>1, <4>1 DEF RowMoves, Open, Final
    <3> QED
      BY <1>1, <1>2, <1>4, <2>1, <2>4, <3>1, QuietRests DEF Bill, history
  <2>5. CASE ~(c = Keep \/ c = mem[w].quota)
    <3>1. /\ pc' = [pc EXCEPT ![w] = "fund"] /\ mem' = [mem EXCEPT ![w].st = s]
          /\ goal' = [goal EXCEPT ![w] = c] /\ c \in Nat
      BY <1>4, <2>5 DEF Bill
    <3>2. Others(w) /\ pc'[w] = "fund" /\ goal'[w] = c
      BY <3>1 DEF IInv, TypeOK, WorkType, Others
    <3>3. mem'[w].st = s /\ mem'[w].quota = mem[w].quota /\ mem'[w] \in Row
      BY <1>1, <3>1 DEF IInv, TypeOK, WorkType, Row
    <3>4. WorkType'
      BY <3>1, <3>3 DEF IInv, TypeOK, WorkType
    <3>5. TaskType' /\ FlagType' /\ BooksType' /\ QueueType'
      BY <2>1, QueueKept DEF Rest, fixed, books, history, IInv, TypeOK, TaskType, FlagType, BooksType
    <3>6. ASSUME Clean' PROVE Sound'
      <4>1. Sound
        BY <1>2, <3>6 DEF IInv, Clean, history
      <4>2. BooksKept /\ FaultsGrow /\ UNCHANGED fixed
        BY DEF Rest, books, fixed, BooksKept, FaultsGrow, FundMoved, TokMoved, UsedMoved, Base
      <4> QED
        BY <2>1, <2>2, <2>3, <3>1, <3>2, <3>3, <4>1, <4>2, BillBegins
    <3>7. sub' = sub
      BY DEF Rest
    <3> QED
      BY <1>1, <2>1, <3>1, <3>2, <3>3, <3>4, <3>5, <3>6, <3>7, WorkerKeeps
  <2> QED
    BY <2>4, <2>5
<1> QED
  BY <1>3, <1>4 DEF Finish

\* What the adaptors may charge.
LEMMA ChargeFacts ==
    ASSUME NEW s \in Final, NEW c, c \in Charges(s)
    PROVE  c \in Nat \cup {Keep} /\ (s = "FAILURE" /\ mode # "usage" => c = 0)
<1>1. CASE s = "SUCCESS"
  BY <1>1, TaskAssumption DEF Charges
<1>2. CASE s = "FAILURE"
  <2>1. c \in Actuals \cup {0} /\ (mode # "usage" => c = 0)
    BY <1>2 DEF Charges
  <2> QED
    BY <2>1, TaskAssumption
<1> QED
  BY <1>1, <1>2 DEF Final

\* A terminal write, won or lost, keeps the invariant.
LEMMA CompleteKeeps == ASSUME IInv, NEW w \in Workers, NEW s \in Final, NEW c, Complete(w, s, c) PROVE IInv'
<1>1. c \in Nat \cup {Keep} /\ (s = "FAILURE" /\ mode # "usage" => c = 0)
  BY ChargeFacts DEF Complete
<1> QED
  BY <1>1, FinishKeeps DEF Complete, Rest

\* A poll failure, the last one included, keeps the invariant.
LEMMA PollFailsKeeps == ASSUME IInv, NEW w \in Workers, NEW c, PollFails(w, c) PROVE IInv'
<1>1. CASE Finish(w, "FAILURE", c)
  <2>1. c \in Nat \cup {Keep} /\ (mode # "usage" => c = 0) /\ "FAILURE" \in Final
    BY ChargeFacts DEF PollFails, Final
  <2> QED
    BY <1>1, <2>1, FinishKeeps DEF PollFails, Rest
<1>2. CASE /\ IF Unmoved(w) THEN Write(w, mem[w].st, mem[w].fails + 1) ELSE UNCHANGED row
           /\ Idle(w) /\ UNCHANGED goal /\ mem[w].fails + 1 < MaxFailures
  <2>1. /\ row \in Row /\ row.st # "none" /\ pc[w] # "idle" /\ ~Billing(w) /\ mem[w].st \in Open
        /\ mem[w].fails \in 0..MaxFailures
    BY AtWork DEF PollFails, Billing, IInv, TypeOK, TaskType, OpenCopies
  <2>2. silent' \in BOOLEAN /\ rewritten' \in BOOLEAN /\ (~rewritten' => ~rewritten)
    BY DEF PollFails, history, IInv, TypeOK, FlagType
  <2>3. mem[w].fails + 1 \in 0..MaxFailures
    BY <1>2, <2>1, TaskBounds
  <2>4. CASE Unmoved(w)
    <3>1. row' \in Row /\ row'.st = mem[w].st /\ row'.quota = mem[w].quota /\ row'.st # "none"
      BY <1>2, <2>1, <2>3, <2>4, WriteFacts
    <3>2. ASSUME Sound PROVE RowMoves
      <4>1. row.st \in Open /\ row.quota = Quota /\ mem[w].quota = Quota
        BY <2>1, <2>4, <3>2 DEF Unmoved, Sound, Untouched, CopySound, PollFails
      <4> QED
        BY <2>1, <3>1, <4>1 DEF RowMoves, MustBeFree, Open, Final
    <3> QED
      BY <1>2, <2>1, <2>2, <3>1, <3>2, QuietRests DEF PollFails, Rest, history
  <2>5. CASE ~Unmoved(w)
    <3>1. row' = row /\ RowMoves
      BY <1>2, <2>5 DEF PollFails, history, fixed, RowMoves, MustBeFree
    <3> QED
      BY <1>2, <2>1, <2>2, <3>1, QuietRests DEF PollFails, Rest, history
  <2> QED
    BY <2>4, <2>5
<1>3. mem[w].fails + 1 >= MaxFailures \/ mem[w].fails + 1 < MaxFailures
  <2>1. mem[w].fails \in 0..MaxFailures
    BY AtWork DEF PollFails
  <2> QED
    BY <2>1, TaskBounds
<1> QED
  BY <1>1, <1>2, <1>3 DEF PollFails

\* The timeout keeps the invariant.
LEMMA SweepKeeps == ASSUME IInv, NEW w \in Workers, Sweep(w) PROVE IInv'
<1>1. CASE Finish(w, "FAILURE", 0)
  <2>1. 0 \in Nat \cup {Keep} /\ "FAILURE" \in Final
    BY DEF Final
  <2> QED
    BY <1>1, <2>1, FinishKeeps DEF Sweep, Rest
<1>2. CASE /\ legacy /\ Idle(w) /\ UNCHANGED goal
           /\ row' = IF Unmoved(w) THEN [st |-> "FAILURE", quota |-> 0, fails |-> mem[w].fails] ELSE row
  <2>1. /\ row \in Row /\ row.st # "none" /\ pc[w] # "idle" /\ ~Billing(w) /\ mem[w].st \in Open
        /\ mem[w].fails \in 0..MaxFailures
    BY AtWork DEF Sweep, Billing, IInv, TypeOK, TaskType, OpenCopies
  <2>2. silent' \in BOOLEAN /\ rewritten' \in BOOLEAN /\ (~rewritten' => ~rewritten)
    BY DEF Sweep, history, IInv, TypeOK, FlagType
  <2>3. row' \in Row /\ row'.st # "none"
    BY <1>2, <2>1 DEF Row, Final
  <2>4. RowMoves
    BY <1>2, <2>1 DEF Sweep, history, fixed, Unmoved, RowMoves, MustBeFree, Open, Final
  <2> QED
    BY <1>2, <2>1, <2>2, <2>3, <2>4, QuietRests DEF Sweep, Rest, history
<1> QED
  BY <1>1, <1>2 DEF Sweep

-----------------------------------------------------------------------------
(* The settlement *)

\* A stage of the settlement leaves the worker's copy and goal alone.
LEMMA ToFacts ==
    ASSUME IInv, NEW w \in Workers, Billing(w), NEW l \in {"fund", "token", "used", "quota"}, To(w, l)
    PROVE  Others(w) /\ WorkType' /\ pc'[w] = l /\ mem'[w] = mem[w] /\ goal'[w] = goal[w] /\ Billing(w)'
  BY DEF To, IInv, TypeOK, WorkType, Others, Billing

\* A step of a settlement that goes on.
LEMMA StageKeeps ==
    ASSUME IInv, NEW w \in Workers, Billing(w), NEW l \in {"token", "used", "quota"}, To(w, l), Rest,
           UNCHANGED history, faults' = faults \/ Fault, row' \in Row, row'.st = row.st, BooksType', QueueType',
           Sound => Begun(w)' /\ (faults' = MaxFaults => Exact(w)')
    PROVE  IInv'
<1>1. Others(w) /\ WorkType' /\ pc'[w] = l /\ mem'[w] = mem[w] /\ goal'[w] = goal[w] /\ Billing(w)'
  BY ToFacts
<1>2. Submitted /\ row.st # "none"
  BY AtWork DEF Billing
<1>3. TaskType' /\ FlagType'
  BY FaultFacts DEF Rest, fixed, history, IInv, TypeOK, TaskType, FlagType
<1>4. mem'[w].st \in Final /\ goal'[w] \in Nat /\ pc'[w] \notin {"poll", "sweep"}
  BY <1>1 DEF IInv, TypeOK
<1>5. ASSUME Clean' PROVE Sound'
  <2>1. Sound
    BY <1>5 DEF IInv, Clean, history
  <2>2. row'.st \in Final
    BY <2>1, BillerFacts
  <2> QED
    BY <1>1, <2>1, <2>2, BillGoesOn
<1> QED
  BY <1>1, <1>2, <1>3, <1>4, <1>5, WorkerKeeps DEF Rest

\* A settlement that ends with this step.
LEMMA EndKeeps ==
    ASSUME IInv, NEW w \in Workers, Billing(w), Idle(w), UNCHANGED goal, Rest,
           UNCHANGED <<silent, rewritten>>, faults' = faults \/ Fault, row' \in Row, row'.st = row.st, BooksType', QueueType',
           Clean' => Clean, Clean' /\ Sound => Rested' /\ (faults' = MaxFaults => Balanced')
    PROVE  IInv'
<1>1. Others(w) /\ WorkType' /\ pc'[w] = "idle" /\ ~Billing(w)'
  BY IdleFacts
<1>2. Submitted /\ row.st # "none"
  BY AtWork DEF Billing
<1>3. TaskType' /\ FlagType'
  BY FaultFacts DEF Rest, fixed, IInv, TypeOK, TaskType, FlagType
<1>4. ASSUME Clean' PROVE Sound'
  <2>1. Sound
    BY <1>4 DEF IInv
  <2>2. row'.st \in Final
    BY <2>1, BillerFacts
  <2> QED
    BY <1>1, <1>4, <2>1, <2>2, BillEnds
<1> QED
  BY <1>1, <1>2, <1>3, <1>4, WorkerKeeps DEF Rest

\* Amounts are integers.
LEMMA Amounts ==
    ASSUME IInv
    PROVE  /\ fund \in Int /\ tok \in Int /\ used \in Int /\ Base \in Int /\ Quota \in Nat /\ Quota # 0
           /\ row \in Row /\ row.quota \in Nat /\ (Rest => Base' = Base)
<1>1. extra \in Int /\ row \in Row /\ fund \in Int /\ tok \in Int /\ used \in Int
  BY DEF IInv, TypeOK, TaskType, BooksType
<1> QED
  BY <1>1, TaskAssumption DEF Base, Row, Rest, fixed

\* A settlement given up leaves a row that shows what it did.
LEMMA GivenUp ==
    ASSUME IInv, Sound, NEW w \in Workers, Billing(w), Rest, UNCHANGED <<row, fund>>
    PROVE  Rested'
<1>1. /\ goal[w] \in Nat /\ Delta(w) = goal[w] - Quota /\ Begun(w)
  BY BillerFacts
<1>2. FundMoved' = FundMoved /\ Quota \in Nat /\ Quota # 0
  BY Amounts DEF FundMoved
<1>3. FundMoved = 0 \/ FundMoved = goal[w] - Quota
  BY <1>1 DEF Begun
<1>4. row.quota = 0 => FundMoved = -Quota
  BY <1>1, <1>2 DEF Begun
<1> QED
  BY <1>1, <1>2, <1>3, <1>4 DEF Rested

\* Moving the funding source keeps the invariant, when it fails too.
LEMMA AdjustFundingKeeps == ASSUME IInv, NEW w \in Workers, AdjustFunding(w) PROVE IInv'
<1>1. Billing(w) /\ pc[w] = "fund" /\ Rest /\ UNCHANGED history /\ row' = row /\ tok' = tok /\ used' = used
  BY DEF AdjustFunding, Billing, Rest
<1>2. /\ fund \in Int /\ tok \in Int /\ used \in Int /\ Base \in Int /\ Quota \in Nat /\ Quota # 0
      /\ row \in Row /\ row.quota \in Nat /\ Base' = Base
  BY <1>1, Amounts
<1>3. goal[w] \in Nat /\ mem[w].quota \in Nat /\ Delta(w) \in Int
  BY <1>1, AtWork DEF IInv, TypeOK, Delta
<1>u. w \in Processes /\ UNCHANGED <<lost, fixed>> /\ (Clean' => Clean)
  BY <1>1 DEF Processes, history, Rest, Clean
<1>4. CASE fund' = fund + Delta(w) /\ Enqueue(w, {"fund"}, Delta(w)) /\ To(w, "token") /\ UNCHANGED faults
  <2>1. pc'[w] = "token" /\ mem'[w] = mem[w] /\ goal'[w] = goal[w]
    BY <1>1, <1>4, ToFacts
  <2>2. BooksType' /\ QueueType'
    BY <1>1, <1>2, <1>3, <1>4, <1>u, EnqueueFacts DEF BooksType
  <2>3. ASSUME Sound PROVE Begun(w)' /\ (faults' = MaxFaults => Exact(w)')
    <3>1. Begun(w) /\ (faults = MaxFaults => Exact(w)) /\ Delta(w)' = Delta(w) /\ (Refunds(w)' <=> Refunds(w))
      BY <1>1, <2>1, <2>3, BillerFacts DEF Delta, Refunds
    <3>2. FundMoved' = Delta(w) /\ TokMoved' = TokMoved /\ UsedMoved' = UsedMoved
      BY <1>1, <1>2, <1>3, <1>4, <3>1 DEF Begun, FundMoved, TokMoved, UsedMoved, Rest
    <3>3. MustBeFree' <=> MustBeFree
      BY <1>1 DEF MustBeFree, Rest, fixed, history
    <3>4. Begun(w)'
      BY <1>1, <2>1, <3>1, <3>2, <3>3 DEF Begun
    <3>5. faults' = MaxFaults => Exact(w)'
      BY <1>1, <1>4, <2>1, <3>1, <3>2 DEF Exact
    <3> QED
      BY <3>4, <3>5
  <2> QED
    BY <1>1, <1>2, <1>4, <2>2, <2>3, StageKeeps
<1>5. CASE Fault /\ Idle(w) /\ UNCHANGED <<fund, queued, goal>>
  <2>1. BooksType' /\ QueueType'
    BY <1>1, <1>5, <1>u, QueueKept DEF IInv, TypeOK, BooksType
  <2>2. Sound => Rested' /\ (faults' = MaxFaults => Balanced')
    BY <1>1, <1>5, GivenUp, FaultFacts
  <2> QED
    BY <1>1, <1>2, <1>5, <1>u, <2>1, <2>2, EndKeeps DEF history
<1> QED
  BY <1>4, <1>5 DEF AdjustFunding

\* Moving the token keeps the invariant.
LEMMA AdjustTokenKeeps == ASSUME IInv, NEW w \in Workers, AdjustToken(w) PROVE IInv'
<1>1. Billing(w) /\ pc[w] = "token" /\ Rest /\ UNCHANGED history /\ row' = row /\ fund' = fund /\ used' = used
  BY DEF AdjustToken, Billing, Rest
<1>2. /\ fund \in Int /\ tok \in Int /\ used \in Int /\ Base \in Int /\ Quota \in Nat /\ Quota # 0
      /\ row \in Row /\ row.quota \in Nat /\ Base' = Base
  BY <1>1, Amounts
<1>3. goal[w] \in Nat /\ mem[w].quota \in Nat /\ Delta(w) \in Int
  BY <1>1, AtWork DEF IInv, TypeOK, Delta
<1> DEFINE l == IF Refunds(w) THEN "used" ELSE "quota"
<1>4. l \in {"token", "used", "quota"} /\ To(w, l)
  BY DEF AdjustToken
<1>5. pc'[w] = l /\ mem'[w] = mem[w] /\ goal'[w] = goal[w]
  BY <1>1, <1>4, ToFacts
<1>6. (tok' = tok + Delta(w) /\ faults' = faults) \/ (tok' = tok /\ Fault)
  BY DEF AdjustToken
<1>q. QueueType'
  <2>1. w \in Processes /\ UNCHANGED <<lost, fixed>>
    BY <1>1 DEF Processes, history, Rest
  <2> QED
    BY <1>3, <2>1, EnqueueFacts, QueueKept DEF AdjustToken
<1>7. BooksType' /\ (faults' = faults \/ Fault)
  BY <1>1, <1>2, <1>3, <1>6 DEF BooksType
<1>8. ASSUME Sound PROVE Begun(w)' /\ (faults' = MaxFaults => Exact(w)')
  <2>1. Begun(w) /\ (faults = MaxFaults => Exact(w)) /\ Delta(w)' = Delta(w) /\ (Refunds(w)' <=> Refunds(w))
    BY <1>1, <1>5, <1>8, BillerFacts DEF Delta, Refunds
  <2>2. FundMoved' = FundMoved /\ UsedMoved' = UsedMoved
    BY <1>1, <1>2 DEF FundMoved, UsedMoved, Rest
  <2>3. MustBeFree' <=> MustBeFree
    BY <1>1 DEF MustBeFree, Rest, fixed, history
  <2>4. Begun(w)'
    BY <1>1, <1>5, <2>1, <2>2, <2>3 DEF Begun
  <2>5. ASSUME faults' = MaxFaults PROVE Exact(w)'
    <3>1. tok' = tok + Delta(w) /\ Exact(w)
      BY <1>6, <1>7, <2>1, <2>5, FaultFacts
    <3>2. TokMoved' = Delta(w)
      BY <1>1, <1>2, <1>3, <3>1 DEF Exact, TokMoved
    <3> QED
      BY <1>1, <1>5, <2>1, <2>2, <3>1, <3>2 DEF Exact
  <2> QED
    BY <2>4, <2>5
<1> HIDE DEF l
<1> QED
  BY <1>1, <1>2, <1>4, <1>7, <1>8, <1>q, StageKeeps

\* Moving the used counters keeps the invariant.
LEMMA AdjustUsedKeeps == ASSUME IInv, NEW w \in Workers, AdjustUsed(w) PROVE IInv'
<1>1. /\ Billing(w) /\ pc[w] = "used" /\ Rest /\ UNCHANGED history /\ row' = row /\ fund' = fund /\ tok' = tok
      /\ (used' = used + Delta(w) /\ faults' = faults) \/ (used' = used /\ Fault)
  BY DEF AdjustUsed, Billing, Rest
<1>2. /\ fund \in Int /\ tok \in Int /\ used \in Int /\ Base \in Int /\ Quota \in Nat /\ Quota # 0
      /\ row \in Row /\ row.quota \in Nat /\ Base' = Base
  BY <1>1, Amounts
<1>3. goal[w] \in Nat /\ mem[w].quota \in Nat /\ Delta(w) \in Int
  BY <1>1, AtWork DEF IInv, TypeOK, Delta
<1>4. BooksType' /\ (faults' = faults \/ Fault)
  BY <1>1, <1>2, <1>3 DEF BooksType
<1>q. QueueType' /\ (Clean' => Clean) /\ UNCHANGED <<silent, rewritten>>
  <2>1. w \in Processes /\ UNCHANGED <<lost, fixed>>
    BY <1>1 DEF Processes, history, Rest
  <2> QED
    BY <1>1, <1>3, <2>1, EnqueueFacts, QueueKept DEF AdjustUsed, Clean, history
<1>f. faults' = MaxFaults => used' = used + Delta(w) /\ faults = MaxFaults
  BY <1>1, <1>4, FaultFacts DEF FaultsGrow
<1>5. /\ FundMoved' = FundMoved /\ TokMoved' = TokMoved /\ UsedMoved \in Int
      /\ faults' = MaxFaults => UsedMoved' = UsedMoved + Delta(w)
  BY <1>1, <1>2, <1>3, <1>f DEF FundMoved, TokMoved, UsedMoved, Rest
<1>6. MustBeFree' <=> MustBeFree
  BY <1>1 DEF MustBeFree, Rest, fixed, history
<1>7. CASE Refunds(w) /\ To(w, "quota")
  <2>1. pc'[w] = "quota" /\ mem'[w] = mem[w] /\ goal'[w] = goal[w]
    BY <1>1, <1>7, ToFacts
  <2>2. ASSUME Sound PROVE Begun(w)' /\ (faults' = MaxFaults => Exact(w)')
    <3>1. Begun(w) /\ (faults = MaxFaults => Exact(w)) /\ Delta(w)' = Delta(w) /\ Refunds(w)'
      BY <1>1, <1>7, <2>1, <2>2, BillerFacts DEF Delta, Refunds
    <3>2. Begun(w)'
      BY <1>1, <1>5, <1>6, <2>1, <3>1 DEF Begun
    <3>3. ASSUME faults' = MaxFaults PROVE Exact(w)'
      <4>1. Exact(w)
        BY <1>f, <3>1, <3>3
      <4>2. UsedMoved' = Delta(w)
        BY <1>1, <1>3, <1>5, <1>7, <3>3, <4>1 DEF Exact
      <4> QED
        BY <1>1, <1>5, <1>7, <2>1, <3>1, <4>1, <4>2 DEF Exact
    <3> QED
      BY <3>2, <3>3
  <2> QED
    BY <1>1, <1>2, <1>4, <1>7, <1>q, <2>2, StageKeeps
<1>8. CASE ~Refunds(w) /\ Idle(w) /\ UNCHANGED goal
  <2>1. ASSUME Sound PROVE Rested' /\ (faults' = MaxFaults => Balanced')
    <3>1. Begun(w) /\ (faults = MaxFaults => Exact(w)) /\ Delta(w) = goal[w] - Quota
      BY <1>1, <2>1, BillerFacts
    <3>2. FundMoved' = goal[w] - Quota /\ (row'.quota = Quota \/ row'.quota = goal[w])
      BY <1>1, <1>5, <3>1 DEF Begun
    <3>3. Rested'
      BY <1>2, <1>3, <3>2 DEF Rested
    <3>4. ASSUME faults' = MaxFaults PROVE Balanced'
      <4>1. Exact(w) /\ UsedMoved' = UsedMoved + Delta(w)
        BY <1>5, <1>f, <3>1, <3>4
      <4>2. TokMoved = Delta(w) /\ UsedMoved = 0 /\ row.quota = goal[w]
        BY <1>1, <1>8, <4>1 DEF Exact
      <4>3. MustBeFree => goal[w] = 0
        BY <3>1 DEF Begun
      <4> QED
        BY <1>1, <1>3, <1>5, <1>6, <3>1, <3>2, <4>1, <4>2, <4>3 DEF Balanced
    <3> QED
      BY <3>3, <3>4
  <2> QED
    BY <1>1, <1>2, <1>4, <1>8, <1>q, <2>1, EndKeeps
<1> QED
  BY <1>7, <1>8 DEF AdjustUsed

\* Writing the new charge into the row keeps the invariant.
LEMMA UpdateQuotaKeeps == ASSUME IInv, NEW w \in Workers, UpdateQuota(w) PROVE IInv'
<1>1. /\ Billing(w) /\ pc[w] = "quota" /\ Rest /\ UNCHANGED history /\ fund' = fund /\ tok' = tok
      /\ used' = used
  BY DEF UpdateQuota, Billing, Rest, books
<1>2. /\ fund \in Int /\ tok \in Int /\ used \in Int /\ Base \in Int /\ Quota \in Nat /\ Quota # 0
      /\ row \in Row /\ row.quota \in Nat /\ Base' = Base
  BY <1>1, Amounts
<1>3. goal[w] \in Nat /\ mem[w].quota \in Nat /\ Delta(w) \in Int
  BY <1>1, AtWork DEF IInv, TypeOK, Delta
<1>4. BooksType' /\ QueueType' /\ (Clean' => Clean) /\ UNCHANGED <<silent, rewritten>>
  <2>1. UNCHANGED <<queued, lost, fixed, silent, rewritten>>
    BY <1>1 DEF UpdateQuota, books, history, Rest
  <2> QED
    BY <1>1, <1>2, <2>1, QueueKept DEF BooksType, Clean
<1>5. FundMoved' = FundMoved /\ TokMoved' = TokMoved /\ UsedMoved' = UsedMoved
  BY <1>1, <1>2 DEF FundMoved, TokMoved, UsedMoved, Rest
<1>6. /\ row' \in Row /\ row'.st = row.st
      /\ (row'.quota = goal[w] /\ faults' = faults) \/ (row'.quota = row.quota /\ Fault)
  <2>1. (row' = [row EXCEPT !.quota = goal[w]] /\ UNCHANGED faults) \/ (Fault /\ row' = row)
    BY DEF UpdateQuota
  <2> QED
    BY <1>2, <1>3, <2>1 DEF Row
<1>7. MustBeFree' <=> MustBeFree
  BY <1>1, <1>6 DEF MustBeFree, Rest, fixed, history
<1>8. CASE ~Refunds(w) /\ To(w, "used")
  <2>1. pc'[w] = "used" /\ mem'[w] = mem[w] /\ goal'[w] = goal[w]
    BY <1>1, <1>8, ToFacts
  <2>2. ASSUME Sound PROVE Begun(w)' /\ (faults' = MaxFaults => Exact(w)')
    <3>1. Begun(w) /\ (faults = MaxFaults => Exact(w)) /\ Delta(w)' = Delta(w) /\ ~Refunds(w)'
      BY <1>1, <1>8, <2>1, <2>2, BillerFacts DEF Delta, Refunds
    <3>2. Begun(w)'
      BY <1>1, <1>5, <1>6, <1>7, <2>1, <3>1 DEF Begun
    <3>3. ASSUME faults' = MaxFaults PROVE Exact(w)'
      <4>1. row'.quota = goal[w] /\ Exact(w)
        BY <1>6, <3>1, <3>3, FaultFacts
      <4> QED
        BY <1>1, <1>5, <1>8, <2>1, <3>1, <4>1 DEF Exact
    <3> QED
      BY <3>2, <3>3
  <2> QED
    BY <1>1, <1>4, <1>6, <1>8, <2>2, StageKeeps
<1>9. CASE Refunds(w) /\ Idle(w) /\ UNCHANGED goal
  <2>1. ASSUME Sound PROVE Rested' /\ (faults' = MaxFaults => Balanced')
    <3>1. Begun(w) /\ (faults = MaxFaults => Exact(w)) /\ Delta(w) = goal[w] - Quota
      BY <1>1, <2>1, BillerFacts
    <3>2. FundMoved' = goal[w] - Quota /\ (row'.quota = Quota \/ row'.quota = goal[w])
      BY <1>1, <1>5, <1>6, <3>1 DEF Begun
    <3>3. Rested'
      BY <1>2, <1>3, <3>2 DEF Rested
    <3>4. ASSUME faults' = MaxFaults PROVE Balanced'
      <4>1. Exact(w) /\ row'.quota = goal[w]
        BY <1>6, <3>1, <3>4, FaultFacts
      <4>2. TokMoved = Delta(w) /\ UsedMoved = Delta(w)
        BY <1>1, <1>9, <4>1 DEF Exact
      <4>3. MustBeFree => goal[w] = 0
        BY <3>1 DEF Begun
      <4> QED
        BY <1>3, <1>5, <1>7, <3>1, <3>2, <4>1, <4>2, <4>3 DEF Balanced
    <3> QED
      BY <3>3, <3>4
  <2> QED
    BY <1>1, <1>4, <1>6, <1>9, <2>1, EndKeeps
<1> QED
  BY <1>8, <1>9 DEF UpdateQuota

\* Nothing happens to the task, its books and its workers.
LEMMA OutsideKeeps ==
    ASSUME IInv, late' \in BOOLEAN, channel' \in BOOLEAN, QueueType', UNCHANGED <<row, fixed, sub, fund, tok, used, work, history, faults>>
    PROVE  IInv'
<1>1. TypeOK'
  <2>1. TaskType' /\ FlagType' /\ BooksType' /\ WorkType'
    BY DEF fixed, work, history, IInv, TypeOK, TaskType, FlagType, BooksType, WorkType
  <2> QED
    BY <2>1 DEF IInv, TypeOK, work, Billing
<1>2. Early' /\ OpenCopies' /\ (Submitted' <=> Submitted)
  BY DEF IInv, Early, Submitted, OpenCopies, work, fixed, history
<1>3. FundMoved' = FundMoved /\ TokMoved' = TokMoved /\ UsedMoved' = UsedMoved
  BY DEF FundMoved, TokMoved, UsedMoved, Base, fixed
<1>4. ASSUME Clean' PROVE Sound'
  <2>1. Sound
    BY <1>4 DEF IInv, Clean, history
  <2>2. MustBeFree' <=> MustBeFree
    BY DEF MustBeFree, history, fixed
  <2>3. \A v \in Workers : (Billing(v)' <=> Billing(v)) /\ CopySound(v)'
    BY <2>1 DEF Sound, CopySound, Billing, work
  <2>4. ASSUME NEW v \in Workers PROVE (Begun(v) => Begun(v)') /\ (Exact(v) => Exact(v)')
    BY <1>3, <2>2 DEF Begun, Exact, Delta, Refunds, work
  <2>5. (Rested => Rested') /\ (Balanced => Balanced')
    BY <1>2, <1>3, <2>2 DEF Rested, Balanced, fixed
  <2>6. Untouched' /\ OneBiller'
    BY <1>3, <2>1, <2>3 DEF Sound, Untouched, OneBiller
  <2> QED
    BY <1>2, <2>1, <2>3, <2>4, <2>5, <2>6 DEF Sound, fixed
<1> QED
  BY <1>1, <1>2, <1>4 DEF IInv

\* A batch store loses what it holds and nothing else happens; a worker at rest may
\* forget its copy.
LEMMA LossAlone ==
    ASSUME IInv, UNCHANGED <<row, fixed, late, channel, sub, pc, goal, silent, rewritten>>, WorkType', BooksType', QueueType', Fault,
           lost \subseteq lost', \A v \in Workers : mem'[v] = mem[v] \/ pc[v] = "idle",
           faults' # MaxFaults, Clean' => Clean /\ fund' = fund
    PROVE  IInv'
<1>1. \A v \in Workers : (Billing(v)' <=> Billing(v)) /\ (pc[v] # "idle" => mem'[v] = mem[v])
  BY DEF Billing
<1>2. TypeOK'
  <2>1. TaskType' /\ FlagType'
    BY FaultFacts DEF fixed, IInv, TypeOK, TaskType, FlagType
  <2>2. \A v \in Workers : Billing(v)' => mem'[v].st \in Final /\ goal'[v] \in Nat
    BY <1>1 DEF IInv, TypeOK, Billing
  <2> QED
    BY <2>1, <2>2 DEF TypeOK
<1>3. OpenCopies' /\ (Submitted' <=> Submitted)
  BY <1>1 DEF IInv, OpenCopies, Submitted
<1>4. Early'
  <2>1. ~Submitted' => row' = NoTask /\ ~rewritten' /\ \A w \in Workers : pc'[w] = "idle"
    BY <1>3 DEF IInv, Early
  <2>2. Submitted' => row'.st # "none"
    BY <1>3 DEF IInv, Early
  <2>3. ASSUME "fund" \notin lost', ~Submitted PROVE fund' = fund /\ "fund" \notin lost
    <3>1. Clean'
      BY <2>3 DEF IInv, Clean, Early
    <3> QED
      BY <2>3, <3>1
  <2> QED
    BY <2>1, <2>2, <2>3 DEF IInv, Early, Submitted, fixed
<1>5. ASSUME Clean' PROVE Sound'
  <2>1. Sound /\ FundMoved' = FundMoved
    BY <1>5 DEF IInv, FundMoved, Base, fixed
  <2>2. MustBeFree' <=> MustBeFree
    BY DEF MustBeFree, fixed
  <2>3. \A v \in Workers : CopySound(v)'
    BY <1>1, <2>1 DEF Sound, CopySound, Billing
  <2>4. ASSUME NEW v \in Workers, Billing(v)' PROVE Begun(v)'
    <3>1. Begun(v) /\ mem'[v] = mem[v]
      BY <1>1, <2>1, <2>4 DEF Sound, Billing
    <3> QED
      BY <2>1, <2>2, <3>1 DEF Begun, Delta
  <2>5. Rested => Rested'
    BY <1>3, <2>1 DEF Rested, fixed
  <2>6. Untouched' /\ OneBiller'
    BY <1>1, <2>1 DEF Sound, Untouched, OneBiller
  <2> QED
    BY <1>1, <2>1, <2>3, <2>4, <2>5, <2>6 DEF Sound
<1> QED
  BY <1>2, <1>3, <1>4, <1>5 DEF IInv

\* The death of a process between two steps of its worker keeps the invariant.
LEMMA CrashKeeps == ASSUME IInv, NEW w \in Workers, Crash(w) PROVE IInv'
<1>1. /\ row \in Row /\ row' = row /\ Rest /\ UNCHANGED <<silent, rewritten, goal>> /\ Idle(w) /\ Fault /\ Lose(w, Books)
      /\ silent' \in BOOLEAN /\ rewritten' \in BOOLEAN /\ w \in Processes /\ UNCHANGED fixed
  BY DEF Crash, Rest, Processes, IInv, TypeOK, TaskType, FlagType
<1>2. BooksType' /\ QueueType' /\ lost \subseteq lost' /\ ("fund" \notin lost' => fund' = fund)
  BY <1>1, LoseFacts
<1>3. Clean' => Clean /\ fund' = fund
  BY <1>1, <1>2 DEF Clean
<1>4. faults' # MaxFaults
  BY <1>1, FaultFacts
<1>5. CASE pc[w] # "idle" /\ ~Billing(w)
  <2>1. RowMoves
    BY <1>1 DEF Rest, fixed, RowMoves, MustBeFree
  <2>2. Clean' => BooksKept
    BY <1>1, <1>3, <1>4, Amounts DEF BooksKept, FundMoved
  <2>3. row'.st # "none"
    BY <1>1, <1>5, AtWork
  <2> QED
    BY <1>1, <1>2, <1>3, <1>5, <2>1, <2>2, <2>3, RestsKeeps
<1>6. CASE Billing(w)
  <2>1. Clean' /\ Sound => Rested' /\ (faults' = MaxFaults => Balanced')
    BY <1>1, <1>3, <1>4, <1>6, GivenUp
  <2> QED
    BY <1>1, <1>2, <1>3, <1>6, <2>1, EndKeeps
<1>7. CASE pc[w] = "idle"
  <2>1. mem' = [mem EXCEPT ![w] = NoTask] /\ pc' = pc
    BY <1>1, <1>7 DEF Idle, IInv, TypeOK, WorkType
  <2>2. \A v \in Workers : v # w => mem'[v] = mem[v]
    BY <2>1 DEF IInv, TypeOK, WorkType
  <2>3. UNCHANGED <<row, fixed, late, channel, sub, pc, goal, silent, rewritten>>
    BY <1>1, <2>1 DEF Rest
  <2>4. WorkType'
    BY <1>1, IdleFacts
  <2> QED
    BY <1>1, <1>2, <1>3, <1>4, <1>7, <2>2, <2>3, <2>4, LossAlone
<1> QED
  BY <1>5, <1>6, <1>7 DEF Billing

-----------------------------------------------------------------------------
(* The submission *)

\* The task is inserted: there was nothing to work on before.
LEMMA InsertKeeps == ASSUME IInv, NEW s \in {"QUEUED"} \cup Final, Insert(s) PROVE IInv'
<1>1. /\ sub = "reserved" /\ sub' = "inserted" /\ UNCHANGED <<fixed, late, channel, books, work, rewritten, lost, faults>>
      /\ row' = [st |-> s, quota |-> Quota, fails |-> 0] /\ silent' = (s = "FAILURE")
  BY DEF Insert
<1>2. \A w \in Workers : pc[w] = "idle" /\ pc'[w] = "idle" /\ ~Billing(w)'
  BY <1>1 DEF IInv, Early, Submitted, Billing, work
<1>3. row' \in Row /\ row'.st = s /\ row'.quota = Quota /\ row'.st \in Open \cup Final
  BY <1>1, TaskAssumption, TaskBounds DEF Row, Open, Final
<1>4. TypeOK'
  <2>1. TaskType' /\ FlagType'
    BY <1>1, <1>3 DEF fixed, IInv, TypeOK, TaskType, FlagType
  <2>2. BooksType' /\ QueueType' /\ WorkType'
    BY <1>1, QueueKept DEF books, work, IInv, TypeOK, BooksType, WorkType
  <2> QED
    BY <1>2, <2>1, <2>2 DEF TypeOK
<1>5. Early' /\ OpenCopies'
  BY <1>1, <1>2, <1>3 DEF Early, OpenCopies, Submitted, Open, Final
<1>6. ASSUME Clean' PROVE FundMoved' = 0 /\ (faults' = MaxFaults => TokMoved' = 0 /\ UsedMoved' = 0)
  <2>1. extra \in Int /\ Quota \in Nat
    BY TaskAssumption DEF IInv, TypeOK, TaskType
  <2> QED
    BY <1>1, <1>6, <2>1 DEF IInv, Early, Clean, fixed, books, FundMoved, TokMoved, UsedMoved, Base
<1>7. ASSUME Clean' PROVE Sound'
  <2>1. Untouched' /\ OneBiller' /\ \A w \in Workers : CopySound(w)'
    BY <1>2, <1>3, <1>6, <1>7 DEF Untouched, OneBiller, CopySound
  <2>2. Rested' /\ (faults' = MaxFaults => Balanced')
    <3>1. ~MustBeFree'
      BY <1>1, <1>3 DEF MustBeFree
    <3> QED
      BY <1>3, <1>6, <1>7, <3>1, TaskAssumption DEF Rested, Balanced
  <2> QED
    BY <1>2, <2>1, <2>2 DEF Sound
<1> QED
  BY <1>4, <1>5, <1>7 DEF IInv

\* A failed insert keeps the invariant.
LEMMA InsertFailsKeeps == ASSUME IInv, InsertFails PROVE IInv'
<1>1. /\ sub = "reserved" /\ sub' = "refused" /\ Fault
      /\ fund' = fund - (Quota + extra) /\ tok' = tok - (Quota + extra) /\ Enqueue(Relay, {"fund", "tok"}, 0 - (Quota + extra))
      /\ UNCHANGED <<row, fixed, late, channel, used, work, history>>
  BY DEF InsertFails
<1>2. /\ \A w \in Workers : pc[w] = "idle" /\ pc'[w] = "idle" /\ ~Billing(w)'
      /\ row = NoTask /\ row' = NoTask
  BY <1>1 DEF IInv, Early, Submitted, Billing, work
<1>a. extra \in Int /\ Quota \in Int /\ 0 - (Quota + extra) \in Int
  BY TaskAssumption DEF IInv, TypeOK, TaskType
<1>b. "fund" \notin lost' => fund' = 0
  BY <1>1, <1>a DEF IInv, Early, history
<1>3. TypeOK'
  <2>1. TaskType' /\ FlagType'
    BY <1>1, FaultFacts DEF fixed, history, IInv, TypeOK, TaskType, FlagType
  <2>2. BooksType' /\ WorkType'
    BY <1>1, <1>a DEF work, IInv, TypeOK, BooksType, WorkType
  <2>3. QueueType'
    BY <1>1, <1>a, EnqueueFacts DEF history, Processes
  <2> QED
    BY <1>2, <2>1, <2>2, <2>3 DEF TypeOK
<1>4. Early' /\ OpenCopies' /\ ~Submitted'
  BY <1>1, <1>2, <1>b DEF Early, OpenCopies, Submitted, history, IInv
<1>5. ASSUME Clean' PROVE Sound'
  <2>1. Untouched' /\ OneBiller' /\ \A w \in Workers : CopySound(w)'
    BY <1>2 DEF Untouched, OneBiller, CopySound, NoTask, Open
  <2>2. Rested'
    BY <1>1, <1>4, <1>5, <1>b, TaskAssumption DEF Rested, Clean, FundMoved, Base
  <2> QED
    BY <1>2, <1>4, <2>1, <2>2 DEF Sound
<1> QED
  BY <1>3, <1>4, <1>5 DEF IInv

\* A step of the submission once the task exists.
LEMMA SubmissionKeeps ==
    ASSUME IInv, Submitted, Submitted', Clean' => Clean /\ BooksKept,
           UNCHANGED <<row, fixed, late, channel, work, silent, rewritten>>,
           TaskType', BooksType', QueueType', faults' = faults \/ Fault
    PROVE  IInv'
<1>1. FlagType' /\ WorkType' /\ FaultsGrow
  BY FaultFacts DEF fixed, work, IInv, TypeOK, FlagType, WorkType
<1>2. TypeOK'
  BY <1>1 DEF IInv, TypeOK, work, Billing
<1>3. Early' /\ OpenCopies'
  BY DEF IInv, Early, Submitted, OpenCopies, work
<1>4. ASSUME Clean' PROVE Sound'
  <2>1. Sound /\ BooksKept
    BY <1>4 DEF IInv
  <2>2. BillersKept /\ RowMoves /\ \A v \in Workers : CopySound(v)'
    BY <2>1 DEF BillersKept, RowMoves, MustBeFree, Sound, CopySound, Billing, work, fixed
  <2> QED
    BY <1>1, <1>2, <2>1, <2>2, QuietSound
<1> QED
  BY <1>2, <1>3, <1>4 DEF IInv

\* The settlement of the submission keeps the invariant.
LEMMA SettleKeeps == ASSUME IInv, Settle PROVE IInv'
<1>1. /\ Submitted /\ Submitted' /\ sub = "inserted" /\ sub' \in {"settled", "unsettled", "unlogged"} /\ extra' = extra
      /\ used' = used /\ UNCHANGED <<row, fixed, late, channel, work, history>>
  BY DEF Settle, Submitted, fixed
<1>2. extra \in Int /\ Quota \in Int /\ fund \in Int /\ tok \in Int /\ used \in Int /\ 0 - extra \in Int
  BY TaskAssumption DEF IInv, TypeOK, TaskType, BooksType
<1>3. UNCHANGED <<lost, fixed, silent, rewritten>> /\ (Clean' => Clean) /\ Relay \in Processes
  BY <1>1 DEF history, Clean, Processes
<1>4. TaskType'
  BY <1>1 DEF fixed, IInv, TypeOK, TaskType
<1>5. CASE /\ sub' = "settled" /\ fund' = fund - extra /\ tok' = tok - extra /\ UNCHANGED faults
           /\ Enqueue(Relay, {"fund", "tok"}, 0 - extra)
  <2>1. BooksKept /\ BooksType'
    BY <1>1, <1>2, <1>5 DEF BooksKept, FundMoved, TokMoved, UsedMoved, Base, BooksType
  <2>2. QueueType'
    BY <1>2, <1>3, <1>5, EnqueueFacts
  <2> QED
    BY <1>1, <1>3, <1>4, <1>5, <2>1, <2>2, SubmissionKeeps
<1>6. CASE /\ Fault /\ UNCHANGED <<tok, queued>>
           /\ (sub' = "unsettled" /\ fund' = fund) \/ (sub' = "unlogged" /\ fund' = fund - extra)
  <2>1. faults' # MaxFaults
    BY <1>6, FaultFacts
  <2>2. BooksKept /\ BooksType'
    BY <1>1, <1>2, <1>6, <2>1 DEF BooksKept, FundMoved, Base, BooksType
  <2>3. QueueType'
    BY <1>3, <1>6, QueueKept
  <2> QED
    BY <1>1, <1>3, <1>4, <1>6, <2>2, <2>3, SubmissionKeeps
<1> QED
  BY <1>5, <1>6 DEF Settle

\* Logging the consumption of a submission keeps the invariant.
LEMMA LogKeeps == ASSUME IInv, Log PROVE IInv'
<1>1. /\ Submitted /\ Submitted' /\ sub = "settled" /\ sub' = "done" /\ fund' = fund /\ tok' = tok
      /\ UNCHANGED <<row, fixed, late, channel, work, history>>
  BY DEF Log, Submitted
<1>2. Quota \in Int /\ fund \in Int /\ tok \in Int /\ used \in Int
  BY TaskAssumption DEF IInv, TypeOK, BooksType
<1>3. UNCHANGED <<lost, fixed, silent, rewritten>> /\ (Clean' => Clean) /\ Relay \in Processes
  BY <1>1 DEF history, Clean, Processes
<1>4. TaskType'
  BY <1>1 DEF fixed, IInv, TypeOK, TaskType
<1>5. CASE used' = used + Quota /\ Enqueue(Relay, {"used"}, Quota) /\ UNCHANGED faults
  <2>1. BooksKept /\ BooksType'
    BY <1>1, <1>2, <1>5 DEF BooksKept, FundMoved, TokMoved, UsedMoved, Base, BooksType, fixed
  <2>2. QueueType'
    BY <1>2, <1>3, <1>5, EnqueueFacts
  <2> QED
    BY <1>1, <1>3, <1>4, <1>5, <2>1, <2>2, SubmissionKeeps
<1>6. CASE Fault /\ UNCHANGED <<used, queued>>
  <2>1. faults' # MaxFaults
    BY <1>6, FaultFacts
  <2>2. BooksKept /\ BooksType'
    BY <1>1, <1>2, <1>6, <2>1 DEF BooksKept, FundMoved, Base, BooksType, fixed
  <2>3. QueueType'
    BY <1>3, <1>6, QueueKept
  <2> QED
    BY <1>1, <1>3, <1>4, <1>6, <2>2, <2>3, SubmissionKeeps
<1> QED
  BY <1>5, <1>6 DEF Log

\* The death of the submission's process once the task exists keeps the invariant.
LEMMA RelayCrashKeeps == ASSUME IInv, RelayCrash PROVE IInv'
<1>1. /\ Submitted /\ Fault /\ Lose(Relay, Books) /\ Relay \in Processes
      /\ UNCHANGED <<row, fixed, late, channel, work, silent, rewritten>>
      /\ sub' = IF sub = "inserted" THEN "unsettled" ELSE IF sub = "settled" THEN "unlogged" ELSE sub
  BY DEF RelayCrash, Submitted, Processes
<1>2. BooksType' /\ QueueType' /\ lost \subseteq lost' /\ ("fund" \notin lost' => fund' = fund)
  BY <1>1, LoseFacts
<1>3. faults' # MaxFaults
  BY <1>1, FaultFacts
<1>4. TaskType' /\ Submitted' /\ Base' = Base
  BY <1>1 DEF fixed, IInv, TypeOK, TaskType, Submitted, Base
<1>5. Clean' => Clean /\ BooksKept
  BY <1>1, <1>2, <1>3, <1>4 DEF Clean, BooksKept, FundMoved
<1> QED
  BY <1>1, <1>2, <1>4, <1>5, SubmissionKeeps

\* Writing a batch store, with success or not, keeps the invariant.
LEMMA FlushKeeps == ASSUME IInv, NEW n \in Processes, Flush(n) PROVE IInv'
<1>1. UNCHANGED <<row, fixed, late, channel, sub, work, silent, rewritten>>
  BY DEF Flush
<1>2. CASE Emptied(n) /\ UNCHANGED <<fund, tok, used, lost, faults>>
  <2>1. BooksType' /\ QueueType'
    BY <1>1, <1>2, EmptiedFacts DEF IInv, TypeOK, BooksType, QueueType
  <2>2. UNCHANGED <<row, fixed, sub, fund, tok, used, work, history, faults>> /\ late' \in BOOLEAN /\ channel' \in BOOLEAN
    BY <1>1, <1>2 DEF history, IInv, TypeOK, FlagType
  <2> QED
    BY <2>1, <2>2, OutsideKeeps
<1>3. CASE Fault /\ \E bs \in {{"tok"}, {"used"}, {"fund", "used"}} : Lose(n, bs)
  <2>1. PICK bs \in SUBSET Books : Lose(n, bs)
    BY <1>3 DEF Books
  <2>2. BooksType' /\ QueueType' /\ lost \subseteq lost' /\ ("fund" \notin lost' => fund' = fund)
    BY <1>1, <2>1, LoseFacts
  <2>3. WorkType' /\ \A v \in Workers : mem'[v] = mem[v]
    BY <1>1 DEF work, IInv, TypeOK, WorkType
  <2>4. faults' # MaxFaults /\ (Clean' => Clean /\ fund' = fund)
    BY <1>1, <1>3, <2>2, FaultFacts DEF Clean
  <2>5. UNCHANGED <<row, fixed, late, channel, sub, pc, goal, silent, rewritten>>
    BY <1>1 DEF work
  <2> QED
    BY <1>3, <2>2, <2>3, <2>4, <2>5, LossAlone
<1> QED
  BY <1>2, <1>3 DEF Flush

-----------------------------------------------------------------------------
\* The initial state satisfies the inductive invariant.
LEMMA InitHolds == Init => IInv
<1> SUFFICES ASSUME Init PROVE IInv
  OBVIOUS
<1>1. NoTask \in Row
  BY TaskBounds DEF NoTask, Row
<1>2. extra \in Int /\ Quota \in Nat /\ fund = Quota + extra /\ tok = fund /\ used = 0
  BY TaskAssumption DEF Init
<1>3. TaskType /\ BooksType
  BY <1>1, <1>2 DEF Init, TaskType, BooksType
<1>q. QueueType
  <2>1. \A b \in Books : (IF b \in queues \ {"used"} THEN fund ELSE 0) \in Int
    BY <1>2
  <2>2. queued \in [Processes -> [Books -> Int]]
    BY <2>1 DEF Init
  <2>3. \A n \in Processes, b \in Books \ queues : queued[n][b] = 0
    BY DEF Init
  <2> QED
    BY <2>2, <2>3 DEF Init, QueueType
<1>4. FlagType
  <2>1. MaxFaults \in 0..MaxFaults
    BY TaskBounds
  <2> QED
    BY <2>1 DEF Init, FlagType
<1>5. WorkType /\ \A w \in Workers : pc[w] = "idle" /\ ~Billing(w)
  BY <1>1 DEF Init, WorkType, Billing
<1>6. TypeOK /\ Early /\ OpenCopies /\ ~Submitted
  BY <1>2, <1>3, <1>4, <1>5, <1>q DEF Init, TypeOK, Early, OpenCopies, Submitted
<1>7. Untouched /\ OneBiller /\ \A w \in Workers : CopySound(w)
  BY <1>5 DEF Init, Untouched, OneBiller, CopySound, NoTask, Open
<1>8. Rested
  BY <1>2, <1>6, TaskAssumption DEF Init, Rested, FundMoved, Base
<1> QED
  BY <1>5, <1>6, <1>7, <1>8 DEF IInv, Sound

\* Every step keeps the invariant.
LEMMA NextKeeps == IInv /\ [Next]_vars => IInv'
<1> SUFFICES ASSUME IInv, [Next]_vars PROVE IInv'
  OBVIOUS
<1>1. ASSUME NEW w \in Pollers, PollerStep(w) PROVE IInv'
  <2>1. w \in Workers
    BY DEF Workers
  <2> QED
    BY <1>1, <2>1, ReadKeeps, SweepKeeps, BulkFailKeeps, ProgressKeeps, CompleteKeeps, PollFailsKeeps,
       AdjustFundingKeeps, AdjustTokenKeeps, AdjustUsedKeeps, UpdateQuotaKeeps, CrashKeeps DEF PollerStep
<1>2. ASSUME NEW f \in Fetchers, Fetch(f) \/ \E st \in Open \cup Final : Fetched(f, st) PROVE IInv'
  BY <1>2, FetchKeeps, FetchedKeeps DEF Workers
<1>3. CASE Deadline \/ ChannelDeleted
  <2>1. late' \in BOOLEAN /\ channel' \in BOOLEAN /\ UNCHANGED <<row, fixed, sub, books, work, history, faults>>
    BY <1>3 DEF Deadline, ChannelDeleted, IInv, TypeOK, FlagType
  <2>2. QueueType'
    BY <2>1, QueueKept DEF books, history
  <2> QED
    BY <2>1, <2>2, OutsideKeeps DEF books
<1>4. CASE UNCHANGED vars
  <2>1. late' \in BOOLEAN /\ channel' \in BOOLEAN /\ UNCHANGED <<row, fixed, sub, books, work, history, faults>>
    BY <1>4 DEF vars, IInv, TypeOK, FlagType
  <2>2. QueueType'
    BY <2>1, QueueKept DEF books, history
  <2> QED
    BY <2>1, <2>2, OutsideKeeps DEF books
<1> QED
  BY <1>1, <1>2, <1>3, <1>4, InsertKeeps, InsertFailsKeeps, SettleKeeps, LogKeeps, RelayCrashKeeps, GiveUpKeeps,
     FlushKeeps DEF Next

\* The invariant: types, copies, and what every stage of a settlement has moved.
THEOREM Invariance == Spec => []IInv
<1> QED
  BY InitHolds, NextKeeps, PTL DEF Spec

\* Types, for any number of passes and live queries and any charges.
THEOREM Typing == Spec => []TypeOK
<1>1. IInv => TypeOK
  BY DEF IInv
<1> QED
  BY <1>1, Invariance, PTL

\* UpdateWithStatus lets one caller settle: a task is never refunded more than it was charged.
THEOREM RefundedOnce == Spec => []NeverRefundedTwice
<1>1. IInv => NeverRefundedTwice
  <2> SUFFICES ASSUME IInv, ~rewritten, "fund" \notin lost PROVE fund >= 0
    BY DEF NeverRefundedTwice
  <2>1. Sound /\ fund \in Int /\ Base \in Int /\ Quota \in Nat
    BY Amounts DEF IInv, Clean
  <2>2. ~Submitted => fund >= 0
    BY <2>1 DEF IInv, Early, Submitted, TypeOK, TaskType
  <2>3. Submitted => Base >= Quota
    BY <2>1 DEF Submitted, Base, IInv, TypeOK, TaskType
  <2>4. FundMoved >= -Quota
    <3>1. ASSUME NEW w \in Workers, Billing(w) PROVE FundMoved >= -Quota
      BY <2>1, <3>1, BillerFacts DEF Begun
    <3> QED
      BY <2>1, <3>1 DEF Sound, Rested
  <2> QED
    BY <2>1, <2>2, <2>3, <2>4 DEF FundMoved
<1> QED
  BY <1>1, Invariance, PTL

\* When the workers are done, what is known of the books.
LEMMA CalmFacts ==
    ASSUME IInv, Calm, ~legacy
    PROVE  Balanced /\ fund = Quota + FundMoved /\ tok = Quota + TokMoved /\ used = Quota + UsedMoved
           /\ Quota \in Nat /\ row.quota \in Nat
<1>1. /\ fund \in Int /\ tok \in Int /\ used \in Int /\ Base = Quota /\ Quota \in Nat /\ row.quota \in Nat
      /\ sub = "done"
  BY Amounts DEF Calm, Base
<1>2. Sound /\ Submitted /\ \A w \in Workers : ~Billing(w)
  BY DEF IInv, Calm, Clean, Submitted, Billing
<1>3. Balanced
  BY <1>2 DEF Sound, Calm
<1> QED
  BY <1>1, <1>3 DEF FundMoved, TokMoved, UsedMoved

\* Funding, token and usage end with the quota that the row records.
THEOREM BooksAgree == Spec => []BooksFollowRow
<1>1. IInv => BooksFollowRow
  BY CalmFacts DEF BooksFollowRow, Balanced
<1> QED
  BY <1>1, Invariance, PTL

\* A task that a poll or the sweep failed costs nothing unless its adaptor charges for usage.
THEOREM FailureCostsNothing == Spec => []FailedTaskFree
<1>1. IInv => FailedTaskFree
  BY CalmFacts DEF FailedTaskFree, Balanced, MustBeFree
<1> QED
  BY <1>1, Invariance, PTL

\* Whatever failed, a failed task whose charge is still held shows it in its row.
THEOREM HeldChargeVisible == Spec => []UnrefundedStaysVisible
<1>1. IInv => UnrefundedStaysVisible
  <2> SUFFICES ASSUME IInv, sub = "done", row.st = "FAILURE", ~legacy, ~rewritten, "fund" \notin lost,
                     fund > 0, row.quota = 0 PROVE FALSE
    BY Amounts DEF UnrefundedStaysVisible
  <2>1. Sound /\ fund \in Int /\ Base = Quota /\ Quota \in Nat /\ Quota # 0 /\ Submitted
    BY Amounts DEF IInv, Clean, Base, Submitted
  <2>2. FundMoved = -Quota
    <3>1. ASSUME NEW w \in Workers, Billing(w) PROVE FundMoved = -Quota
      BY <2>1, <3>1, BillerFacts DEF Begun
    <3> QED
      BY <2>1, <3>1 DEF Sound, Rested
  <2> QED
    BY <2>1, <2>2 DEF FundMoved
<1> QED
  BY <1>1, Invariance, PTL
=============================================================================
