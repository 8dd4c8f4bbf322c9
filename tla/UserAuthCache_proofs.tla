------------------------- MODULE UserAuthCache_proofs -------------------------
(***************************************************************************)
(* For any sets of readers, security changes, group transitions and        *)
(* profile edits: GetUserCache serves no stale authority, the permanent    *)
(* floor never passes the committed row, and overlapping refreshes of the  *)
(* group end with the committed one.                                       *)
(***************************************************************************)
EXTENDS UserAuthCache, TLAPS

\* A change that has locked the row knows its version, and commits it fenced.
FencedCommit ==
    \A c \in Changers :
        /\ pc[c] \in {"fence", "commit"} => rowLock = c /\ sv[c] = ver
        /\ pc[c] = "commit" => fence = ver + 1

\* Only snapshots of committed rows are in flight.
SnapshotsCommitted == \A a \in Actors : sv[a] <= ver /\ start[a] <= ver

\* While a fence is up, every hash is older than it.
FenceIsNewer == fence > 0 => aged

\* The hash and the snapshots that may still become an answer are current.
NothingOlder ==
    /\ hashVer \in {0, ver}
    /\ \A r \in Readers : pc[r] \in {"floor", "check", "fill"} => sv[r] = ver

\* The committed version is fenced, published, or nothing older is left.
Shielded == exposed \/ fence >= ver \/ floor >= ver \/ NothingOlder

\* A read that went to the database has a row that is recent enough; one that was
\* answered has it unless the shield was down.
ReadsFresh ==
    \A r \in Readers :
        /\ pc[r] \in {"check", "fill"} => sv[r] >= start[r]
        /\ pc[r] = "served" => exposed \/ sv[r] >= start[r]

IInv ==
    /\ TypeOK /\ FencedCommit /\ SnapshotsCommitted /\ FloorFollowsRow
    /\ FenceIsNewer /\ Shielded /\ ReadsFresh

-----------------------------------------------------------------------------
\* AnyGroup is a group.
LEMMA AnyGroupType == AnyGroup \in Groups
  BY ActorAssumption DEF AnyGroup

\* The initial state satisfies the inductive invariant.
LEMMA InitIInv == Init => IInv
  <1> SUFFICES ASSUME Init PROVE IInv
    OBVIOUS
  <1>1. RowType /\ CacheType /\ BudgetType
    BY AnyGroupType, ActorAssumption DEF Init, RowType, CacheType, BudgetType, Fates
  <1>2. CallType
    BY AnyGroupType DEF Init, CallType, Labels
  <1>3. FlagType
    BY Zenon DEF Init, FlagType
  <1>4. FencedCommit /\ SnapshotsCommitted /\ FloorFollowsRow /\ FenceIsNewer
    BY DEF Init, FencedCommit, SnapshotsCommitted, FloorFollowsRow, FenceIsNewer, Actors
  <1>5. NothingOlder /\ ReadsFresh
    BY ActorAssumption DEF Init, NothingOlder, ReadsFresh, Actors
  <1> QED
    BY <1>1, <1>2, <1>3, <1>4, <1>5 DEF IInv, TypeOK, Shielded

-----------------------------------------------------------------------------
\* The other actors are where they were.
Others(a) == \A b \in Actors \ {a} : pc'[b] = pc[b] /\ sv'[b] = sv[b] /\ start'[b] = start[b]

\* What every step of a caller guarantees of the shared keys while the row stays.
KeepsShield ==
    /\ ver' = ver /\ CacheType' /\ FloorFollowsRow' /\ FenceIsNewer'
    /\ fence = ver + 1 => fence' = fence
    /\ fence >= ver \/ floor >= ver => fence' >= ver \/ floor' >= ver

\* A script that lets version v through ends no fence above v and raises the floor.
LEMMA AdmitKeeps ==
    ASSUME IInv, NEW v \in Nat, v <= ver, Admit(v), ver' = ver
    PROVE  /\ floor' \in Nat /\ floor' <= ver /\ v <= floor' /\ floor <= floor'
           /\ fence' \in Nat /\ fence' <= ver + 1 /\ (fence' > 0 => fence > 0)
           /\ fence = ver + 1 => fence' = fence
           /\ fence >= ver \/ floor >= ver => fence' >= ver \/ floor' >= ver
  BY DEF IInv, TypeOK, RowType, CacheType, FloorFollowsRow, Admit, Larger

\* writeUserCache: the shared keys keep the committed version shielded.
LEMMA WriteHashKeeps ==
    ASSUME IInv, NEW v \in Nat \ {0}, v <= ver, NEW g \in Groups, NEW create \in BOOLEAN,
           ~Refuses(v), WriteHash(v, g, create), ver' = ver
    PROVE  KeepsShield /\ v <= floor' /\ (hashVer' = hashVer \/ (hashVer' = v /\ (create \/ hashVer > 0)))
  <1>1. Admit(v)
    BY DEF WriteHash
  <1>2. fence' = 0
    BY <1>1 DEF Admit, Refuses, IInv, TypeOK, RowType, CacheType
  <1>3. hashVer' \in Nat /\ hashVer' <= ver /\ hashGrp' \in Groups
    BY DEF WriteHash, IInv, TypeOK, RowType, CacheType
  <1>4. KeepsShield
    BY <1>1, <1>2, <1>3, AdmitKeeps DEF KeepsShield, CacheType, FloorFollowsRow, FenceIsNewer
  <1>5. v <= floor'
    BY <1>1, AdmitKeeps
  <1> QED
    BY <1>4, <1>5 DEF WriteHash

\* Keys that nobody touched shield what they shielded.
LEMMA UntouchedKeeps ==
    ASSUME IInv, ver' = ver, UNCHANGED cacheVars PROVE KeepsShield
  BY DEF IInv, TypeOK, RowType, CacheType, FloorFollowsRow, FenceIsNewer, KeepsShield, cacheVars


\* Nothing older is left, or the keys shield the committed version, after a step
\* of an actor that is not a reader.
LEMMA ShieldKept ==
    ASSUME IInv, NEW a \in Actors \ Readers, Others(a), KeepsShield, exposed' = exposed,
           hashVer \in {0, ver} => hashVer' \in {0, ver}
    PROVE  Shielded' /\ ReadsFresh'
  <1>1. \A r \in Readers : pc'[r] = pc[r] /\ sv'[r] = sv[r] /\ start'[r] = start[r]
    BY DEF Others, Actors
  <1>2. ReadsFresh'
    BY <1>1 DEF ReadsFresh, IInv
  <1>3. CASE exposed
    BY <1>2, <1>3 DEF Shielded
  <1>4. CASE fence >= ver \/ floor >= ver
    BY <1>2, <1>4 DEF Shielded, KeepsShield
  <1>5. CASE NothingOlder
    BY <1>1, <1>2, <1>5 DEF Shielded, NothingOlder, KeepsShield
  <1> QED
    BY <1>3, <1>4, <1>5 DEF IInv, Shielded

\* The calls of an actor whose snapshot is a committed row.
LEMMA CallsKept ==
    ASSUME IInv, NEW a \in Actors, Others(a), KeepsShield, rowLock' = rowLock,
           sv'[a] <= ver, start'[a] <= ver,
           pc'[a] \notin {"fence", "commit"}
    PROVE  FencedCommit' /\ SnapshotsCommitted'
  <1>1. SnapshotsCommitted'
    BY DEF SnapshotsCommitted, IInv, Others, KeepsShield
  <1>2. FencedCommit'
    BY DEF FencedCommit, IInv, Others, KeepsShield, Actors
  <1> QED
    BY <1>1, <1>2

-----------------------------------------------------------------------------
\* A step of GetUserCache preserves the invariant.
LEMMA ReaderPreserves ==
    ASSUME IInv, NEW r \in Readers, ReaderStep(r) PROVE IInv'
  <1>1. r \in Actors
    BY DEF Actors
  <1>2. UNCHANGED rowVars /\ exposed' = exposed
    BY DEF ReaderStep, ReadHash, ReadFloor, ReadRow, CheckFloor, Fill, ReadAgain
  <1>3. RowType' /\ ver' = ver /\ rowLock' = rowLock
    BY <1>2 DEF IInv, TypeOK, RowType, rowVars
  <1>4. CallType' /\ Others(r)
    <2>1. CASE ReadHash(r)
      BY <1>1, <2>1 DEF ReadHash, Go, Others, IInv, TypeOK, CallType, CacheType, RowType, Labels
    <2>2. CASE ReadFloor(r)
      BY <1>1, <2>2 DEF ReadFloor, Go, Others, IInv, TypeOK, CallType, Labels
    <2>3. CASE ReadRow(r)
      BY <1>1, <2>3 DEF ReadRow, Snapshot, Go, Others, IInv, TypeOK, CallType, RowType, Labels
    <2>4. CASE CheckFloor(r)
      BY <1>1, <2>4 DEF CheckFloor, Go, Others, IInv, TypeOK, CallType, Labels
    <2>5. CASE Fill(r)
      BY <1>1, <2>5 DEF Fill, Go, Others, IInv, TypeOK, CallType, Labels
    <2>6. CASE ReadAgain(r)
      BY <1>1, <2>6 DEF ReadAgain, Go, Others, IInv, TypeOK, CallType, Labels
    <2> QED
      BY <2>1, <2>2, <2>3, <2>4, <2>5, <2>6 DEF ReaderStep
  <1>5. sv'[r] <= ver /\ start'[r] <= ver /\ pc'[r] \notin {"fence", "commit"}
    <2>1. sv[r] <= ver /\ start[r] <= ver
      BY <1>1 DEF IInv, SnapshotsCommitted
    <2>2. CASE ReadHash(r)
      BY <1>1, <2>1, <2>2 DEF ReadHash, Go, IInv, TypeOK, CallType, CacheType, RowType
    <2>3. CASE ReadFloor(r)
      BY <1>1, <2>1, <2>3 DEF ReadFloor, Go, IInv, TypeOK, CallType
    <2>4. CASE ReadRow(r)
      BY <1>1, <2>1, <2>4 DEF ReadRow, Snapshot, Go, IInv, TypeOK, CallType, RowType
    <2>5. CASE CheckFloor(r)
      BY <1>1, <2>1, <2>5 DEF CheckFloor, Go, IInv, TypeOK, CallType
    <2>6. CASE Fill(r)
      BY <1>1, <2>1, <2>6 DEF Fill, Go, IInv, TypeOK, CallType
    <2>7. CASE ReadAgain(r)
      BY <1>1, <2>1, <2>7 DEF ReadAgain, Go, IInv, TypeOK, CallType
    <2> QED
      BY <2>2, <2>3, <2>4, <2>5, <2>6, <2>7 DEF ReaderStep
  <1>6. \/ Fill(r) /\ ~Refuses(sv[r]) /\ WriteHash(sv[r], sg[r], TRUE)
        \/ UNCHANGED cacheVars
    BY DEF ReaderStep, ReadHash, ReadFloor, ReadRow, CheckFloor, Fill, ReadAgain, RedisError
  <1>7. /\ KeepsShield
        /\ \/ Fill(r) /\ sv[r] <= floor' /\ hashVer' \in {hashVer, sv[r]}
           \/ UNCHANGED cacheVars
    <2>1. sv[r] \in Nat \ {0} /\ sv[r] <= ver /\ sg[r] \in Groups
      BY <1>1 DEF IInv, TypeOK, CallType, SnapshotsCommitted
    <2>2. CASE UNCHANGED cacheVars
      BY <1>3, <2>2, UntouchedKeeps
    <2>3. CASE Fill(r) /\ ~Refuses(sv[r]) /\ WriteHash(sv[r], sg[r], TRUE)
      BY <1>3, <2>1, <2>3, WriteHashKeeps
    <2> QED
      BY <1>6, <2>2, <2>3
  <1>8. FencedCommit' /\ SnapshotsCommitted'
    BY <1>1, <1>3, <1>4, <1>5, <1>7, CallsKept
  <1>9. ReadsFresh'
    <2>1. \A s \in Readers \ {r} : pc'[s] = pc[s] /\ sv'[s] = sv[s] /\ start'[s] = start[s]
      BY <1>4 DEF Others, Actors
    <2>2. /\ pc'[r] \in {"check", "fill"} => sv'[r] >= start'[r]
          /\ pc'[r] = "served" => exposed \/ sv'[r] >= start'[r]
      <3>1. CASE ReadHash(r)
        BY <1>1, <3>1 DEF ReadHash, Go, IInv, TypeOK, CallType
      <3>2. CASE ReadFloor(r)
        <4>1. pc[r] = "floor" /\ sv' = sv /\ start' = start /\ start[r] <= ver /\ sv[r] <= ver
          BY <1>1, <3>2 DEF ReadFloor, IInv, SnapshotsCommitted
        <4>2. pc'[r] \in {"served", "row"} /\ (pc'[r] = "served" => ~BelowFloor(r))
          BY <1>1, <3>2 DEF ReadFloor, Go, IInv, TypeOK, CallType
        <4>3. ~BelowFloor(r) => fence <= sv[r] /\ floor <= sv[r]
          BY <1>1 DEF BelowFloor, Floor, Larger, IInv, TypeOK, CallType, CacheType
        <4>4. pc'[r] = "served" => exposed \/ sv[r] >= ver
          BY <1>1, <4>1, <4>2, <4>3 DEF IInv, Shielded, NothingOlder, TypeOK, CallType, CacheType, RowType
        <4> QED
          BY <1>1, <4>1, <4>2, <4>4 DEF IInv, TypeOK, CallType, RowType
      <3>3. CASE ReadRow(r)
        BY <1>1, <3>3 DEF ReadRow, Snapshot, Go, IInv, TypeOK, CallType, RowType, SnapshotsCommitted
      <3>4. CASE CheckFloor(r)
        BY <1>1, <3>4 DEF CheckFloor, Go, IInv, TypeOK, CallType, ReadsFresh
      <3>5. CASE Fill(r)
        BY <1>1, <3>5 DEF Fill, Go, IInv, TypeOK, CallType, ReadsFresh
      <3>6. CASE ReadAgain(r)
        BY <1>1, <3>6 DEF ReadAgain, Go, IInv, TypeOK, CallType
      <3> QED
        BY <3>1, <3>2, <3>3, <3>4, <3>5, <3>6 DEF ReaderStep
    <2> QED
      BY <1>2, <2>1, <2>2 DEF ReadsFresh, IInv
  <1>10. Shielded'
    <2>1. CASE exposed \/ fence >= ver \/ floor >= ver
      BY <1>2, <1>7, <2>1 DEF Shielded, KeepsShield
    <2>2. CASE NothingOlder
      <3>1. pc'[r] \in {"floor", "check", "fill"} => sv'[r] = ver
        <4>1. pc[r] \in {"floor", "check", "fill"} => sv[r] = ver
          BY <2>2 DEF NothingOlder
        <4>2. CASE ReadHash(r)
          BY <1>1, <2>2, <4>2 DEF ReadHash, Go, NothingOlder, IInv, TypeOK, CallType, CacheType
        <4>3. CASE ReadRow(r)
          BY <1>1, <4>3 DEF ReadRow, Snapshot, Go, IInv, TypeOK, CallType
        <4>4. CASE ReadFloor(r) \/ CheckFloor(r) \/ Fill(r) \/ ReadAgain(r)
          BY <1>1, <4>1, <4>4 DEF ReadFloor, CheckFloor, Fill, ReadAgain, Go, IInv, TypeOK, CallType
        <4> QED
          BY <4>2, <4>3, <4>4 DEF ReaderStep
      <3>2. \A s \in Readers \ {r} : pc'[s] = pc[s] /\ sv'[s] = sv[s]
        BY <1>4 DEF Others, Actors
      <3>3. hashVer' \in {0, ver}
        <4>1. CASE UNCHANGED cacheVars
          BY <2>2, <4>1 DEF NothingOlder, cacheVars
        <4>2. CASE Fill(r) /\ hashVer' \in {hashVer, sv[r]}
          BY <2>2, <4>2 DEF NothingOlder, Fill
        <4> QED
          BY <1>7, <4>1, <4>2
      <3> QED
        BY <1>3, <2>2, <3>1, <3>2, <3>3 DEF NothingOlder, Shielded
    <2> QED
      BY <2>1, <2>2 DEF IInv, Shielded
  <1>11. FlagType' /\ BudgetType'
    <2>1. aged' = aged \/ aged' = FALSE
      BY <1>6 DEF WriteHash, cacheVars
    <2>2. FlagType'
      BY <1>2, <2>1, Zenon DEF FlagType, IInv, TypeOK
    <2>3. RedisError \/ UNCHANGED budget
      BY DEF ReaderStep, ReadHash, ReadFloor, ReadRow, CheckFloor, Fill, ReadAgain
    <2>4. BudgetType'
      BY <2>3 DEF RedisError, budget, BudgetType, IInv, TypeOK
    <2> QED
      BY <2>2, <2>4
  <1> QED
    BY <1>3, <1>4, <1>7, <1>8, <1>9, <1>10, <1>11 DEF IInv, TypeOK, KeepsShield

-----------------------------------------------------------------------------
\* An actor that is not a reader and leaves the row alone preserves the invariant
\* when what it does to the shared keys shields the committed version.
LEMMA BystanderPreserves ==
    ASSUME IInv, NEW a \in Actors \ Readers, Others(a), KeepsShield,
           RowType', CallType', FlagType', BudgetType', rowLock' = rowLock, exposed' = exposed,
           hashVer \in {0, ver} => hashVer' \in {0, ver},
           sv'[a] <= ver, start'[a] <= ver, pc'[a] \notin {"fence", "commit"}
    PROVE  IInv'
  <1>1. Shielded' /\ ReadsFresh'
    BY ShieldKept
  <1>2. FencedCommit' /\ SnapshotsCommitted'
    BY CallsKept
  <1> QED
    BY <1>1, <1>2 DEF IInv, TypeOK, KeepsShield

\* updateUserCache, of a security change or of a profile edit, preserves it.
LEMMA WritePreserves ==
    ASSUME IInv, NEW a \in Actors \ Readers, Write(a) PROVE IInv'
  <1>1. UNCHANGED rowVars /\ exposed' = exposed /\ sv' = sv /\ start' = start
    BY DEF Write
  <1>2. RowType' /\ ver' = ver /\ rowLock' = rowLock
    BY <1>1 DEF IInv, TypeOK, RowType, rowVars
  <1>3. CallType' /\ Others(a) /\ pc'[a] = "done"
    BY DEF Write, Go, Others, IInv, TypeOK, CallType, Labels
  <1>4. sv[a] \in Nat \ {0} /\ sv[a] <= ver /\ sg[a] \in Groups /\ start[a] <= ver
    BY DEF IInv, TypeOK, CallType, SnapshotsCommitted
  <1>5. (~Refuses(sv[a]) /\ WriteHash(sv[a], sg[a], FALSE)) \/ UNCHANGED cacheVars
    BY DEF Write, RedisError
  <1>6. KeepsShield /\ (hashVer \in {0, ver} => hashVer' \in {0, ver})
    <2>1. CASE UNCHANGED cacheVars
      BY <1>2, <2>1, UntouchedKeeps DEF cacheVars
    <2>2. CASE ~Refuses(sv[a]) /\ WriteHash(sv[a], sg[a], FALSE)
      <3>1. /\ KeepsShield /\ sv[a] <= floor'
            /\ hashVer' = hashVer \/ (hashVer' = sv[a] /\ hashVer > 0)
        BY <1>2, <1>4, <2>2, WriteHashKeeps
      <3> QED
        BY <1>4, <2>2, <3>1 DEF Refuses, IInv, TypeOK, CacheType, RowType
    <2> QED
      BY <1>5, <2>1, <2>2
  <1>7. FlagType'
    <2>1. aged' = aged \/ aged' = FALSE
      BY <1>5 DEF WriteHash, cacheVars
    <2> QED
      BY <1>1, <2>1, Zenon DEF FlagType, IInv, TypeOK
  <1>8. BudgetType'
    <2>1. RedisError \/ UNCHANGED budget
      BY DEF Write
    <2> QED
      BY <2>1 DEF RedisError, budget, BudgetType, IInv, TypeOK
  <1> QED
    BY <1>1, <1>2, <1>3, <1>4, <1>6, <1>7, <1>8, BystanderPreserves

\* The steps of a security change preserve it.
LEMMA ChangerPreserves ==
    ASSUME IInv, NEW c \in Changers, ChangerStep(c) PROVE IInv'
  <1>1. c \in Actors \ Readers /\ c # "free"
    BY ActorAssumption DEF Actors
  <1>2. sv[c] \in Nat \ {0} /\ sv[c] <= ver /\ start[c] <= ver /\ sg[c] \in Groups
    BY <1>1 DEF IInv, TypeOK, CallType, SnapshotsCommitted
  <1>3. CASE LockRow(c)
    <2>1. /\ ver' = ver /\ UNCHANGED cacheVars /\ exposed' = exposed /\ UNCHANGED budget
          /\ rowLock = "free" /\ rowLock' = c
      BY <1>3 DEF LockRow
    <2>2. RowType' /\ BudgetType'
      BY <1>3 DEF LockRow, IInv, TypeOK, RowType, BudgetType, budget
    <2>3. FlagType'
      BY <2>1, Zenon DEF FlagType, IInv, TypeOK, cacheVars
    <2>4. CallType' /\ Others(c) /\ sv'[c] = ver /\ start'[c] = start[c] /\ pc'[c] = "fence"
      BY <1>1, <1>3 DEF LockRow, Snapshot, Go, Others, IInv, TypeOK, CallType, RowType, Labels
    <2>5. KeepsShield
      BY <2>1, UntouchedKeeps
    <2>6. Shielded' /\ ReadsFresh'
      BY <1>1, <2>1, <2>4, <2>5, ShieldKept DEF cacheVars
    <2>7. \A d \in Changers : pc[d] \notin {"fence", "commit"}
      BY <2>1, ActorAssumption DEF IInv, FencedCommit, Actors
    <2>8. FencedCommit'
      BY <1>1, <2>1, <2>4, <2>7 DEF FencedCommit, Others, Actors
    <2>9. SnapshotsCommitted'
      BY <1>1, <1>2, <2>1, <2>4 DEF SnapshotsCommitted, Others, IInv, TypeOK, RowType
    <2> QED
      BY <2>2, <2>3, <2>4, <2>5, <2>6, <2>8, <2>9 DEF IInv, TypeOK, KeepsShield
  <1>4. CASE SetFence(c)
    <2>1. rowLock = c /\ sv[c] = ver /\ pc[c] = "fence"
      BY <1>4 DEF SetFence, IInv, FencedCommit
    <2>2. ver' = ver /\ exposed' = exposed /\ sv' = sv /\ start' = start /\ hashVer' = hashVer /\ floor' = floor
      BY <1>4 DEF SetFence, FenceScript, RedisError, cacheVars
    <2>3. RowType' /\ (rowLock' = rowLock \/ rowLock' = "free")
      BY <1>4 DEF SetFence, Unlock, IInv, TypeOK, RowType
    <2>4. CallType' /\ Others(c) /\ pc'[c] \in {"commit", "done"}
      BY <1>1, <1>4 DEF SetFence, Go, Others, IInv, TypeOK, CallType, Labels
    <2>5. /\ KeepsShield
          /\ pc'[c] = "commit" => fence' = ver + 1 /\ rowLock' = c
      <3>1. CASE FenceScript(sv[c] + 1) /\ Go(c, "commit") /\ UNCHANGED <<rowLock, budget>>
        BY <2>1, <2>2, <3>1
           DEF FenceScript, Larger, KeepsShield, IInv, TypeOK, RowType, CacheType, FloorFollowsRow, FenceIsNewer
      <3>2. CASE RedisError /\ Go(c, "done")
        <4>1. pc'[c] = "done"
          BY <1>1, <3>2 DEF Go, IInv, TypeOK, CallType
        <4> QED
          BY <2>2, <3>2, <4>1, UntouchedKeeps DEF RedisError
      <3> QED
        BY <1>4, <3>1, <3>2 DEF SetFence
    <2>6. FlagType' /\ BudgetType'
      <3>1. aged' = aged \/ aged' = TRUE
        BY <1>4, Zenon DEF SetFence, FenceScript, RedisError, cacheVars
      <3>2. RedisError \/ UNCHANGED budget
        BY <1>4 DEF SetFence
      <3>3. BudgetType'
        BY <3>2 DEF RedisError, budget, BudgetType, IInv, TypeOK
      <3>4. FlagType'
        BY <2>2, <3>1, Zenon DEF FlagType, IInv, TypeOK
      <3> QED
        BY <3>3, <3>4
    <2>7. Shielded' /\ ReadsFresh'
      BY <1>1, <2>2, <2>4, <2>5, ShieldKept
    <2>8. \A d \in Changers \ {c} : pc[d] \notin {"fence", "commit"}
      BY <2>1 DEF IInv, FencedCommit
    <2>9. FencedCommit'
      BY <1>1, <2>1, <2>2, <2>4, <2>5, <2>8 DEF FencedCommit, Others, Actors
    <2>10. SnapshotsCommitted'
      BY <2>2 DEF SnapshotsCommitted, IInv
    <2> QED
      BY <2>3, <2>4, <2>5, <2>6, <2>7, <2>9, <2>10 DEF IInv, TypeOK, KeepsShield
  <1>5. ASSUME NEW g \in Groups, NEW fate \in Fates, Commit(c, g, fate) PROVE IInv'
    <2>1. rowLock = c /\ sv[c] = ver /\ fence = ver + 1 /\ pc[c] = "commit"
      BY <1>5 DEF Commit, IInv, FencedCommit
    <2>2. /\ ver' = ver + 1 /\ UNCHANGED cacheVars /\ exposed' = exposed /\ start' = start
          /\ UNCHANGED budget
      BY <1>5 DEF Commit
    <2>3. RowType' /\ CacheType' /\ BudgetType' /\ FloorFollowsRow' /\ FenceIsNewer'
      BY <1>5, <2>2 DEF Commit, Unlock, IInv, TypeOK, RowType, CacheType, BudgetType, budget, cacheVars,
                        FloorFollowsRow, FenceIsNewer
    <2>4. FlagType'
      BY <2>2, Zenon DEF FlagType, IInv, TypeOK, cacheVars
    <2>5. CallType' /\ Others(c) /\ pc'[c] \in {"write", "publishFloor"} /\ sv'[c] = ver + 1
      BY <1>1, <1>5 DEF Commit, Go, Others, IInv, TypeOK, CallType, RowType, Labels
    <2>6. \A d \in Changers \ {c} : pc[d] \notin {"fence", "commit"}
      BY <2>1 DEF IInv, FencedCommit
    <2>7. FencedCommit'
      BY <1>1, <2>5, <2>6 DEF FencedCommit, Others, Actors
    <2>8. SnapshotsCommitted'
      BY <1>1, <2>2, <2>5 DEF SnapshotsCommitted, Others, IInv, TypeOK, RowType, CallType
    <2>9. Shielded'
      BY <2>1, <2>2 DEF Shielded, cacheVars, IInv, TypeOK, RowType
    <2>10. ReadsFresh'
      BY <1>1, <2>2, <2>5 DEF ReadsFresh, Others, IInv, Actors
    <2> QED
      BY <2>3, <2>4, <2>5, <2>7, <2>8, <2>9, <2>10 DEF IInv, TypeOK
  <1>6. CASE Rollback(c)
    <2>1. /\ ver' = ver /\ UNCHANGED cacheVars /\ exposed' = exposed /\ start' = start /\ sv' = sv
          /\ rowLock' = "free" /\ rowLock = c
      BY <1>6 DEF Rollback, Unlock, IInv, FencedCommit
    <2>2. RowType' /\ BudgetType'
      BY <1>6 DEF Rollback, Unlock, IInv, TypeOK, RowType, BudgetType
    <2>3. FlagType'
      BY <2>1, Zenon DEF FlagType, IInv, TypeOK, cacheVars
    <2>4. CallType' /\ Others(c) /\ pc'[c] = "done"
      BY <1>1, <1>6 DEF Rollback, Go, Others, IInv, TypeOK, CallType, Labels
    <2>5. KeepsShield
      BY <2>1, UntouchedKeeps
    <2>6. Shielded' /\ ReadsFresh'
      BY <1>1, <2>1, <2>4, <2>5, ShieldKept DEF cacheVars
    <2>7. \A d \in Changers \ {c} : pc[d] \notin {"fence", "commit"}
      BY <2>1 DEF IInv, FencedCommit
    <2>8. FencedCommit'
      BY <1>1, <2>1, <2>4, <2>7 DEF FencedCommit, Others, Actors
    <2>9. SnapshotsCommitted'
      BY <2>1 DEF SnapshotsCommitted, IInv
    <2> QED
      BY <2>2, <2>3, <2>4, <2>5, <2>6, <2>8, <2>9 DEF IInv, TypeOK, KeepsShield
  <1>7. CASE Reread(c)
    <2>1. UNCHANGED rowVars /\ UNCHANGED cacheVars /\ exposed' = exposed /\ start' = start /\ UNCHANGED budget
      BY <1>7 DEF Reread
    <2>2. RowType' /\ ver' = ver /\ rowLock' = rowLock /\ BudgetType'
      BY <2>1 DEF IInv, TypeOK, RowType, rowVars, BudgetType, budget
    <2>3. FlagType'
      BY <2>1, Zenon DEF FlagType, IInv, TypeOK, cacheVars
    <2>4. CallType' /\ Others(c) /\ pc'[c] \in {"write", "done"} /\ sv'[c] \in {sv[c], ver}
      BY <1>1, <1>7, <2>1 DEF Reread, Snapshot, Go, Others, IInv, TypeOK, CallType, RowType, Labels
    <2>5. sv'[c] <= ver
      BY <1>2, <2>4 DEF IInv, TypeOK, RowType
    <2>6. KeepsShield /\ hashVer' = hashVer
      BY <2>1, <2>2, UntouchedKeeps DEF cacheVars
    <2> QED
      BY <1>1, <1>2, <2>1, <2>2, <2>3, <2>4, <2>5, <2>6, BystanderPreserves
  <1>8. CASE PublishFloor(c)
    <2>1. /\ UNCHANGED rowVars /\ exposed' = exposed /\ start' = start /\ sv' = sv
          /\ hashVer' = hashVer /\ hashGrp' = hashGrp /\ aged' = aged
      BY <1>8 DEF PublishFloor, RedisError, cacheVars
    <2>2. RowType' /\ ver' = ver /\ rowLock' = rowLock
      BY <2>1 DEF IInv, TypeOK, RowType, rowVars
    <2>3. FlagType'
      BY <2>1, Zenon DEF FlagType, IInv, TypeOK
    <2>4. CallType' /\ Others(c) /\ pc'[c] \in {"drop", "done"}
      BY <1>1, <1>8 DEF PublishFloor, Go, Others, IInv, TypeOK, CallType, Labels
    <2>5. KeepsShield
      <3>1. CASE Admit(sv[c])
        BY <1>2, <2>1, <2>2, <3>1, AdmitKeeps
           DEF KeepsShield, CacheType, FloorFollowsRow, FenceIsNewer, IInv, TypeOK
      <3>2. CASE UNCHANGED cacheVars
        BY <2>2, <3>2, UntouchedKeeps
      <3> QED
        BY <1>8, <3>1, <3>2 DEF PublishFloor, RedisError
    <2>6. BudgetType'
      <3>1. RedisError \/ UNCHANGED budget
        BY <1>8 DEF PublishFloor
      <3> QED
        BY <3>1 DEF RedisError, budget, BudgetType, IInv, TypeOK
    <2> QED
      BY <1>1, <1>2, <2>1, <2>2, <2>3, <2>4, <2>5, <2>6, BystanderPreserves
  <1>9. CASE Drop(c)
    <2>1. /\ UNCHANGED rowVars /\ exposed' = exposed /\ start' = start /\ sv' = sv
          /\ fence' = fence /\ floor' = floor /\ aged' = aged /\ hashVer' \in {0, hashVer}
          /\ hashGrp' \in {AnyGroup, hashGrp}
      BY <1>9 DEF Drop, RedisError, cacheVars
    <2>2. RowType' /\ ver' = ver /\ rowLock' = rowLock
      BY <2>1 DEF IInv, TypeOK, RowType, rowVars
    <2>3. FlagType'
      BY <2>1, Zenon DEF FlagType, IInv, TypeOK
    <2>4. CallType' /\ Others(c) /\ pc'[c] = "done"
      BY <1>1, <1>9 DEF Drop, Go, Others, IInv, TypeOK, CallType, Labels
    <2>5. KeepsShield
      BY <2>1, <2>2, AnyGroupType
         DEF KeepsShield, CacheType, FloorFollowsRow, FenceIsNewer, IInv, TypeOK, RowType
    <2>6. BudgetType'
      <3>1. RedisError \/ UNCHANGED budget
        BY <1>9 DEF Drop
      <3> QED
        BY <3>1 DEF RedisError, budget, BudgetType, IInv, TypeOK
    <2> QED
      BY <1>1, <1>2, <2>1, <2>2, <2>3, <2>4, <2>5, <2>6, BystanderPreserves
  <1>10. CASE Crash(c)
    <2>1. /\ UNCHANGED rowVars /\ exposed' = exposed /\ start' = start /\ sv' = sv
          /\ UNCHANGED cacheVars
      BY <1>10 DEF Crash
    <2>2. RowType' /\ ver' = ver /\ rowLock' = rowLock /\ BudgetType'
      BY <1>10, <2>1 DEF Crash, IInv, TypeOK, RowType, rowVars, BudgetType
    <2>3. FlagType'
      BY <2>1, Zenon DEF FlagType, IInv, TypeOK, cacheVars
    <2>4. CallType' /\ Others(c) /\ pc'[c] = "done"
      BY <1>1, <1>10 DEF Crash, Go, Others, IInv, TypeOK, CallType, Labels
    <2>5. KeepsShield /\ hashVer' = hashVer
      BY <2>1, <2>2, UntouchedKeeps DEF cacheVars
    <2> QED
      BY <1>1, <1>2, <2>1, <2>2, <2>3, <2>4, <2>5, BystanderPreserves
  <1> QED
    BY <1>1, <1>3, <1>4, <1>5, <1>6, <1>7, <1>8, <1>9, <1>10, WritePreserves DEF ChangerStep

\* A group transition and its RefreshUserGroupCache preserve it.
LEMMA RefresherPreserves ==
    ASSUME IInv, NEW f \in Refreshers, RefresherStep(f) PROVE IInv'
  <1>1. f \in Actors \ Readers
    BY ActorAssumption DEF Actors
  <1>2. sv[f] \in Nat \ {0} /\ sv[f] <= ver /\ start[f] <= ver /\ sg[f] \in Groups
    BY <1>1 DEF IInv, TypeOK, CallType, SnapshotsCommitted
  <1>3. ver' = ver /\ rowLock' = rowLock /\ RowType' /\ exposed' = exposed /\ start' = start
    BY DEF RefresherStep, ChangeGroup, GroupRead, GroupWrite, GroupVerify, rowVars, IInv, TypeOK, RowType
  <1>4. CallType' /\ Others(f) /\ sv'[f] \in {sv[f], ver} /\ pc'[f] \notin {"fence", "commit"}
    <2>1. ASSUME NEW g \in Groups, ChangeGroup(f, g) PROVE CallType' /\ Others(f) /\ sv'[f] \in {sv[f], ver} /\ pc'[f] \notin {"fence", "commit"}
      BY <1>1, <2>1 DEF ChangeGroup, Go, Others, IInv, TypeOK, CallType, Labels
    <2>2. CASE GroupRead(f)
      BY <1>1, <2>2 DEF GroupRead, Snapshot, Go, Others, IInv, TypeOK, CallType, RowType, Labels
    <2>3. CASE GroupWrite(f)
      BY <1>1, <2>3 DEF GroupWrite, Go, Others, IInv, TypeOK, CallType, Labels
    <2>4. CASE GroupVerify(f)
      BY <1>1, <2>4 DEF GroupVerify, Snapshot, Go, Others, IInv, TypeOK, CallType, RowType, Labels
    <2> QED
      BY <2>1, <2>2, <2>3, <2>4 DEF RefresherStep
  <1>5. (~Refuses(sv[f]) /\ WriteField(sv[f], sg[f])) \/ UNCHANGED cacheVars
    BY DEF RefresherStep, ChangeGroup, GroupRead, GroupWrite, GroupVerify, RedisError
  <1>6. KeepsShield /\ hashVer' = hashVer /\ aged' = aged
    <2>1. CASE UNCHANGED cacheVars
      BY <1>3, <2>1, UntouchedKeeps DEF cacheVars
    <2>2. CASE WriteField(sv[f], sg[f])
      <3>1. Admit(sv[f]) /\ hashVer' = hashVer /\ aged' = aged /\ hashGrp' \in {sg[f], hashGrp}
        BY <2>2 DEF WriteField
      <3> QED
        BY <1>2, <1>3, <3>1, AdmitKeeps
           DEF KeepsShield, CacheType, FloorFollowsRow, FenceIsNewer, IInv, TypeOK
    <2> QED
      BY <1>5, <2>1, <2>2
  <1>7. FlagType'
    BY <1>3, <1>6, Zenon DEF FlagType, IInv, TypeOK
  <1>8. BudgetType'
    <2>1. RedisError \/ UNCHANGED budget
      BY DEF RefresherStep, ChangeGroup, GroupRead, GroupWrite, GroupVerify
    <2> QED
      BY <2>1 DEF RedisError, budget, BudgetType, IInv, TypeOK
  <1>9. sv'[f] <= ver
    BY <1>2, <1>4 DEF IInv, TypeOK, RowType
  <1> QED
    BY <1>1, <1>2, <1>3, <1>4, <1>6, <1>7, <1>8, <1>9, BystanderPreserves

\* A profile edit preserves it.
LEMMA EditorPreserves ==
    ASSUME IInv, NEW e \in Editors, EditorStep(e) PROVE IInv'
  <1>1. e \in Actors \ Readers
    BY ActorAssumption DEF Actors
  <1>2. CASE EditProfile(e)
    <2>1. /\ UNCHANGED rowVars /\ UNCHANGED cacheVars /\ exposed' = exposed /\ start' = start
          /\ UNCHANGED budget
      BY <1>2 DEF EditProfile
    <2>2. RowType' /\ ver' = ver /\ rowLock' = rowLock /\ BudgetType'
      BY <2>1 DEF IInv, TypeOK, RowType, rowVars, BudgetType, budget
    <2>3. FlagType'
      BY <2>1, Zenon DEF FlagType, IInv, TypeOK, cacheVars
    <2>4. CallType' /\ Others(e) /\ pc'[e] = "write" /\ sv'[e] = ver
      BY <1>1, <1>2 DEF EditProfile, Snapshot, Go, Others, IInv, TypeOK, CallType, RowType, Labels
    <2>5. KeepsShield /\ hashVer' = hashVer
      BY <2>1, <2>2, UntouchedKeeps DEF cacheVars
    <2>6. sv'[e] <= ver /\ start'[e] <= ver
      BY <1>1, <2>1, <2>4 DEF IInv, TypeOK, RowType, SnapshotsCommitted
    <2> QED
      BY <1>1, <2>1, <2>2, <2>3, <2>4, <2>5, <2>6, BystanderPreserves
  <1> QED
    BY <1>1, <1>2, WritePreserves DEF EditorStep

\* The expiration of the hash preserves it.
LEMMA HashExpiryPreserves == ASSUME IInv, HashExpires PROVE IInv'
  <1>1. /\ UNCHANGED rowVars /\ UNCHANGED callVars /\ exposed' = exposed /\ aged' = aged
        /\ fence' = fence /\ floor' = floor /\ hashVer' = 0 /\ hashGrp' = AnyGroup
    BY DEF HashExpires
  <1>2. RowType' /\ CallType' /\ ver' = ver
    BY <1>1 DEF IInv, TypeOK, RowType, CallType, rowVars, callVars
  <1>3. CacheType' /\ FloorFollowsRow' /\ FenceIsNewer'
    BY <1>1, <1>2, AnyGroupType DEF IInv, TypeOK, RowType, CacheType, FloorFollowsRow, FenceIsNewer
  <1>4. FlagType'
    BY <1>1, Zenon DEF FlagType, IInv, TypeOK
  <1>5. BudgetType'
    BY DEF HashExpires, BudgetType, IInv, TypeOK
  <1>6. FencedCommit' /\ SnapshotsCommitted' /\ ReadsFresh'
    BY <1>1 DEF IInv, FencedCommit, SnapshotsCommitted, ReadsFresh, rowVars, callVars
  <1>7. Shielded'
    BY <1>1 DEF IInv, Shielded, NothingOlder, rowVars, callVars
  <1> QED
    BY <1>2, <1>3, <1>4, <1>5, <1>6, <1>7 DEF IInv, TypeOK

\* The expiration of a fence preserves it: a hash that the fence covered is gone,
\* and a read that it covered is what "exposed" records.
LEMMA FenceExpiryPreserves == ASSUME IInv, FenceExpires PROVE IInv'
  <1>1. /\ UNCHANGED rowVars /\ UNCHANGED callVars /\ aged' = aged /\ UNCHANGED budget
        /\ fence > 0 /\ fence' = 0 /\ floor' = floor
    BY DEF FenceExpires
  <1>2. hashVer' = 0 /\ hashGrp' = AnyGroup
    BY <1>1 DEF FenceExpires, IInv, FenceIsNewer
  <1>3. RowType' /\ CallType' /\ BudgetType' /\ ver' = ver
    BY <1>1 DEF IInv, TypeOK, RowType, CallType, BudgetType, rowVars, callVars, budget
  <1>4. CacheType' /\ FloorFollowsRow' /\ FenceIsNewer'
    BY <1>1, <1>2, <1>3, AnyGroupType
       DEF IInv, TypeOK, RowType, CacheType, FloorFollowsRow, FenceIsNewer
  <1>5. exposed' = exposed \/ exposed' = TRUE
    BY Zenon DEF FenceExpires
  <1>6. FlagType'
    BY <1>1, <1>5, Zenon DEF FlagType, IInv, TypeOK
  <1>7. exposed => exposed'
    BY <1>5
  <1>8. FencedCommit'
    <2>1. \A c \in Changers : pc[c] # "commit"
      BY DEF FenceExpires
    <2> QED
      BY <1>1, <2>1 DEF IInv, FencedCommit, rowVars, callVars
  <1>9. SnapshotsCommitted' /\ ReadsFresh'
    BY <1>1, <1>7 DEF IInv, SnapshotsCommitted, ReadsFresh, rowVars, callVars
  <1>10. Shielded'
    <2>1. CASE floor >= ver
      BY <1>1, <1>3, <2>1 DEF Shielded
    <2>2. CASE floor < ver /\ \E r \in Readers : pc[r] \in {"floor", "check", "fill"} /\ sv[r] < ver
      <3>1. exposed'
        BY <2>2, Zenon DEF FenceExpires
      <3> QED
        BY <3>1 DEF Shielded
    <2>3. CASE ~ \E r \in Readers : pc[r] \in {"floor", "check", "fill"} /\ sv[r] < ver
      <3>1. \A r \in Readers : pc[r] \in {"floor", "check", "fill"} => sv[r] = ver
        BY <2>3 DEF IInv, SnapshotsCommitted, TypeOK, CallType, RowType, Actors
      <3> QED
        BY <1>1, <1>2, <1>3, <3>1 DEF Shielded, NothingOlder, callVars
    <2> QED
      BY <2>1, <2>2, <2>3 DEF IInv, TypeOK, CacheType, RowType
  <1> QED
    BY <1>3, <1>4, <1>6, <1>8, <1>9, <1>10 DEF IInv, TypeOK

-----------------------------------------------------------------------------
\* The inductive invariant holds in every reachable state.
THEOREM AuthInvariant == Spec => []IInv
  <1>1. IInv /\ [Next]_vars => IInv'
    <2> SUFFICES ASSUME IInv, [Next]_vars PROVE IInv'
      OBVIOUS
    <2>1. CASE UNCHANGED vars
      <3>1. FlagType'
        BY <2>1, Zenon DEF vars, cacheVars, FlagType, IInv, TypeOK
      <3> QED
        BY <2>1, <3>1 DEF vars, rowVars, cacheVars, callVars, budget, IInv, TypeOK, RowType, CacheType,
           CallType, BudgetType, FencedCommit, SnapshotsCommitted, FloorFollowsRow, FenceIsNewer,
           Shielded, NothingOlder, ReadsFresh
    <2>2. CASE Next
      BY <2>1, <2>2, ReaderPreserves, ChangerPreserves, RefresherPreserves, EditorPreserves,
         HashExpiryPreserves, FenceExpiryPreserves DEF Next, Finished
    <2> QED
      BY <2>1, <2>2
  <1> QED
    BY <1>1, InitIInv, PTL DEF Spec

\* Versions, snapshots and fences stay within the committed row and the change
\* that is being committed.
THEOREM AuthTyping == Spec => []TypeOK
  <1>1. IInv => TypeOK
    BY DEF IInv
  <1> QED
    BY <1>1, AuthInvariant, PTL

\* GetUserCache never serves authentication state older than what was committed
\* when the read began, unless a publication was lost and a read outlasted the
\* fence that covered it.
THEOREM NoStaleAuthorityServed == Spec => []NoStaleAuthority
  <1>1. IInv => NoStaleAuthority
    BY DEF IInv, ReadsFresh, NoStaleAuthority
  <1> QED
    BY <1>1, AuthInvariant, PTL

\* The floor without a TTL never passes the committed version: no rollback, crash
\* or Redis error locks a user out for good.
THEOREM FloorNeverLeads == Spec => []FloorFollowsRow
  <1>1. IInv => FloorFollowsRow
    BY DEF IInv
  <1> QED
    BY <1>1, AuthInvariant, PTL

-----------------------------------------------------------------------------
(* Group transitions.                                                       *)

\* The refresh of f will still bring the committed group into the hash, or has
\* used up its writes.
Corrects(f) ==
    \/ pc[f] = "groupRead"
    \/ pc[f] = "groupWrite" /\ sg[f] = grp
    \/ pc[f] = "groupVerify" /\ sg[f] # grp
    \/ tries[f] > 3

\* Without changes nobody replaces the hash, and whoever wrote an old group into it
\* has not yet read the row again.
Converging ==
    /\ ver = 1 /\ row = "live" /\ hashVer = 1 /\ fence = 0
    /\ \A r \in Readers : pc[r] \in {"idle", "floor", "served"}
    /\ hashGrp = grp \/ \E f \in Refreshers : Corrects(f)

ConvergeInv == OnlyTransitions => Converging

\* A history of transitions only was one a step before.
LEMMA TransitionsBefore ==
    ASSUME IInv, [Next]_vars, OnlyTransitions' PROVE OnlyTransitions
  <1>1. expiries \in Nat /\ redisErrors \in Nat /\ pc \in [Actors -> Labels]
    BY DEF IInv, TypeOK, BudgetType, CallType
  <1>2. expiries' = 0 /\ redisErrors' = 0 /\ Warm /\ \A a \in Changers \cup Editors : pc'[a] = "idle"
    BY DEF OnlyTransitions
  <1>3. CASE \E r \in Readers : ReaderStep(r)
    <2>1. PICK r \in Readers : ReaderStep(r)
      BY <1>3
    <2>2. \A a \in Changers \cup Editors : a # r /\ a \in Actors
      BY ActorAssumption DEF Actors
    <2>3. \A a \in Changers \cup Editors : pc'[a] = pc[a]
      BY <1>1, <2>1, <2>2 DEF ReaderStep, ReadHash, ReadFloor, ReadRow, CheckFloor, Fill, ReadAgain, Go
    <2>4. expiries' = expiries /\ redisErrors <= redisErrors'
      <3>1. CASE ReadHash(r) \/ ReadFloor(r)
        BY <1>1, <3>1 DEF ReadHash, ReadFloor, RedisError, budget
      <3>2. CASE CheckFloor(r)
        BY <1>1, <3>2 DEF CheckFloor, RedisError, budget
      <3>3. CASE Fill(r)
        <4>1. UNCHANGED budget \/ RedisError
          BY <3>3, Zenon DEF Fill
        <4> QED
          BY <1>1, <4>1 DEF RedisError, budget
      <3>4. CASE ReadRow(r) \/ ReadAgain(r)
        BY <1>1, <3>4 DEF ReadRow, ReadAgain, budget
      <3> QED
        BY <2>1, <3>1, <3>2, <3>3, <3>4 DEF ReaderStep
    <2> QED
      BY <1>1, <1>2, <2>3, <2>4 DEF OnlyTransitions
  <1>4. CASE \E c \in Changers : ChangerStep(c)
    <2>1. PICK c \in Changers : ChangerStep(c)
      BY <1>4
    <2>2. c \in Actors /\ pc'[c] # "idle"
      BY <1>1, <2>1 DEF Actors, ChangerStep, LockRow, SetFence, Rollback, Reread, Write, Commit, PublishFloor,
         Drop, Crash, Go
    <2> QED
      BY <1>2, <2>1, <2>2
  <1>5. CASE \E f \in Refreshers : RefresherStep(f)
    <2>1. PICK f \in Refreshers : RefresherStep(f)
      BY <1>5
    <2>2. f \in Actors /\ pc'[f] # "idle" /\ \A a \in Actors \ {f} : pc'[a] = pc[a]
      BY <1>1, <2>1 DEF Actors, RefresherStep, ChangeGroup, GroupRead, GroupWrite, GroupVerify, Go
    <2>3. \A a \in Changers \cup Editors : pc'[a] = pc[a]
      BY <1>2, <2>2 DEF Actors
    <2>4. expiries' = expiries /\ redisErrors <= redisErrors'
      BY <1>1, <2>1 DEF RefresherStep, ChangeGroup, GroupRead, GroupWrite, GroupVerify, RedisError, budget
    <2> QED
      BY <1>1, <1>2, <2>3, <2>4 DEF OnlyTransitions
  <1>6. CASE \E e \in Editors : EditorStep(e)
    <2>1. PICK e \in Editors : EditorStep(e)
      BY <1>6
    <2>2. e \in Actors /\ pc'[e] # "idle"
      BY <1>1, <2>1 DEF Actors, EditorStep, EditProfile, Write, Go
    <2> QED
      BY <1>2, <2>1, <2>2
  <1>7. CASE HashExpires
    BY <1>1, <1>2, <1>7 DEF HashExpires
  <1>8. CASE FenceExpires \/ Finished \/ UNCHANGED vars
    BY <1>2, <1>8 DEF FenceExpires, Finished, vars, callVars, budget, OnlyTransitions
  <1> QED
    BY <1>3, <1>4, <1>5, <1>6, <1>7, <1>8 DEF Next

\* A reader finds the hash and leaves it alone.
LEMMA ReaderConverges ==
    ASSUME IInv, OnlyTransitions, OnlyTransitions', Converging, NEW r \in Readers, ReaderStep(r)
    PROVE  Converging'
  <1>1. /\ r \in Actors /\ pc \in [Actors -> Labels] /\ sv[r] = 1 /\ Floor \in {0, 1}
        /\ redisErrors = 0 /\ redisErrors' = 0 /\ hashVer = 1 /\ pc[r] \in {"idle", "floor", "served"}
    BY DEF Actors, IInv, TypeOK, CallType, CacheType, SnapshotsCommitted, FloorFollowsRow, Floor, Larger,
       Converging, OnlyTransitions
  <1>2. /\ UNCHANGED rowVars /\ UNCHANGED cacheVars /\ tries' = tries
        /\ \E next \in {"idle", "floor", "served"} : Go(r, next)
        /\ \A a \in Actors \ {r} : sg'[a] = sg[a]
    <2>1. CASE ReadHash(r)
      BY <1>1, <2>1 DEF ReadHash, RedisError, IInv, TypeOK, CallType
    <2>2. CASE ReadFloor(r)
      BY <1>1, <2>2 DEF ReadFloor, RedisError, BelowFloor
    <2>3. CASE ReadAgain(r)
      BY <1>1, <2>3 DEF ReadAgain
    <2> QED
      BY <1>1, <2>1, <2>2, <2>3 DEF ReaderStep, ReadRow, CheckFloor, Fill
  <1>3. PICK next \in {"idle", "floor", "served"} : Go(r, next)
    BY <1>2
  <1>4. \A q \in Readers : q \in Actors /\ pc'[q] \in {"idle", "floor", "served"}
    BY <1>1, <1>3 DEF Go, Converging, Actors
  <1>5. \A f \in Refreshers : f \in Actors \ {r} /\ pc'[f] = pc[f] /\ sg'[f] = sg[f]
    BY <1>1, <1>2, <1>3, ActorAssumption DEF Go, Actors
  <1> QED
    BY <1>2, <1>4, <1>5 DEF Converging, Corrects, rowVars, cacheVars

\* A transition leaves somebody to correct what it breaks.
LEMMA RefresherConverges ==
    ASSUME IInv, OnlyTransitions, OnlyTransitions', Converging, NEW f \in Refreshers, RefresherStep(f)
    PROVE  Converging'
  <1>1. /\ f \in Actors /\ pc \in [Actors -> Labels] /\ sg \in [Actors -> Groups] /\ sv \in [Actors -> Nat \ {0}]
        /\ tries \in [Actors -> Nat] /\ ver = 1 /\ row = "live" /\ hashVer = 1 /\ fence = 0
        /\ floor \in Nat /\ floor <= 1 /\ sv[f] = 1 /\ redisErrors = 0 /\ redisErrors' = 0
    BY DEF Actors, IInv, TypeOK, CallType, CacheType, SnapshotsCommitted, FloorFollowsRow, Converging, OnlyTransitions
  <1>2. \A q \in Refreshers : q \in Actors
    BY DEF Actors
  <1>3. \A a \in Actors \ {f} : pc'[a] = pc[a] /\ sg'[a] = sg[a] /\ tries'[a] = tries[a]
    BY <1>1 DEF RefresherStep, ChangeGroup, GroupRead, GroupWrite, GroupVerify, Go, Snapshot
  <1>4. \A r \in Readers : pc'[r] \in {"idle", "floor", "served"}
    BY <1>3, ActorAssumption DEF Converging, Actors
  <1>5. ver' = 1 /\ row' = "live" /\ hashVer' = 1 /\ fence' = 0
    BY <1>1 DEF RefresherStep, ChangeGroup, GroupRead, GroupWrite, GroupVerify, RedisError, WriteField, Admit,
       rowVars, cacheVars
  <1>6. hashGrp' = grp' \/ \E q \in Refreshers : Corrects(q)'
    <2>1. CASE \E g \in Groups : ChangeGroup(f, g)
      BY <1>1, <2>1 DEF ChangeGroup, Go, Corrects
    <2>2. CASE GroupRead(f)
      BY <1>1, <2>2 DEF GroupRead, Go, Snapshot, Corrects, rowVars
    <2>3. CASE GroupWrite(f)
      <3>1. /\ WriteField(1, sg[f]) /\ sg' = sg /\ grp' = grp /\ tries' = [tries EXCEPT ![f] = tries[f] + 1]
            /\ pc'[f] = IF tries[f] < 3 THEN "groupVerify" ELSE "done"
        BY <1>1, <2>3 DEF GroupWrite, RedisError, Refuses, Go, rowVars
      <3>2. hashGrp' = sg[f]
        BY <1>1, <3>1 DEF WriteField
      <3>3. CASE sg[f] = grp
        BY <3>1, <3>2, <3>3
      <3>4. CASE sg[f] # grp
        <4>1. Corrects(f)'
          BY <1>1, <3>1, <3>4 DEF Corrects
        <4> QED
          BY <4>1
      <3> QED
        BY <3>3, <3>4
    <2>4. CASE GroupVerify(f)
      <3>1. grp' = grp /\ hashGrp' = hashGrp /\ tries' = tries /\ pc[f] = "groupVerify"
        BY <2>4 DEF GroupVerify, rowVars, cacheVars
      <3>2. CASE sg[f] = grp
        <4>1. Corrects(f) => Corrects(f)'
          BY <1>1, <3>1, <3>2 DEF Corrects
        <4>2. \A q \in Refreshers \ {f} : Corrects(q) => Corrects(q)'
          BY <1>2, <1>3, <3>1 DEF Corrects
        <4> QED
          BY <3>1, <4>1, <4>2 DEF Converging
      <3>3. CASE sg[f] # grp
        BY <1>1, <2>4, <3>3 DEF GroupVerify, Unchanged, Snapshot, Go, Corrects, rowVars
      <3> QED
        BY <3>2, <3>3
    <2> QED
      BY <2>1, <2>2, <2>3, <2>4 DEF RefresherStep
  <1> QED
    BY <1>4, <1>5, <1>6 DEF Converging

\* For any number of overlapping group transitions and reads, the hash ends with the
\* committed group unless some RefreshUserGroupCache ran out of writes and said so.
THEOREM TransitionsConverge == Spec => []GroupRefreshConverges
  <1>1. Init => ConvergeInv
    BY ActorAssumption DEF Init, ConvergeInv, Converging, OnlyTransitions, Actors
  <1>2. IInv /\ ConvergeInv /\ [Next]_vars => ConvergeInv'
    <2> SUFFICES ASSUME IInv, ConvergeInv, [Next]_vars, OnlyTransitions' PROVE Converging'
      BY DEF ConvergeInv
    <2>1. OnlyTransitions /\ Converging
      BY TransitionsBefore DEF ConvergeInv
    <2>2. CASE \E r \in Readers : ReaderStep(r)
      BY <2>1, <2>2, ReaderConverges
    <2>3. CASE \E f \in Refreshers : RefresherStep(f)
      BY <2>1, <2>3, RefresherConverges
    <2>4. CASE \E c \in Changers : ChangerStep(c)
      <3>1. PICK c \in Changers : ChangerStep(c)
        BY <2>4
      <3>2. c \in Actors /\ pc'[c] # "idle"
        BY <3>1 DEF Actors, ChangerStep, LockRow, SetFence, Rollback, Reread, Write, Commit, PublishFloor,
           Drop, Crash, Go, IInv, TypeOK, CallType
      <3> QED
        BY <3>1, <3>2 DEF OnlyTransitions
    <2>5. CASE \E e \in Editors : EditorStep(e)
      <3>1. PICK e \in Editors : EditorStep(e)
        BY <2>5
      <3>2. e \in Actors /\ pc'[e] # "idle"
        BY <3>1 DEF Actors, EditorStep, EditProfile, Write, Go, IInv, TypeOK, CallType
      <3> QED
        BY <3>1, <3>2 DEF OnlyTransitions
    <2>6. CASE HashExpires
      BY <2>1, <2>6 DEF HashExpires, OnlyTransitions, IInv, TypeOK, BudgetType
    <2>7. CASE FenceExpires
      BY <2>1, <2>7 DEF FenceExpires, Converging
    <2>8. CASE UNCHANGED vars
      BY <2>1, <2>8 DEF vars, rowVars, cacheVars, callVars, Converging, Corrects
    <2> QED
      BY <2>2, <2>3, <2>4, <2>5, <2>6, <2>7, <2>8 DEF Next, Finished
  <1>3. IInv /\ ConvergeInv => GroupRefreshConverges
    <2> SUFFICES ASSUME IInv, ConvergeInv, Quiet, OnlyTransitions, \A f \in Refreshers : tries[f] <= 3
                 PROVE  hashVer = ver /\ hashGrp = grp
      BY DEF GroupRefreshConverges
    <2>1. \A f \in Refreshers : ~Corrects(f)
      BY ActorAssumption DEF Corrects, Quiet, Actors, IInv, TypeOK, CallType
    <2> QED
      BY <2>1 DEF ConvergeInv, Converging
  <1> QED
    BY <1>1, <1>2, <1>3, AuthInvariant, PTL DEF Spec
=============================================================================
