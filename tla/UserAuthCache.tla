----------------------------- MODULE UserAuthCache -----------------------------
(***************************************************************************)
(* The authentication state of one user behind its Redis hash:             *)
(* model/user_auth_cache.go, model/user_cache.go and the updates of        *)
(* model/user.go that use them.                                            *)
(*                                                                         *)
(* A security change publishes a pending fence, commits the next version   *)
(* under the row's lock and then publishes a permanent version floor.      *)
(* Group transitions and profile edits keep the version.  Every database   *)
(* statement, Redis script and Redis command is one step.                  *)
(***************************************************************************)
EXTENDS Integers

CONSTANTS
    Readers,      \* callers of GetUserCache
    Changers,     \* security changes: Update/Edit, Bump, delete, HardDelete
    Refreshers,   \* subscription group transitions
    Editors,      \* profile edits and bindings (updateUserCache, same version)
    Groups,
    Warm,         \* the hash exists in the initial state
    MaxVersion,   \* bound on auth_version
    MaxExpiries,  \* bound on expirations of the hash
    MaxRedis,     \* bound on Redis errors
    MaxFaults     \* bound on rollbacks and crashes

Actors == Readers \cup Changers \cup Refreshers \cup Editors

ASSUME ActorAssumption ==
    /\ Readers \cap Changers = {} /\ Readers \cap Refreshers = {} /\ Readers \cap Editors = {}
    /\ "free" \notin Actors /\ Groups # {} /\ Warm \in BOOLEAN
ASSUME CacheBounds == MaxVersion \in Nat \ {0} /\ MaxExpiries \in Nat /\ MaxRedis \in Nat /\ MaxFaults \in Nat

VARIABLES
    ver, grp, row,      \* the committed row: auth_version, group, "live", "deleted", "gone"
    rowLock,            \* the transaction that holds the row
    hashVer, hashGrp,   \* user:<id>; version 0 = absent
    fence,              \* auth:user:fence:<id>; 0 = absent
    floor,              \* auth:user:version:<id>; 0 = absent
    aged,               \* the hash was written before the fence was
    pc, sv, sg,         \* each actor: its step and its snapshot
    start,              \* the committed version when a read began
    tries,              \* writes RefreshUserGroupCache has made
    exposed,            \* a fence ran out before its floor was published and before
                        \* a read that it covered had ended
    expiries, redisErrors, faults

rowVars   == <<ver, grp, row, rowLock>>
cacheVars == <<hashVer, hashGrp, fence, floor, aged>>
callVars  == <<pc, sv, sg, start, tries>>
budget    == <<expiries, redisErrors, faults>>
vars      == <<rowVars, cacheVars, callVars, exposed, budget>>

Fates == {"live", "deleted", "gone"}

AnyGroup == CHOOSE g \in Groups : TRUE

Init ==
    /\ ver = 1 /\ grp = AnyGroup /\ row = "live" /\ rowLock = "free"
    /\ hashVer = IF Warm THEN 1 ELSE 0
    /\ hashGrp = AnyGroup /\ fence = 0 /\ floor = 0 /\ aged = FALSE
    /\ pc = [a \in Actors |-> "idle"]
    /\ sv = [a \in Actors |-> 1] /\ sg = [a \in Actors |-> AnyGroup]
    /\ start = [a \in Actors |-> 1] /\ tries = [a \in Actors |-> 0]
    /\ exposed = FALSE
    /\ expiries = 0 /\ redisErrors = 0 /\ faults = 0

-----------------------------------------------------------------------------
Larger(m, n) == IF m < n THEN n ELSE m

Go(a, label) == pc' = [pc EXCEPT ![a] = label]

Snapshot(a) ==
    /\ sv' = [sv EXCEPT ![a] = ver]
    /\ sg' = [sg EXCEPT ![a] = grp]

RedisError ==
    /\ redisErrors < MaxRedis
    /\ redisErrors' = redisErrors + 1
    /\ UNCHANGED <<cacheVars, expiries, faults>>

\* Mutant: the pending fence is not compared.
Refuses_IgnoresFence(v) == floor > v \/ hashVer > v

\* The common head of the two scripts: a write below a floor is refused ...
Refuses(v) == fence > v \/ floor > v \/ hashVer > v

\* ... and one that is let through raises the permanent floor and ends the fence.
Admit(v) ==
    /\ floor' = Larger(floor, v)
    /\ fence' = IF fence <= v THEN 0 ELSE fence

\* writeUserCache; only populateUserCache creates a hash.
WriteHash(v, g, create) ==
    /\ Admit(v)
    /\ IF create \/ hashVer > 0
       THEN hashVer' = v /\ hashGrp' = g /\ aged' = FALSE
       ELSE UNCHANGED <<hashVer, hashGrp, aged>>

\* updateUserCacheFieldAtVersion for the field Group.
WriteField(v, g) ==
    /\ Admit(v)
    /\ hashGrp' = IF hashVer = v THEN g ELSE hashGrp
    /\ UNCHANGED <<hashVer, aged>>

\* getUserAuthVersionFloor
Floor == Larger(fence, floor)

-----------------------------------------------------------------------------
(* GetUserCache.                                                            *)

\* cacheGetUserBase: the hash first ...
ReadHash(r) ==
    /\ pc[r] = "idle"
    /\ start' = [start EXCEPT ![r] = ver]
    /\ \/ /\ hashVer > 0 /\ Go(r, "floor")
          /\ sv' = [sv EXCEPT ![r] = hashVer] /\ sg' = [sg EXCEPT ![r] = hashGrp]
          /\ UNCHANGED <<cacheVars, budget>>
       \/ hashVer = 0 /\ Go(r, "row") /\ UNCHANGED <<sv, sg, cacheVars, budget>>
       \/ RedisError /\ Go(r, "row") /\ UNCHANGED <<sv, sg>>
    /\ UNCHANGED <<rowVars, tries, exposed>>

\* What GetUserCache compares a hit with.
BelowFloor(r) == Floor > sv[r]

\* ... then the floor; a hash below it is not used, the database is asked.
ReadFloor(r) ==
    /\ pc[r] = "floor"
    /\ \/ ~BelowFloor(r) /\ Go(r, "served") /\ UNCHANGED <<cacheVars, budget>>
       \/ BelowFloor(r) /\ Go(r, "row") /\ UNCHANGED <<cacheVars, budget>>
       \/ RedisError /\ Go(r, "row")
    /\ UNCHANGED <<rowVars, sv, sg, start, tries, exposed>>

\* GetUserById
ReadRow(r) ==
    /\ pc[r] = "row"
    /\ IF row = "live" THEN Snapshot(r) /\ Go(r, "check") ELSE Go(r, "denied") /\ UNCHANGED <<sv, sg>>
    /\ UNCHANGED <<rowVars, cacheVars, start, tries, exposed, budget>>

\* A fence above the row means a change is pending; an error does not stop the read.
CheckFloor(r) ==
    /\ pc[r] = "check"
    /\ \/ Floor > sv[r] /\ Go(r, "denied") /\ UNCHANGED <<cacheVars, budget>>
       \/ Floor <= sv[r] /\ Go(r, "fill") /\ UNCHANGED <<cacheVars, budget>>
       \/ RedisError /\ Go(r, "fill")
    /\ UNCHANGED <<rowVars, sv, sg, start, tries, exposed>>

\* populateUserCache; an error other than a refusal is only logged.
Fill(r) ==
    /\ pc[r] = "fill"
    /\ \/ Refuses(sv[r]) /\ Go(r, "denied") /\ UNCHANGED <<cacheVars, budget>>
       \/ ~Refuses(sv[r]) /\ WriteHash(sv[r], sg[r], TRUE) /\ Go(r, "served") /\ UNCHANGED budget
       \/ RedisError /\ Go(r, "served")
    /\ UNCHANGED <<rowVars, sv, sg, start, tries, exposed>>

ReadAgain(r) ==
    /\ pc[r] \in {"served", "denied"} /\ Go(r, "idle")
    /\ UNCHANGED <<rowVars, cacheVars, sv, sg, start, tries, exposed, budget>>

-----------------------------------------------------------------------------
(* Security changes: IncrementUserAuthVersionWithTx and what follows it.    *)

\* Unscoped: a soft-deleted row is found too.
LockRow(c) ==
    /\ pc[c] = "idle" /\ row # "gone" /\ rowLock = "free" /\ ver < MaxVersion
    /\ rowLock' = c
    /\ Snapshot(c) /\ Go(c, "fence")
    /\ UNCHANGED <<ver, grp, row, cacheVars, start, tries, exposed, budget>>

Unlock == rowLock' = "free"

\* The TTL is renewed unless a higher fence is there.
FenceScript(n) ==
    /\ fence' = Larger(fence, n)
    /\ aged' = IF fence <= n THEN TRUE ELSE aged
    /\ UNCHANGED <<hashVer, hashGrp, floor>>

\* SetUserAuthVersionFence; without a fence there is no change.
SetFence(c) ==
    /\ pc[c] = "fence"
    /\ \/ FenceScript(sv[c] + 1) /\ Go(c, "commit") /\ UNCHANGED <<rowLock, budget>>
       \/ RedisError /\ Go(c, "done") /\ Unlock
    /\ UNCHANGED <<ver, grp, row, sv, sg, start, tries, exposed>>

\* An edit, which may set the group, a soft or a hard deletion commits the next
\* version.
Commit(c, g, fate) ==
    /\ pc[c] = "commit"
    /\ row = "live" \/ (fate # "live" /\ g = grp)
    /\ ver' = ver + 1 /\ grp' = g /\ row' = fate /\ Unlock
    /\ sv' = [sv EXCEPT ![c] = ver + 1] /\ sg' = [sg EXCEPT ![c] = g]
    /\ Go(c, IF fate = "live" THEN "write" ELSE "publishFloor")
    /\ UNCHANGED <<cacheVars, start, tries, exposed, budget>>

\* The transaction rolls back; the fence stays until it expires.
Rollback(c) ==
    /\ pc[c] \in {"fence", "commit"} /\ faults < MaxFaults
    /\ faults' = faults + 1
    /\ Go(c, "done") /\ Unlock
    /\ UNCHANGED <<ver, grp, row, cacheVars, sv, sg, start, tries, exposed, expiries, redisErrors>>

\* PublishUserAuthCache reads the row again instead of using the transaction's copy;
\* a row that has been deleted meanwhile is not published.
Reread(c) ==
    /\ pc[c] = "write" /\ c \in Changers
    /\ IF row = "live"
       THEN sv[c] # ver /\ Snapshot(c) /\ UNCHANGED pc
       ELSE Go(c, "done") /\ UNCHANGED <<sv, sg>>
    /\ UNCHANGED <<rowVars, cacheVars, start, tries, exposed, budget>>

\* updateUserCache, of a security change or of a profile edit.
Write(a) ==
    /\ pc[a] = "write"
    /\ \/ ~Refuses(sv[a]) /\ WriteHash(sv[a], sg[a], FALSE) /\ UNCHANGED budget
       \/ Refuses(sv[a]) /\ UNCHANGED <<cacheVars, budget>>
       \/ RedisError
    /\ Go(a, "done")
    /\ UNCHANGED <<rowVars, sv, sg, start, tries, exposed>>

\* publishCommittedUserAuthVersion, after a deletion; HardDelete goes on after an
\* error, delete does not.
PublishFloor(c) ==
    /\ pc[c] = "publishFloor"
    /\ \/ Admit(sv[c]) /\ Go(c, "drop") /\ UNCHANGED <<hashVer, hashGrp, aged, budget>>
       \/ RedisError /\ \E next \in {"drop", "done"} : Go(c, next)
    /\ UNCHANGED <<rowVars, sv, sg, start, tries, exposed>>

\* invalidateUserCache
Drop(c) ==
    /\ pc[c] = "drop" /\ Go(c, "done")
    /\ \/ hashVer' = 0 /\ hashGrp' = AnyGroup /\ UNCHANGED <<fence, floor, aged, budget>>
       \/ RedisError
    /\ UNCHANGED <<rowVars, sv, sg, start, tries, exposed>>

\* The process dies after the commit, before the cache has heard of it, or
\* RevokeAllUserSessions fails before the hash is dropped.
Crash(c) ==
    /\ pc[c] \in {"write", "publishFloor", "drop"} /\ faults < MaxFaults
    /\ faults' = faults + 1
    /\ Go(c, "done")
    /\ UNCHANGED <<rowVars, cacheVars, sv, sg, start, tries, exposed, expiries, redisErrors>>

-----------------------------------------------------------------------------
(* Changes that keep the version.                                           *)

\* A profile edit commits and keeps the row it read in its transaction.
EditProfile(e) ==
    /\ pc[e] = "idle" /\ row = "live" /\ rowLock = "free"
    /\ Snapshot(e) /\ Go(e, "write")
    /\ UNCHANGED <<rowVars, cacheVars, start, tries, exposed, budget>>

\* A subscription moves the user to another group.
ChangeGroup(f, g) ==
    /\ pc[f] = "idle" /\ row = "live" /\ rowLock = "free" /\ g # grp
    /\ grp' = g /\ Go(f, "groupRead")
    /\ UNCHANGED <<ver, row, rowLock, cacheVars, sv, sg, start, tries, exposed, budget>>

\* RefreshUserGroupCache reads the row,
GroupRead(f) ==
    /\ pc[f] = "groupRead"
    /\ IF row = "live" THEN Snapshot(f) /\ Go(f, "groupWrite") ELSE Go(f, "done") /\ UNCHANGED <<sv, sg>>
    /\ UNCHANGED <<rowVars, cacheVars, start, tries, exposed, budget>>

\* writes the field ("for range 3", and once more),
GroupWrite(f) ==
    /\ pc[f] = "groupWrite"
    /\ \/ /\ ~Refuses(sv[f]) /\ WriteField(sv[f], sg[f]) /\ UNCHANGED budget
          /\ Go(f, IF tries[f] < 3 THEN "groupVerify" ELSE "done")
       \/ Refuses(sv[f]) /\ Go(f, "done") /\ UNCHANGED <<cacheVars, budget>>
       \/ RedisError /\ Go(f, "done")
    /\ tries' = [tries EXCEPT ![f] = tries[f] + 1]
    /\ UNCHANGED <<rowVars, sv, sg, start, exposed>>

\* Mutant: the row is not read again after the write.
Unchanged_Assumed(f) == TRUE

Unchanged(f) == sv[f] = ver /\ sg[f] = grp

\* and reads the row again: it repeats the write when the row has moved on.
GroupVerify(f) ==
    /\ pc[f] = "groupVerify"
    /\ IF row # "live" \/ Unchanged(f)
       THEN Go(f, "done") /\ UNCHANGED <<sv, sg>>
       ELSE Snapshot(f) /\ Go(f, "groupWrite")
    /\ UNCHANGED <<rowVars, cacheVars, start, tries, exposed, budget>>

-----------------------------------------------------------------------------
HashExpires ==
    /\ hashVer > 0 /\ expiries < MaxExpiries
    /\ expiries' = expiries + 1
    /\ hashVer' = 0 /\ hashGrp' = AnyGroup
    /\ UNCHANGED <<rowVars, fence, floor, aged, callVars, exposed, redisErrors, faults>>

\* Mutant: the fence is SET without EX.
FenceExpires_NoTTL == FALSE /\ UNCHANGED vars

\* userAuthFenceTTLSeconds: longer than a hash lives, so every hash written before the
\* fence is gone by then.  That the transaction and the publication it covers have
\* ended too is assumed of the environment.
FenceExpires ==
    /\ fence > 0
    /\ \A c \in Changers : pc[c] \in {"idle", "fence", "done"}
    /\ fence' = 0
    /\ IF aged THEN hashVer' = 0 /\ hashGrp' = AnyGroup ELSE UNCHANGED <<hashVer, hashGrp>>
    /\ exposed' = IF floor < ver /\ \E r \in Readers : pc[r] \in {"floor", "check", "fill"} /\ sv[r] < ver
                  THEN TRUE ELSE exposed
    /\ UNCHANGED <<rowVars, floor, aged, callVars, budget>>

ReaderStep(r) ==
    ReadHash(r) \/ ReadFloor(r) \/ ReadRow(r) \/ CheckFloor(r) \/ Fill(r) \/ ReadAgain(r)

ChangerStep(c) ==
    \/ LockRow(c) \/ SetFence(c) \/ Rollback(c) \/ Reread(c) \/ Write(c)
    \/ \E g \in Groups, fate \in Fates : Commit(c, g, fate)
    \/ PublishFloor(c) \/ Drop(c) \/ Crash(c)

RefresherStep(f) ==
    \/ \E g \in Groups : ChangeGroup(f, g)
    \/ GroupRead(f) \/ GroupWrite(f) \/ GroupVerify(f)

EditorStep(e) == EditProfile(e) \/ Write(e)

Quiet == \A a \in Actors \ Readers : pc[a] \in {"idle", "done"}

\* Every change has been made.
Finished == (\A a \in Actors \ Readers : pc[a] = "done") /\ UNCHANGED vars

Next ==
    \/ \E r \in Readers : ReaderStep(r)
    \/ \E c \in Changers : ChangerStep(c)
    \/ \E f \in Refreshers : RefresherStep(f)
    \/ \E e \in Editors : EditorStep(e)
    \/ HashExpires \/ FenceExpires
    \/ Finished

\* A transaction, once it holds the row, runs to its end, and a TTL runs out.
Fairness == WF_vars(FenceExpires) /\ \A c \in Changers : WF_vars(pc[c] # "idle" /\ ChangerStep(c))

Spec == Init /\ [][Next]_vars
LiveSpec == Spec /\ Fairness

-----------------------------------------------------------------------------
Labels ==
    {"idle", "floor", "row", "check", "fill", "served", "denied", "fence", "commit", "write",
     "publishFloor", "drop", "groupRead", "groupWrite", "groupVerify", "done"}

RowType == ver \in Nat \ {0} /\ grp \in Groups /\ row \in Fates /\ rowLock \in Changers \cup {"free"}

CacheType ==
    /\ hashVer \in Nat /\ fence \in Nat /\ floor \in Nat
    /\ hashVer <= ver /\ fence <= ver + 1
    /\ hashGrp \in Groups

CallType ==
    /\ pc \in [Actors -> Labels] /\ sv \in [Actors -> Nat \ {0}] /\ sg \in [Actors -> Groups]
    /\ start \in [Actors -> Nat \ {0}] /\ tries \in [Actors -> Nat]

FlagType == aged \in BOOLEAN /\ exposed \in BOOLEAN

BudgetType == expiries \in Nat /\ redisErrors \in Nat /\ faults \in Nat

\* Every variable has its type; no cached or published version is ahead of the
\* versions that a transaction may hold (the row's and the one being committed).
TypeOK == RowType /\ CacheType /\ CallType /\ FlagType /\ BudgetType

\* GetUserCache never answers with authentication state older than what was
\* committed when the read began, whatever hash expirations, Redis errors,
\* rollbacks, crashes and delayed fills come between.  The one exception: the
\* publication of a committed version was lost, and a read of an earlier one was
\* held up for longer than the fence's TTL.
NoStaleAuthority ==
    \A r \in Readers : pc[r] = "served" /\ ~exposed => sv[r] >= start[r]

\* The permanent floor (it has no TTL) never passes the committed row.  A floor
\* above the row would make GetUserCache refuse the user until an operator
\* repairs Redis.
FloorFollowsRow == floor <= ver

\* So far there were only reads and group transitions, on a hash that was never lost.
OnlyTransitions ==
    /\ Warm /\ expiries = 0 /\ redisErrors = 0
    /\ \A a \in Changers \cup Editors : pc[a] = "idle"

\* However many group transitions overlap, once each has ended its
\* RefreshUserGroupCache the hash shows the committed group, unless one of them met
\* a new group after each of its three writes and returned, after a fourth, the error
\* "user group changed repeatedly during cache refresh".
GroupRefreshConverges ==
    Quiet /\ OnlyTransitions /\ (\A f \in Refreshers : tries[f] <= 3)
        => hashVer = ver /\ hashGrp = grp

\* A fence above the row, left by a rolled-back change, does not lock the user out
\* for ever: it expires or a later change commits its version.
FenceClears == (fence > ver) ~> (fence <= ver)
=============================================================================
