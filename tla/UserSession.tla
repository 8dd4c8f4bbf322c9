------------------------------ MODULE UserSession ------------------------------
(***************************************************************************)
(* The login sessions of one user: the rows of user_sessions and their     *)
(* snapshots in Redis (model/user_session.go), under concurrent requests   *)
(* of service/auth_session.go.                                             *)
(*                                                                         *)
(* Every database statement or transaction and every Redis script is one   *)
(* step, and the clock may advance between any two of them; a request that *)
(* takes no further step has stalled, or its process has died.  A refresh  *)
(* secret is its generation: deriveNextRefreshSecret makes the successor a *)
(* function of the secret presented.  The authority of the user            *)
(* (auth_version) is the subject of UserAuthCache and is left out, and so  *)
(* is the expiry of a session, which lies far beyond Horizon.              *)
(***************************************************************************)
EXTENDS Integers, FiniteSets

CONSTANTS
    Sids, Requests,
    FirstSid,                      \* the session that is logged in at the start
    NoSid,
    Ops,                           \* the operations a request may be for
    TTL,                           \* userCacheTTLSeconds
    Grace,                         \* RefreshReplayWindow
    CleanupAge,                    \* InactiveUserSessionCleanupAge
    IssuanceWindow, IssuanceLimit, ActiveLimit,
    Horizon,                       \* bound on the clock
    MaxVersion, MaxGen,            \* bounds on versions and rotations
    MaxInFlight,                   \* bound on requests served at a time
    MaxRedis                       \* bound on Redis errors

AllOps == {"validate", "refresh", "revoke", "logout", "bulk", "advance", "login"}

ASSUME SessionSids == FirstSid \in Sids /\ NoSid \notin Sids /\ Ops \subseteq AllOps
ASSUME SessionTimes == TTL \in Nat \ {0} /\ Grace \in Nat /\ CleanupAge \in Nat /\ IssuanceWindow \in Nat
ASSUME SessionBounds ==
    /\ IssuanceLimit \in Nat /\ ActiveLimit \in Nat /\ Horizon \in Nat
    /\ MaxVersion \in Nat \ {0} /\ MaxGen \in Nat /\ MaxInFlight \in Nat /\ MaxRedis \in Nat

VARIABLES
    now,
    row,          \* user_sessions; "absent" = never issued, "gone" = renewed under another SID
    cache,        \* auth:session:<sid>, present while now < until
    pc, op, sid,  \* of each request: its step, operation and session
    ver, gen,     \* the session version and the refresh secret it presents
    began,        \* when it arrived
    deadline,     \* cacheDeadline, taken before the authoritative read
    at,           \* the clock value its handler read
    tries,        \* iterations RotateUserSessionRefresh has left
    rotated,      \* its compare-and-swap has succeeded
    seen,         \* versions of the rows as it last read them
    targets, todo,\* the sessions it revokes, and those left in the current loop
    fresh,        \* the SID it issues, NoSid for none
    ended,        \* history: when a session stopped being active at a version
    tombed,       \* history: sessions whose revocation published its tombstone
    doomed,       \* history: the request arrived when its session was in tombed
    redisErrors

args    == <<op, sid, ver, gen, began, fresh, doomed>>
work    == <<deadline, at, tries, rotated, seen>>
plan    == <<targets, todo>>
history == <<ended, tombed>>
vars    == <<now, row, cache, pc, args, work, plan, history, redisErrors>>

Never == Horizon + 1
Record(st, v, g, u, c, t) == [st |-> st, ver |-> v, gen |-> g, until |-> u, created |-> c, last |-> t]
Blank == Record("absent", 1, 0, 0, 0, 0)
UnversionedIssue(v, c, t) == Record("active", v - 1, 0, 0, c, t)
Issued(v, c, t) == Record("active", v, 0, 0, c, t)

Init ==
    /\ now = 0
    /\ row = [s \in Sids |-> IF s = FirstSid THEN Issued(1, 0, 0) ELSE Blank]
    /\ cache = [s \in Sids |-> [st |-> "active", ver |-> 1, until |-> 0]]
    /\ pc = [r \in Requests |-> "idle"]
    /\ op = [r \in Requests |-> "validate"]
    /\ sid = [r \in Requests |-> FirstSid]
    /\ ver = [r \in Requests |-> 1] /\ gen = [r \in Requests |-> 0]
    /\ began = [r \in Requests |-> 0] /\ deadline = [r \in Requests |-> 0]
    /\ at = [r \in Requests |-> 0] /\ tries = [r \in Requests |-> 0]
    /\ rotated = [r \in Requests |-> FALSE]
    /\ seen = [r \in Requests |-> [s \in Sids |-> 1]]
    /\ targets = [r \in Requests |-> {}] /\ todo = [r \in Requests |-> {}]
    /\ fresh = [r \in Requests |-> NoSid]
    /\ ended = [s \in Sids |-> [v \in 1..MaxVersion |-> Never]]
    /\ tombed = {} /\ doomed = [r \in Requests |-> FALSE]
    /\ redisErrors = 0

-----------------------------------------------------------------------------
Active(s) == row[s].st = "active"
ActiveSids == {s \in Sids : Active(s)}
Go(r, label) == pc' = [pc EXCEPT ![r] = label]

\* history: sessions S stop being active at the version they have
End(S) ==
    ended' = [s \in Sids |-> IF s \in S THEN [ended[s] EXCEPT ![row[s].ver] = now] ELSE ended[s]]

RedisError ==
    /\ redisErrors < MaxRedis
    /\ redisErrors' = redisErrors + 1
    /\ UNCHANGED <<cache, tombed>>

\* the Lua script of writeUserSessionCache: whether it accepts, and what it leaves
Live(s) == now < cache[s].until
Denies(s) == Live(s) /\ cache[s].st # "active"
AdmitsOverDeny(s, status, v) == Live(s) => cache[s].ver <= v
Admits(s, status, v) ==
    /\ status = "active" => ~Denies(s)
    /\ Live(s) => cache[s].ver <= v
Publish(s, status, v, until) ==
    cache' = [cache EXCEPT ![s] = [st |-> status, ver |-> v, until |-> until]]

\* writeUserSessionCache for a deny state: the lifetime starts at the write
Deny(s, status, v) == Admits(s, status, v) /\ Publish(s, status, v, now + TTL)

-----------------------------------------------------------------------------
(* Arrivals.  A request presents an access token of some version that was  *)
(* issued, or a refresh secret of some generation.                         *)

Over == {"granted", "denied", "done"}
InFlight == {r \in Requests : pc[r] \notin Over \cup {"idle"}}

Arrive(r, o, s, label) ==
    /\ pc[r] = "idle" /\ o \in Ops /\ Cardinality(InFlight) < MaxInFlight
    /\ Go(r, label)
    /\ op' = [op EXCEPT ![r] = o]
    /\ sid' = [sid EXCEPT ![r] = s]
    /\ began' = [began EXCEPT ![r] = now]
    /\ at' = [at EXCEPT ![r] = now]
    /\ deadline' = [deadline EXCEPT ![r] = now + TTL]
    /\ doomed' = [doomed EXCEPT ![r] = s \in tombed]
    /\ UNCHANGED <<now, row, cache, tries, rotated, seen, plan, history, redisErrors>>

\* ValidateLoginSession with an access token of version v
ArriveValidate(r, s, v) ==
    /\ row[s].st # "absent" /\ v <= row[s].ver
    /\ Arrive(r, "validate", s, "cached")
    /\ ver' = [ver EXCEPT ![r] = v] /\ UNCHANGED <<gen, fresh>>

\* RefreshLoginSession, and AuthLogout with the cookie alone, with secret g
ArriveSecret(r, o, s, g) ==
    /\ row[s].st # "absent" /\ g <= row[s].gen
    /\ Arrive(r, o, s, IF o = "refresh" THEN "cached" ELSE "read")
    /\ gen' = [gen EXCEPT ![r] = g] /\ UNCHANGED <<ver, fresh>>

\* RevokeUserSession of s; revokeUserSessions of all but s (of all for NoSid)
ArriveRevoke(r, o, s) ==
    /\ Arrive(r, o, s, "read")
    /\ UNCHANGED <<ver, gen, fresh>>

\* advanceCurrentSessionToVersion for the session s at version v
ArriveAdvance(r, s, v) ==
    /\ row[s].st # "absent" /\ v <= row[s].ver
    /\ Arrive(r, "advance", s, "advance")
    /\ ver' = [ver EXCEPT ![r] = v] /\ UNCHANGED <<gen, fresh>>

\* createLoginSession: SID n for the browser whose locator cookie names s
ArriveLogin(r, s, n) ==
    /\ row[n].st = "absent" /\ \A q \in Requests : fresh[q] # n
    /\ Arrive(r, "login", s, "login")
    /\ fresh' = [fresh EXCEPT ![r] = n] /\ UNCHANGED <<ver, gen>>

-----------------------------------------------------------------------------
(* GetUserSessionCached, the first step of a validation and of a refresh.  *)

\* what follows once the session counts as active, at version v
Proceed(r, v) ==
    \/ op[r] = "validate" /\ Go(r, IF v = ver[r] THEN "granted" ELSE "denied") /\ UNCHANGED <<at, tries>>
    \/ op[r] = "refresh" /\ rotated[r] /\ Go(r, "granted") /\ UNCHANGED <<at, tries>>
    \/ /\ op[r] = "refresh" /\ ~rotated[r] /\ Go(r, "rotate")
       /\ at' = [at EXCEPT ![r] = now] /\ tries' = [tries EXCEPT ![r] = 3]
    \/ op[r] = "advance" /\ Go(r, "read") /\ UNCHANGED <<at, tries>>
    \/ op[r] = "login" /\ Go(r, "granted") /\ UNCHANGED <<at, tries>>

\* the session a request publishes
Subject(r) == IF op[r] = "login" THEN fresh[r] ELSE sid[r]

CacheHit(r) ==
    LET s == sid[r] IN
    /\ pc[r] = "cached" /\ Live(s)
    /\ \/ /\ cache[s].st = "active"
          /\ seen' = [seen EXCEPT ![r][s] = cache[s].ver]
          /\ Proceed(r, cache[s].ver)
       \/ cache[s].st # "active" /\ Go(r, "denied") /\ UNCHANGED <<seen, at, tries>>
    /\ UNCHANGED <<now, row, cache, deadline, rotated, args, plan, history, redisErrors>>

\* a miss, or a Redis error, falls back to the database
CacheMiss(r) ==
    /\ pc[r] = "cached"
    /\ \/ ~Live(sid[r]) /\ UNCHANGED <<cache, tombed, redisErrors>>
       \/ Live(sid[r]) /\ RedisError
    /\ deadline' = [deadline EXCEPT ![r] = now + TTL]
    /\ Go(r, "load")
    /\ UNCHANGED <<now, row, at, tries, rotated, seen, ended, args, plan>>

Load(r) ==
    LET s == sid[r] IN
    /\ pc[r] = "load"
    /\ seen' = [seen EXCEPT ![r][s] = row[s].ver]
    /\ Go(r, CASE row[s].st = "active" -> "fill" [] row[s].st = "revoked" -> "deny" [] OTHER -> "denied")
    /\ UNCHANGED <<now, row, cache, deadline, at, tries, rotated, args, plan, history, redisErrors>>

\* the row is not active: leave a tombstone, whatever becomes of the write
DenyFill(r) ==
    LET s == sid[r] IN
    /\ pc[r] = "deny"
    /\ \/ Deny(s, "revoked", seen[r][s]) /\ UNCHANGED <<tombed, redisErrors>>
       \/ ~Admits(s, "revoked", seen[r][s]) /\ UNCHANGED <<cache, tombed, redisErrors>>
       \/ RedisError
    /\ Go(r, "denied")
    /\ UNCHANGED <<now, row, ended, args, work, plan>>

\* the end of the window of an active snapshot: it began before the read
WindowFromWrite(r) == now + TTL
Window(r) == deadline[r]

\* writeUserSessionCache for an active snapshot (also publishCreatedUserSession,
\* the end of RotateUserSessionRefresh and of AdvanceUserSessionAuthVersion)
Fill(r) ==
    LET s == Subject(r) IN
    /\ pc[r] = "fill"
    /\ \/ /\ Window(r) <= now
          /\ Go(r, "confirm") /\ UNCHANGED <<cache, at, tries, tombed, redisErrors>>
       \/ /\ Window(r) > now /\ ~Admits(s, "active", seen[r][s])
          /\ Go(r, "denied") /\ UNCHANGED <<cache, at, tries, tombed, redisErrors>>
       \/ /\ Window(r) > now /\ Admits(s, "active", seen[r][s])
          /\ Publish(s, "active", seen[r][s], Window(r))
          /\ Go(r, "filled") /\ UNCHANGED <<at, tries, tombed, redisErrors>>
       \/ /\ Window(r) > now /\ RedisError
          /\ IF op[r] = "advance" THEN Go(r, "denied") /\ UNCHANGED <<at, tries>> ELSE Proceed(r, seen[r][s])
    /\ UNCHANGED <<now, row, deadline, rotated, seen, ended, args, plan>>

\* the script answered: in time, or after the observation window
Filled(r) ==
    /\ pc[r] = "filled"
    /\ \/ now < Window(r) /\ Proceed(r, seen[r][Subject(r)])
       \/ now >= Window(r) /\ Go(r, "confirm") /\ UNCHANGED <<at, tries>>
    /\ UNCHANGED <<now, row, cache, deadline, rotated, seen, args, plan, history, redisErrors>>

\* confirmUserSessionActiveSnapshot
Confirm(r) ==
    LET s == Subject(r) IN
    /\ pc[r] = "confirm"
    /\ \/ Active(s) /\ row[s].ver = seen[r][s] /\ Proceed(r, seen[r][Subject(r)])
       \/ ~(Active(s) /\ row[s].ver = seen[r][s]) /\ Go(r, "denied") /\ UNCHANGED <<at, tries>>
    /\ UNCHANGED <<now, row, cache, deadline, rotated, seen, args, plan, history, redisErrors>>

-----------------------------------------------------------------------------
(* RotateUserSessionRefresh *)

\* the previous secret after its grace period: the family is compromised
Replayed(r) == gen[r] = row[sid[r]].gen - 1 /\ at[r] > row[sid[r]].until

RotateRead(r) ==
    LET s == sid[r] IN
    /\ pc[r] = "rotate"
    /\ deadline' = [deadline EXCEPT ![r] = now + TTL]
    /\ seen' = [seen EXCEPT ![r][s] = row[s].ver]
    /\ \/ ~Active(s) /\ Go(r, "denied") /\ UNCHANGED <<targets, todo>>
       \/ Active(s) /\ gen[r] = row[s].gen /\ Go(r, "cas") /\ UNCHANGED <<targets, todo>>
       \* RefreshLoginSession hands the derived successor to the loser of a race
       \/ Active(s) /\ gen[r] = row[s].gen - 1 /\ at[r] <= row[s].until /\ Go(r, "granted") /\ UNCHANGED <<targets, todo>>
       \/ /\ Active(s) /\ Replayed(r) /\ Go(r, "fence")
          /\ targets' = [targets EXCEPT ![r] = {s}] /\ todo' = [todo EXCEPT ![r] = {s}]
       \/ Active(s) /\ gen[r] < row[s].gen - 1 /\ Go(r, "denied") /\ UNCHANGED <<targets, todo>>
    /\ UNCHANGED <<now, row, cache, at, tries, rotated, args, history, redisErrors>>

\* the WHERE clause of the rotating UPDATE
SwapsUnchecked(r) == Active(sid[r])
Swaps(r) == Active(sid[r]) /\ row[sid[r]].gen = gen[r]

RotateCas(r) ==
    LET s == sid[r] IN
    /\ pc[r] = "cas"
    /\ \/ /\ Swaps(r) /\ gen[r] < MaxGen
          /\ row' = [row EXCEPT ![s] = Record("active", @.ver, gen[r] + 1, at[r] + Grace, @.created, at[r])]
          /\ rotated' = [rotated EXCEPT ![r] = TRUE]
          /\ Go(r, "fill") /\ UNCHANGED tries
       \/ /\ ~Swaps(r)
          /\ tries' = [tries EXCEPT ![r] = @ - 1]
          /\ Go(r, IF tries[r] = 1 THEN "denied" ELSE "rotate")
          /\ UNCHANGED <<row, rotated>>
    /\ UNCHANGED <<now, cache, deadline, at, seen, args, plan, history, redisErrors>>

-----------------------------------------------------------------------------
(* Revocation: deny fence, row, tombstone.  One session for RevokeUser-    *)
(* Session and a replayed secret, all candidates for revokeUserSessions.   *)

Bulk(r) == op[r] \in {"bulk", "advance"}

\* RevokeUserSessionByRefreshHash keeps the row locked from its read to its commit;
\* here others may come in between, so what is shown holds with the lock too.
Candidates(r) ==
    CASE Bulk(r)          -> ActiveSids \ {sid[r]}
      [] op[r] = "logout" -> {s \in {sid[r]} : /\ Active(s)
                                               /\ \/ gen[r] = row[s].gen
                                                  \/ gen[r] = row[s].gen - 1 /\ at[r] <= row[s].until}
      [] OTHER            -> ActiveSids \cap {sid[r]}

RevokeRead(r) ==
    /\ pc[r] = "read"
    /\ targets' = [targets EXCEPT ![r] = Candidates(r)]
    /\ todo' = [todo EXCEPT ![r] = Candidates(r)]
    /\ seen' = [seen EXCEPT ![r] = [s \in Sids |-> IF s \in Candidates(r) THEN row[s].ver ELSE @[s]]]
    /\ Go(r, IF Candidates(r) = {} THEN "done" ELSE "fence")
    /\ UNCHANGED <<now, row, cache, deadline, at, tries, rotated, args, history, redisErrors>>

\* writeUserSessionDenyFence; an error gives the revocation up
Fence(r, s) ==
    /\ pc[r] = "fence" /\ s \in todo[r]
    /\ \/ /\ Deny(s, "revoking", seen[r][s])
          /\ todo' = [todo EXCEPT ![r] = @ \ {s}]
          /\ Go(r, IF todo[r] = {s} THEN "commit" ELSE "fence")
          /\ UNCHANGED <<tombed, redisErrors>>
       \/ /\ ~Admits(s, "revoking", seen[r][s]) /\ Go(r, "done")
          /\ UNCHANGED <<cache, todo, tombed, redisErrors>>
       \/ RedisError /\ Go(r, "done") /\ UNCHANGED todo
    /\ UNCHANGED <<now, row, targets, ended, args, work>>

RevokeCommit(r) ==
    LET R == {s \in targets[r] : Active(s)} IN
    /\ pc[r] = "commit"
    /\ row' = [s \in Sids |-> IF s \in R THEN [row[s] EXCEPT !.st = "revoked"] ELSE row[s]]
    /\ End(R)
    /\ todo' = [todo EXCEPT ![r] = R]
    /\ seen' = IF Bulk(r) THEN [seen EXCEPT ![r] = [s \in Sids |-> IF s \in R THEN row[s].ver ELSE @[s]]] ELSE seen
    /\ Go(r, IF R # {} THEN "tomb" ELSE IF Bulk(r) THEN "read" ELSE "done")
    /\ UNCHANGED <<now, cache, deadline, at, tries, rotated, targets, tombed, args, redisErrors>>

\* the final tombstone; a failure is only logged
Tombstone(r, s) ==
    /\ pc[r] = "tomb" /\ s \in todo[r]
    /\ \/ Deny(s, "revoked", seen[r][s]) /\ tombed' = tombed \cup {s} /\ UNCHANGED redisErrors
       \/ ~Admits(s, "revoked", seen[r][s]) /\ UNCHANGED <<cache, tombed, redisErrors>>
       \/ RedisError
    /\ todo' = [todo EXCEPT ![r] = @ \ {s}]
    /\ Go(r, CASE todo[r] # {s}     -> "tomb"
               [] op[r] = "login"   -> "fill"
               [] Bulk(r)           -> "read"
               [] OTHER             -> "done")
    /\ UNCHANGED <<now, row, targets, ended, args, work>>

-----------------------------------------------------------------------------
\* AdvanceUserSessionAuthVersion; RevokeOtherUserSessions follows the publication
AdvanceTx(r) ==
    LET s == sid[r] IN
    /\ pc[r] = "advance"
    /\ \/ /\ Active(s) /\ row[s].ver = ver[r] /\ ver[r] < MaxVersion
          /\ row' = [row EXCEPT ![s] = Record("active", @.ver + 1, @.gen, @.until, @.created, now)]
          /\ End({s})
          /\ seen' = [seen EXCEPT ![r][s] = ver[r] + 1]
          /\ Go(r, "fill")
       \/ /\ ~(Active(s) /\ row[s].ver = ver[r])
          /\ Go(r, "denied") /\ UNCHANGED <<row, ended, seen>>
    /\ UNCHANGED <<now, cache, deadline, at, tries, rotated, tombed, args, plan, redisErrors>>

\* renewUserSessionWithTx: the row keeps its place under a new SID
Renew(r) ==
    LET s == sid[r]
        n == fresh[r]
    IN
    /\ pc[r] = "login" /\ s \in ActiveSids /\ row[s].ver < MaxVersion
    /\ row' = [x \in Sids |-> IF x = n THEN Issued(row[s].ver + 1, row[s].created, now)
                              ELSE IF x = s THEN [row[s] EXCEPT !.st = "gone"] ELSE row[x]]
    /\ End({s})
    /\ seen' = [seen EXCEPT ![r] = [x \in Sids |-> IF x = n THEN row[s].ver + 1 ELSE IF x = s THEN row[s].ver ELSE @[x]]]
    /\ todo' = [todo EXCEPT ![r] = {s}]
    /\ Go(r, "tomb")
    /\ UNCHANGED <<now, cache, deadline, at, tries, rotated, targets, tombed, args, redisErrors>>

\* createUserSessionWithLimitsTx
Abandoned == {s \in Sids : Active(s) /\ row[s].created <= now - CleanupAge /\ row[s].last <= row[s].created}
Recent == {s \in Sids : row[s].st \in {"active", "revoked"} /\ row[s].created > now - IssuanceWindow}

AdmitsSession == Cardinality(Recent) < IssuanceLimit /\ Cardinality(ActiveSids \ Abandoned) < ActiveLimit

Create(r) ==
    LET n == fresh[r] IN
    /\ pc[r] = "login" /\ sid[r] \notin ActiveSids
    /\ \/ /\ AdmitsSession
          /\ row' = [s \in Sids |-> IF s = n THEN Issued(1, now, now)
                                    ELSE IF s \in Abandoned THEN [row[s] EXCEPT !.st = "revoked"] ELSE row[s]]
          /\ End(Abandoned)
          /\ seen' = [seen EXCEPT ![r] = [s \in Sids |-> IF s = n THEN 1 ELSE row[s].ver]]
          /\ todo' = [todo EXCEPT ![r] = Abandoned]
          /\ Go(r, IF Abandoned = {} THEN "fill" ELSE "tomb")
       \/ ~AdmitsSession /\ Go(r, "denied") /\ UNCHANGED <<row, ended, seen, todo>>
    /\ UNCHANGED <<now, cache, deadline, at, tries, rotated, targets, tombed, args, redisErrors>>

-----------------------------------------------------------------------------
Tick ==
    /\ now < Horizon
    /\ now' = now + 1
    /\ UNCHANGED <<row, cache, pc, args, work, plan, history, redisErrors>>

Arrivals(r) ==
    \/ \E s \in Sids, v \in 1..MaxVersion : ArriveValidate(r, s, v) \/ ArriveAdvance(r, s, v)
    \/ \E s \in Sids, g \in 0..MaxGen, o \in {"refresh", "logout"} : ArriveSecret(r, o, s, g)
    \/ \E s \in Sids : row[s].st # "absent" /\ ArriveRevoke(r, "revoke", s)
    \/ \E s \in Sids \cup {NoSid} : ArriveRevoke(r, "bulk", s)
    \/ \E s \in Sids \cup {NoSid}, n \in Sids : ArriveLogin(r, s, n)

Serve(r) ==
    \/ CacheHit(r) \/ CacheMiss(r) \/ Load(r) \/ DenyFill(r) \/ Fill(r) \/ Filled(r) \/ Confirm(r)
    \/ RotateRead(r) \/ RotateCas(r) \/ RevokeRead(r) \/ RevokeCommit(r)
    \/ \E s \in Sids : Fence(r, s) \/ Tombstone(r, s)
    \/ AdvanceTx(r) \/ Renew(r) \/ Create(r)

Next == Tick \/ \E r \in Requests : Arrivals(r) \/ Serve(r)

Spec == Init /\ [][Next]_vars

-----------------------------------------------------------------------------
Labels == Over \cup {"idle", "cached", "load", "deny", "fill", "filled", "confirm", "rotate", "cas",
                     "read", "fence", "commit", "tomb", "advance", "login"}
Session == [st : {"absent", "active", "revoked", "gone"}, ver : 1..MaxVersion, gen : 0..MaxGen,
            until : Nat, created : Nat, last : Nat]
Snapshot == [st : {"active", "revoking", "revoked"}, ver : 1..MaxVersion, until : 0..(Horizon + TTL)]

StoresType ==
    /\ now \in 0..Horizon /\ row \in [Sids -> Session] /\ cache \in [Sids -> Snapshot]
    /\ redisErrors \in 0..MaxRedis
ArgsType ==
    /\ op \in [Requests -> AllOps] /\ sid \in [Requests -> Sids \cup {NoSid}]
    /\ ver \in [Requests -> 1..MaxVersion] /\ gen \in [Requests -> 0..MaxGen]
    /\ began \in [Requests -> 0..Horizon] /\ fresh \in [Requests -> Sids \cup {NoSid}]
    /\ doomed \in [Requests -> BOOLEAN]
WorkType ==
    /\ pc \in [Requests -> Labels] /\ deadline \in [Requests -> 0..(Horizon + TTL)]
    /\ at \in [Requests -> 0..Horizon] /\ tries \in [Requests -> 0..3]
    /\ rotated \in [Requests -> BOOLEAN] /\ seen \in [Requests -> [Sids -> 1..MaxVersion]]
PlanType == targets \in [Requests -> SUBSET Sids] /\ todo \in [Requests -> SUBSET Sids]
HistoryType == tombed \subseteq Sids /\ ended \in [Sids -> [1..MaxVersion -> 0..Never]]

\* Type correctness.
TypeOK == StoresType /\ ArgsType /\ WorkType /\ PlanType /\ HistoryType

\* the step in which a request is told that its session is good
Grants(r) == pc[r] # "granted" /\ pc'[r] = "granted" /\ op[r] \in {"validate", "refresh"}

\* "a stale active snapshot cannot outlive a short deny tombstone": whatever
\* crashes, stalls and Redis errors occur, a request is granted only for a
\* session that was active, at the version granted, less than TTL before the
\* request arrived.
GrantWithinWindow ==
    [][\A r \in Requests : Grants(r) => ended[sid[r]][seen'[r][sid[r]]] > began[r] - TTL]_vars

\* Once a revocation has published its tombstone, no request that arrives
\* later is granted, however long ago the tombstone has expired.
TombstoneIsFinal == [][\A r \in Requests : Grants(r) => ~doomed[r]]_vars

\* RotateUserSessionRefresh "has the same single-winner behavior" on every
\* database: no interleaving of refreshes brings a spent secret back.
GenerationNeverRegresses ==
    [][\A s \in Sids : Active(s) /\ row'[s].st = "active" => row'[s].gen >= row[s].gen]_vars
=============================================================================
