--------------------------- MODULE Sessions_proofs ----------------------------
(***************************************************************************)
(* Two proofs.  Of UserSession, for any sessions, requests and bounds: no  *)
(* stale snapshot of a session outlives its window or a tombstone, and no  *)
(* spent refresh secret comes back.  Of AuthTabs, for any tabs, sessions   *)
(* and incidents: tabs that share a cookie make the server revoke nothing  *)
(* for reuse unless an answer was lost, a tab never gets back a session it *)
(* was signed out of, and tabs at rest act for the session of the cookie   *)
(* or one they kept because an event came too late.                        *)
(***************************************************************************)
EXTENDS UserSession, AuthTabs, Sums, TLAPS

Closed(s) == row[s].st \in {"revoked", "gone"}

\* The version that r saw of s was active when r's window began.
SeenInTime(r, s) == ended[s][seen[r][s]] >= deadline[r] - TTL

\* r will write or has written an active snapshot of its subject.
Publishes(r) == pc[r] \in {"fill", "filled"} \/ (pc[r] = "tomb" /\ op[r] = "login")

\* No version that a session has or may still have has ended; a snapshot ends within
\* its window; a tombstone is not replaced by an active snapshot.
SessionOK(s) ==
    /\ Active(s) => \A v \in 1..MaxVersion : v >= row[s].ver => ended[s][v] = Never
    /\ row[s].st = "absent" => \A v \in 1..MaxVersion : ended[s][v] = Never
    /\ cache[s].st = "active" => ended[s][cache[s].ver] >= cache[s].until - TTL
    /\ cache[s].until <= now + TTL
    /\ s \in tombed => Closed(s) /\ cache[s].st # "active"

\* What the place of a request says of its arguments.
PlaceOK(r) ==
    /\ began[r] <= now /\ deadline[r] <= now + TTL
    /\ pc[r] \in {"cached", "load", "deny", "rotate", "cas"} => op[r] \in {"validate", "refresh"} /\ sid[r] \in Sids
    /\ pc[r] \in {"rotate", "cas"} => op[r] = "refresh" /\ tries[r] # 0
    /\ pc[r] = "advance" => op[r] = "advance" /\ sid[r] \in Sids
    /\ pc[r] \in {"read", "fence", "commit"} => op[r] # "login"
    /\ pc[r] = "read" /\ op[r] = "logout" => sid[r] \in Sids
    /\ Publishes(r) \/ pc[r] = "confirm" => Subject(r) \in Sids

\* What it relies on.
TrustOK(r) ==
    /\ pc[r] = "login" => op[r] = "login" /\ fresh[r] \in Sids /\ row[fresh[r]].st = "absent"
    /\ pc[r] = "tomb" => \A s \in todo[r] : Closed(s)
    /\ pc[r] = "cas" => SeenInTime(r, sid[r])
    /\ Publishes(r) => SeenInTime(r, Subject(r))
    /\ Publishes(r) /\ Subject(r) \in tombed => deadline[r] <= cache[Subject(r)].until
    /\ doomed[r] => sid[r] \in tombed
    /\ doomed[r] /\ op[r] \in {"validate", "refresh"} => pc[r] \in {"cached", "load", "deny", "denied"}

\* A new SID belongs to one login.
FreshOnce == \A r, q \in Requests : fresh[r] # NoSid /\ fresh[q] = fresh[r] => q = r

IInv ==
    /\ TypeOK /\ FreshOnce /\ \A s \in Sids : SessionOK(s)
    /\ \A r \in Requests : PlaceOK(r) /\ TrustOK(r)

-----------------------------------------------------------------------------
(* Steps in general *)

\* Only r moves.
Others(r) ==
    \A q \in Requests : q # r =>
        /\ pc'[q] = pc[q] /\ op'[q] = op[q] /\ sid'[q] = sid[q] /\ began'[q] = began[q] /\ fresh'[q] = fresh[q]
        /\ doomed'[q] = doomed[q] /\ deadline'[q] = deadline[q] /\ tries'[q] = tries[q] /\ seen'[q] = seen[q]
        /\ todo'[q] = todo[q]

\* What a request may do to the sessions: only its own new one appears, what is closed
\* stays closed, versions end now, and a tombstone lasts as long as any window.
World(r) ==
    /\ now' = now
    /\ \A s \in Sids : /\ Closed(s) => Closed(s)'
                       /\ row[s].st = "absent" => row'[s].st = "absent" \/ s = fresh[r]
                       /\ \A v \in 1..MaxVersion : ended'[s][v] = ended[s][v] \/ ended'[s][v] = now
                       /\ s \in tombed => s \in tombed'
                       /\ s \in tombed' => (s \in tombed /\ cache'[s] = cache[s]) \/ cache'[s].until = now + TTL

\* One entry of a function changes.
LEMMA Put ==
    ASSUME NEW S, NEW T, NEW f \in [S -> T], NEW x \in S, NEW v \in T, NEW g, g = [f EXCEPT ![x] = v]
    PROVE  g \in [S -> T] /\ g[x] = v /\ \A y \in S : y # x => g[y] = f[y]
  OBVIOUS

\* Types in the forms that the proofs use.
LEMMA RequestTypes ==
    ASSUME IInv, NEW r \in Requests
    PROVE  /\ now \in Nat /\ now <= Horizon /\ TTL \in Nat /\ Never = Horizon + 1 /\ Horizon \in Nat
           /\ pc[r] \in Labels /\ op[r] \in AllOps /\ sid[r] \in Sids \cup {NoSid}
           /\ ver[r] \in 1..MaxVersion /\ gen[r] \in 0..MaxGen /\ began[r] \in Nat /\ at[r] \in 0..Horizon
           /\ fresh[r] \in Sids \cup {NoSid} /\ doomed[r] \in BOOLEAN /\ deadline[r] \in 0..(Horizon + TTL)
           /\ deadline[r] \in Nat /\ tries[r] \in 0..3 /\ rotated[r] \in BOOLEAN
           /\ seen[r] \in [Sids -> 1..MaxVersion] /\ todo[r] \in SUBSET Sids /\ targets[r] \in SUBSET Sids
<1>1. StoresType /\ ArgsType /\ WorkType /\ PlanType
  BY DEF IInv, TypeOK
<1>2. now \in 0..Horizon /\ Horizon \in Nat /\ TTL \in Nat /\ Never = Horizon + 1
  BY <1>1, SessionTimes, SessionBounds DEF StoresType, Never
<1>3. /\ op[r] \in AllOps /\ sid[r] \in Sids \cup {NoSid} /\ ver[r] \in 1..MaxVersion /\ gen[r] \in 0..MaxGen
      /\ began[r] \in 0..Horizon /\ fresh[r] \in Sids \cup {NoSid} /\ doomed[r] \in BOOLEAN
  BY <1>1 DEF ArgsType
<1>4. /\ pc[r] \in Labels /\ deadline[r] \in 0..(Horizon + TTL) /\ at[r] \in 0..Horizon
      /\ tries[r] \in 0..3 /\ rotated[r] \in BOOLEAN /\ seen[r] \in [Sids -> 1..MaxVersion]
  BY <1>1 DEF WorkType
<1>5. todo[r] \in SUBSET Sids /\ targets[r] \in SUBSET Sids
  BY <1>1 DEF PlanType
<1> QED
  BY <1>2, <1>3, <1>4, <1>5

\* The types of a row, its snapshot and its history.
LEMMA SessionTypes ==
    ASSUME IInv, NEW s \in Sids
    PROVE  /\ row[s] \in Session /\ row[s].st \in {"absent", "active", "revoked", "gone"}
           /\ row[s].ver \in 1..MaxVersion /\ row[s].gen \in 0..MaxGen /\ row[s].until \in Nat /\ row[s].created \in Nat
           /\ cache[s] \in Snapshot /\ cache[s].ver \in 1..MaxVersion /\ cache[s].until \in Nat
           /\ \A v \in 1..MaxVersion : ended[s][v] \in 0..Never /\ ended[s][v] \in Nat
<1>1. row[s] \in Session /\ cache[s] \in Snapshot /\ ended[s] \in [1..MaxVersion -> 0..Never]
  BY DEF IInv, TypeOK, StoresType, HistoryType
<1>2. /\ row[s].st \in {"absent", "active", "revoked", "gone"} /\ row[s].ver \in 1..MaxVersion
      /\ row[s].gen \in 0..MaxGen /\ row[s].until \in Nat /\ row[s].created \in Nat
  BY <1>1 DEF Session
<1>3. cache[s].ver \in 1..MaxVersion /\ cache[s].until \in 0..(Horizon + TTL)
  BY <1>1 DEF Snapshot
<1>4. \A v \in 1..MaxVersion : ended[s][v] \in 0..Never
  BY <1>1
<1>5. Never \in Nat /\ Horizon + TTL \in Nat
  BY SessionBounds, SessionTimes DEF Never
<1> QED
  BY <1>1, <1>2, <1>3, <1>4, <1>5

\* A version seen in time stays so: it can only end now.
LEMMA InTimeStays ==
    ASSUME IInv, NEW r \in Requests, World(r), NEW q \in Requests, NEW s \in Sids,
           seen'[q] = seen[q], deadline'[q] = deadline[q], deadline[q] <= now + TTL, SeenInTime(q, s)
    PROVE  SeenInTime(q, s)'
<1>1. seen[q][s] \in 1..MaxVersion /\ deadline[q] \in Nat /\ now \in Nat /\ TTL \in Nat
  BY RequestTypes
<1>2. ended[s][seen[q][s]] \in Nat
  BY <1>1, SessionTypes
<1>3. ended'[s][seen[q][s]] = ended[s][seen[q][s]] \/ ended'[s][seen[q][s]] = now
  BY <1>1 DEF World
<1> QED
  BY <1>1, <1>2, <1>3 DEF SeenInTime

\* A request that publishes goes on to, with what it has seen.
LEMMA PublishStays ==
    ASSUME IInv, NEW r \in Requests, World(r), NEW q \in Requests, Publishes(q),
           op'[q] = op[q], fresh'[q] = fresh[q], sid'[q] = sid[q], seen'[q] = seen[q], deadline'[q] = deadline[q]
    PROVE  /\ Subject(q) \in Sids /\ Subject(q)' = Subject(q) /\ SeenInTime(q, Subject(q))'
           /\ Subject(q) \in tombed' => deadline[q] <= cache'[Subject(q)].until
<1>1. PICK x \in Sids : x = Subject(q)
  BY DEF IInv, PlaceOK
<1>2. SeenInTime(q, x) /\ deadline[q] <= now + TTL /\ (x \in tombed => deadline[q] <= cache[x].until)
  BY <1>1 DEF IInv, PlaceOK, TrustOK
<1>3. SeenInTime(q, x)'
  BY <1>2, InTimeStays
<1>4. Subject(q)' = x
  BY <1>1 DEF Subject
<1>5. SeenInTime(q, Subject(q))'
  BY <1>3, <1>4 DEF SeenInTime
<1>6. x \in tombed' => deadline[q] <= cache'[x].until
  BY <1>2 DEF World
<1> QED
  BY <1>1, <1>4, <1>5, <1>6

\* The other requests.
LEMMA OtherRequest ==
    ASSUME IInv, NEW r \in Requests, World(r), Others(r), NEW q \in Requests, q # r
    PROVE  PlaceOK(q)' /\ TrustOK(q)'
<1>1. PlaceOK(q) /\ TrustOK(q) /\ deadline[q] \in Nat /\ todo[q] \in SUBSET Sids
  BY RequestTypes DEF IInv
<1>2. /\ pc'[q] = pc[q] /\ op'[q] = op[q] /\ sid'[q] = sid[q] /\ began'[q] = began[q] /\ fresh'[q] = fresh[q]
      /\ doomed'[q] = doomed[q] /\ deadline'[q] = deadline[q] /\ tries'[q] = tries[q] /\ seen'[q] = seen[q]
      /\ todo'[q] = todo[q] /\ now' = now
  BY DEF Others, World
<1>3. (Publishes(q)' <=> Publishes(q)) /\ Subject(q)' = Subject(q)
  BY <1>2 DEF Publishes, Subject
<1>4. PlaceOK(q)'
  BY <1>1, <1>2, <1>3 DEF PlaceOK
<1>5. TrustOK(q)'
  <2>1. pc[q] = "login" => row'[fresh[q]].st = "absent"
    <3>1. pc[q] = "login" => fresh[q] \in Sids /\ row[fresh[q]].st = "absent" /\ fresh[q] # NoSid
      BY <1>1, SessionSids DEF TrustOK
    <3>2. fresh[q] # NoSid => fresh[r] # fresh[q]
      BY DEF IInv, FreshOnce
    <3> QED
      BY <3>1, <3>2 DEF World
  <2>2. pc[q] = "tomb" => \A s \in todo[q] : Closed(s)'
    BY <1>1 DEF TrustOK, World
  <2>3. pc[q] = "cas" => SeenInTime(q, sid[q])'
    <3>1. pc[q] = "cas" => sid[q] \in Sids /\ SeenInTime(q, sid[q]) /\ deadline[q] <= now + TTL
      BY <1>1 DEF PlaceOK, TrustOK
    <3>2. ASSUME NEW x \in Sids, SeenInTime(q, x) PROVE SeenInTime(q, x)'
      BY <1>1, <1>2, <3>2, InTimeStays DEF PlaceOK
    <3> QED
      BY <1>2, <3>1, <3>2 DEF SeenInTime
  <2>4. Publishes(q) => /\ SeenInTime(q, Subject(q))'
                        /\ Subject(q) \in tombed' => deadline[q] <= cache'[Subject(q)].until
    BY <1>2, PublishStays
  <2>6. sid[q] \in tombed => sid[q] \in tombed'
    <3>1. tombed \subseteq Sids
      BY DEF IInv, TypeOK, HistoryType
    <3> QED
      BY <3>1 DEF World
  <2> QED
    BY <1>1, <1>2, <1>3, <2>1, <2>2, <2>3, <2>4, <2>6 DEF TrustOK
<1> QED
  BY <1>4, <1>5

\* A step of r keeps the invariant if it is right for r and for the sessions.
LEMMA StepKeeps ==
    ASSUME IInv, NEW r \in Requests, TypeOK', FreshOnce', Others(r), World(r), \A s \in Sids : SessionOK(s)',
           PlaceOK(r)', TrustOK(r)'
    PROVE  IInv'
  BY OtherRequest DEF IInv

\* A step that leaves the stores alone.
Still == UNCHANGED <<now, row, cache, ended, tombed>>

\* Untouched stores do not disturb the other requests.
LEMMA StillWorld == ASSUME Still, NEW r PROVE World(r)
  BY DEF Still, World, Closed

\* Untouched stores keep what is known of each session.
LEMMA StillSessions == ASSUME IInv, Still, NEW s \in Sids PROVE SessionOK(s)'
  BY DEF Still, IInv, SessionOK, Active, Closed

\* A step that changes nothing but what r has at hand.
LEMMA LocalKeeps ==
    ASSUME IInv, NEW r \in Requests, Still, UNCHANGED args, WorkType', PlanType', redisErrors' \in 0..MaxRedis,
           Others(r), PlaceOK(r)', TrustOK(r)'
    PROVE  IInv'
<1>1. TypeOK'
  BY DEF IInv, TypeOK, StoresType, ArgsType, HistoryType, Still, args
<1>2. FreshOnce'
  BY DEF IInv, FreshOnce, args
<1> QED
  BY <1>1, <1>2, StillWorld, StillSessions, StepKeeps

\* A request that was doomed on arrival does not get far.
LEMMA NotDoomed ==
    ASSUME IInv, NEW r \in Requests, pc[r] \notin {"cached", "load", "deny", "denied"}
    PROVE  ~(doomed[r] /\ op[r] \in {"validate", "refresh"})
  BY DEF IInv, TrustOK

\* Places that need little.
LEMMA QuietPlace ==
    ASSUME IInv, NEW r \in Requests, World(r), UNCHANGED args,
           pc'[r] \in {"granted", "denied", "done", "read", "fence", "commit"},
           pc'[r] \in {"fence", "commit"} => op[r] # "login", pc'[r] = "read" => Bulk(r),
           deadline'[r] <= now + TTL,
           pc'[r] # "denied" => ~(doomed[r] /\ op[r] \in {"validate", "refresh"})
    PROVE  PlaceOK(r)' /\ TrustOK(r)'
<1>1. began[r] <= now /\ (doomed[r] => sid[r] \in tombed) /\ tombed \subseteq Sids
  BY DEF IInv, PlaceOK, TrustOK, TypeOK, HistoryType
<1>2. PlaceOK(r)'
  BY <1>1 DEF PlaceOK, Publishes, Bulk, args, World
<1>3. TrustOK(r)'
  BY <1>1 DEF TrustOK, Publishes, args, World
<1> QED
  BY <1>2, <1>3

\* A request goes to another place.
LEMMA GoFacts ==
    ASSUME IInv, NEW r \in Requests, NEW l \in Labels, Go(r, l)
    PROVE  pc' \in [Requests -> Labels] /\ pc'[r] = l /\ \A q \in Requests : q # r => pc'[q] = pc[q]
  BY DEF Go, IInv, TypeOK, WorkType

\* What follows a snapshot that counts.
LEMMA ProceedFacts ==
    ASSUME IInv, NEW r \in Requests, NEW v, Proceed(r, v)
    PROVE  /\ pc' \in [Requests -> Labels] /\ at' \in [Requests -> 0..Horizon] /\ tries' \in [Requests -> 0..3]
           /\ \A q \in Requests : q # r => pc'[q] = pc[q] /\ tries'[q] = tries[q]
           /\ pc'[r] \in {"granted", "denied", "rotate", "read"}
           /\ pc'[r] = "rotate" => op[r] = "refresh" /\ tries'[r] # 0
           /\ pc'[r] = "read" => Bulk(r)
<1>1. at \in [Requests -> 0..Horizon] /\ tries \in [Requests -> 0..3] /\ now \in 0..Horizon
  BY DEF IInv, TypeOK, WorkType, StoresType
<1>2. CASE op[r] = "validate" /\ Go(r, IF v = ver[r] THEN "granted" ELSE "denied") /\ UNCHANGED <<at, tries>>
  BY <1>1, <1>2, GoFacts DEF Labels, Over
<1>3. CASE op[r] = "refresh" /\ rotated[r] /\ Go(r, "granted") /\ UNCHANGED <<at, tries>>
  BY <1>1, <1>3, GoFacts DEF Labels, Over
<1>4. CASE /\ op[r] = "refresh" /\ ~rotated[r] /\ Go(r, "rotate")
           /\ at' = [at EXCEPT ![r] = now] /\ tries' = [tries EXCEPT ![r] = 3]
  <2>1. pc' \in [Requests -> Labels] /\ pc'[r] = "rotate" /\ \A q \in Requests : q # r => pc'[q] = pc[q]
    BY <1>4, GoFacts DEF Labels
  <2>2. tries' \in [Requests -> 0..3] /\ tries'[r] = 3 /\ \A q \in Requests : q # r => tries'[q] = tries[q]
    <3>1. 3 \in 0..3
      OBVIOUS
    <3> QED
      BY <1>1, <1>4, <3>1, Put
  <2>3. at' \in [Requests -> 0..Horizon]
    BY <1>1, <1>4
  <2> QED
    BY <1>4, <2>1, <2>2, <2>3
<1>5. CASE op[r] = "advance" /\ Go(r, "read") /\ UNCHANGED <<at, tries>>
  BY <1>1, <1>5, GoFacts DEF Labels, Bulk
<1>6. CASE op[r] = "login" /\ Go(r, "granted") /\ UNCHANGED <<at, tries>>
  BY <1>1, <1>6, GoFacts DEF Labels, Over
<1> QED
  BY <1>2, <1>3, <1>4, <1>5, <1>6 DEF Proceed

\* A request proceeds without touching a store.
LEMMA ProceedKeeps ==
    ASSUME IInv, NEW r \in Requests, NEW v, Proceed(r, v), Still, UNCHANGED <<args, plan, deadline, rotated>>,
           seen' \in [Requests -> [Sids -> 1..MaxVersion]], \A q \in Requests : q # r => seen'[q] = seen[q],
           redisErrors' \in 0..MaxRedis, Subject(r) \in Sids,
           ~(doomed[r] /\ op[r] \in {"validate", "refresh"})
    PROVE  IInv'
<1>1. /\ pc' \in [Requests -> Labels] /\ at' \in [Requests -> 0..Horizon] /\ tries' \in [Requests -> 0..3]
      /\ \A q \in Requests : q # r => pc'[q] = pc[q] /\ tries'[q] = tries[q]
      /\ pc'[r] \in {"granted", "denied", "rotate", "read"}
      /\ pc'[r] = "rotate" => op[r] = "refresh" /\ tries'[r] # 0
      /\ pc'[r] = "read" => Bulk(r)
  BY ProceedFacts
<1>2. WorkType' /\ PlanType' /\ Others(r)
  BY <1>1 DEF IInv, TypeOK, WorkType, PlanType, Others, args, plan
<1>3. deadline'[r] <= now + TTL /\ began[r] <= now /\ (doomed[r] => sid[r] \in tombed)
  BY DEF IInv, PlaceOK, TrustOK
<1>4. PlaceOK(r)' /\ TrustOK(r)'
  <2>1. CASE pc'[r] # "rotate"
    BY <1>1, <1>3, <2>1, QuietPlace, StillWorld
  <2>2. CASE pc'[r] = "rotate"
    <3>1. op[r] = "refresh" /\ tries'[r] # 0 /\ sid[r] \in Sids
      BY <1>1, <2>2 DEF Subject
    <3> QED
      BY <1>3, <2>2, <3>1 DEF PlaceOK, TrustOK, Publishes, args, Still
  <2> QED
    BY <2>1, <2>2
<1> QED
  BY <1>2, <1>4, LocalKeeps

\* A request ends, or goes to a place that needs little, without touching a store.
LEMMA QuietKeeps ==
    ASSUME IInv, NEW r \in Requests,
           NEW l \in {"granted", "denied", "done", "fence", "commit"}, Go(r, l), l \in {"fence", "commit"} => op[r] # "login",
           Still, UNCHANGED <<args, at, rotated>>, PlanType', \A q \in Requests : q # r => todo'[q] = todo[q],
           seen' \in [Requests -> [Sids -> 1..MaxVersion]], \A q \in Requests : q # r => seen'[q] = seen[q],
           deadline' \in [Requests -> 0..(Horizon + TTL)], \A q \in Requests : q # r => deadline'[q] = deadline[q],
           deadline'[r] <= now + TTL,
           tries' \in [Requests -> 0..3], \A q \in Requests : q # r => tries'[q] = tries[q],
           redisErrors' \in 0..MaxRedis, l # "denied" => ~(doomed[r] /\ op[r] \in {"validate", "refresh"})
    PROVE  IInv'
<1>1. l \in Labels
  BY DEF Labels, Over
<1>2. pc' \in [Requests -> Labels] /\ pc'[r] = l /\ \A q \in Requests : q # r => pc'[q] = pc[q]
  BY <1>1, GoFacts
<1>3. WorkType' /\ Others(r)
  BY <1>2 DEF IInv, TypeOK, WorkType, Others, args
<1>4. PlaceOK(r)' /\ TrustOK(r)'
  BY <1>2, QuietPlace, StillWorld
<1> QED
  BY <1>3, <1>4, LocalKeeps

-----------------------------------------------------------------------------
(* Arrivals *)

\* A request that arrives with well-formed arguments keeps the invariant.
LEMMA ArriveKeeps ==
    ASSUME IInv, NEW r \in Requests, NEW o \in AllOps, NEW s \in Sids \cup {NoSid},
           NEW l \in {"cached", "read", "advance", "login"}, Arrive(r, o, s, l),
           ver' \in [Requests -> 1..MaxVersion], gen' \in [Requests -> 0..MaxGen],
           fresh' \in [Requests -> Sids \cup {NoSid}], \A q \in Requests : q # r => fresh'[q] = fresh[q], FreshOnce',
           l = "cached" => o \in {"validate", "refresh"} /\ s \in Sids,
           l = "advance" => o = "advance" /\ s \in Sids,
           l = "read" => o \notin {"login", "validate", "refresh"}, o = "logout" => s \in Sids,
           l = "login" => o = "login" /\ fresh'[r] \in Sids /\ row[fresh'[r]].st = "absent"
    PROVE  IInv'
<1>1. /\ StoresType /\ ArgsType /\ WorkType /\ PlanType /\ HistoryType
      /\ now \in 0..Horizon /\ now + TTL \in 0..(Horizon + TTL) /\ now \in Nat /\ TTL \in Nat
  BY SessionTimes, SessionBounds DEF IInv, TypeOK, StoresType
<1>2. Still /\ UNCHANGED <<tries, rotated, seen, targets, todo, redisErrors>>
  BY DEF Arrive, Still, plan, history
<1>3. pc' \in [Requests -> Labels] /\ pc'[r] = l /\ \A q \in Requests : q # r => pc'[q] = pc[q]
  <2>1. l \in Labels
    BY DEF Labels
  <2> QED
    BY <2>1, GoFacts DEF Arrive
<1>4. op' \in [Requests -> AllOps] /\ op'[r] = o /\ \A q \in Requests : q # r => op'[q] = op[q]
  BY <1>1 DEF Arrive, ArgsType
<1>5. sid' \in [Requests -> Sids \cup {NoSid}] /\ sid'[r] = s /\ \A q \in Requests : q # r => sid'[q] = sid[q]
  BY <1>1 DEF Arrive, ArgsType
<1>6. began' \in [Requests -> 0..Horizon] /\ began'[r] = now /\ \A q \in Requests : q # r => began'[q] = began[q]
  BY <1>1 DEF Arrive, ArgsType
<1>7. at' \in [Requests -> 0..Horizon]
  BY <1>1 DEF Arrive, WorkType
<1>8. /\ deadline' \in [Requests -> 0..(Horizon + TTL)] /\ deadline'[r] = now + TTL
      /\ \A q \in Requests : q # r => deadline'[q] = deadline[q]
  <2>1. deadline \in [Requests -> 0..(Horizon + TTL)] /\ deadline' = [deadline EXCEPT ![r] = now + TTL]
    BY <1>1 DEF Arrive, WorkType
  <2> QED
    BY <1>1, <2>1, Put
<1>9. doomed' \in [Requests -> BOOLEAN] /\ (doomed'[r] => s \in tombed) /\ \A q \in Requests : q # r => doomed'[q] = doomed[q]
  <2>1. doomed \in [Requests -> BOOLEAN] /\ doomed' = [doomed EXCEPT ![r] = s \in tombed]
    BY <1>1 DEF Arrive, ArgsType
  <2>2. PICK b \in BOOLEAN : b = (s \in tombed)
    <3>1. CASE s \in tombed
      BY <3>1, Zenon
    <3>2. CASE s \notin tombed
      <4>1. FALSE = (s \in tombed)
        BY <3>2
      <4> QED
        BY <4>1, Zenon
    <3> QED
      BY <3>1, <3>2
  <2>3. doomed' = [doomed EXCEPT ![r] = b]
    BY <2>1, <2>2
  <2>4. doomed' \in [Requests -> BOOLEAN] /\ doomed'[r] = b /\ \A q \in Requests : q # r => doomed'[q] = doomed[q]
    BY <2>1, <2>3, Put
  <2> QED
    BY <2>2, <2>4
<1>10. TypeOK'
  <2>1. StoresType' /\ HistoryType' /\ PlanType'
    BY <1>1, <1>2 DEF StoresType, HistoryType, PlanType, Still
  <2>2. ArgsType'
    BY <1>4, <1>5, <1>6, <1>9 DEF ArgsType
  <2>3. WorkType'
    BY <1>1, <1>2, <1>3, <1>7, <1>8 DEF WorkType
  <2> QED
    BY <2>1, <2>2, <2>3 DEF TypeOK
<1>11. Others(r)
  BY <1>2, <1>3, <1>4, <1>5, <1>6, <1>8, <1>9 DEF Others
<1>12. PlaceOK(r)'
  BY <1>1, <1>2, <1>3, <1>4, <1>5, <1>6, <1>8 DEF PlaceOK, Publishes, Still
<1>13. TrustOK(r)'
  BY <1>2, <1>3, <1>4, <1>5, <1>9 DEF TrustOK, Publishes, Still
<1> QED
  BY <1>2, <1>10, <1>11, <1>12, <1>13, StillWorld, StillSessions, StepKeeps

\* Every kind of arrival is well formed.
LEMMA ArrivalsKeep ==
    ASSUME IInv, NEW r \in Requests, Arrivals(r)
    PROVE  IInv'
<1> USE DEF AllOps
<1>1. /\ ver \in [Requests -> 1..MaxVersion] /\ gen \in [Requests -> 0..MaxGen]
      /\ fresh \in [Requests -> Sids \cup {NoSid}] /\ FreshOnce
  BY DEF IInv, TypeOK, ArgsType
<1>2. ASSUME fresh' = fresh
      PROVE  FreshOnce' /\ fresh' \in [Requests -> Sids \cup {NoSid}] /\ \A q \in Requests : q # r => fresh'[q] = fresh[q]
  BY <1>1, <1>2 DEF FreshOnce
<1>3. ASSUME NEW s \in Sids, NEW v \in 1..MaxVersion, ArriveValidate(r, s, v) PROVE IInv'
  BY <1>1, <1>2, <1>3, ArriveKeeps DEF ArriveValidate
<1>4. ASSUME NEW s \in Sids, NEW v \in 1..MaxVersion, ArriveAdvance(r, s, v) PROVE IInv'
  BY <1>1, <1>2, <1>4, ArriveKeeps DEF ArriveAdvance
<1>5. ASSUME NEW s \in Sids, NEW g \in 0..MaxGen, NEW o \in {"refresh", "logout"}, ArriveSecret(r, o, s, g) PROVE IInv'
  <2>1. gen' \in [Requests -> 0..MaxGen] /\ ver' = ver /\ fresh' = fresh
    BY <1>1, <1>5 DEF ArriveSecret
  <2>2. CASE o = "refresh"
    BY <1>1, <1>2, <1>5, <2>1, <2>2, ArriveKeeps DEF ArriveSecret
  <2>3. CASE o = "logout"
    BY <1>1, <1>2, <1>5, <2>1, <2>3, ArriveKeeps DEF ArriveSecret
  <2> QED
    BY <2>2, <2>3
<1>6. ASSUME NEW s \in Sids \cup {NoSid}, NEW o \in {"revoke", "bulk"}, ArriveRevoke(r, o, s) PROVE IInv'
  BY <1>1, <1>2, <1>6, ArriveKeeps DEF ArriveRevoke
<1>7. ASSUME NEW s \in Sids \cup {NoSid}, NEW n \in Sids, ArriveLogin(r, s, n) PROVE IInv'
  <2>1. /\ Arrive(r, "login", s, "login") /\ row[n].st = "absent" /\ \A q \in Requests : fresh[q] # n
        /\ fresh' = [fresh EXCEPT ![r] = n] /\ ver' = ver /\ gen' = gen
    BY <1>7 DEF ArriveLogin
  <2>2. /\ fresh' \in [Requests -> Sids \cup {NoSid}] /\ fresh'[r] = n
        /\ \A q \in Requests : q # r => fresh'[q] = fresh[q]
    BY <1>1, <2>1
  <2>3. FreshOnce'
    BY <1>1, <2>1, <2>2 DEF FreshOnce
  <2> QED
    BY <1>1, <2>1, <2>2, <2>3, ArriveKeeps
<1> QED
  BY <1>3, <1>4, <1>5, <1>6, <1>7 DEF Arrivals

-----------------------------------------------------------------------------
(* GetUserSessionCached *)

\* A request notes a version.
LEMMA NoteFacts ==
    ASSUME IInv, NEW r \in Requests, NEW s \in Sids, NEW v \in 1..MaxVersion, seen' = [seen EXCEPT ![r][s] = v]
    PROVE  /\ seen' \in [Requests -> [Sids -> 1..MaxVersion]] /\ seen'[r][s] = v
           /\ \A q \in Requests : q # r => seen'[q] = seen[q]
<1>1. seen \in [Requests -> [Sids -> 1..MaxVersion]]
  BY DEF IInv, TypeOK, WorkType
<1> QED
  BY <1>1

\* A request takes its window.
LEMMA WindowFacts ==
    ASSUME IInv, NEW r \in Requests, deadline' = [deadline EXCEPT ![r] = now + TTL]
    PROVE  /\ deadline' \in [Requests -> 0..(Horizon + TTL)] /\ deadline'[r] = now + TTL
           /\ \A q \in Requests : q # r => deadline'[q] = deadline[q]
<1>1. deadline \in [Requests -> 0..(Horizon + TTL)] /\ now + TTL \in 0..(Horizon + TTL)
  BY SessionTimes, SessionBounds DEF IInv, TypeOK, WorkType, StoresType
<1> QED
  BY <1>1, Put

\* A session that is active has not ended, and no request for it is doomed.
LEMMA ActiveFacts ==
    ASSUME IInv, NEW s \in Sids, Active(s)
    PROVE  ended[s][row[s].ver] = Never /\ s \notin tombed
<1>1. row[s].ver \in 1..MaxVersion /\ SessionOK(s)
  BY SessionTypes DEF IInv
<1> QED
  BY <1>1 DEF SessionOK, Closed, Active

\* Redis errors stay within their bound.
LEMMA RedisErrorFacts ==
    ASSUME IInv, RedisError
    PROVE  redisErrors' \in 0..MaxRedis
<1>1. redisErrors \in 0..MaxRedis /\ MaxRedis \in Nat
  BY SessionBounds DEF IInv, TypeOK, StoresType
<1> QED
  BY <1>1 DEF RedisError

\* A snapshot found in Redis: the invariant is kept.
LEMMA CacheHitKeeps ==
    ASSUME IInv, NEW r \in Requests, CacheHit(r)
    PROVE  IInv'
<1>1. PICK s \in Sids : s = sid[r]
  BY DEF IInv, PlaceOK, CacheHit
<1>2. /\ op[r] \in {"validate", "refresh"} /\ SessionOK(s) /\ (doomed[r] => s \in tombed)
      /\ cache[s].ver \in 1..MaxVersion /\ redisErrors \in 0..MaxRedis /\ PlanType /\ deadline[r] <= now + TTL
  BY <1>1, SessionTypes DEF IInv, PlaceOK, CacheHit, TrustOK, TypeOK, StoresType
<1>3. Still /\ UNCHANGED <<args, plan, deadline, rotated, redisErrors>>
  BY DEF CacheHit, Still, history
<1>4. CASE cache[s].st = "active" /\ seen' = [seen EXCEPT ![r][s] = cache[s].ver] /\ Proceed(r, cache[s].ver)
  <2>1. /\ seen' \in [Requests -> [Sids -> 1..MaxVersion]]
        /\ \A q \in Requests : q # r => seen'[q] = seen[q]
    BY <1>2, <1>4, NoteFacts
  <2>2. ~doomed[r] /\ Subject(r) \in Sids
    BY <1>1, <1>2, <1>4 DEF SessionOK, Subject
  <2> QED
    BY <1>2, <1>3, <1>4, <2>1, <2>2, ProceedKeeps
<1>5. CASE Go(r, "denied") /\ UNCHANGED <<seen, at, tries>>
  <2>1. WorkType /\ PlanType'
    BY <1>2, <1>3 DEF IInv, TypeOK, PlanType, plan
  <2> QED
    BY <1>2, <1>3, <1>5, <2>1, QuietKeeps DEF plan, WorkType
<1> QED
  BY <1>1, <1>4, <1>5 DEF CacheHit

\* A place on the way to a session: "load" or "deny".
LEMMA WayPlace ==
    ASSUME IInv, NEW r \in Requests, Still, UNCHANGED args, pc[r] \in {"cached", "load", "deny"},
           pc'[r] \in {"load", "deny"}, deadline'[r] <= now + TTL
    PROVE  PlaceOK(r)' /\ TrustOK(r)'
<1>1. PlaceOK(r) /\ TrustOK(r)
  BY DEF IInv
<1>2. PlaceOK(r)'
  BY <1>1 DEF PlaceOK, Publishes, Still, args
<1>3. TrustOK(r)'
  BY <1>1 DEF TrustOK, Publishes, Still, args
<1> QED
  BY <1>2, <1>3

\* No snapshot in Redis, or an error: the invariant is kept.
LEMMA CacheMissKeeps ==
    ASSUME IInv, NEW r \in Requests, CacheMiss(r)
    PROVE  IInv'
<1>1. Still /\ UNCHANGED <<args, plan, at, tries, rotated, seen>>
  BY DEF CacheMiss, Still, RedisError
<1>2. redisErrors' \in 0..MaxRedis
  BY RedisErrorFacts DEF CacheMiss, IInv, TypeOK, StoresType
<1>3. pc' \in [Requests -> Labels] /\ pc'[r] = "load" /\ \A q \in Requests : q # r => pc'[q] = pc[q]
  BY GoFacts DEF CacheMiss, Labels
<1>4. /\ deadline' \in [Requests -> 0..(Horizon + TTL)] /\ deadline'[r] = now + TTL
      /\ \A q \in Requests : q # r => deadline'[q] = deadline[q]
  BY WindowFacts DEF CacheMiss
<1>5. WorkType' /\ PlanType' /\ Others(r)
  BY <1>1, <1>3, <1>4 DEF IInv, TypeOK, WorkType, PlanType, plan, Others, args
<1>6. deadline'[r] <= now + TTL
  BY <1>4, RequestTypes
<1>7. PlaceOK(r)' /\ TrustOK(r)'
  BY <1>1, <1>3, <1>6, WayPlace DEF CacheMiss
<1> QED
  BY <1>1, <1>2, <1>5, <1>7, LocalKeeps

\* Reading the row keeps the invariant.
LEMMA LoadKeeps ==
    ASSUME IInv, NEW r \in Requests, Load(r)
    PROVE  IInv'
<1>1. PICK s \in Sids : s = sid[r]
  BY DEF IInv, PlaceOK, Load
<1>2. Still /\ UNCHANGED <<args, plan, at, tries, rotated, deadline, redisErrors>>
  BY DEF Load, Still, history
<1>3. /\ op[r] \in {"validate", "refresh"} /\ (doomed[r] => s \in tombed) /\ row[s].ver \in 1..MaxVersion
      /\ redisErrors \in 0..MaxRedis /\ PlanType /\ deadline[r] <= now + TTL /\ began[r] <= now /\ WorkType
  BY <1>1, SessionTypes DEF IInv, PlaceOK, Load, TrustOK, TypeOK, StoresType
<1>4. /\ seen' \in [Requests -> [Sids -> 1..MaxVersion]] /\ seen'[r][s] = row[s].ver
      /\ \A q \in Requests : q # r => seen'[q] = seen[q]
  BY <1>1, <1>3, NoteFacts DEF Load
<1>5. PICK l \in {"fill", "deny", "denied"} : Go(r, l) /\ (l = "fill" => Active(s))
  <2>1. Go(r, CASE row[s].st = "active" -> "fill" [] row[s].st = "revoked" -> "deny" [] OTHER -> "denied")
    BY <1>1 DEF Load
  <2>2. CASE row[s].st = "active"
    BY <2>1, <2>2 DEF Active
  <2>3. CASE row[s].st = "revoked"
    BY <2>1, <2>3
  <2>4. CASE row[s].st # "active" /\ row[s].st # "revoked"
    BY <2>1, <2>4
  <2> QED
    BY <2>2, <2>3, <2>4
<1>6. pc' \in [Requests -> Labels] /\ pc'[r] = l /\ \A q \in Requests : q # r => pc'[q] = pc[q]
  BY <1>5, GoFacts DEF Labels, Over
<1>7. WorkType' /\ PlanType' /\ Others(r)
  BY <1>2, <1>3, <1>4, <1>6 DEF WorkType, PlanType, plan, Others, args
<1>8. PlaceOK(r)' /\ TrustOK(r)'
  <2>1. CASE l = "fill"
    <3>1. ended[s][row[s].ver] = Never /\ s \notin tombed
      BY <1>5, <2>1, ActiveFacts
    <3>2. deadline[r] \in Nat /\ deadline[r] <= Horizon + TTL /\ Never = Horizon + 1 /\ Horizon \in Nat /\ TTL \in Nat
      BY RequestTypes
    <3>3. Subject(r)' = s /\ deadline'[r] = deadline[r] /\ ended' = ended /\ tombed' = tombed /\ now' = now
      BY <1>1, <1>2, <1>3 DEF Subject, args, Still
    <3>4. SeenInTime(r, Subject(r))'
      BY <1>4, <3>1, <3>2, <3>3 DEF SeenInTime
    <3>5. PlaceOK(r)'
      BY <1>2, <1>3, <1>6, <2>1, <3>3 DEF PlaceOK, args
    <3>6. TrustOK(r)'
      BY <1>2, <1>3, <1>6, <2>1, <3>1, <3>3, <3>4 DEF TrustOK, args
    <3> QED
      BY <3>5, <3>6
  <2>2. CASE l = "deny"
    BY <1>2, <1>3, <1>6, <2>2, WayPlace DEF Load
  <2>3. CASE l = "denied"
    BY <1>2, <1>3, <1>6, <2>3, QuietPlace, StillWorld
  <2> QED
    BY <2>1, <2>2, <2>3
<1> QED
  BY <1>2, <1>3, <1>7, <1>8, LocalKeeps

\* A request goes from publishing to where it asks again.
LEMMA ConfirmPlace ==
    ASSUME IInv, NEW r \in Requests, Still, UNCHANGED <<args, at, tries, rotated, seen, deadline, plan, redisErrors>>,
           pc[r] \in {"fill", "filled"}, Go(r, "confirm")
    PROVE  IInv'
<1>1. pc' \in [Requests -> Labels] /\ pc'[r] = "confirm" /\ \A q \in Requests : q # r => pc'[q] = pc[q]
  BY GoFacts DEF Labels
<1>2. PlaceOK(r) /\ TrustOK(r) /\ Publishes(r) /\ Subject(r)' = Subject(r) /\ PlanType /\ WorkType /\ redisErrors \in 0..MaxRedis
  BY DEF IInv, Publishes, Subject, args, TypeOK, StoresType
<1>3. WorkType' /\ PlanType' /\ Others(r)
  BY <1>1, <1>2 DEF WorkType, PlanType, plan, Others, args
<1>4. PlaceOK(r)'
  BY <1>1, <1>2 DEF PlaceOK, args, Still
<1>5. TrustOK(r)'
  BY <1>1, <1>2 DEF TrustOK, Publishes, args, Still
<1> QED
  BY <1>2, <1>3, <1>4, <1>5, LocalKeeps

\* An active snapshot is published only over a session without a tombstone: while r's
\* window lasts so does the tombstone, and the script does not replace it.
LEMMA AdmittedIsUntombed ==
    ASSUME IInv, NEW r \in Requests, NEW s \in Sids, s = Subject(r), Publishes(r),
           Window(r) > now, Admits(s, "active", seen[r][s])
    PROVE  s \notin tombed
<1>1. s \in tombed => deadline[r] <= cache[s].until /\ cache[s].st # "active"
  BY DEF IInv, TrustOK, SessionOK
<1>2. deadline[r] \in Nat /\ now \in Nat /\ cache[s].until \in Nat
  BY RequestTypes, SessionTypes
<1>3. s \in tombed => now < cache[s].until
  BY <1>1, <1>2 DEF Window
<1> QED
  BY <1>1, <1>3 DEF Admits, Denies, Live

\* An active snapshot that Redis admits is written for a window that began before its read.
LEMMA PublishKeeps ==
    ASSUME IInv, NEW r \in Requests, NEW s \in Sids, s = Subject(r), pc[r] = "fill",
           Window(r) > now, Admits(s, "active", seen[r][s]), Publish(s, "active", seen[r][s], Window(r)),
           Go(r, "filled"), UNCHANGED <<now, row, ended, tombed, args, work, plan, redisErrors>>
    PROVE  IInv'
<1>1. pc' \in [Requests -> Labels] /\ pc'[r] = "filled" /\ \A q \in Requests : q # r => pc'[q] = pc[q]
  BY GoFacts DEF Labels
<1>2. PlaceOK(r) /\ TrustOK(r) /\ Publishes(r) /\ Subject(r)' = s
  BY DEF IInv, Publishes, Subject, args
<1>3. s \notin tombed
  BY <1>2, AdmittedIsUntombed
<1>4. seen[r][s] \in 1..MaxVersion /\ deadline[r] \in 0..(Horizon + TTL) /\ deadline[r] \in Nat /\ now \in Nat /\ TTL \in Nat
  BY RequestTypes
<1>5. /\ cache'[s] = [st |-> "active", ver |-> seen[r][s], until |-> deadline[r]]
      /\ cache' \in [Sids -> Snapshot] /\ \A x \in Sids : x # s => cache'[x] = cache[x]
  <2>1. cache \in [Sids -> Snapshot] /\ [st |-> "active", ver |-> seen[r][s], until |-> deadline[r]] \in Snapshot
    BY <1>4 DEF IInv, TypeOK, StoresType, Snapshot
  <2>2. cache' = [cache EXCEPT ![s] = [st |-> "active", ver |-> seen[r][s], until |-> deadline[r]]]
    BY DEF Publish, Window
  <2> QED
    BY <2>1, <2>2, Put
<1>6. TypeOK'
  BY <1>1, <1>5 DEF IInv, TypeOK, StoresType, ArgsType, WorkType, PlanType, HistoryType, args, work, plan
<1>7. FreshOnce' /\ Others(r)
  BY <1>1 DEF IInv, FreshOnce, Others, args, work, plan
<1>8. World(r)
  BY <1>3, <1>5 DEF World, Closed
<1>9. ASSUME NEW x \in Sids PROVE SessionOK(x)'
  <2>1. SessionOK(x)
    BY DEF IInv
  <2>2. CASE x # s
    BY <1>5, <2>1, <2>2 DEF SessionOK, Active, Closed
  <2>3. CASE x = s
    <3>1. ended[s][seen[r][s]] >= deadline[r] - TTL /\ deadline[r] <= now + TTL
      BY <1>2 DEF TrustOK, PlaceOK, SeenInTime
    <3> QED
      BY <1>3, <1>5, <2>1, <2>3, <3>1 DEF SessionOK, Active, Closed
  <2> QED
    BY <2>2, <2>3
<1>10. PlaceOK(r)'
  BY <1>1, <1>2 DEF PlaceOK, args, work
<1>11. TrustOK(r)'
  BY <1>1, <1>2, <1>3 DEF TrustOK, Publishes, SeenInTime, args, work
<1> QED
  BY <1>6, <1>7, <1>8, <1>9, <1>10, <1>11, StepKeeps

\* Publishing what was read, refused, late or failed, keeps the invariant.
LEMMA FillKeeps ==
    ASSUME IInv, NEW r \in Requests, Fill(r)
    PROVE  IInv'
<1>1. PICK s \in Sids : s = Subject(r)
  BY DEF IInv, PlaceOK, Publishes, Fill
<1>2. /\ pc[r] = "fill" /\ UNCHANGED <<now, row, deadline, rotated, seen, ended, args, plan>> /\ PlanType' /\ WorkType
      /\ deadline[r] <= now + TTL /\ redisErrors \in 0..MaxRedis
  BY DEF Fill, IInv, TypeOK, PlanType, plan, StoresType, PlaceOK
<1>3. CASE Window(r) <= now /\ Go(r, "confirm") /\ UNCHANGED <<cache, at, tries, tombed, redisErrors>>
  BY <1>2, <1>3, ConfirmPlace DEF Still
<1>4. CASE Go(r, "denied") /\ UNCHANGED <<cache, at, tries, tombed>> /\ redisErrors' \in 0..MaxRedis
  BY <1>2, <1>4, QuietKeeps DEF Still, plan, WorkType
<1>5. CASE /\ Window(r) > now /\ Admits(s, "active", seen[r][s]) /\ Publish(s, "active", seen[r][s], Window(r))
           /\ Go(r, "filled") /\ UNCHANGED <<at, tries, tombed, redisErrors>>
  BY <1>1, <1>2, <1>5, PublishKeeps DEF work
<1>6. CASE Window(r) > now /\ RedisError /\ Proceed(r, seen[r][s])
  <2>1. redisErrors' \in 0..MaxRedis /\ Still
    BY <1>2, <1>6, RedisErrorFacts DEF RedisError, Still
  <2>2. ~(doomed[r] /\ op[r] \in {"validate", "refresh"})
    BY <1>2, NotDoomed
  <2> QED
    BY <1>1, <1>2, <1>6, <2>1, <2>2, ProceedKeeps DEF WorkType
<1>7. CASE RedisError /\ Go(r, "denied") /\ UNCHANGED <<at, tries>>
  <2>1. redisErrors' \in 0..MaxRedis /\ UNCHANGED <<cache, tombed>>
    BY <1>7, RedisErrorFacts DEF RedisError
  <2> QED
    BY <1>4, <1>7, <2>1
<1> QED
  BY <1>1, <1>2, <1>3, <1>4, <1>5, <1>6, <1>7 DEF Fill

\* Going on after a publication keeps the invariant.
LEMMA FilledKeeps ==
    ASSUME IInv, NEW r \in Requests, Filled(r)
    PROVE  IInv'
<1>1. /\ pc[r] = "filled" /\ Still /\ UNCHANGED <<deadline, rotated, seen, args, plan, redisErrors>>
      /\ WorkType /\ redisErrors \in 0..MaxRedis /\ Subject(r) \in Sids
  BY DEF Filled, Still, history, IInv, TypeOK, StoresType, PlaceOK, Publishes
<1>2. CASE Proceed(r, seen[r][Subject(r)])
  BY <1>1, <1>2, NotDoomed, ProceedKeeps DEF WorkType
<1>3. CASE Go(r, "confirm") /\ UNCHANGED <<at, tries>>
  BY <1>1, <1>3, ConfirmPlace
<1> QED
  BY <1>2, <1>3 DEF Filled

\* Confirming a late snapshot against the row keeps the invariant.
LEMMA ConfirmKeeps ==
    ASSUME IInv, NEW r \in Requests, Confirm(r)
    PROVE  IInv'
<1>1. /\ pc[r] = "confirm" /\ Still /\ UNCHANGED <<deadline, rotated, seen, args, plan, redisErrors>>
      /\ WorkType /\ redisErrors \in 0..MaxRedis /\ Subject(r) \in Sids /\ PlanType' /\ deadline[r] <= now + TTL
  BY DEF Confirm, Still, history, IInv, TypeOK, StoresType, PlaceOK, PlanType, plan
<1>2. CASE Proceed(r, seen[r][Subject(r)])
  BY <1>1, <1>2, NotDoomed, ProceedKeeps DEF WorkType
<1>3. CASE Go(r, "denied") /\ UNCHANGED <<at, tries>>
  BY <1>1, <1>3, QuietKeeps DEF WorkType, plan
<1> QED
  BY <1>2, <1>3 DEF Confirm

-----------------------------------------------------------------------------
(* RotateUserSessionRefresh *)

\* Reading the row for a rotation keeps the invariant.
LEMMA RotateReadKeeps ==
    ASSUME IInv, NEW r \in Requests, RotateRead(r)
    PROVE  IInv'
<1>1. PICK s \in Sids : s = sid[r]
  BY DEF IInv, PlaceOK, RotateRead
<1>2. /\ pc[r] = "rotate" /\ Still /\ UNCHANGED <<at, tries, rotated, args, redisErrors>>
      /\ deadline' = [deadline EXCEPT ![r] = now + TTL] /\ seen' = [seen EXCEPT ![r][s] = row[s].ver]
  BY <1>1 DEF RotateRead, Still, history
<1>3. /\ op[r] = "refresh" /\ tries[r] # 0 /\ began[r] <= now /\ WorkType /\ PlanType
      /\ redisErrors \in 0..MaxRedis /\ row[s].ver \in 1..MaxVersion
  BY <1>2, SessionTypes DEF IInv, PlaceOK, TypeOK, StoresType
<1>4. ~doomed[r]
  BY <1>2, <1>3, NotDoomed
<1>5. /\ seen' \in [Requests -> [Sids -> 1..MaxVersion]] /\ seen'[r][s] = row[s].ver
      /\ \A q \in Requests : q # r => seen'[q] = seen[q]
  BY <1>2, <1>3, NoteFacts
<1>6. /\ deadline' \in [Requests -> 0..(Horizon + TTL)] /\ deadline'[r] = now + TTL
      /\ \A q \in Requests : q # r => deadline'[q] = deadline[q]
  BY <1>2, WindowFacts
<1>7. deadline'[r] <= now + TTL /\ now \in Nat /\ TTL \in Nat /\ Never = Horizon + 1 /\ now <= Horizon /\ Horizon \in Nat
  BY <1>6, RequestTypes
<1>8. CASE Active(s) /\ Go(r, "cas") /\ UNCHANGED <<targets, todo>>
  <2>1. pc' \in [Requests -> Labels] /\ pc'[r] = "cas" /\ \A q \in Requests : q # r => pc'[q] = pc[q]
    BY <1>8, GoFacts DEF Labels
  <2>2. WorkType' /\ PlanType' /\ Others(r)
    BY <1>2, <1>3, <1>5, <1>6, <1>8, <2>1 DEF WorkType, PlanType, Others, args
  <2>3. ended[s][row[s].ver] = Never
    BY <1>8, ActiveFacts
  <2>4. SeenInTime(r, sid[r])'
    BY <1>1, <1>2, <1>5, <1>6, <1>7, <2>3 DEF SeenInTime, Still, args
  <2>5. PlaceOK(r)'
    BY <1>1, <1>2, <1>3, <1>7, <2>1 DEF PlaceOK, Publishes, Still, args
  <2>6. TrustOK(r)'
    BY <1>2, <1>4, <2>1, <2>4 DEF TrustOK, Publishes, args
  <2> QED
    BY <1>2, <1>3, <2>2, <2>5, <2>6, LocalKeeps
<1>9. ASSUME NEW l \in {"granted", "denied", "fence"}, Go(r, l), PlanType', \A q \in Requests : q # r => todo'[q] = todo[q]
      PROVE  IInv'
  BY <1>2, <1>3, <1>4, <1>5, <1>6, <1>7, <1>9, QuietKeeps DEF WorkType
<1>10. ASSUME NEW l \in {"granted", "denied"}, Go(r, l), UNCHANGED <<targets, todo>>
       PROVE  IInv'
  BY <1>3, <1>9, <1>10 DEF PlanType
<1>11. CASE Go(r, "fence") /\ targets' = [targets EXCEPT ![r] = {s}] /\ todo' = [todo EXCEPT ![r] = {s}]
  BY <1>3, <1>9, <1>11 DEF PlanType
<1> QED
  BY <1>1, <1>8, <1>10, <1>11 DEF RotateRead

\* The winner of the rotation: the row changes its secret only.
LEMMA SwapKeeps ==
    ASSUME IInv, NEW r \in Requests, pc[r] = "cas", NEW s \in Sids, s = sid[r], Swaps(r), gen[r] < MaxGen,
           row' = [row EXCEPT ![s] = Record("active", @.ver, gen[r] + 1, at[r] + Grace, @.created, at[r])],
           rotated' = [rotated EXCEPT ![r] = TRUE], Go(r, "fill"),
           UNCHANGED <<now, cache, deadline, at, tries, seen, args, plan, history, redisErrors>>
    PROVE  IInv'
<1>1. pc' \in [Requests -> Labels] /\ pc'[r] = "fill" /\ \A q \in Requests : q # r => pc'[q] = pc[q]
  BY GoFacts DEF Labels
<1>2. PlaceOK(r) /\ TrustOK(r) /\ op[r] = "refresh" /\ Active(s) /\ s \notin tombed
  BY ActiveFacts DEF IInv, PlaceOK, Swaps
<1>3. PICK x : x = Record("active", row[s].ver, gen[r] + 1, at[r] + Grace, row[s].created, at[r])
  OBVIOUS
<1>4. x \in Session /\ x.st = "active" /\ x.ver = row[s].ver
  <2>1. row[s].ver \in 1..MaxVersion /\ row[s].created \in Nat /\ gen[r] \in 0..MaxGen /\ at[r] \in 0..Horizon
    BY RequestTypes, SessionTypes
  <2>2. gen[r] + 1 \in 0..MaxGen /\ at[r] + Grace \in Nat /\ at[r] \in Nat
    BY <2>1, SessionTimes, SessionBounds
  <2> QED
    BY <1>3, <2>1, <2>2 DEF Record, Session
<1>5. row' \in [Sids -> Session] /\ row'[s] = x /\ \A y \in Sids : y # s => row'[y] = row[y]
  <2>1. row \in [Sids -> Session] /\ row' = [row EXCEPT ![s] = x]
    BY <1>3 DEF IInv, TypeOK, StoresType
  <2> QED
    BY <1>4, <2>1, Put
<1>6. WorkType' /\ StoresType' /\ ArgsType' /\ PlanType' /\ HistoryType'
  <2>1. rotated' \in [Requests -> BOOLEAN]
    BY DEF IInv, TypeOK, WorkType
  <2> QED
    BY <1>1, <1>5, <2>1 DEF IInv, TypeOK, StoresType, ArgsType, WorkType, PlanType, HistoryType, args, plan, history
<1>7. FreshOnce' /\ Others(r)
  BY <1>1 DEF IInv, FreshOnce, Others, args, plan
<1>8. \A y \in Sids : row'[y].st = row[y].st /\ row'[y].ver = row[y].ver
  BY <1>2, <1>4, <1>5 DEF Active
<1>9. World(r) /\ \A y \in Sids : SessionOK(y)'
  BY <1>8 DEF IInv, World, Closed, SessionOK, Active, history
<1>10. Subject(r)' = s
  BY <1>2 DEF Subject, args
<1>11. PlaceOK(r)'
  BY <1>1, <1>2, <1>10 DEF PlaceOK, args
<1>12. TrustOK(r)'
  BY <1>1, <1>2, <1>10 DEF TrustOK, Publishes, SeenInTime, args, history
<1> QED
  BY <1>6, <1>7, <1>9, <1>11, <1>12, StepKeeps DEF TypeOK

\* The compare-and-swap of a rotation keeps the invariant.
LEMMA RotateCasKeeps ==
    ASSUME IInv, NEW r \in Requests, RotateCas(r)
    PROVE  IInv'
<1>1. PICK s \in Sids : s = sid[r]
  BY DEF IInv, PlaceOK, RotateCas
<1>2. pc[r] = "cas" /\ UNCHANGED <<now, cache, deadline, at, seen, args, plan, history, redisErrors>>
  BY DEF RotateCas
<1>3. CASE Swaps(r) /\ gen[r] < MaxGen /\ rotated' = [rotated EXCEPT ![r] = TRUE] /\ Go(r, "fill") /\ UNCHANGED tries
           /\ row' = [row EXCEPT ![s] = Record("active", @.ver, gen[r] + 1, at[r] + Grace, @.created, at[r])]
  BY <1>1, <1>2, <1>3, SwapKeeps
<1>4. CASE /\ tries' = [tries EXCEPT ![r] = @ - 1] /\ Go(r, IF tries[r] = 1 THEN "denied" ELSE "rotate")
           /\ UNCHANGED <<row, rotated>>
  <2>1. /\ op[r] = "refresh" /\ tries[r] # 0 /\ tries[r] \in 0..3 /\ WorkType /\ PlanType /\ redisErrors \in 0..MaxRedis
        /\ PlaceOK(r) /\ TrustOK(r) /\ ~doomed[r] /\ deadline[r] <= now + TTL
    BY <1>2, RequestTypes, NotDoomed DEF IInv, PlaceOK, TypeOK, StoresType
  <2>2. tries[r] - 1 \in 0..3 /\ (tries[r] # 1 => tries[r] - 1 # 0)
    BY <2>1
  <2>3. /\ tries' \in [Requests -> 0..3] /\ tries'[r] = tries[r] - 1
        /\ \A q \in Requests : q # r => tries'[q] = tries[q]
    <3>1. tries \in [Requests -> 0..3] /\ tries' = [tries EXCEPT ![r] = tries[r] - 1]
      BY <1>4, <2>1 DEF WorkType
    <3> QED
      BY <2>2, <3>1, Put
  <2>4. Still /\ PlanType' /\ UNCHANGED <<args, at, rotated, seen, deadline, targets, todo, redisErrors>>
    BY <1>2, <1>4, <2>1 DEF Still, history, plan, PlanType
  <2>5. CASE tries[r] = 1
    BY <1>4, <2>1, <2>3, <2>4, <2>5, QuietKeeps DEF WorkType
  <2>6. CASE tries[r] # 1
    <3>1. pc' \in [Requests -> Labels] /\ pc'[r] = "rotate" /\ \A q \in Requests : q # r => pc'[q] = pc[q]
      BY <1>4, <2>6, GoFacts DEF Labels
    <3>2. WorkType' /\ Others(r)
      BY <2>1, <2>3, <2>4, <3>1 DEF WorkType, Others, args
    <3>3. PlaceOK(r)'
      BY <1>2, <2>1, <2>2, <2>3, <2>4, <2>6, <3>1 DEF PlaceOK, Publishes, args
    <3>4. TrustOK(r)'
      BY <2>1, <2>4, <3>1 DEF TrustOK, Publishes, args
    <3> QED
      BY <2>1, <2>4, <3>2, <3>3, <3>4, LocalKeeps
  <2> QED
    BY <2>5, <2>6
<1> QED
  BY <1>1, <1>3, <1>4 DEF RotateCas

-----------------------------------------------------------------------------
(* Revocation *)

\* A deny state is published, as the tombstone of a closed session or not.
LEMMA DenyWorld ==
    ASSUME IInv, NEW r \in Requests, NEW s \in Sids, NEW st \in {"revoking", "revoked"}, NEW v \in 1..MaxVersion,
           Deny(s, st, v), UNCHANGED <<now, row, ended, redisErrors>>,
           tombed' = tombed \/ (tombed' = tombed \cup {s} /\ Closed(s))
    PROVE  World(r) /\ StoresType' /\ HistoryType' /\ \A x \in Sids : SessionOK(x)'
<1>1. now \in 0..Horizon /\ TTL \in Nat /\ Horizon \in Nat /\ cache \in [Sids -> Snapshot] /\ tombed \subseteq Sids
  BY SessionTimes, SessionBounds DEF IInv, TypeOK, StoresType, HistoryType
<1>2. PICK e : e = [st |-> st, ver |-> v, until |-> now + TTL]
  OBVIOUS
<1>3. e \in Snapshot /\ e.st # "active" /\ e.until = now + TTL
  <2>1. now + TTL \in 0..(Horizon + TTL)
    BY <1>1
  <2> QED
    BY <1>2, <2>1 DEF Snapshot
<1>4. cache' \in [Sids -> Snapshot] /\ cache'[s] = e /\ \A x \in Sids : x # s => cache'[x] = cache[x]
  <2>1. cache' = [cache EXCEPT ![s] = e]
    BY <1>2 DEF Deny, Publish
  <2> QED
    BY <1>1, <1>3, <2>1, Put
<1>5. StoresType' /\ HistoryType'
  BY <1>1, <1>4 DEF IInv, TypeOK, StoresType, HistoryType
<1>6. World(r)
  BY <1>1, <1>3, <1>4 DEF World, Closed
<1>7. ASSUME NEW x \in Sids PROVE SessionOK(x)'
  <2>1. SessionOK(x)
    BY DEF IInv
  <2>2. CASE x # s
    BY <1>4, <2>1, <2>2 DEF SessionOK, Active, Closed
  <2>3. CASE x = s
    <3>1. now + TTL <= now + TTL
      BY <1>1
    <3> QED
      BY <1>3, <1>4, <2>1, <2>3, <3>1 DEF SessionOK, Active, Closed
  <2> QED
    BY <2>2, <2>3
<1> QED
  BY <1>5, <1>6, <1>7

\* A request that has changed a store.
LEMMA WorldKeeps ==
    ASSUME IInv, NEW r \in Requests, World(r), StoresType', HistoryType', \A s \in Sids : SessionOK(s)',
           UNCHANGED args, WorkType', PlanType', Others(r), PlaceOK(r)', TrustOK(r)'
    PROVE  IInv'
<1>1. TypeOK' /\ FreshOnce'
  BY DEF IInv, TypeOK, ArgsType, FreshOnce, args
<1> QED
  BY <1>1, StepKeeps

\* Publishing a revoked row keeps the invariant.
LEMMA DenyFillKeeps ==
    ASSUME IInv, NEW r \in Requests, DenyFill(r)
    PROVE  IInv'
<1>1. PICK s \in Sids : s = sid[r]
  BY DEF IInv, PlaceOK, DenyFill
<1>2. Go(r, "denied") /\ UNCHANGED <<now, row, ended, args, work, plan>>
  BY DEF DenyFill
<1>3. WorkType /\ PlanType' /\ deadline[r] <= now + TTL /\ redisErrors \in 0..MaxRedis /\ seen[r][s] \in 1..MaxVersion
  BY <1>2, RequestTypes DEF IInv, TypeOK, StoresType, PlanType, plan, PlaceOK
<1>4. CASE Deny(s, "revoked", seen[r][s]) /\ UNCHANGED <<tombed, redisErrors>>
  <2>1. World(r) /\ StoresType' /\ HistoryType' /\ \A x \in Sids : SessionOK(x)'
    BY <1>2, <1>3, <1>4, DenyWorld
  <2>2. pc' \in [Requests -> Labels] /\ pc'[r] = "denied" /\ \A q \in Requests : q # r => pc'[q] = pc[q]
    BY <1>2, GoFacts DEF Labels, Over
  <2>3. WorkType' /\ Others(r)
    BY <1>2, <1>3, <2>2 DEF WorkType, Others, args, work, plan
  <2>4. PlaceOK(r)' /\ TrustOK(r)'
    BY <1>2, <1>3, <2>1, <2>2, QuietPlace DEF work
  <2> QED
    BY <1>2, <1>3, <2>1, <2>3, <2>4, WorldKeeps
<1>5. CASE UNCHANGED <<cache, tombed>> /\ redisErrors' \in 0..MaxRedis
  BY <1>2, <1>3, <1>5, QuietKeeps DEF Still, WorkType, work, plan
<1>6. CASE RedisError
  BY <1>5, <1>6, RedisErrorFacts DEF RedisError
<1> QED
  BY <1>1, <1>3, <1>4, <1>5, <1>6 DEF DenyFill

\* Choosing the sessions to revoke keeps the invariant.
LEMMA RevokeReadKeeps ==
    ASSUME IInv, NEW r \in Requests, RevokeRead(r)
    PROVE  IInv'
<1>1. /\ pc[r] = "read" /\ Still /\ UNCHANGED <<deadline, at, tries, rotated, args, redisErrors>>
      /\ WorkType /\ PlanType /\ redisErrors \in 0..MaxRedis /\ deadline[r] <= now + TTL /\ op[r] # "login"
  BY DEF RevokeRead, Still, history, IInv, TypeOK, StoresType, PlaceOK
<1>2. Candidates(r) \subseteq Sids
  <2>1. ActiveSids \subseteq Sids /\ ActiveSids \cap {sid[r]} \subseteq Sids /\ sid[r] \in Sids \cup {NoSid}
    BY RequestTypes DEF ActiveSids
  <2>2. CASE Bulk(r)
    <3>1. Candidates(r) = ActiveSids \ {sid[r]}
      BY <2>2 DEF Candidates, Bulk
    <3> QED
      BY <2>1, <3>1
  <2>3. CASE ~Bulk(r) /\ op[r] = "logout"
    <3>1. op[r] = "logout" => sid[r] \in Sids
      BY <1>1 DEF IInv, PlaceOK
    <3> QED
      BY <2>1, <2>3, <3>1 DEF Candidates
  <2>4. CASE ~Bulk(r) /\ op[r] # "logout"
    BY <2>1, <2>4 DEF Candidates
  <2> QED
    BY <2>2, <2>3, <2>4
<1>3. PlanType' /\ \A q \in Requests : q # r => todo'[q] = todo[q]
  BY <1>1, <1>2 DEF RevokeRead, PlanType
<1>4. seen' \in [Requests -> [Sids -> 1..MaxVersion]] /\ \A q \in Requests : q # r => seen'[q] = seen[q]
  <2>1. PICK f : f = [s \in Sids |-> IF s \in Candidates(r) THEN row[s].ver ELSE seen[r][s]]
    OBVIOUS
  <2>2. f \in [Sids -> 1..MaxVersion]
    BY <2>1, RequestTypes, SessionTypes
  <2>3. seen' = [seen EXCEPT ![r] = f] /\ seen \in [Requests -> [Sids -> 1..MaxVersion]]
    BY <1>1, <2>1 DEF RevokeRead, WorkType
  <2> QED
    BY <2>2, <2>3, Put
<1>5. ~(doomed[r] /\ op[r] \in {"validate", "refresh"})
  BY <1>1, NotDoomed
<1>6. ASSUME NEW l \in {"done", "fence"}, Go(r, l) PROVE IInv'
  BY <1>1, <1>3, <1>4, <1>5, <1>6, QuietKeeps DEF WorkType
<1> QED
  BY <1>6 DEF RevokeRead

\* Fencing a session before it is revoked keeps the invariant.
LEMMA FenceKeeps ==
    ASSUME IInv, NEW r \in Requests, NEW s \in Sids, Fence(r, s)
    PROVE  IInv'
<1>1. /\ pc[r] = "fence" /\ UNCHANGED <<now, row, targets, ended, args, work>> /\ op[r] # "login"
      /\ WorkType /\ PlanType /\ redisErrors \in 0..MaxRedis /\ deadline[r] <= now + TTL /\ seen[r][s] \in 1..MaxVersion
  BY RequestTypes DEF Fence, IInv, TypeOK, StoresType, PlaceOK
<1>2. ~(doomed[r] /\ op[r] \in {"validate", "refresh"})
  BY <1>1, NotDoomed
<1>3. CASE /\ Deny(s, "revoking", seen[r][s]) /\ todo' = [todo EXCEPT ![r] = @ \ {s}]
           /\ Go(r, IF todo[r] = {s} THEN "commit" ELSE "fence") /\ UNCHANGED <<tombed, redisErrors>>
  <2>1. World(r) /\ StoresType' /\ HistoryType' /\ \A x \in Sids : SessionOK(x)'
    BY <1>1, <1>3, DenyWorld
  <2>2. /\ pc' \in [Requests -> Labels] /\ pc'[r] \in {"commit", "fence"}
        /\ \A q \in Requests : q # r => pc'[q] = pc[q]
    <3>1. PICK l \in {"commit", "fence"} : Go(r, l)
      BY <1>3
    <3> QED
      BY <3>1, GoFacts DEF Labels
  <2>3. PlanType' /\ \A q \in Requests : q # r => todo'[q] = todo[q]
    BY <1>1, <1>3 DEF PlanType
  <2>4. WorkType' /\ Others(r)
    BY <1>1, <2>2, <2>3 DEF WorkType, Others, args, work
  <2>5. PlaceOK(r)' /\ TrustOK(r)'
    BY <1>1, <1>2, <2>1, <2>2, QuietPlace DEF work
  <2> QED
    BY <1>1, <2>1, <2>3, <2>4, <2>5, WorldKeeps
<1>4. CASE Go(r, "done") /\ UNCHANGED <<cache, todo, tombed>> /\ redisErrors' \in 0..MaxRedis
  <2>1. PlanType'
    BY <1>1, <1>4 DEF PlanType
  <2> QED
    BY <1>1, <1>2, <1>4, <2>1, QuietKeeps DEF Still, WorkType, work
<1>5. CASE RedisError /\ Go(r, "done") /\ UNCHANGED todo
  BY <1>4, <1>5, RedisErrorFacts DEF RedisError
<1> QED
  BY <1>1, <1>3, <1>4, <1>5 DEF Fence

\* Active sessions S end: each is closed or goes to its next version; r's new one may appear.
LEMMA EndWorld ==
    ASSUME IInv, NEW r \in Requests, NEW S \in SUBSET ActiveSids, End(S), UNCHANGED <<now, cache, tombed, redisErrors>>,
           row' \in [Sids -> Session],
           \A s \in S : Closed(s)' \/ (Active(s)' /\ row'[s].ver = row[s].ver + 1),
           \A s \in Sids \ S : row'[s] = row[s] \/ (s = fresh[r] /\ row[s].st = "absent" /\ Active(s)')
    PROVE  World(r) /\ StoresType' /\ HistoryType' /\ \A s \in Sids : SessionOK(s)'
<1>1. now \in 0..Horizon /\ TTL \in Nat /\ Horizon \in Nat /\ ended \in [Sids -> [1..MaxVersion -> 0..Never]] /\ now \in 0..Never
  BY SessionTimes, SessionBounds DEF IInv, TypeOK, StoresType, HistoryType, Never
<1>2. ASSUME NEW s \in Sids
      PROVE  /\ ended'[s] \in [1..MaxVersion -> 0..Never]
             /\ s \notin S => ended'[s] = ended[s]
             /\ \A v \in 1..MaxVersion : v # row[s].ver => ended'[s][v] = ended[s][v]
             /\ \A v \in 1..MaxVersion : ended'[s][v] = ended[s][v] \/ ended'[s][v] = now
  <2>1. ended'[s] = IF s \in S THEN [ended[s] EXCEPT ![row[s].ver] = now] ELSE ended[s]
    BY DEF End
  <2> QED
    BY <1>1, <2>1
<1>3. StoresType' /\ HistoryType'
  <2>1. ended' = [s \in Sids |-> ended'[s]]
    BY DEF End
  <2>2. ended' \in [Sids -> [1..MaxVersion -> 0..Never]]
    BY <1>2, <2>1
  <2> QED
    BY <2>2 DEF IInv, TypeOK, StoresType, HistoryType
<1>4. \A s \in S : s \in Sids /\ Active(s)
  BY DEF ActiveSids
<1>5. World(r)
  <2>1. ASSUME NEW s \in Sids
        PROVE  (Closed(s) => Closed(s)') /\ (row[s].st = "absent" => row'[s].st = "absent" \/ s = fresh[r])
    BY <1>4 DEF Closed, Active
  <2> QED
    BY <1>2, <2>1 DEF World
<1>6. ASSUME NEW s \in Sids PROVE SessionOK(s)'
  <2>1. /\ SessionOK(s) /\ row[s].ver \in 1..MaxVersion /\ cache[s].ver \in 1..MaxVersion /\ cache[s].until \in Nat
        /\ \A v \in 1..MaxVersion : ended[s][v] \in Nat
    BY SessionTypes DEF IInv
  <2>2. Active(s)' => \A v \in 1..MaxVersion : v >= row'[s].ver => ended'[s][v] = Never
    <3>1. CASE s \in S
      <4>1. Active(s)' => row'[s].ver = row[s].ver + 1
        BY <3>1 DEF Closed, Active
      <4>2. \A v \in 1..MaxVersion : v >= row[s].ver => ended[s][v] = Never
        BY <1>4, <2>1, <3>1 DEF SessionOK
      <4>3. \A v \in 1..MaxVersion : v >= row[s].ver + 1 => v # row[s].ver /\ v >= row[s].ver
        BY <2>1
      <4> QED
        BY <1>2, <4>1, <4>2, <4>3
    <3>2. CASE s \notin S /\ row'[s] = row[s]
      BY <1>2, <2>1, <3>2 DEF SessionOK, Active
    <3>3. CASE s \notin S /\ row[s].st = "absent"
      BY <1>2, <2>1, <3>3 DEF SessionOK
    <3> QED
      BY <3>1, <3>2, <3>3
  <2>3. row'[s].st = "absent" => \A v \in 1..MaxVersion : ended'[s][v] = Never
    <3>1. row'[s].st = "absent" => s \notin S /\ row'[s] = row[s]
      BY DEF Closed, Active
    <3> QED
      BY <1>2, <2>1, <3>1 DEF SessionOK
  <2>4. cache[s].st = "active" => ended'[s][cache[s].ver] >= cache[s].until - TTL
    <3>1. cache[s].st = "active" => ended[s][cache[s].ver] >= cache[s].until - TTL
      BY <2>1 DEF SessionOK
    <3>2. ended'[s][cache[s].ver] = ended[s][cache[s].ver] \/ ended'[s][cache[s].ver] = now
      BY <1>2, <2>1
    <3>3. now >= cache[s].until - TTL
      BY <1>1, <2>1 DEF SessionOK
    <3> QED
      BY <3>1, <3>2, <3>3
  <2>5. s \in tombed => Closed(s)' /\ cache[s].st # "active"
    BY <1>5, <2>1 DEF SessionOK, World
  <2>6. cache[s].until <= now + TTL
    BY <2>1 DEF SessionOK
  <2> QED
    BY <2>2, <2>3, <2>4, <2>5, <2>6 DEF SessionOK
<1> QED
  BY <1>3, <1>5, <1>6

\* A row that is closed keeps its type.
LEMMA CloseRow ==
    ASSUME IInv, NEW s \in Sids, NEW st \in {"revoked", "gone"}
    PROVE  /\ [row[s] EXCEPT !.st = st] \in Session /\ [row[s] EXCEPT !.st = st].st = st
  BY SessionTypes DEF Session

\* Committing a revocation keeps the invariant.
LEMMA RevokeCommitKeeps ==
    ASSUME IInv, NEW r \in Requests, RevokeCommit(r)
    PROVE  IInv'
<1>1. /\ pc[r] = "commit" /\ UNCHANGED <<now, cache, deadline, at, tries, rotated, targets, tombed, args, redisErrors>>
      /\ WorkType /\ PlanType /\ deadline[r] <= now + TTL /\ op[r] # "login" /\ targets[r] \in SUBSET Sids
  BY RequestTypes DEF RevokeCommit, IInv, TypeOK, PlaceOK
<1>2. PICK R \in SUBSET Sids : R = {s \in targets[r] : Active(s)}
  BY <1>1
<1>3. /\ row' = [s \in Sids |-> IF s \in R THEN [row[s] EXCEPT !.st = "revoked"] ELSE row[s]]
      /\ End(R) /\ todo' = [todo EXCEPT ![r] = R]
      /\ seen' = IF Bulk(r) THEN [seen EXCEPT ![r] = [s \in Sids |-> IF s \in R THEN row[s].ver ELSE @[s]]] ELSE seen
      /\ Go(r, IF R # {} THEN "tomb" ELSE IF Bulk(r) THEN "read" ELSE "done")
  BY <1>2 DEF RevokeCommit
<1>4. R \in SUBSET ActiveSids
  BY <1>2 DEF ActiveSids
<1>5. row' \in [Sids -> Session] /\ (\A s \in R : Closed(s)') /\ \A s \in Sids \ R : row'[s] = row[s]
  <2>1. \A s \in Sids : row[s] \in Session
    BY SessionTypes
  <2>2. \A s \in Sids : [row[s] EXCEPT !.st = "revoked"] \in Session /\ [row[s] EXCEPT !.st = "revoked"].st = "revoked"
    BY CloseRow
  <2>3. \A s \in Sids : row'[s] = IF s \in R THEN [row[s] EXCEPT !.st = "revoked"] ELSE row[s]
    BY <1>3
  <2>4. row' = [s \in Sids |-> row'[s]]
    BY <1>3
  <2>5. row' \in [Sids -> Session]
    BY <2>1, <2>2, <2>3, <2>4
  <2> QED
    BY <1>2, <2>2, <2>3, <2>5 DEF Closed
<1>6. World(r) /\ StoresType' /\ HistoryType' /\ \A s \in Sids : SessionOK(s)'
  BY <1>1, <1>3, <1>4, <1>5, EndWorld
<1>7. PlanType' /\ todo'[r] = R /\ \A q \in Requests : q # r => todo'[q] = todo[q]
  BY <1>1, <1>2, <1>3 DEF PlanType
<1>8. seen' \in [Requests -> [Sids -> 1..MaxVersion]] /\ \A q \in Requests : q # r => seen'[q] = seen[q]
  <2>1. PICK f : f = [s \in Sids |-> IF s \in R THEN row[s].ver ELSE seen[r][s]]
    OBVIOUS
  <2>2. f \in [Sids -> 1..MaxVersion]
    BY <2>1, RequestTypes, SessionTypes
  <2>3. seen \in [Requests -> [Sids -> 1..MaxVersion]] /\ (seen' = [seen EXCEPT ![r] = f] \/ seen' = seen)
    BY <1>1, <1>3, <2>1 DEF WorkType
  <2>4. CASE seen' = seen
    BY <2>3, <2>4
  <2>5. CASE seen' = [seen EXCEPT ![r] = f]
    BY <2>2, <2>3, <2>5, Put
  <2> QED
    BY <2>3, <2>4, <2>5
<1>9. PICK l \in {"tomb", "read", "done"} : Go(r, l) /\ (l = "read" => Bulk(r))
  BY <1>3
<1>10. pc' \in [Requests -> Labels] /\ pc'[r] = l /\ \A q \in Requests : q # r => pc'[q] = pc[q]
  BY <1>9, GoFacts DEF Labels, Over
<1>11. WorkType' /\ Others(r)
  BY <1>1, <1>7, <1>8, <1>10 DEF WorkType, Others, args
<1>12. ~(doomed[r] /\ op[r] \in {"validate", "refresh"})
  BY <1>1, NotDoomed
<1>13. PlaceOK(r)' /\ TrustOK(r)'
  <2>1. CASE l # "tomb"
    BY <1>1, <1>6, <1>9, <1>10, <1>12, <2>1, QuietPlace
  <2>2. CASE l = "tomb"
    <3>1. PlaceOK(r) /\ TrustOK(r)
      BY DEF IInv
    <3>2. PlaceOK(r)'
      BY <1>1, <1>10, <2>2, <3>1 DEF PlaceOK, Publishes, args
    <3>3. TrustOK(r)'
      BY <1>1, <1>5, <1>7, <1>10, <1>12, <2>2, <3>1 DEF TrustOK, Publishes, args
    <3> QED
      BY <3>2, <3>3
  <2> QED
    BY <2>1, <2>2
<1> QED
  BY <1>1, <1>6, <1>7, <1>11, <1>13, WorldKeeps

\* Writing a tombstone keeps the invariant.
LEMMA TombstoneKeeps ==
    ASSUME IInv, NEW r \in Requests, NEW s \in Sids, Tombstone(r, s)
    PROVE  IInv'
<1>1. /\ pc[r] = "tomb" /\ s \in todo[r] /\ UNCHANGED <<now, row, targets, ended, args, work>>
      /\ todo' = [todo EXCEPT ![r] = @ \ {s}] /\ WorkType /\ PlanType /\ PlaceOK(r) /\ TrustOK(r) /\ Closed(s)
      /\ seen[r][s] \in 1..MaxVersion
  BY RequestTypes DEF Tombstone, IInv, TypeOK, TrustOK
<1>2. ~(doomed[r] /\ op[r] \in {"validate", "refresh"})
  BY <1>1, NotDoomed
<1>3. World(r) /\ StoresType' /\ HistoryType' /\ \A x \in Sids : SessionOK(x)'
  <2>1. CASE Deny(s, "revoked", seen[r][s]) /\ tombed' = tombed \cup {s} /\ UNCHANGED redisErrors
    BY <1>1, <2>1, DenyWorld
  <2>2. CASE UNCHANGED <<cache, tombed>> /\ redisErrors' \in 0..MaxRedis
    <3>1. Still
      BY <1>1, <2>2 DEF Still
    <3>2. StoresType' /\ HistoryType'
      BY <2>2, <3>1 DEF IInv, TypeOK, StoresType, HistoryType, Still
    <3> QED
      BY <3>1, <3>2, StillWorld, StillSessions
  <2>3. redisErrors \in 0..MaxRedis
    BY DEF IInv, TypeOK, StoresType
  <2>4. CASE RedisError
    BY <2>2, <2>4, RedisErrorFacts DEF RedisError
  <2> QED
    BY <2>1, <2>2, <2>3, <2>4 DEF Tombstone
<1>4. PICK l \in {"tomb", "fill", "read", "done"} : Go(r, l) /\ (l = "fill" => op[r] = "login") /\ (l = "read" => Bulk(r))
  <2>1. Go(r, CASE todo[r] # {s} -> "tomb" [] op[r] = "login" -> "fill" [] Bulk(r) -> "read" [] OTHER -> "done")
    BY DEF Tombstone
  <2>2. CASE todo[r] # {s} /\ ~(op[r] = "login") /\ ~Bulk(r)
    BY <2>1, <2>2
  <2>3. CASE op[r] = "login"
    BY <2>1, <2>3 DEF Bulk
  <2>4. CASE Bulk(r)
    BY <2>1, <2>4 DEF Bulk
  <2>5. CASE todo[r] = {s} /\ op[r] # "login" /\ ~Bulk(r)
    BY <2>1, <2>5
  <2> QED
    BY <2>2, <2>3, <2>4, <2>5
<1>5. pc' \in [Requests -> Labels] /\ pc'[r] = l /\ \A q \in Requests : q # r => pc'[q] = pc[q]
  BY <1>4, GoFacts DEF Labels, Over
<1>6. PlanType' /\ todo'[r] = todo[r] \ {s} /\ \A q \in Requests : q # r => todo'[q] = todo[q]
  BY <1>1 DEF PlanType
<1>7. WorkType' /\ Others(r)
  BY <1>1, <1>5, <1>6 DEF WorkType, Others, args, work
<1>8. PlaceOK(r)' /\ TrustOK(r)'
  <2>1. CASE l \in {"read", "done"}
    BY <1>1, <1>2, <1>3, <1>4, <1>5, <2>1, QuietPlace DEF work, PlaceOK
  <2>2. CASE l \in {"tomb", "fill"}
    <3>1. (Publishes(r)' => Publishes(r)) /\ Subject(r)' = Subject(r)
      BY <1>1, <1>4, <1>5, <2>2 DEF Publishes, Subject, args
    <3>2. PlaceOK(r)'
      BY <1>1, <1>5, <2>2, <3>1 DEF PlaceOK, args, work
    <3>3. Publishes(r) => /\ SeenInTime(r, Subject(r))'
                          /\ Subject(r) \in tombed' => deadline[r] <= cache'[Subject(r)].until
      BY <1>1, <1>3, PublishStays DEF args, work
    <3>4. \A x \in todo'[r] : Closed(x)'
      BY <1>1, <1>6 DEF TrustOK, Closed
    <3>5. doomed[r] => sid[r] \in tombed'
      <4>1. tombed \subseteq Sids
        BY DEF IInv, TypeOK, HistoryType
      <4> QED
        BY <1>1, <1>3, <4>1 DEF TrustOK, World
    <3>6. deadline' = deadline /\ doomed' = doomed /\ op' = op /\ sid' = sid
      BY <1>1 DEF args, work
    <3> QED
      BY <1>2, <1>5, <2>2, <3>1, <3>2, <3>3, <3>4, <3>5, <3>6 DEF TrustOK
  <2> QED
    BY <2>1, <2>2
<1> QED
  BY <1>1, <1>3, <1>6, <1>7, <1>8, WorldKeeps

-----------------------------------------------------------------------------
(* New versions and new sessions *)

\* A request that goes on to publish a version that has not ended, of a session that
\* has no tombstone.
LEMMA PublishPlace ==
    ASSUME IInv, NEW r \in Requests, World(r), tombed' = tombed, UNCHANGED args, NEW n \in Sids, n = Subject(r),
           pc'[r] \in {"fill", "tomb"}, pc'[r] = "tomb" => \A s \in todo'[r] : Closed(s)',
           deadline' = deadline, seen'[r][n] \in 1..MaxVersion, ended'[n][seen'[r][n]] = Never, n \notin tombed,
           pc[r] \notin {"cached", "load", "deny", "denied"}
    PROVE  PlaceOK(r)' /\ TrustOK(r)'
<1>1. PlaceOK(r) /\ TrustOK(r) /\ ~(doomed[r] /\ op[r] \in {"validate", "refresh"})
  BY NotDoomed DEF IInv
<1>2. Subject(r)' = n
  BY DEF Subject, args
<1>3. SeenInTime(r, Subject(r))'
  <2>1. deadline[r] \in Nat /\ deadline[r] <= Horizon + TTL /\ Never = Horizon + 1 /\ Horizon \in Nat /\ TTL \in Nat
    BY RequestTypes
  <2> QED
    BY <1>2, <2>1 DEF SeenInTime
<1>4. PlaceOK(r)'
  BY <1>1, <1>2 DEF PlaceOK, World, args
<1>5. TrustOK(r)'
  BY <1>1, <1>2, <1>3 DEF TrustOK, Publishes, args
<1> QED
  BY <1>4, <1>5

\* The commit of a security change, which moves the session to the next version, keeps the invariant.
LEMMA AdvanceTxKeeps ==
    ASSUME IInv, NEW r \in Requests, AdvanceTx(r)
    PROVE  IInv'
<1>1. PICK s \in Sids : s = sid[r]
  BY DEF IInv, PlaceOK, AdvanceTx
<1>2. /\ pc[r] = "advance" /\ op[r] = "advance" /\ deadline[r] <= now + TTL /\ WorkType /\ PlanType' /\ PlanType
      /\ UNCHANGED <<now, cache, deadline, at, tries, rotated, tombed, args, plan, redisErrors>>
      /\ redisErrors \in 0..MaxRedis
  BY DEF AdvanceTx, IInv, PlaceOK, TypeOK, StoresType, PlanType, plan
<1>3. CASE /\ Active(s) /\ row[s].ver = ver[r] /\ ver[r] < MaxVersion /\ End({s})
           /\ row' = [row EXCEPT ![s] = Record("active", @.ver + 1, @.gen, @.until, @.created, now)]
           /\ seen' = [seen EXCEPT ![r][s] = ver[r] + 1] /\ Go(r, "fill")
  <2>1. /\ row[s].ver \in 1..MaxVersion /\ row[s].gen \in 0..MaxGen /\ row[s].until \in Nat /\ row[s].created \in Nat
        /\ now \in Nat /\ MaxVersion \in Nat
    BY RequestTypes, SessionTypes, SessionBounds
  <2>2. row[s].ver + 1 \in 1..MaxVersion /\ ver[r] + 1 = row[s].ver + 1 /\ row[s].ver + 1 # row[s].ver
        /\ row[s].ver + 1 >= row[s].ver
    BY <1>3, <2>1
  <2>3. PICK x : x = Record("active", row[s].ver + 1, row[s].gen, row[s].until, row[s].created, now)
    OBVIOUS
  <2>4. x \in Session /\ x.st = "active" /\ x.ver = row[s].ver + 1
    BY <2>1, <2>2, <2>3 DEF Session, Record
  <2>5. row' \in [Sids -> Session] /\ row'[s] = x /\ \A y \in Sids : y # s => row'[y] = row[y]
    <3>1. row \in [Sids -> Session] /\ row' = [row EXCEPT ![s] = x]
      BY <1>3, <2>3 DEF IInv, TypeOK, StoresType
    <3> QED
      BY <2>4, <3>1, Put
  <2>6. World(r) /\ StoresType' /\ HistoryType' /\ \A y \in Sids : SessionOK(y)'
    <3>1. {s} \in SUBSET ActiveSids
      BY <1>3 DEF ActiveSids
    <3>2. \A y \in {s} : Active(y)' /\ row'[y].ver = row[y].ver + 1
      BY <2>4, <2>5 DEF Active
    <3> QED
      BY <1>2, <1>3, <2>5, <3>1, <3>2, EndWorld
  <2>7. /\ seen' \in [Requests -> [Sids -> 1..MaxVersion]] /\ seen'[r][s] = row[s].ver + 1
        /\ \A q \in Requests : q # r => seen'[q] = seen[q]
    BY <1>3, <2>2, NoteFacts
  <2>8. pc' \in [Requests -> Labels] /\ pc'[r] = "fill" /\ \A q \in Requests : q # r => pc'[q] = pc[q]
    BY <1>3, GoFacts DEF Labels
  <2>9. WorkType' /\ Others(r)
    BY <1>2, <2>7, <2>8 DEF WorkType, Others, args, plan
  <2>10. ended'[s][row[s].ver + 1] = Never
    <3>1. \A v \in 1..MaxVersion : v >= row'[s].ver => ended'[s][v] = Never
      BY <2>4, <2>5, <2>6 DEF SessionOK, Active
    <3> QED
      BY <2>1, <2>2, <2>4, <2>5, <3>1
  <2>11. s \notin tombed /\ s = Subject(r)
    BY <1>1, <1>2, <1>3, ActiveFacts DEF Subject
  <2>12. PlaceOK(r)' /\ TrustOK(r)'
    BY <1>2, <2>2, <2>6, <2>7, <2>8, <2>10, <2>11, PublishPlace
  <2> QED
    BY <1>2, <2>6, <2>9, <2>12, WorldKeeps
<1>4. CASE Go(r, "denied") /\ UNCHANGED <<row, ended, seen>>
  BY <1>2, <1>4, QuietKeeps DEF Still, WorkType, plan
<1> QED
  BY <1>1, <1>3, <1>4 DEF AdvanceTx

\* A login: active sessions S are closed, the new session starts at version v.
LEMMA LoginKeeps ==
    ASSUME IInv, NEW r \in Requests, pc[r] = "login", NEW n \in Sids, n = fresh[r], NEW S \in SUBSET ActiveSids,
           NEW v \in 1..MaxVersion, End(S), row' \in [Sids -> Session], \A s \in S : Closed(s)',
           row'[n].st = "active", \A s \in Sids \ S : s # n => row'[s] = row[s],
           seen' \in [Requests -> [Sids -> 1..MaxVersion]], seen'[r][n] = v,
           \A q \in Requests : q # r => seen'[q] = seen[q],
           todo' = [todo EXCEPT ![r] = S], NEW l \in {"fill", "tomb"}, Go(r, l),
           UNCHANGED <<now, cache, deadline, at, tries, rotated, targets, tombed, args, redisErrors>>
    PROVE  IInv'
<1>1. /\ op[r] = "login" /\ row[n].st = "absent" /\ n \notin S /\ n \notin tombed /\ n = Subject(r)
      /\ SessionOK(n) /\ WorkType /\ PlanType /\ S \in SUBSET Sids
  BY DEF IInv, TrustOK, ActiveSids, Active, SessionOK, Closed, Subject, TypeOK
<1>2. World(r) /\ StoresType' /\ HistoryType' /\ \A s \in Sids : SessionOK(s)'
  <2>1. \A s \in Sids \ S : row'[s] = row[s] \/ (s = fresh[r] /\ row[s].st = "absent" /\ Active(s)')
    BY <1>1 DEF Active
  <2> QED
    BY <2>1, EndWorld
<1>3. PlanType' /\ todo'[r] = S /\ \A q \in Requests : q # r => todo'[q] = todo[q]
  BY <1>1 DEF PlanType
<1>4. pc' \in [Requests -> Labels] /\ pc'[r] = l /\ \A q \in Requests : q # r => pc'[q] = pc[q]
  BY GoFacts DEF Labels
<1>5. WorkType' /\ Others(r)
  BY <1>1, <1>3, <1>4 DEF WorkType, Others, args
<1>6. ended'[n][v] = Never
  <2>1. ended'[n] = ended[n]
    BY <1>1 DEF End
  <2> QED
    BY <1>1, <2>1 DEF SessionOK
<1>7. PlaceOK(r)' /\ TrustOK(r)'
  BY <1>1, <1>2, <1>3, <1>4, <1>6, PublishPlace
<1> QED
  BY <1>2, <1>3, <1>5, <1>7, WorldKeeps

\* A new row is well typed and active.
LEMMA IssuedType ==
    ASSUME NEW v \in 1..MaxVersion, NEW c \in Nat, NEW t \in Nat
    PROVE  Issued(v, c, t) \in Session /\ Issued(v, c, t).st = "active"
<1>1. 0 \in 0..MaxGen
  BY SessionBounds
<1> QED
  BY <1>1 DEF Issued, Record, Session

\* A login that renews the current session under a new SID keeps the invariant.
LEMMA RenewKeeps ==
    ASSUME IInv, NEW r \in Requests, Renew(r)
    PROVE  IInv'
<1>1. PICK n \in Sids : n = fresh[r] /\ row[n].st = "absent"
  BY DEF Renew, IInv, TrustOK
<1>2. PICK s \in Sids : s = sid[r] /\ Active(s) /\ s # n
  BY <1>1 DEF Renew, ActiveSids, Active
<1>3. /\ pc[r] = "login" /\ row[s].ver < MaxVersion /\ End({s}) /\ todo' = [todo EXCEPT ![r] = {s}] /\ Go(r, "tomb")
      /\ row' = [x \in Sids |-> IF x = n THEN Issued(row[s].ver + 1, row[s].created, now)
                                ELSE IF x = s THEN [row[s] EXCEPT !.st = "gone"] ELSE row[x]]
      /\ seen' = [seen EXCEPT ![r] = [x \in Sids |-> IF x = n THEN row[s].ver + 1 ELSE IF x = s THEN row[s].ver ELSE @[x]]]
      /\ UNCHANGED <<now, cache, deadline, at, tries, rotated, targets, tombed, args, redisErrors>>
  BY <1>1, <1>2 DEF Renew
<1>4. row[s].ver \in 1..MaxVersion /\ row[s].created \in Nat /\ now \in Nat /\ MaxVersion \in Nat
  BY RequestTypes, SessionTypes, SessionBounds
<1>5. row[s].ver + 1 \in 1..MaxVersion
  BY <1>3, <1>4
<1>6. /\ row' \in [Sids -> Session] /\ row'[n].st = "active" /\ (\A x \in {s} : Closed(x)')
      /\ \A x \in Sids \ {s} : x # n => row'[x] = row[x]
  <2>1. \A x \in Sids : row[x] \in Session
    BY SessionTypes
  <2>2. PICK g : g = [row[s] EXCEPT !.st = "gone"] /\ g \in Session /\ g.st = "gone"
    BY CloseRow
  <2>3. PICK i : i = Issued(row[s].ver + 1, row[s].created, now) /\ i \in Session /\ i.st = "active"
    BY <1>4, <1>5, IssuedType
  <2>4. row' = [x \in Sids |-> IF x = n THEN i ELSE IF x = s THEN g ELSE row[x]]
    BY <1>3, <2>2, <2>3
  <2> QED
    BY <1>2, <2>1, <2>2, <2>3, <2>4 DEF Closed
<1>7. /\ seen' \in [Requests -> [Sids -> 1..MaxVersion]] /\ seen'[r][n] = row[s].ver + 1
      /\ \A q \in Requests : q # r => seen'[q] = seen[q]
  <2>1. PICK f : f = [x \in Sids |-> IF x = n THEN row[s].ver + 1 ELSE IF x = s THEN row[s].ver ELSE seen[r][x]]
    OBVIOUS
  <2>2. f \in [Sids -> 1..MaxVersion] /\ f[n] = row[s].ver + 1
    BY <1>4, <1>5, <2>1, RequestTypes
  <2>3. seen \in [Requests -> [Sids -> 1..MaxVersion]] /\ seen' = [seen EXCEPT ![r] = f]
    BY <1>3, <2>1 DEF IInv, TypeOK, WorkType
  <2> QED
    BY <2>2, <2>3, Put
<1>8. {s} \in SUBSET ActiveSids
  BY <1>2 DEF ActiveSids
<1> QED
  BY <1>1, <1>3, <1>5, <1>6, <1>7, <1>8, LoginKeeps

\* A login that creates a session keeps the invariant.
LEMMA CreateKeeps ==
    ASSUME IInv, NEW r \in Requests, Create(r)
    PROVE  IInv'
<1>1. PICK n \in Sids : n = fresh[r] /\ row[n].st = "absent"
  BY DEF Create, IInv, TrustOK
<1>2. /\ pc[r] = "login" /\ UNCHANGED <<now, cache, deadline, at, tries, rotated, targets, tombed, args, redisErrors>>
      /\ WorkType /\ PlanType /\ deadline[r] <= now + TTL /\ redisErrors \in 0..MaxRedis
  BY DEF Create, IInv, PlaceOK, TypeOK, StoresType
<1>3. CASE /\ row' = [s \in Sids |-> IF s = n THEN Issued(1, now, now)
                                     ELSE IF s \in Abandoned THEN [row[s] EXCEPT !.st = "revoked"] ELSE row[s]]
           /\ End(Abandoned) /\ todo' = [todo EXCEPT ![r] = Abandoned]
           /\ seen' = [seen EXCEPT ![r] = [s \in Sids |-> IF s = n THEN 1 ELSE row[s].ver]]
           /\ Go(r, IF Abandoned = {} THEN "fill" ELSE "tomb")
  <2>1. Abandoned \in SUBSET ActiveSids /\ n \notin Abandoned /\ Abandoned \subseteq Sids
    BY <1>1 DEF Abandoned, ActiveSids, Active
  <2>2. 1 \in 1..MaxVersion /\ now \in Nat
    BY SessionBounds, RequestTypes
  <2>3. /\ row' \in [Sids -> Session] /\ row'[n].st = "active" /\ (\A x \in Abandoned : Closed(x)')
        /\ \A x \in Sids \ Abandoned : x # n => row'[x] = row[x]
    <3>1. \A x \in Sids : row[x] \in Session
      BY SessionTypes
    <3>2. \A x \in Sids : [row[x] EXCEPT !.st = "revoked"] \in Session /\ [row[x] EXCEPT !.st = "revoked"].st = "revoked"
      BY CloseRow
    <3>3. PICK i : i = Issued(1, now, now) /\ i \in Session /\ i.st = "active"
      BY <2>2, IssuedType
    <3>4. \A x \in Sids : row'[x] = IF x = n THEN i ELSE IF x \in Abandoned THEN [row[x] EXCEPT !.st = "revoked"] ELSE row[x]
      BY <1>3, <3>3
    <3>5. row' = [x \in Sids |-> row'[x]]
      BY <1>3
    <3>6. row' \in [Sids -> Session]
      BY <3>1, <3>2, <3>3, <3>4, <3>5
    <3> QED
      BY <2>1, <3>2, <3>3, <3>4, <3>6 DEF Closed
  <2>4. /\ seen' \in [Requests -> [Sids -> 1..MaxVersion]] /\ seen'[r][n] = 1
        /\ \A q \in Requests : q # r => seen'[q] = seen[q]
    <3>1. PICK f : f = [s \in Sids |-> IF s = n THEN 1 ELSE row[s].ver]
      OBVIOUS
    <3>2. f \in [Sids -> 1..MaxVersion] /\ f[n] = 1
      BY <2>2, <3>1, SessionTypes
    <3>3. seen \in [Requests -> [Sids -> 1..MaxVersion]] /\ seen' = [seen EXCEPT ![r] = f]
      BY <1>2, <1>3, <3>1 DEF WorkType
    <3> QED
      BY <3>2, <3>3, Put
  <2>5. PICK l \in {"fill", "tomb"} : Go(r, l)
    BY <1>3
  <2> QED
    BY <1>1, <1>2, <1>3, <2>1, <2>2, <2>3, <2>4, <2>5, LoginKeeps
<1>4. CASE Go(r, "denied") /\ UNCHANGED <<row, ended, seen, todo>>
  <2>1. PlanType'
    BY <1>2, <1>4 DEF PlanType
  <2> QED
    BY <1>2, <1>4, <2>1, QuietKeeps DEF Still, WorkType
<1> QED
  BY <1>1, <1>3, <1>4 DEF Create

-----------------------------------------------------------------------------
(* The invariant *)

\* The initial state satisfies the inductive invariant.
LEMMA InitHolds == Init => IInv
<1> SUFFICES ASSUME Init PROVE IInv
  OBVIOUS
<1>1. /\ TTL \in Nat /\ Horizon \in Nat /\ Never = Horizon + 1 /\ 1 \in 1..MaxVersion /\ 0 \in 0..MaxGen /\ 0 \in 0..Horizon
      /\ 0 \in 0..(Horizon + TTL) /\ 0 \in 0..3 /\ 0 \in 0..MaxRedis /\ Never \in 0..Never /\ 0 \in Nat
  BY SessionTimes, SessionBounds DEF Never
<1>2. /\ Issued(1, 0, 0) \in Session /\ Issued(1, 0, 0).ver = 1 /\ Issued(1, 0, 0).st = "active"
      /\ Blank \in Session /\ Blank.st = "absent"
  BY <1>1 DEF Issued, Blank, Record, Session
<1>3. PICK c : c = [st |-> "active", ver |-> 1, until |-> 0]
  OBVIOUS
<1>3a. c \in Snapshot /\ c.st = "active" /\ c.ver = 1 /\ c.until = 0
  BY <1>1, <1>3 DEF Snapshot
<1>4. StoresType
  <2>1. row \in [Sids -> Session]
    BY <1>2 DEF Init
  <2>2. cache \in [Sids -> Snapshot]
    BY <1>3, <1>3a DEF Init
  <2> QED
    BY <1>1, <2>1, <2>2 DEF Init, StoresType
<1>5. ArgsType
  BY <1>1, SessionSids DEF Init, ArgsType, AllOps
<1>6. WorkType
  BY <1>1 DEF Init, WorkType, Labels, Over
<1>7. PlanType /\ HistoryType
  BY <1>1 DEF Init, PlanType, HistoryType
<1>8. FreshOnce
  BY DEF Init, FreshOnce
<1>9. ASSUME NEW s \in Sids PROVE SessionOK(s)
  <2>1. cache[s] = c /\ now = 0 /\ tombed = {} /\ \A v \in 1..MaxVersion : ended[s][v] = Never
    BY <1>3 DEF Init
  <2>2. Never >= 0 - TTL /\ 0 <= 0 + TTL
    BY <1>1
  <2> QED
    BY <1>1, <1>3a, <2>1, <2>2 DEF SessionOK
<1>10. ASSUME NEW r \in Requests PROVE PlaceOK(r) /\ TrustOK(r)
  <2>1. began[r] = 0 /\ deadline[r] = 0 /\ now = 0 /\ pc[r] = "idle" /\ doomed[r] = FALSE
    BY DEF Init
  <2>2. PlaceOK(r)
    BY <1>1, <2>1 DEF PlaceOK, Publishes
  <2>3. TrustOK(r)
    BY <2>1 DEF TrustOK, Publishes
  <2> QED
    BY <2>2, <2>3
<1> QED
  BY <1>4, <1>5, <1>6, <1>7, <1>8, <1>9, <1>10 DEF IInv, TypeOK

\* The passing of time keeps the invariant.
LEMMA TickKeeps ==
    ASSUME IInv, Tick
    PROVE  IInv'
<1>1. now \in Nat /\ TTL \in Nat /\ now' = now + 1 /\ now' \in 0..Horizon
  BY SessionTimes, SessionBounds DEF IInv, TypeOK, StoresType, Tick
<1>2. UNCHANGED <<row, cache, pc, args, work, plan, history, redisErrors>>
  BY DEF Tick
<1>3. TypeOK' /\ FreshOnce'
  BY <1>1, <1>2 DEF IInv, TypeOK, StoresType, ArgsType, WorkType, PlanType, HistoryType, FreshOnce, args, work, plan, history
<1>4. ASSUME NEW s \in Sids PROVE SessionOK(s)'
  <2>1. SessionOK(s) /\ cache[s].until \in Nat
    BY SessionTypes DEF IInv
  <2>2. cache[s].until <= now' + TTL
    BY <1>1, <2>1 DEF SessionOK
  <2> QED
    BY <1>2, <2>1, <2>2 DEF SessionOK, Active, Closed, history
<1>5. ASSUME NEW r \in Requests PROVE PlaceOK(r)' /\ TrustOK(r)'
  <2>1. PlaceOK(r) /\ TrustOK(r) /\ began[r] \in Nat /\ deadline[r] \in Nat
    BY RequestTypes DEF IInv
  <2>2. began[r] <= now' /\ deadline[r] <= now' + TTL
    BY <1>1, <2>1 DEF PlaceOK
  <2>3. PlaceOK(r)'
    BY <1>2, <2>1, <2>2 DEF PlaceOK, Publishes, Subject, args, work
  <2>4. TrustOK(r)'
    BY <1>2, <2>1 DEF TrustOK, Publishes, Subject, SeenInTime, Closed, args, work, plan, history
  <2> QED
    BY <2>3, <2>4
<1> QED
  BY <1>3, <1>4, <1>5 DEF IInv

\* Every step keeps the inductive invariant.
LEMMA NextKeeps == IInv /\ [Next]_vars => IInv'
<1> SUFFICES ASSUME IInv, [Next]_vars PROVE IInv'
  OBVIOUS
<1>1. CASE Tick
  BY <1>1, TickKeeps
<1>2. ASSUME NEW r \in Requests, Arrivals(r) PROVE IInv'
  BY <1>2, ArrivalsKeep
<1>3. ASSUME NEW r \in Requests, Serve(r) PROVE IInv'
  BY <1>3, CacheHitKeeps, CacheMissKeeps, LoadKeeps, DenyFillKeeps, FillKeeps, FilledKeeps, ConfirmKeeps, RotateReadKeeps,
     RotateCasKeeps, RevokeReadKeeps, RevokeCommitKeeps, FenceKeeps, TombstoneKeeps, AdvanceTxKeeps, RenewKeeps, CreateKeeps
     DEF Serve
<1>4. CASE UNCHANGED vars
  <2>1. Still /\ UNCHANGED <<pc, args, work, plan, redisErrors>>
    BY <1>4 DEF vars, Still, history
  <2>2. TypeOK' /\ FreshOnce'
    BY <2>1 DEF IInv, TypeOK, StoresType, ArgsType, WorkType, PlanType, HistoryType, FreshOnce, args, work, plan, Still
  <2>3. ASSUME NEW r \in Requests PROVE PlaceOK(r)' /\ TrustOK(r)'
    <3>1. PlaceOK(r) /\ TrustOK(r)
      BY DEF IInv
    <3>2. PlaceOK(r)'
      BY <2>1, <3>1 DEF PlaceOK, Publishes, Subject, args, work, Still
    <3>3. TrustOK(r)'
      BY <2>1, <3>1 DEF TrustOK, Publishes, Subject, SeenInTime, Closed, args, work, plan, Still
    <3> QED
      BY <3>2, <3>3
  <2> QED
    BY <2>1, <2>2, <2>3, StillSessions DEF IInv
<1> QED
  BY <1>1, <1>2, <1>3, <1>4 DEF Next

\* The inductive invariant: what every snapshot, window and tombstone stands for, at
\* every step of every request.
THEOREM Invariance == Spec => []IInv
  BY InitHolds, NextKeeps, PTL DEF Spec

\* Every variable keeps its type, whatever the requests, crashes and Redis errors.
THEOREM Typing == Spec => []TypeOK
<1>1. IInv => TypeOK
  BY DEF IInv
<1> QED
  BY <1>1, Invariance, PTL

-----------------------------------------------------------------------------
(* What a grant rests on *)

\* A request that moves to another place than "granted", and no other request, moves.
LEMMA NoGrant ==
    ASSUME IInv, NEW r \in Requests, NEW q \in Requests, NEW l, l # "granted" \/ q # r, Go(q, l)
    PROVE  ~Grants(r)
<1>1. pc \in [Requests -> Labels]
  BY DEF IInv, TypeOK, WorkType
<1> QED
  BY <1>1 DEF Grants, Go

\* The steps that can grant.
GrantStep(r) == CacheHit(r) \/ Fill(r) \/ Filled(r) \/ Confirm(r) \/ RotateRead(r)

\* Proceed moves its request.
LEMMA ProceedGoes ==
    ASSUME NEW q \in Requests, NEW v, Proceed(q, v)
    PROVE  \E l \in Labels : Go(q, l)
  BY DEF Proceed, Labels, Over

\* A step that can grant moves its own request.
LEMMA GrantStepGoes ==
    ASSUME NEW q \in Requests, GrantStep(q)
    PROVE  \E l \in Labels : Go(q, l)
<1> USE DEF Labels, Over
<1>1. CASE CacheHit(q)
  BY <1>1, ProceedGoes DEF CacheHit
<1>2. CASE Fill(q)
  BY <1>2, ProceedGoes DEF Fill
<1>3. CASE Filled(q)
  BY <1>3, ProceedGoes DEF Filled
<1>4. CASE Confirm(q)
  BY <1>4, ProceedGoes DEF Confirm
<1>5. CASE RotateRead(q)
  BY <1>5 DEF RotateRead
<1> QED
  BY <1>1, <1>2, <1>3, <1>4, <1>5 DEF GrantStep

\* Any other step moves a request, and not to a grant.
LEMMA OtherStepGoes ==
    ASSUME NEW q \in Requests, Arrivals(q) \/ Serve(q), ~GrantStep(q)
    PROVE  \E l : l # "granted" /\ Go(q, l)
<1>1. CASE Arrivals(q)
  BY <1>1 DEF Arrivals, ArriveValidate, ArriveAdvance, ArriveSecret, ArriveRevoke, ArriveLogin, Arrive
<1>2. CASE CacheMiss(q) \/ DenyFill(q) \/ RevokeRead(q) \/ RevokeCommit(q)
  BY <1>2 DEF CacheMiss, DenyFill, RevokeRead, RevokeCommit
<1>3. CASE Load(q)
  <2>1. PICK s : s = row[sid[q]].st
    OBVIOUS
  <2>2. Go(q, CASE s = "active" -> "fill" [] s = "revoked" -> "deny" [] OTHER -> "denied")
    BY <1>3, <2>1 DEF Load
  <2>3. CASE s = "active"
    BY <2>2, <2>3
  <2>4. CASE s = "revoked"
    BY <2>2, <2>4
  <2>5. CASE s # "active" /\ s # "revoked"
    BY <2>2, <2>5
  <2> QED
    BY <2>3, <2>4, <2>5
<1>4. CASE RotateCas(q) \/ AdvanceTx(q) \/ Renew(q) \/ Create(q)
  BY <1>4 DEF RotateCas, AdvanceTx, Renew, Create
<1>5. ASSUME NEW s \in Sids, Fence(q, s) PROVE \E l : l # "granted" /\ Go(q, l)
  BY <1>5 DEF Fence
<1>6. ASSUME NEW s \in Sids, Tombstone(q, s) PROVE \E l : l # "granted" /\ Go(q, l)
  <2>1. Go(q, CASE todo[q] # {s} -> "tomb" [] op[q] = "login" -> "fill" [] Bulk(q) -> "read" [] OTHER -> "done")
    BY <1>6 DEF Tombstone
  <2>2. CASE todo[q] # {s} /\ ~(op[q] = "login") /\ ~Bulk(q)
    BY <2>1, <2>2
  <2>3. CASE op[q] = "login"
    BY <2>1, <2>3 DEF Bulk
  <2>4. CASE Bulk(q)
    BY <2>1, <2>4 DEF Bulk
  <2>5. CASE todo[q] = {s} /\ op[q] # "login" /\ ~Bulk(q)
    BY <2>1, <2>5
  <2> QED
    BY <2>2, <2>3, <2>4, <2>5
<1> QED
  BY <1>1, <1>2, <1>3, <1>4, <1>5, <1>6 DEF Serve, GrantStep

\* A grant is made by one of the request's own granting steps.
LEMMA GrantsByStep ==
    ASSUME IInv, [Next]_vars, NEW r \in Requests, Grants(r)
    PROVE  GrantStep(r)
<1>1. ~UNCHANGED pc
  BY DEF Grants
<1>2. PICK q \in Requests : Arrivals(q) \/ Serve(q)
  BY <1>1 DEF Next, Tick, vars
<1>3. CASE ~GrantStep(q)
  BY <1>2, <1>3, OtherStepGoes, NoGrant
<1>4. CASE GrantStep(q)
  BY <1>4, GrantStepGoes, NoGrant
<1> QED
  BY <1>3, <1>4

\* What the step that grants has to show for it: a version of the session that was active
\* after the request arrived, or less than TTL before.
LEMMA GrantShows ==
    ASSUME IInv, NEW r \in Requests, GrantStep(r), Grants(r)
    PROVE  ended[sid[r]][seen'[r][sid[r]]] > began[r] - TTL /\ ~doomed[r]
<1>1. /\ op[r] \in {"validate", "refresh"} /\ Subject(r) = sid[r] /\ PlaceOK(r) /\ TrustOK(r)
      /\ began[r] <= now /\ began[r] \in Nat /\ now \in Nat /\ now <= Horizon /\ TTL \in Nat /\ deadline[r] \in Nat
      /\ Never = Horizon + 1 /\ Horizon \in Nat /\ TTL # 0
  BY RequestTypes, SessionTimes DEF Grants, Subject, IInv, PlaceOK
<1>2. PICK s \in Sids : s = sid[r]
  BY <1>1 DEF PlaceOK, Publishes, GrantStep, CacheHit, Fill, Filled, Confirm, RotateRead
<1>3. Never > began[r] - TTL
  BY <1>1
<1>4. CASE CacheHit(r)
  <2>1. cache[s].st = "active" /\ now < cache[s].until /\ seen' = [seen EXCEPT ![r][s] = cache[s].ver]
    <3>1. ~Go(r, "denied")
      BY NoGrant
    <3> QED
      BY <1>2, <1>4, <3>1 DEF CacheHit, Live
  <2>2. /\ SessionOK(s) /\ cache[s].ver \in 1..MaxVersion /\ cache[s].until \in Nat
        /\ \A v \in 1..MaxVersion : ended[s][v] \in Nat
    BY SessionTypes DEF IInv
  <2>3. seen'[r][s] = cache[s].ver
    BY <2>1, <2>2, NoteFacts
  <2>4. ended[s][cache[s].ver] >= cache[s].until - TTL /\ s \notin tombed
    BY <2>1, <2>2 DEF SessionOK
  <2>5. ended[s][cache[s].ver] > began[r] - TTL
    BY <1>1, <2>1, <2>2, <2>4
  <2> QED
    BY <1>1, <1>2, <2>3, <2>4, <2>5 DEF TrustOK
<1>5. ASSUME pc[r] \in {"fill", "filled"}, Window(r) > now, seen' = seen
      PROVE  ended[s][seen'[r][s]] > began[r] - TTL
  <2>1. ended[s][seen[r][s]] >= deadline[r] - TTL
    BY <1>1, <1>2, <1>5 DEF TrustOK, Publishes, SeenInTime
  <2>2. ended[s][seen[r][s]] \in Nat
    BY RequestTypes, SessionTypes
  <2> QED
    BY <1>1, <1>5, <2>1, <2>2 DEF Window
<1>6. CASE Fill(r)
  <2>1. ~Go(r, "denied") /\ ~Go(r, "confirm") /\ ~Go(r, "filled")
    BY NoGrant
  <2>2. pc[r] = "fill" /\ Window(r) > now /\ seen' = seen
    BY <1>6, <2>1 DEF Fill
  <2> QED
    BY <1>1, <1>2, <1>5, <2>2, NotDoomed
<1>7. CASE Filled(r)
  <2>1. ~Go(r, "confirm")
    BY NoGrant
  <2>2. pc[r] = "filled" /\ now < Window(r) /\ seen' = seen
    BY <1>7, <2>1 DEF Filled
  <2>3. Window(r) > now
    BY <1>1, <2>2 DEF Window
  <2> QED
    BY <1>1, <1>2, <1>5, <2>2, <2>3, NotDoomed
<1>8. CASE Confirm(r)
  <2>1. ~Go(r, "denied")
    BY NoGrant
  <2>2. pc[r] = "confirm" /\ Active(s) /\ row[s].ver = seen[r][s] /\ seen' = seen
    BY <1>1, <1>2, <1>8, <2>1 DEF Confirm
  <2> QED
    BY <1>1, <1>2, <1>3, <2>2, ActiveFacts, NotDoomed
<1>9. CASE RotateRead(r)
  <2>1. ~Go(r, "denied")
    BY NoGrant
  <2>2. pc[r] = "rotate" /\ Active(s) /\ seen' = [seen EXCEPT ![r][s] = row[s].ver]
    BY <1>2, <1>9, <2>1 DEF RotateRead
  <2>3. seen'[r][s] = row[s].ver
    BY <2>2, NoteFacts, SessionTypes
  <2> QED
    BY <1>1, <1>2, <1>3, <2>2, <2>3, ActiveFacts, NotDoomed
<1> QED
  BY <1>4, <1>6, <1>7, <1>8, <1>9 DEF GrantStep

\* "a stale active snapshot cannot outlive a short deny tombstone": a request is granted
\* only for a version that was active less than TTL before the request arrived, however
\* many requests stall, die or meet Redis errors on the way.
THEOREM WindowBoundsGrants == Spec => GrantWithinWindow
<1>1. IInv /\ [Next]_vars => [\A r \in Requests : Grants(r) => ended[sid[r]][seen'[r][sid[r]]] > began[r] - TTL]_vars
  BY GrantsByStep, GrantShows
<1> QED
  BY <1>1, Invariance, PTL DEF Spec, GrantWithinWindow

\* No request that arrives after a revocation has published its tombstone is granted,
\* also long after the tombstone has expired.
THEOREM TombstoneLasts == Spec => TombstoneIsFinal
<1>1. IInv /\ [Next]_vars => [\A r \in Requests : Grants(r) => ~doomed[r]]_vars
  BY GrantsByStep, GrantShows
<1> QED
  BY <1>1, Invariance, PTL DEF Spec, TombstoneIsFinal

-----------------------------------------------------------------------------
(* The refresh secret *)

\* The rows that a step leaves active keep their generation or have the next one.
Forward == \A s \in Sids : Active(s) /\ row'[s].st = "active" => row'[s].gen >= row[s].gen

\* Untouched rows move forward.
LEMMA SameForward == ASSUME IInv, row' = row PROVE Forward
<1>1. \A s \in Sids : row[s].gen \in 0..MaxGen
  BY SessionTypes
<1> QED
  BY <1>1 DEF Forward

\* No step of a request takes a generation back.
LEMMA ServeForward ==
    ASSUME IInv, NEW r \in Requests, Serve(r)
    PROVE  Forward
<1>1. \A s \in Sids : row[s].gen \in 0..MaxGen
  BY SessionTypes
<1>2. row \in [Sids -> Session]
  BY DEF IInv, TypeOK, StoresType
<1>3. CASE RotateCas(r)
  <2>1. PICK s \in Sids : s = sid[r]
    BY <1>3 DEF IInv, PlaceOK, RotateCas
  <2>2. CASE Swaps(r) /\ row' = [row EXCEPT ![s] = Record("active", @.ver, gen[r] + 1, at[r] + Grace, @.created, at[r])]
    <3>1. row[s].gen = gen[r] /\ row[s].gen + 1 >= row[s].gen
      BY <1>1, <2>1, <2>2 DEF Swaps
    <3>2. row'[s].gen = row[s].gen + 1 /\ \A x \in Sids : x # s => row'[x] = row[x]
      BY <1>2, <2>2, <3>1 DEF Record
    <3> QED
      BY <1>1, <3>1, <3>2 DEF Forward
  <2>3. CASE row' = row
    BY <2>3, SameForward
  <2> QED
    BY <1>3, <2>1, <2>2, <2>3 DEF RotateCas
<1>4. CASE RevokeCommit(r)
  <2>1. PICK R : R = {s \in targets[r] : Active(s)}
    OBVIOUS
  <2>2. row' = [s \in Sids |-> IF s \in R THEN [row[s] EXCEPT !.st = "revoked"] ELSE row[s]]
    BY <1>4, <2>1 DEF RevokeCommit
  <2>3. \A s \in Sids : row'[s] = row[s] \/ row'[s].st = "revoked"
    BY <2>2, CloseRow
  <2> QED
    BY <1>1, <2>3 DEF Forward
<1>5. CASE AdvanceTx(r)
  <2>1. PICK s \in Sids : s = sid[r]
    BY <1>5 DEF IInv, PlaceOK, AdvanceTx
  <2>2. CASE row' = [row EXCEPT ![s] = Record("active", @.ver + 1, @.gen, @.until, @.created, now)]
    <3>1. row'[s].gen = row[s].gen /\ \A x \in Sids : x # s => row'[x] = row[x]
      BY <1>2, <2>2 DEF Record
    <3> QED
      BY <1>1, <3>1 DEF Forward
  <2>3. CASE row' = row
    BY <2>3, SameForward
  <2> QED
    BY <1>5, <2>1, <2>2, <2>3 DEF AdvanceTx
<1>6. CASE Renew(r)
  <2>1. row[fresh[r]].st = "absent"
    BY <1>6 DEF Renew, IInv, TrustOK
  <2>2. PICK s \in Sids : s = sid[r]
    BY <1>6 DEF Renew, ActiveSids
  <2>3. \A x \in Sids : x # fresh[r] => row'[x] = row[x] \/ row'[x].st = "gone"
    BY <1>6, <2>2, CloseRow DEF Renew
  <2> QED
    BY <1>1, <2>1, <2>3 DEF Forward, Active
<1>7. CASE Create(r)
  <2>1. row[fresh[r]].st = "absent"
    BY <1>7 DEF Create, IInv, TrustOK
  <2>2. \A x \in Sids : x # fresh[r] => row'[x] = row[x] \/ row'[x].st = "revoked"
    BY <1>7, CloseRow DEF Create
  <2> QED
    BY <1>1, <2>1, <2>2 DEF Forward, Active
<1>8. CASE CacheHit(r) \/ CacheMiss(r) \/ Load(r) \/ DenyFill(r) \/ Fill(r) \/ Filled(r) \/ Confirm(r) \/ RotateRead(r)
           \/ RevokeRead(r) \/ \E s \in Sids : Fence(r, s) \/ Tombstone(r, s)
  <2>1. row' = row
    BY <1>8 DEF CacheHit, CacheMiss, Load, DenyFill, Fill, Filled, Confirm, RotateRead, RevokeRead, Fence, Tombstone
  <2> QED
    BY <2>1, SameForward
<1> QED
  BY <1>3, <1>4, <1>5, <1>6, <1>7, <1>8 DEF Serve

\* RotateUserSessionRefresh "has the same single-winner behavior" on every database: no
\* interleaving of refreshes, logins and revocations brings a spent secret back.
THEOREM SecretsMoveForward == Spec => GenerationNeverRegresses
<1>1. IInv /\ [Next]_vars => [\A s \in Sids : Active(s) /\ row'[s].st = "active" => row'[s].gen >= row[s].gen]_vars
  <2> SUFFICES ASSUME IInv, Next PROVE Forward
    BY DEF Forward
  <2>1. CASE Tick
    BY <2>1, SameForward DEF Tick
  <2>2. ASSUME NEW r \in Requests, Arrivals(r) PROVE Forward
    <3>1. row' = row
      BY <2>2 DEF Arrivals, ArriveValidate, ArriveAdvance, ArriveSecret, ArriveRevoke, ArriveLogin, Arrive
    <3> QED
      BY <3>1, SameForward
  <2> QED
    BY <2>1, <2>2, ServeForward DEF Next
<1> QED
  BY <1>1, Invariance, PTL DEF Spec, GenerationNeverRegresses

-----------------------------------------------------------------------------
(* The tabs of one browser profile: AuthTabs.                               *)

\* What is on its way has its type, and a refresh that was sent is on the wire.
WireTypes ==
    /\ wire \in [Tabs -> [st : {"none", "up", "down"}, ck : Secret, exp : SidSet \cup {None},
                          ans : {"none", "ok", "denied", "mismatch"}, set : SUBSET Secret]]
    /\ \A t \in Tabs : stage[t] = "sent" <=> wire[t].st # "none"

FormTypes ==
    form \in [Tabs -> [st : {"none", "login", "logout", "recover", "recovering", "recovered"}, first : BOOLEAN,
                       ans : {"none", "ok", "mismatch"}, set : SUBSET Secret]]

Events == [kind : {"authenticated", "signed_out"}, sid : SidSet]
ChanTypes == chan \in [Tabs -> Seq(Events)]

OrphanTypes == orphans \subseteq [ck : Secret, exp : SidSet \cup {None}]

ServerTypes ==
    /\ rows \in [SidSet -> [st : {"absent", "active", "revoked", "gone"}, gen : Nat, grace : BOOLEAN]]
    /\ cookie \in Secret

PageTypes ==
    /\ session \in [Tabs -> SidSet \cup {None}] /\ valid \in [Tabs -> BOOLEAN]
    /\ boot \in [Tabs -> {"idle", "checking", "complete"}]

PromiseTypes ==
    /\ stage \in [Tabs -> {"none", "queued", "sent"}] /\ current \in [Tabs -> BOOLEAN]
    /\ outcome \in [Tabs -> {"none", "transient", "authenticated", "anonymous"}]

HistoryTypes ==
    /\ missed \in [Tabs -> SUBSET SidSet] /\ left \in [Tabs -> SUBSET SidSet]
    /\ lost \subseteq SidSet /\ crossed \in BOOLEAN /\ replayed \subseteq SidSet

\* The lock is a queue of the tabs that have a promise, and only its head has sent.
LockOK ==
    /\ locks \in Seq(Tabs)
    /\ \A i, j \in DOMAIN locks : locks[i] = locks[j] => i = j
    /\ \A t \in Tabs : stage[t] # "none" <=> \E i \in DOMAIN locks : locks[i] = t
    /\ \A t \in Tabs : stage[t] = "sent" => Len(locks) > 0 /\ locks[1] = t

TabTypes ==
    /\ ServerTypes /\ PageTypes /\ PromiseTypes /\ HistoryTypes
    /\ WireTypes /\ FormTypes /\ ChanTypes /\ OrphanTypes /\ LockOK

\* These are the types of the specification, and more.
LEMMA TabTypesImply == TabTypes => TabTypeOK
  BY DEF TabTypes, TabTypeOK, ServerTypes, PageTypes, PromiseTypes, HistoryTypes, WireTypes, LockOK

\* The only member of a set is the one it gives.
LEMMA GivenOne == ASSUME NEW x PROVE Given({x}) = x
  BY DEF Given

\* A secret that is there names a session and a generation.
LEMMA SecretParts ==
    ASSUME NEW ck \in Secret, ck # None
    PROVE  ck.sid \in SidSet /\ ck.gen \in Nat /\ ck = [sid |-> ck.sid, gen |-> ck.gen]
  BY DEF Secret

\* A new generation of a secret is a secret, and not none.
LEMMA SecretNext ==
    ASSUME NEW s \in SidSet, NEW n \in Nat
    PROVE  [sid |-> s, gen |-> n] \in Secret /\ [sid |-> s, gen |-> n] # None
<1>1. [sid |-> s, gen |-> n] \in [sid : SidSet, gen : Nat]
  OBVIOUS
<1> QED
  BY <1>1, TabsAssumption DEF Secret

\* The answer to a refresh.
LEMMA AnswerFacts ==
    ASSUME ServerTypes, NEW ck \in Secret, NEW exp
    PROVE  /\ Answer(ck, exp).ans \in {"ok", "denied", "mismatch"} /\ Answer(ck, exp).set \in SUBSET Secret
           /\ Answer(ck, exp).ans = "ok" =>
                /\ ck # None /\ Alive(ck.sid)
                /\ exp = None \/ exp = ck.sid
                /\ Answer(ck, exp).set = {[sid |-> ck.sid, gen |-> ck.gen + 1]}
           /\ Answer(ck, exp).ans = "denied" => Answer(ck, exp).set = {None}
           /\ Answer(ck, exp).ans = "mismatch" => Answer(ck, exp).set = {}
<1>1. CASE ck = None
  BY <1>1 DEF Answer, Clear, Secret
<1>2. CASE ck # None
  <2>1. ck.sid \in SidSet /\ ck.gen \in Nat
    BY <1>2, SecretParts
  <2>2. [sid |-> ck.sid, gen |-> ck.gen + 1] \in Secret /\ None \in Secret
    BY <2>1, SecretNext DEF Secret
  <2>3. CASE exp # None /\ exp # ck.sid
    BY <1>2, <2>3 DEF Answer, Keep
  <2>4. CASE ~(exp # None /\ exp # ck.sid) /\ Known(ck)
    BY <1>2, <2>2, <2>4 DEF Answer, Known
  <2>5. CASE ~(exp # None /\ exp # ck.sid) /\ ~Known(ck)
    BY <1>2, <2>2, <2>5 DEF Answer, Clear
  <2> QED
    BY <2>3, <2>4, <2>5
<1> QED
  BY <1>1, <1>2

\* What a refresh does to the rows: no row appears, comes back or changes its
\* generation, but for the row of the secret, which moves on if the secret is current.
LEMMA RefreshFacts ==
    ASSUME ServerTypes, NEW ck \in Secret, NEW exp, RefreshRow(ck, exp)
    PROVE  /\ rows' \in [SidSet -> [st : {"absent", "active", "revoked", "gone"}, gen : Nat, grace : BOOLEAN]]
           /\ \A s \in SidSet : /\ rows'[s].st = "absent" <=> rows[s].st = "absent"
                                /\ Alive(s)' => Alive(s)
                                /\ \/ rows'[s].gen = rows[s].gen
                                   \/ /\ ck # None /\ s = ck.sid /\ ck.gen = rows[s].gen
                                      /\ rows'[s].gen = rows[s].gen + 1
                                      /\ Answer(ck, exp).ans = "ok"
                                /\ s \in replayed' => s \in replayed \/ (ck # None /\ s = ck.sid /\ ck.gen + 1 = rows[s].gen)
           /\ replayed' \subseteq replayed \cup SidSet
           /\ Answer(ck, exp).ans = "ok" /\ ck.gen = rows[ck.sid].gen => rows'[ck.sid].gen = ck.gen + 1
<1>1. CASE ck = None \/ (exp # None /\ exp # ck.sid) \/ ~Alive(ck.sid)
  <2>1. rows' = rows /\ replayed' = replayed
    BY <1>1 DEF RefreshRow
  <2>2. Answer(ck, exp).ans # "ok"
    BY <1>1, AnswerFacts
  <2> QED
    BY <2>1, <2>2 DEF ServerTypes, Alive
<1>2. CASE ~(ck = None \/ (exp # None /\ exp # ck.sid) \/ ~Alive(ck.sid))
  <2>1. ck.sid \in SidSet /\ ck.gen \in Nat
    BY <1>2, SecretParts
  <2>2. CASE /\ ck.gen = rows[ck.sid].gen
             /\ rows' = [rows EXCEPT ![ck.sid] = [st |-> @.st, gen |-> @.gen + 1, grace |-> TRUE]]
             /\ UNCHANGED replayed
    <3>1. Answer(ck, exp).ans = "ok"
      BY <1>2, <2>2 DEF Answer, Known
    <3> QED
      BY <1>2, <2>1, <2>2, <3>1 DEF ServerTypes, Alive
  <2>3. CASE /\ Spent(ck) /\ ~rows[ck.sid].grace
             /\ rows' = [rows EXCEPT ![ck.sid] = Ending(@, "revoked")]
             /\ replayed' = replayed \cup {ck.sid}
    <3>1. ck.gen + 1 = rows[ck.sid].gen
      BY <2>1, <2>3 DEF Spent, ServerTypes
    <3>2. rows' = [rows EXCEPT ![ck.sid] = [st |-> "revoked", gen |-> rows[ck.sid].gen, grace |-> rows[ck.sid].grace]]
      BY <2>1, <2>3 DEF Ending
    <3> QED
      BY <1>2, <2>1, <2>3, <3>1, <3>2 DEF ServerTypes, Alive
  <2>4. CASE ck.gen < rows[ck.sid].gen /\ UNCHANGED <<rows, replayed>>
    BY <2>1, <2>4 DEF ServerTypes, Alive
  <2> QED
    BY <1>2, <2>2, <2>3, <2>4 DEF RefreshRow
<1> QED
  BY <1>1, <1>2

\* An answer on its way has the Set-Cookie of its kind.
Answered(t) ==
    wire[t].st = "down" =>
      /\ wire[t].ans \in {"ok", "denied", "mismatch"}
      /\ wire[t].ans = "ok" => wire[t].ck # None /\ wire[t].set = {[sid |-> wire[t].ck.sid, gen |-> wire[t].ck.gen + 1]}
      /\ wire[t].ans = "denied" => wire[t].set = {None}
      /\ wire[t].ans = "mismatch" => wire[t].set = {}

\* A login brings the first secret of a session; a logout clears the cookie or keeps it.
FormOK(t) ==
    /\ form[t].st = "login" => \E s \in SidSet : form[t].set = {[sid |-> s, gen |-> 0]}
    /\ form[t].st = "logout" => form[t].set \in {{}, {None}} /\ form[t].ans \in {"ok", "mismatch"}

TabShape == TabTypes /\ \A t \in Tabs : Answered(t) /\ FormOK(t)

\* What an arriving answer gives: the successor of the secret that was sent.
LEMMA OkGives ==
    ASSUME TabShape, NEW t \in Tabs, wire[t].st = "down", wire[t].ans = "ok"
    PROVE  /\ wire[t].ck # None /\ wire[t].ck.sid \in SidSet /\ wire[t].ck.gen \in Nat
           /\ Given(wire[t].set) = [sid |-> wire[t].ck.sid, gen |-> wire[t].ck.gen + 1]
           /\ Given(wire[t].set).sid = wire[t].ck.sid
           /\ wire[t].set # {}
<1>1. wire[t].ck # None /\ wire[t].set = {[sid |-> wire[t].ck.sid, gen |-> wire[t].ck.gen + 1]}
  BY DEF TabShape, Answered
<1>2. wire[t].ck \in Secret
  BY DEF TabShape, TabTypes, WireTypes
<1>3. Given(wire[t].set) = [sid |-> wire[t].ck.sid, gen |-> wire[t].ck.gen + 1]
  BY <1>1, GivenOne
<1> QED
  BY <1>1, <1>2, <1>3, SecretParts

\* What the answer to a login gives.
LEMMA LoginGives ==
    ASSUME TabShape, NEW t \in Tabs, form[t].st = "login"
    PROVE  \E s \in SidSet : /\ form[t].set = {[sid |-> s, gen |-> 0]}
                             /\ Given(form[t].set) = [sid |-> s, gen |-> 0]
                             /\ Given(form[t].set).sid = s /\ form[t].set # {}
<1>1. PICK s \in SidSet : form[t].set = {[sid |-> s, gen |-> 0]}
  BY DEF TabShape, FormOK
<1>2. Given(form[t].set) = [sid |-> s, gen |-> 0]
  BY <1>1, GivenOne
<1>3. Given(form[t].set).sid = s
  BY <1>2
<1> QED
  BY <1>1, <1>2, <1>3

\* The cookie that is stored is a secret.
LEMMA StoreTypes ==
    ASSUME ServerTypes, NEW set \in SUBSET Secret, Store(set)
    PROVE  cookie' \in Secret
  BY DEF Store, Keep, Given, ServerTypes

\* A step of a tab keeps the types of the pages.
LEMMA PageTypesStep ==
    ASSUME TabShape, NEW t \in Tabs, TabStep(t)
    PROVE  PageTypes'
<1> USE DEF PageTypes, page
<1>0. PageTypes
  BY DEF TabShape, TabTypes
<1>1. CASE StartRefresh(t)
  BY <1>0, <1>1 DEF StartRefresh
<1>2. CASE LateRefusal(t) \/ TakeLock(t) \/ HandleRefresh(t) \/ RecoverLogout(t)
  BY <1>0, <1>2 DEF LateRefusal, TakeLock, HandleRefresh, RecoverLogout
<1>3. CASE AnswerArrives(t)
  <2>1. wire[t].st = "down" /\ wire[t].ans = "ok" => Given(wire[t].set).sid \in SidSet
    BY OkGives
  <2> QED
    BY <1>0, <1>3, <2>1 DEF AnswerArrives, Adopt, Reset
<1>4. CASE MismatchArrives(t)
  BY <1>0, <1>4 DEF MismatchArrives, Reset
<1>5. CASE LoginArrives(t)
  <2>1. Given(form[t].set).sid \in SidSet
    BY <1>5, LoginGives DEF LoginArrives
  <2> QED
    BY <1>0, <1>5, <2>1 DEF LoginArrives, Adopt
<1>6. CASE LogoutArrives(t) \/ LogoutRecovered(t)
  BY <1>0, <1>6 DEF LogoutArrives, LogoutRecovered, SignOut, Reset
<1>7. CASE EventArrives(t) \/ Reload(t)
  BY <1>0, <1>7 DEF EventArrives, Reload, Unload, Reset
<1>8. CASE Login(t, TRUE) \/ Login(t, FALSE) \/ Logout(t) \/ FormLost(t)
  BY <1>0, <1>8 DEF Login, Logout, FormLost
<1>9. CASE AnswerLost(t) \/ TokenExpires(t) \/ EventTooLate(t)
  BY <1>0, <1>9 DEF AnswerLost, TokenExpires, EventTooLate
<1> QED
  BY <1>1, <1>2, <1>3, <1>4, <1>5, <1>6, <1>7, <1>8, <1>9 DEF TabStep

\* A step of a tab keeps the types of the rows and the cookie.
LEMMA ServerTypesStep ==
    ASSUME TabShape, NEW t \in Tabs, TabStep(t)
    PROVE  ServerTypes'
<1>0. ServerTypes /\ wire[t].set \in SUBSET Secret /\ wire[t].ck \in Secret /\ form[t].set \in SUBSET Secret
  BY DEF TabShape, TabTypes, WireTypes, FormTypes
<1>1. CASE rows' = rows /\ cookie' = cookie
  BY <1>0, <1>1 DEF ServerTypes
<1>2. CASE HandleRefresh(t)
  BY <1>0, <1>2, RefreshFacts DEF HandleRefresh, ServerTypes
<1>3. CASE AnswerArrives(t)
  BY <1>0, <1>3, StoreTypes DEF AnswerArrives, ServerTypes
<1>4. CASE LoginArrives(t) \/ LogoutArrives(t)
  BY <1>0, <1>4, StoreTypes DEF LoginArrives, LogoutArrives, ServerTypes
<1>5. CASE Login(t, TRUE) \/ Login(t, FALSE)
  <2>1. /\ cookie' = cookie
        /\ rows' = [s \in SidSet |-> rows'[s]]
        /\ \A s \in SidSet : \/ rows'[s] = [st |-> "active", gen |-> 0, grace |-> FALSE]
                              \/ rows'[s] = [st |-> "gone", gen |-> rows[s].gen, grace |-> rows[s].grace]
                              \/ rows'[s] = rows[s]
    BY <1>5 DEF Login, Ending
  <2>2. ASSUME NEW s \in SidSet
        PROVE  rows'[s] \in [st : {"absent", "active", "revoked", "gone"}, gen : Nat, grace : BOOLEAN]
    <3>1. rows[s] \in [st : {"absent", "active", "revoked", "gone"}, gen : Nat, grace : BOOLEAN]
      BY <1>0 DEF ServerTypes
    <3>2. CASE rows'[s] = [st |-> "active", gen |-> 0, grace |-> FALSE]
      BY <3>2
    <3>3. CASE rows'[s] = [st |-> "gone", gen |-> rows[s].gen, grace |-> rows[s].grace]
      BY <3>1, <3>3
    <3> QED
      BY <2>1, <3>1, <3>2, <3>3
  <2>3. rows' \in [SidSet -> [st : {"absent", "active", "revoked", "gone"}, gen : Nat, grace : BOOLEAN]]
    BY <2>1, <2>2
  <2> QED
    BY <1>0, <2>1, <2>3 DEF ServerTypes
<1>6. CASE Logout(t)
  BY <1>0, <1>6 DEF Logout, ServerTypes, Ending
<1>7. CASE StartRefresh(t) \/ LateRefusal(t) \/ TakeLock(t) \/ MismatchArrives(t) \/ RecoverLogout(t) \/ LogoutRecovered(t)
  BY <1>1, <1>7 DEF StartRefresh, LateRefusal, TakeLock, MismatchArrives, RecoverLogout, LogoutRecovered
<1>8. CASE EventArrives(t) \/ AnswerLost(t) \/ FormLost(t) \/ Reload(t) \/ TokenExpires(t) \/ EventTooLate(t)
  BY <1>1, <1>8 DEF EventArrives, AnswerLost, FormLost, Reload, TokenExpires, EventTooLate
<1> QED
  BY <1>2, <1>3, <1>4, <1>5, <1>6, <1>7, <1>8 DEF TabStep

\* A step of a tab keeps the types of the promises.
LEMMA PromiseTypesStep ==
    ASSUME TabShape, NEW t \in Tabs, TabStep(t)
    PROVE  PromiseTypes'
<1> USE DEF PromiseTypes, promise
<1>0. PromiseTypes
  BY DEF TabShape, TabTypes
<1>1. CASE StartRefresh(t) \/ LateRefusal(t) \/ RecoverLogout(t)
  BY <1>0, <1>1 DEF StartRefresh, LateRefusal, RecoverLogout, Begin
<1>2. CASE TakeLock(t) \/ MismatchArrives(t)
  BY <1>0, <1>2 DEF TakeLock, MismatchArrives, Send, Settle
<1>3. CASE AnswerArrives(t)
  BY <1>0, <1>3 DEF AnswerArrives, Supersede, Settle
<1>4. CASE LoginArrives(t) \/ LogoutArrives(t) \/ LogoutRecovered(t)
  BY <1>0, <1>4 DEF LoginArrives, LogoutArrives, LogoutRecovered, SignOut, Supersede
<1>5. CASE EventArrives(t) \/ Reload(t) \/ AnswerLost(t)
  BY <1>0, <1>5 DEF EventArrives, Reload, AnswerLost, Unload, Supersede, Settle
<1>6. CASE HandleRefresh(t) \/ Login(t, TRUE) \/ Login(t, FALSE) \/ Logout(t) \/ FormLost(t) \/ TokenExpires(t) \/ EventTooLate(t)
  BY <1>0, <1>6 DEF HandleRefresh, Login, Logout, FormLost, TokenExpires, EventTooLate
<1> QED
  BY <1>1, <1>2, <1>3, <1>4, <1>5, <1>6 DEF TabStep

\* While a session may still be issued, the next one is an absent one.
LEMMA FirstFree ==
    ASSUME \E s \in SidSet : rows[s].st = "absent"
    PROVE  NextSid \in SidSet /\ rows[NextSid].st = "absent"
<1> DEFINE Free == {s \in SidSet : rows[s].st = "absent"}
<1>1. Free \in SUBSET Nat /\ Free # {}
  BY DEF SidSet
<1>2. \E s \in Free : \A q \in Free : s <= q
  BY ONLY <1>1, LeastExists
<1>3. \E s \in SidSet : rows[s].st = "absent" /\ \A q \in SidSet : rows[q].st = "absent" => s <= q
  BY <1>2
<1> QED
  BY <1>3 DEF NextSid

\* A refresh of t is sent with the cookie, when no other is on the wire.
SendsRefresh(t) ==
    /\ \E e \in SidSet \cup {None} :
         wire' = [wire EXCEPT ![t] = [st |-> "up", ck |-> cookie, exp |-> e, ans |-> "none", set |-> {}]]
    /\ stage' = [stage EXCEPT ![t] = "sent"] /\ stage[t] # "none"
    /\ \A u \in Tabs : wire[u].st = "none" \/ (u = t /\ wire[u].ans = "mismatch")
    /\ crossed' = (crossed \/ FormsOnWire # {})
    /\ UNCHANGED <<rows, cookie, current, locks, form, orphans, left, lost, replayed>>

\* The refresh of t is over: its answer arrived, or it is lost.
EndsRefresh(t) ==
    /\ \/ AnswerArrives(t)
       \/ /\ cookie' = cookie
          /\ wire[t].st = "down" /\ wire[t].ck # None => wire[t].ck.sid \in lost'
    /\ wire' = [wire EXCEPT ![t] = Quiet]
    /\ stage' = [stage EXCEPT ![t] = "none"]
    /\ UNCHANGED <<rows, crossed, replayed>>

\* The holder of the lock is the only tab with a refresh on the wire.
LEMMA OneOnWire ==
    ASSUME TabShape, NEW t \in Tabs, NEW u \in Tabs, wire[t].st # "none", wire[u].st # "none"
    PROVE  t = u
  BY DEF TabShape, TabTypes, WireTypes, LockOK

\* What a step of a tab does to the refreshes on the wire.
LEMMA WireMoves ==
    ASSUME TabShape, NEW t \in Tabs, TabStep(t)
    PROVE  \/ SendsRefresh(t)
           \/ HandleRefresh(t)
           \/ EndsRefresh(t)
           \/ /\ wire' = wire /\ orphans' = orphans /\ lost' = lost /\ replayed' = replayed
              /\ \A u \in Tabs : stage'[u] = "sent" <=> stage[u] = "sent"
<1> USE DEF page, promise, tabHistory
<1>0. PromiseTypes /\ session[t] \in SidSet \cup {None} /\ WireTypes /\ LockOK
  BY DEF TabShape, TabTypes, PageTypes
<1>1. CASE StartRefresh(t) \/ LateRefusal(t) \/ RecoverLogout(t)
  BY <1>0, <1>1 DEF StartRefresh, LateRefusal, RecoverLogout, Begin, PromiseTypes
<1>2. CASE TakeLock(t)
  <2>1. CASE current[t] /\ Send(t, session[t])
    <3>1. ASSUME NEW u \in Tabs PROVE wire[u].st = "none"
      <4>1. CASE u = t
        BY <1>0, <1>2, <4>1 DEF TakeLock, WireTypes
      <4>2. CASE u # t
        BY <1>0, <1>2, <4>2 DEF TakeLock, WireTypes, LockOK
      <4> QED
        BY <4>1, <4>2
    <3> QED
      BY <1>0, <1>2, <2>1, <3>1 DEF TakeLock, Send, SendsRefresh
  <2>2. CASE ~current[t] /\ Settle(t, "transient") /\ UNCHANGED <<wire, crossed>>
    BY <1>0, <1>2, <2>2 DEF TakeLock, Settle, PromiseTypes
  <2> QED
    BY <1>2, <2>1, <2>2 DEF TakeLock
<1>3. CASE MismatchArrives(t)
  <2>1. stage[t] = "sent"
    BY <1>0, <1>3 DEF MismatchArrives, WireTypes
  <2>2. ASSUME NEW u \in Tabs PROVE wire[u].st = "none" \/ (u = t /\ wire[u].ans = "mismatch")
    BY <1>3, OneOnWire DEF MismatchArrives
  <2> QED
    BY <1>0, <1>3, <2>1, <2>2 DEF MismatchArrives, Send, SendsRefresh
<1>4. CASE AnswerArrives(t)
  BY <1>0, <1>4 DEF AnswerArrives, Settle, EndsRefresh
<1>5. CASE LoginArrives(t) \/ LogoutArrives(t) \/ LogoutRecovered(t)
  BY <1>0, <1>5 DEF LoginArrives, LogoutArrives, LogoutRecovered
<1>6. CASE EventArrives(t)
  <2>1. CASE Unload(t)
    BY <1>0, <1>6, <2>1 DEF EventArrives, Unload, Settle, EndsRefresh
  <2>2. CASE UNCHANGED <<stage, wire, orphans, lost>>
    BY <1>6, <2>2 DEF EventArrives
  <2> QED
    BY <1>6, <2>1, <2>2 DEF EventArrives
<1>7. CASE Reload(t) \/ AnswerLost(t)
  BY <1>0, <1>7 DEF Reload, AnswerLost, Unload, Settle, EndsRefresh
<1>8. CASE Login(t, TRUE) \/ Login(t, FALSE) \/ Logout(t) \/ FormLost(t) \/ TokenExpires(t) \/ EventTooLate(t)
  BY <1>8 DEF Login, Logout, FormLost, TokenExpires, EventTooLate
<1> QED
  BY <1>1, <1>2, <1>3, <1>4, <1>5, <1>6, <1>7, <1>8 DEF TabStep

\* What the wire carries keeps its types, and an answer the shape of its kind.
LEMMA WireTypesStep ==
    ASSUME TabShape, NEW t \in Tabs, TabStep(t)
    PROVE  WireTypes' /\ \A u \in Tabs : Answered(u)'
<1>0. /\ ServerTypes /\ WireTypes /\ wire[t].ck \in Secret /\ wire[t].exp \in SidSet \cup {None} /\ cookie \in Secret
      /\ \A u \in Tabs : Answered(u)
      /\ PromiseTypes
  BY DEF TabShape, TabTypes, WireTypes, ServerTypes
<1>1. CASE SendsRefresh(t)
  BY <1>0, <1>1 DEF SendsRefresh, WireTypes, Answered, PromiseTypes
<1>2. CASE HandleRefresh(t)
  <2>1. /\ wire' = [wire EXCEPT ![t] = [st |-> "down", ck |-> wire[t].ck, exp |-> wire[t].exp,
                       ans |-> Answer(wire[t].ck, wire[t].exp).ans, set |-> Answer(wire[t].ck, wire[t].exp).set]]
        /\ wire[t].st = "up" /\ stage' = stage
    BY <1>2 DEF HandleRefresh, promise
  <2>2. PICK a, k : a = Answer(wire[t].ck, wire[t].exp).ans /\ k = Answer(wire[t].ck, wire[t].exp).set
    OBVIOUS
  <2>3. /\ a \in {"ok", "denied", "mismatch"} /\ k \in SUBSET Secret
        /\ a = "ok" => wire[t].ck # None /\ k = {[sid |-> wire[t].ck.sid, gen |-> wire[t].ck.gen + 1]}
        /\ a = "denied" => k = {None}
        /\ a = "mismatch" => k = {}
    BY <1>0, <2>2, AnswerFacts
  <2>4. wire' = [wire EXCEPT ![t] = [st |-> "down", ck |-> wire[t].ck, exp |-> wire[t].exp, ans |-> a, set |-> k]]
    BY <2>1, <2>2
  <2>5. WireTypes'
    BY <1>0, <2>1, <2>3, <2>4 DEF WireTypes
  <2>6. ASSUME NEW u \in Tabs PROVE Answered(u)'
    BY <1>0, <2>3, <2>4 DEF WireTypes, Answered
  <2> QED
    BY <2>5, <2>6
<1>3. CASE EndsRefresh(t)
  BY <1>0, <1>3, TabsAssumption DEF EndsRefresh, WireTypes, Answered, PromiseTypes, Quiet, Secret
<1>4. CASE wire' = wire /\ \A u \in Tabs : stage'[u] = "sent" <=> stage[u] = "sent"
  BY <1>0, <1>4 DEF WireTypes, Answered
<1> QED
  BY <1>1, <1>2, <1>3, <1>4, WireMoves

\* What a step of a tab does to its form.
LEMMA FormTypesStep ==
    ASSUME TabShape, NEW t \in Tabs, TabStep(t)
    PROVE  FormTypes' /\ \A u \in Tabs : FormOK(u)'
<1> USE DEF FormTypes, FormOK
<1>0. FormTypes /\ \A u \in Tabs : FormOK(u)
  BY DEF TabShape, TabTypes
<1>1. CASE form' = form
  BY <1>0, <1>1
<1>2. CASE \E st \in {"none", "recover", "recovering", "recovered"} : form' = [form EXCEPT ![t] = Waiting(st)]
  BY <1>0, <1>2 DEF Waiting
<1>3. CASE LoginArrives(t) \/ LogoutArrives(t) \/ LogoutRecovered(t) \/ RecoverLogout(t) \/ FormLost(t)
  BY <1>1, <1>2, <1>3 DEF LoginArrives, LogoutArrives, LogoutRecovered, RecoverLogout, FormLost, NoForm
<1>4. CASE EventArrives(t) \/ Reload(t)
  BY <1>1, <1>2, <1>4 DEF EventArrives, Reload, Unload, NoForm
<1>5. CASE Login(t, TRUE) \/ Login(t, FALSE)
  <2>1. PICK n : n = NextSid
    OBVIOUS
  <2>2. n \in SidSet
    BY <1>5, <2>1, FirstFree DEF Login
  <2>3. [sid |-> n, gen |-> 0] \in Secret
    BY <2>2, SecretNext
  <2>4. form' = [form EXCEPT ![t] = [st |-> "login", first |-> TRUE, ans |-> "none", set |-> {[sid |-> n, gen |-> 0]}]]
    BY <1>5, <2>1 DEF Login
  <2> QED
    BY <1>0, <2>2, <2>3, <2>4
<1>6. CASE Logout(t)
  <2>1. PICK a \in {"ok", "mismatch"}, k \in {{}, {None}}, b \in BOOLEAN :
          form' = [form EXCEPT ![t] = [st |-> "logout", first |-> b, ans |-> a, set |-> k]]
    BY <1>6 DEF Logout, Keep, Clear
  <2> QED
    BY <1>0, <2>1 DEF Secret
<1>7. CASE StartRefresh(t) \/ LateRefusal(t) \/ TakeLock(t) \/ HandleRefresh(t) \/ AnswerArrives(t)
  BY <1>1, <1>7 DEF StartRefresh, LateRefusal, TakeLock, HandleRefresh, AnswerArrives
<1>8. CASE MismatchArrives(t) \/ AnswerLost(t) \/ TokenExpires(t) \/ EventTooLate(t)
  BY <1>1, <1>8 DEF MismatchArrives, AnswerLost, TokenExpires, EventTooLate
<1> QED
  BY <1>3, <1>4, <1>5, <1>6, <1>7, <1>8 DEF TabStep

\* What is posted to the other tabs is an event.
LEMMA PostTypes ==
    ASSUME ChanTypes, NEW t \in Tabs, NEW kind \in {"authenticated", "signed_out"}, NEW s \in SidSet, Post(t, kind, s)
    PROVE  ChanTypes'
<1>1. PICK e : e = [kind |-> kind, sid |-> s]
  OBVIOUS
<1>2. e \in Events
  BY <1>1 DEF Events
<1>3. chan' = [u \in Tabs |-> IF u = t THEN chan[u] ELSE Append(chan[u], e)]
  BY <1>1 DEF Post
<1> HIDE DEF Events
<1>4. ASSUME NEW u \in Tabs PROVE chan[u] \in Seq(Events) /\ Append(chan[u], e) \in Seq(Events)
  BY <1>2 DEF ChanTypes
<1> QED
  BY <1>3, <1>4 DEF ChanTypes

\* A step of a tab keeps the types of the events.
LEMMA ChanTypesStep ==
    ASSUME TabShape, NEW t \in Tabs, TabStep(t)
    PROVE  ChanTypes'
<1>0. ChanTypes /\ chan[t] \in Seq(Events) /\ session[t] \in SidSet \cup {None}
  BY DEF TabShape, TabTypes, ChanTypes, PageTypes
<1>1. CASE chan' = chan
  BY <1>0, <1>1 DEF ChanTypes
<1>2. CASE session[t] # None /\ Post(t, "signed_out", session[t])
  BY <1>0, <1>2, PostTypes
<1>3. CASE AnswerArrives(t) \/ LogoutArrives(t) \/ LogoutRecovered(t)
  BY <1>1, <1>2, <1>3 DEF AnswerArrives, LogoutArrives, LogoutRecovered, SignOut
<1>4. CASE LoginArrives(t)
  <2>1. Given(form[t].set).sid \in SidSet
    BY <1>4, LoginGives DEF LoginArrives
  <2> QED
    BY <1>0, <1>1, <1>4, <2>1, PostTypes DEF LoginArrives
<1>5. CASE EventArrives(t) \/ EventTooLate(t) \/ Reload(t)
  <2>1. chan' = [chan EXCEPT ![t] = <<>>] \/ (chan[t] # <<>> /\ chan' = [chan EXCEPT ![t] = Tail(chan[t])])
    BY <1>0, <1>5 DEF EventArrives, EventTooLate, Reload, ChanTypes
  <2>2. <<>> \in Seq(Events) /\ (chan[t] # <<>> => Tail(chan[t]) \in Seq(Events))
    BY <1>0
  <2>3. \E q \in Seq(Events) : chan' = [chan EXCEPT ![t] = q]
    BY <2>1, <2>2
  <2> QED
    BY <1>0, <2>3 DEF ChanTypes
<1>6. CASE StartRefresh(t) \/ LateRefusal(t) \/ TakeLock(t) \/ HandleRefresh(t) \/ MismatchArrives(t) \/ RecoverLogout(t)
  BY <1>1, <1>6 DEF StartRefresh, LateRefusal, TakeLock, HandleRefresh, MismatchArrives, RecoverLogout
<1>7. CASE Login(t, TRUE) \/ Login(t, FALSE) \/ Logout(t) \/ AnswerLost(t) \/ FormLost(t) \/ TokenExpires(t)
  BY <1>1, <1>7 DEF Login, Logout, AnswerLost, FormLost, TokenExpires
<1> QED
  BY <1>3, <1>4, <1>5, <1>6, <1>7 DEF TabStep

\* A step of a tab keeps the types of the requests that outlive their page.
LEMMA OrphanTypesStep ==
    ASSUME TabShape, NEW t \in Tabs, TabStep(t)
    PROVE  OrphanTypes'
<1>0. OrphanTypes /\ wire[t].ck \in Secret /\ wire[t].exp \in SidSet \cup {None}
  BY DEF TabShape, TabTypes, WireTypes
<1>1. CASE orphans' = orphans
  BY <1>0, <1>1 DEF OrphanTypes
<1>2. CASE orphans' = orphans \cup {[ck |-> wire[t].ck, exp |-> wire[t].exp]}
  BY <1>0, <1>2 DEF OrphanTypes
<1>3. CASE EventArrives(t) \/ Reload(t)
  BY <1>1, <1>2, <1>3 DEF EventArrives, Reload, Unload
<1>4. CASE StartRefresh(t) \/ LateRefusal(t) \/ TakeLock(t) \/ HandleRefresh(t) \/ AnswerArrives(t) \/ MismatchArrives(t)
  BY <1>1, <1>4 DEF StartRefresh, LateRefusal, TakeLock, HandleRefresh, AnswerArrives, MismatchArrives
<1>5. CASE LoginArrives(t) \/ LogoutArrives(t) \/ RecoverLogout(t) \/ LogoutRecovered(t)
  BY <1>1, <1>5 DEF LoginArrives, LogoutArrives, RecoverLogout, LogoutRecovered
<1>6. CASE Login(t, TRUE) \/ Login(t, FALSE) \/ Logout(t) \/ AnswerLost(t) \/ FormLost(t) \/ TokenExpires(t) \/ EventTooLate(t)
  BY <1>1, <1>6 DEF Login, Logout, AnswerLost, FormLost, TokenExpires, EventTooLate
<1> QED
  BY <1>3, <1>4, <1>5, <1>6 DEF TabStep

\* A sign-out adds to what a tab has left only the session it was signed out of, if that is ended.
LEMMA LeftMoves ==
    ASSUME TabShape, NEW t \in Tabs, TabStep(t)
    PROVE  \/ left' = left
           \/ /\ left' = [left EXCEPT ![t] = @ \cup Ended(session[t])]
              /\ current' = [current EXCEPT ![t] = FALSE]
              /\ rows' = rows /\ wire' = wire /\ orphans' = orphans /\ session' = [session EXCEPT ![t] = None]
<1> USE DEF tabHistory
<1>1. CASE LogoutArrives(t) \/ LogoutRecovered(t)
  BY <1>1 DEF LogoutArrives, LogoutRecovered, SignOut, Supersede, Reset
<1>2. CASE EventArrives(t)
  BY <1>2 DEF EventArrives, Supersede, Reset
<1>3. CASE StartRefresh(t) \/ LateRefusal(t) \/ TakeLock(t) \/ HandleRefresh(t) \/ AnswerArrives(t) \/ MismatchArrives(t)
  BY <1>3 DEF StartRefresh, LateRefusal, TakeLock, HandleRefresh, AnswerArrives, MismatchArrives
<1>4. CASE LoginArrives(t) \/ RecoverLogout(t) \/ Login(t, TRUE) \/ Login(t, FALSE) \/ Logout(t)
  BY <1>4 DEF LoginArrives, RecoverLogout, Login, Logout
<1>5. CASE AnswerLost(t) \/ FormLost(t) \/ Reload(t) \/ TokenExpires(t) \/ EventTooLate(t)
  BY <1>5 DEF AnswerLost, FormLost, Reload, TokenExpires, EventTooLate
<1> QED
  BY <1>1, <1>2, <1>3, <1>4, <1>5 DEF TabStep

\* An event that comes too late adds to what a tab missed the session it keeps.
LEMMA MissedMoves ==
    ASSUME TabShape, NEW t \in Tabs, TabStep(t)
    PROVE  missed' = missed \/ missed' = [missed EXCEPT ![t] = @ \cup ({session[t]} \ {None})]
<1> USE DEF tabHistory
<1>1. CASE EventTooLate(t)
  BY <1>1 DEF EventTooLate
<1>2. CASE StartRefresh(t) \/ LateRefusal(t) \/ TakeLock(t) \/ HandleRefresh(t) \/ AnswerArrives(t) \/ MismatchArrives(t)
  BY <1>2 DEF StartRefresh, LateRefusal, TakeLock, HandleRefresh, AnswerArrives, MismatchArrives
<1>3. CASE LoginArrives(t) \/ LogoutArrives(t) \/ RecoverLogout(t) \/ LogoutRecovered(t) \/ EventArrives(t)
  BY <1>3 DEF LoginArrives, LogoutArrives, RecoverLogout, LogoutRecovered, EventArrives
<1>4. CASE Login(t, TRUE) \/ Login(t, FALSE) \/ Logout(t)
  BY <1>4 DEF Login, Logout
<1>5. CASE AnswerLost(t) \/ FormLost(t) \/ Reload(t) \/ TokenExpires(t)
  BY <1>5 DEF AnswerLost, FormLost, Reload, TokenExpires
<1> QED
  BY <1>1, <1>2, <1>3, <1>4, <1>5 DEF TabStep

\* A refresh whose answer is lost puts its session among the lost ones.
LEMMA LostMoves ==
    ASSUME TabShape, NEW t \in Tabs, TabStep(t)
    PROVE  \/ lost' = lost
           \/ wire[t].st = "down" /\ wire[t].ck # None /\ lost' = lost \cup {wire[t].ck.sid}
<1> USE DEF tabHistory
<1>1. CASE EventArrives(t) \/ Reload(t) \/ AnswerLost(t)
  BY <1>1 DEF EventArrives, Reload, AnswerLost, Unload
<1>2. CASE StartRefresh(t) \/ LateRefusal(t) \/ TakeLock(t) \/ HandleRefresh(t) \/ AnswerArrives(t) \/ MismatchArrives(t)
  BY <1>2 DEF StartRefresh, LateRefusal, TakeLock, HandleRefresh, AnswerArrives, MismatchArrives
<1>3. CASE LoginArrives(t) \/ LogoutArrives(t) \/ RecoverLogout(t) \/ LogoutRecovered(t)
  BY <1>3 DEF LoginArrives, LogoutArrives, RecoverLogout, LogoutRecovered
<1>4. CASE Login(t, TRUE) \/ Login(t, FALSE) \/ Logout(t) \/ FormLost(t) \/ TokenExpires(t) \/ EventTooLate(t)
  BY <1>4 DEF Login, Logout, FormLost, TokenExpires, EventTooLate
<1> QED
  BY <1>1, <1>2, <1>3, <1>4 DEF TabStep

\* Whether a form and a refresh were on the wire together is remembered.
LEMMA CrossedMoves ==
    ASSUME TabShape, NEW t \in Tabs, TabStep(t)
    PROVE  crossed' \in BOOLEAN /\ (crossed => crossed')
<1> USE DEF tabHistory
<1>0. crossed \in BOOLEAN
  BY DEF TabShape, TabTypes, HistoryTypes
<1>1. CASE StartRefresh(t) \/ LateRefusal(t) \/ TakeLock(t) \/ MismatchArrives(t) \/ RecoverLogout(t)
  BY <1>0, <1>1 DEF StartRefresh, LateRefusal, TakeLock, MismatchArrives, RecoverLogout, Begin, Send
<1>2. CASE Login(t, TRUE) \/ Login(t, FALSE) \/ Logout(t)
  BY <1>0, <1>2 DEF Login, Logout
<1>3. CASE HandleRefresh(t) \/ AnswerArrives(t) \/ LoginArrives(t) \/ LogoutArrives(t) \/ LogoutRecovered(t)
  BY <1>0, <1>3 DEF HandleRefresh, AnswerArrives, LoginArrives, LogoutArrives, LogoutRecovered
<1>4. CASE EventArrives(t) \/ AnswerLost(t) \/ FormLost(t) \/ Reload(t) \/ TokenExpires(t) \/ EventTooLate(t)
  BY <1>0, <1>4 DEF EventArrives, AnswerLost, FormLost, Reload, TokenExpires, EventTooLate
<1> QED
  BY <1>1, <1>2, <1>3, <1>4 DEF TabStep

\* A step of a tab that is not the server's keeps who was revoked for reuse.
LEMMA ReplayedMoves ==
    ASSUME TabShape, NEW t \in Tabs, TabStep(t)
    PROVE  replayed' = replayed \/ HandleRefresh(t)
<1>1. CASE StartRefresh(t) \/ LateRefusal(t) \/ TakeLock(t) \/ AnswerArrives(t) \/ MismatchArrives(t)
  BY <1>1 DEF StartRefresh, LateRefusal, TakeLock, AnswerArrives, MismatchArrives, tabHistory
<1>2. CASE LoginArrives(t) \/ LogoutArrives(t) \/ RecoverLogout(t) \/ LogoutRecovered(t) \/ EventArrives(t)
  BY <1>2 DEF LoginArrives, LogoutArrives, RecoverLogout, LogoutRecovered, EventArrives, tabHistory
<1>3. CASE Login(t, TRUE) \/ Login(t, FALSE) \/ Logout(t) \/ FormLost(t) \/ TokenExpires(t) \/ EventTooLate(t) \/ AnswerLost(t) \/ Reload(t)
  BY <1>3 DEF Login, Logout, FormLost, TokenExpires, EventTooLate, AnswerLost, Reload, tabHistory
<1> QED
  BY <1>1, <1>2, <1>3 DEF TabStep

\* A step of a tab keeps the types of the history.
LEMMA HistoryTypesStep ==
    ASSUME TabShape, NEW t \in Tabs, TabStep(t)
    PROVE  HistoryTypes'
<1>0. /\ HistoryTypes /\ ServerTypes /\ wire[t].ck \in Secret /\ session[t] \in SidSet \cup {None}
  BY DEF TabShape, TabTypes, WireTypes, PageTypes
<1>1. Ended(session[t]) \subseteq SidSet
  BY <1>0 DEF Ended
<1>2. left' \in [Tabs -> SUBSET SidSet]
  BY <1>0, <1>1, LeftMoves DEF HistoryTypes
<1>3. lost' \subseteq SidSet
  BY <1>0, LostMoves, SecretParts DEF HistoryTypes
<1>4. replayed' \subseteq SidSet
  BY <1>0, ReplayedMoves, RefreshFacts DEF HandleRefresh, HistoryTypes
<1>5. missed' \in [Tabs -> SUBSET SidSet]
  BY <1>0, MissedMoves DEF HistoryTypes
<1> QED
  BY <1>2, <1>3, <1>4, <1>5, CrossedMoves DEF HistoryTypes

\* A tab that begins a refresh goes to the end of the queue.
LEMMA QueueGrows ==
    ASSUME LockOK, PromiseTypes, NEW t \in Tabs, Begin(t)
    PROVE  LockOK'
<1>1. /\ locks \in Seq(Tabs) /\ locks' = Append(locks, t) /\ stage[t] = "none"
      /\ stage' = [stage EXCEPT ![t] = "queued"]
  BY DEF Begin, LockOK
<1>2. PICK n \in Nat : n = Len(locks)
  BY <1>1
<1>3. /\ locks' \in Seq(Tabs) /\ DOMAIN locks = 1..n /\ DOMAIN locks' = 1..(n + 1) /\ Len(locks') = n + 1
      /\ \A i \in 1..n : locks'[i] = locks[i]
      /\ locks'[n + 1] = t
  BY <1>1, <1>2
<1>4. \A i \in 1..n : locks[i] # t
  BY <1>1, <1>3 DEF LockOK
<1>5. ASSUME NEW i \in DOMAIN locks', NEW j \in DOMAIN locks', locks'[i] = locks'[j] PROVE i = j
  <2>1. (i \in 1..n \/ i = n + 1) /\ (j \in 1..n \/ j = n + 1)
    BY <1>2, <1>3
  <2> QED
    BY <1>3, <1>4, <1>5, <2>1 DEF LockOK
<1>6. ASSUME NEW u \in Tabs PROVE stage'[u] # "none" <=> \E i \in DOMAIN locks' : locks'[i] = u
  <2>1. CASE u = t
    BY <1>1, <1>2, <1>3, <2>1 DEF PromiseTypes
  <2>2. CASE u # t
    <3>1. stage'[u] = stage[u] /\ (stage[u] # "none" <=> \E i \in 1..n : locks[i] = u)
      BY <1>1, <1>3, <2>2 DEF PromiseTypes, LockOK
    <3>2. (\E i \in 1..(n + 1) : locks'[i] = u) <=> \E i \in 1..n : locks[i] = u
      BY <1>2, <1>3, <2>2
    <3> QED
      BY <1>3, <3>1, <3>2
  <2> QED
    BY <2>1, <2>2
<1>7. ASSUME NEW u \in Tabs, stage'[u] = "sent" PROVE Len(locks') > 0 /\ locks'[1] = u
  <2>1. stage[u] = "sent"
    BY <1>1, <1>7 DEF PromiseTypes
  <2>2. n > 0 /\ locks[1] = u
    BY <1>2, <2>1 DEF LockOK
  <2> QED
    BY <1>2, <1>3, <2>2
<1> QED
  BY <1>3, <1>5, <1>6, <1>7 DEF LockOK

\* A tab whose promise settles leaves the queue.
LEMMA QueueShrinks ==
    ASSUME LockOK, PromiseTypes, NEW t \in Tabs, stage' = [stage EXCEPT ![t] = "none"], locks' = Without(t)
    PROVE  LockOK'
<1>1. locks \in Seq(Tabs)
  BY DEF LockOK
<1>2. CASE ~\E i \in DOMAIN locks : locks[i] = t
  <2>1. locks' = locks /\ stage[t] = "none"
    BY <1>2 DEF Without, LockOK
  <2>2. stage' = stage
    BY <2>1 DEF PromiseTypes
  <2> QED
    BY <2>1, <2>2 DEF LockOK
<1>3. CASE \E i \in DOMAIN locks : locks[i] = t
  <2>1. PICK p : p = CHOOSE i \in DOMAIN locks : locks[i] = t
    OBVIOUS
  <2>2. p \in DOMAIN locks /\ locks[p] = t
    BY <1>3, <2>1
  <2>3. PICK n \in Nat : n = Len(locks)
    BY <1>1
  <2>4. DOMAIN locks = 1..n /\ p \in 1..n
    BY <1>1, <2>2, <2>3
  <2>5. locks' = [i \in 1..(n - 1) |-> locks[IF i < p THEN i ELSE i + 1]]
    BY <1>3, <2>1, <2>3 DEF Without
  <2>6. ASSUME NEW i \in 1..(n - 1)
        PROVE  /\ (IF i < p THEN i ELSE i + 1) \in 1..n /\ (IF i < p THEN i ELSE i + 1) # p
               /\ locks'[i] = locks[IF i < p THEN i ELSE i + 1]
    BY <2>3, <2>4, <2>5
  <2>7. ASSUME NEW q \in 1..n, q # p
        PROVE  \E i \in 1..(n - 1) : locks'[i] = locks[q]
    <3>1. CASE q < p
      <4>1. q \in 1..(n - 1)
        BY <2>3, <2>4, <3>1
      <4> QED
        BY <2>6, <3>1, <4>1
    <3>2. CASE q > p
      <4>1. q - 1 \in 1..(n - 1) /\ ~(q - 1 < p) /\ (q - 1) + 1 = q
        BY <2>3, <2>4, <3>2
      <4> QED
        BY <2>6, <4>1
    <3> QED
      BY <2>4, <2>7, <3>1, <3>2
  <2>8. n - 1 \in Nat
    BY <2>3, <2>4
  <2>9. ASSUME NEW i \in 1..(n - 1) PROVE locks[IF i < p THEN i ELSE i + 1] \in Tabs
    BY <1>1, <2>4, <2>6
  <2>10. locks' \in [1..(n - 1) -> Tabs]
    BY <2>5, <2>9
  <2>11. locks' \in Seq(Tabs) /\ Len(locks') = n - 1 /\ DOMAIN locks' = 1..(n - 1)
    BY <2>8, <2>10
  <2>12. ASSUME NEW i \in DOMAIN locks', NEW j \in DOMAIN locks', locks'[i] = locks'[j] PROVE i = j
    <3>1. i \in 1..(n - 1) /\ j \in 1..(n - 1)
      BY <2>11
    <3>2. PICK a, b : a = (IF i < p THEN i ELSE i + 1) /\ b = (IF j < p THEN j ELSE j + 1)
      OBVIOUS
    <3>3. a \in DOMAIN locks /\ b \in DOMAIN locks /\ locks[a] = locks[b]
      BY <2>4, <2>6, <2>12, <3>1, <3>2
    <3>4. a = b
      BY <3>3 DEF LockOK
    <3> QED
      BY <2>4, <2>8, <3>1, <3>2, <3>4
  <2>13. ASSUME NEW i \in 1..(n - 1) PROVE locks'[i] # t
    <3>1. PICK a : a = (IF i < p THEN i ELSE i + 1)
      OBVIOUS
    <3>2. a \in DOMAIN locks /\ a # p /\ locks'[i] = locks[a]
      BY <2>4, <2>6, <3>1
    <3>3. locks[a] # locks[p]
      BY <2>2, <3>2 DEF LockOK
    <3> QED
      BY <2>2, <3>2, <3>3
  <2>14. ASSUME NEW u \in Tabs PROVE stage'[u] # "none" <=> \E i \in DOMAIN locks' : locks'[i] = u
    <3>1. CASE u = t
      BY <2>11, <2>13, <3>1 DEF PromiseTypes
    <3>2. CASE u # t
      <4>1. stage'[u] = stage[u] /\ (stage[u] # "none" <=> \E i \in 1..n : locks[i] = u)
        BY <2>4, <3>2 DEF PromiseTypes, LockOK
      <4>2. (\E i \in 1..(n - 1) : locks'[i] = u) <=> \E i \in 1..n : locks[i] = u
        BY <2>2, <2>6, <2>7, <3>2
      <4> QED
        BY <2>11, <4>1, <4>2
    <3> QED
      BY <3>1, <3>2
  <2>15. ASSUME NEW u \in Tabs, stage'[u] = "sent" PROVE Len(locks') > 0 /\ locks'[1] = u
    <3>1. u # t /\ stage[u] = "sent"
      BY <2>15 DEF PromiseTypes
    <3>2. n > 0 /\ locks[1] = u
      BY <2>3, <3>1 DEF LockOK
    <3>3. p > 1 /\ n > 1
      BY <2>2, <2>4, <3>1, <3>2
    <3> QED
      BY <2>3, <2>6, <2>11, <3>2, <3>3
  <2> QED
    BY <2>11, <2>12, <2>14, <2>15 DEF LockOK
<1> QED
  BY <1>2, <1>3

\* A tab that holds the lock sends.
LEMMA QueueSends ==
    ASSUME LockOK, PromiseTypes, NEW t \in Tabs, stage' = [stage EXCEPT ![t] = "sent"], locks' = locks,
           stage[t] # "none", Head(locks) = t
    PROVE  LockOK'
<1>1. Len(locks) > 0 /\ locks[1] = t
  <2>1. \E i \in DOMAIN locks : locks[i] = t
    BY DEF LockOK
  <2> QED
    BY <2>1 DEF LockOK
<1>2. \A u \in Tabs : stage'[u] = IF u = t THEN "sent" ELSE stage[u]
  BY DEF PromiseTypes
<1> QED
  BY <1>1, <1>2 DEF LockOK

\* A step of a tab keeps the queue of the lock.
LEMMA LockStep ==
    ASSUME TabShape, NEW t \in Tabs, TabStep(t)
    PROVE  LockOK'
<1> USE DEF page, promise
<1>0. PromiseTypes /\ LockOK /\ WireTypes
  BY DEF TabShape, TabTypes
<1>1. CASE stage' = stage /\ locks' = locks
  BY <1>0, <1>1 DEF LockOK
<1>2. CASE \E kind : Settle(t, kind)
  BY <1>0, <1>2, QueueShrinks DEF Settle
<1>3. CASE Begin(t)
  BY <1>0, <1>3, QueueGrows
<1>4. CASE StartRefresh(t) \/ LateRefusal(t) \/ RecoverLogout(t)
  BY <1>1, <1>3, <1>4 DEF StartRefresh, LateRefusal, RecoverLogout
<1>5. CASE TakeLock(t)
  <2>1. CASE Send(t, session[t]) /\ UNCHANGED <<outcome, locks>>
    BY <1>0, <1>5, <2>1, QueueSends DEF TakeLock, Send
  <2> QED
    BY <1>2, <1>5, <2>1 DEF TakeLock
<1>6. CASE MismatchArrives(t)
  <2>1. stage[t] = "sent"
    BY <1>0, <1>6 DEF MismatchArrives, WireTypes
  <2>2. stage' = stage /\ locks' = locks
    BY <1>0, <1>6, <2>1 DEF MismatchArrives, Send, PromiseTypes
  <2> QED
    BY <1>1, <2>2
<1>7. CASE AnswerArrives(t) \/ AnswerLost(t) \/ Reload(t)
  BY <1>2, <1>7 DEF AnswerArrives, AnswerLost, Reload, Unload
<1>8. CASE EventArrives(t)
  BY <1>1, <1>2, <1>8 DEF EventArrives, Unload
<1>9. CASE LoginArrives(t) \/ LogoutArrives(t) \/ LogoutRecovered(t)
  BY <1>1, <1>9 DEF LoginArrives, LogoutArrives, LogoutRecovered
<1>10. CASE HandleRefresh(t) \/ Login(t, TRUE) \/ Login(t, FALSE) \/ Logout(t) \/ FormLost(t) \/ TokenExpires(t) \/ EventTooLate(t)
  BY <1>1, <1>10 DEF HandleRefresh, Login, Logout, FormLost, TokenExpires, EventTooLate
<1> QED
  BY <1>4, <1>5, <1>6, <1>7, <1>8, <1>9, <1>10 DEF TabStep

\* The steps of the server and of the clock, which no tab takes.
ServerStep ==
    \/ \E o \in orphans : HandleOrphan(o)
    \/ \E s \in SidSet : GraceEnds(s) \/ RevokedElsewhere(s)

\* What these steps do to the rows: a row may end or leave its replay window, and a
\* request that outlived its page is handled as any other.
LEMMA ServerMoves ==
    ASSUME TabShape, ServerStep
    PROVE  /\ rows' \in [SidSet -> [st : {"absent", "active", "revoked", "gone"}, gen : Nat, grace : BOOLEAN]]
           /\ \A s \in SidSet : (rows'[s].st = "absent" <=> rows[s].st = "absent") /\ (Alive(s)' => Alive(s))
           /\ UNCHANGED <<cookie, page, promise, wire, form, chan, missed, left, crossed>>
           /\ \/ /\ UNCHANGED <<orphans, lost, replayed>>
                 /\ \A s \in SidSet : rows'[s].gen = rows[s].gen
              \/ \E o \in orphans : HandleOrphan(o) /\ RefreshRow(o.ck, o.exp) /\ o.ck \in Secret
<1>0. ServerTypes /\ OrphanTypes
  BY DEF TabShape, TabTypes
<1>1. CASE \E o \in orphans : HandleOrphan(o)
  <2>1. PICK o \in orphans : HandleOrphan(o)
    BY <1>1
  <2>2. o.ck \in Secret /\ RefreshRow(o.ck, o.exp)
    BY <1>0, <2>1 DEF OrphanTypes, HandleOrphan
  <2>3. UNCHANGED <<cookie, page, promise, wire, form, chan, missed, left, crossed>>
    BY <2>1 DEF HandleOrphan
  <2> QED
    BY <1>0, <2>1, <2>2, <2>3, RefreshFacts
<1>2. CASE \E s \in SidSet : GraceEnds(s)
  BY <1>0, <1>2 DEF GraceEnds, ServerTypes, Alive, tabHistory
<1>3. CASE \E s \in SidSet : RevokedElsewhere(s)
  BY <1>0, <1>3 DEF RevokedElsewhere, ServerTypes, Alive, tabHistory, Ending
<1> QED
  BY <1>1, <1>2, <1>3 DEF ServerStep

\* Every step is one of a tab or one of these.
LEMMA StepSplit == TabNext <=> (\E t \in Tabs : TabStep(t)) \/ ServerStep
  BY DEF TabNext, ServerStep

\* The initial state has the shape.
LEMMA TabShapeInit == TabInit => TabShape
<1> SUFFICES ASSUME TabInit PROVE TabShape
  OBVIOUS
<1>1. 1 \in SidSet
  BY TabBounds DEF SidSet
<1>2. ServerTypes /\ PageTypes /\ PromiseTypes /\ HistoryTypes
  BY <1>1 DEF TabInit, ServerTypes, PageTypes, PromiseTypes, HistoryTypes, Secret
<1>3. WireTypes /\ \A t \in Tabs : Answered(t)
  BY DEF TabInit, WireTypes, Answered, Quiet, Secret
<1>4. FormTypes /\ \A t \in Tabs : FormOK(t)
  BY DEF TabInit, FormTypes, FormOK, NoForm, Waiting
<1>5. ChanTypes /\ OrphanTypes /\ LockOK
  BY DEF TabInit, ChanTypes, OrphanTypes, LockOK
<1> QED
  BY <1>2, <1>3, <1>4, <1>5 DEF TabShape, TabTypes

\* Every step keeps the shape.
LEMMA TabShapeStep == TabShape /\ [TabNext]_tabVars => TabShape'
<1> SUFFICES ASSUME TabShape, [TabNext]_tabVars PROVE TabShape'
  OBVIOUS
<1>1. ASSUME NEW t \in Tabs, TabStep(t) PROVE TabShape'
  <2>1. ServerTypes' /\ PageTypes' /\ PromiseTypes' /\ HistoryTypes'
    BY <1>1, ServerTypesStep, PageTypesStep, PromiseTypesStep, HistoryTypesStep
  <2>2. WireTypes' /\ (\A u \in Tabs : Answered(u)')
    BY <1>1, WireTypesStep
  <2>3. FormTypes' /\ (\A u \in Tabs : FormOK(u)')
    BY <1>1, FormTypesStep
  <2>4. ChanTypes' /\ OrphanTypes' /\ LockOK'
    BY <1>1, ChanTypesStep, OrphanTypesStep, LockStep
  <2> QED
    BY <2>1, <2>2, <2>3, <2>4 DEF TabShape, TabTypes
<1>2. CASE ServerStep
  <2>0. /\ ServerTypes /\ PageTypes /\ PromiseTypes /\ HistoryTypes /\ WireTypes /\ FormTypes
        /\ ChanTypes /\ OrphanTypes /\ LockOK /\ \A u \in Tabs : Answered(u) /\ FormOK(u)
    BY DEF TabShape, TabTypes
  <2>1. UNCHANGED <<cookie, page, promise, wire, form, chan, missed, left, crossed>>
    BY <1>2, ServerMoves
  <2>2. ServerTypes'
    BY <1>2, <2>0, <2>1, ServerMoves DEF ServerTypes
  <2>3. PageTypes' /\ PromiseTypes' /\ LockOK'
    BY <2>0, <2>1 DEF page, promise, PageTypes, PromiseTypes, LockOK
  <2>4. WireTypes' /\ FormTypes' /\ ChanTypes' /\ \A u \in Tabs : Answered(u)' /\ FormOK(u)'
    BY <2>0, <2>1 DEF promise, WireTypes, FormTypes, ChanTypes, Answered, FormOK
  <2>5. OrphanTypes' /\ HistoryTypes'
    <3>1. CASE UNCHANGED <<orphans, lost, replayed>>
      BY <2>0, <2>1, <3>1 DEF OrphanTypes, HistoryTypes
    <3>2. ASSUME NEW o \in orphans, HandleOrphan(o), RefreshRow(o.ck, o.exp), o.ck \in Secret
          PROVE  OrphanTypes' /\ HistoryTypes'
      <4>1. orphans' = orphans \ {o} /\ lost' \subseteq SidSet
        BY <2>0, <3>2, SecretParts DEF HandleOrphan, HistoryTypes
      <4>2. replayed' \subseteq SidSet
        BY <2>0, <3>2, RefreshFacts DEF HistoryTypes
      <4> QED
        BY <2>0, <2>1, <4>1, <4>2 DEF OrphanTypes, HistoryTypes
    <3> QED
      BY <1>2, <3>1, <3>2, ServerMoves
  <2> QED
    BY <2>2, <2>3, <2>4, <2>5 DEF TabShape, TabTypes
<1>3. CASE UNCHANGED tabVars
  <2>1. /\ UNCHANGED <<rows, cookie, page, promise, wire, form>> /\ UNCHANGED <<chan, orphans, tabHistory>>
    BY <1>3 DEF tabVars
  <2>2. /\ ServerTypes' /\ PageTypes' /\ PromiseTypes' /\ HistoryTypes' /\ LockOK'
    BY <2>1 DEF page, promise, tabHistory, TabShape, TabTypes, ServerTypes, PageTypes, PromiseTypes, HistoryTypes, LockOK
  <2>3. WireTypes' /\ FormTypes' /\ ChanTypes' /\ OrphanTypes' /\ \A u \in Tabs : Answered(u)' /\ FormOK(u)'
    BY <2>1 DEF promise, TabShape, TabTypes, WireTypes, FormTypes, ChanTypes, OrphanTypes, Answered, FormOK
  <2> QED
    BY <2>2, <2>3 DEF TabShape, TabTypes
<1> QED
  BY <1>1, <1>2, <1>3, StepSplit

-----------------------------------------------------------------------------
\* A row may end; it neither appears nor comes back, and keeps its generation.
RowsOnlyEnd ==
    \A s \in SidSet : /\ rows'[s].st = "absent" <=> rows[s].st = "absent"
                      /\ Alive(s)' => Alive(s)
                      /\ rows'[s].gen = rows[s].gen

\* A login of t issues session n.
Issues(t, n) ==
    /\ rows[n].st = "absent" /\ rows'[n] = [st |-> "active", gen |-> 0, grace |-> FALSE]
    /\ \A s \in SidSet \ {n} : /\ rows'[s].st = "absent" <=> rows[s].st = "absent"
                               /\ Alive(s)' => Alive(s)
                               /\ rows'[s].gen = rows[s].gen
    /\ form' = [form EXCEPT ![t] = [st |-> "login", first |-> TRUE, ans |-> "none", set |-> {[sid |-> n, gen |-> 0]}]]
    /\ UNCHANGED <<cookie, page, promise, wire, chan, orphans, left, lost, replayed>>
    /\ session[t] = None
    /\ crossed' = (crossed \/ RefreshesOnWire # {} \/ orphans # {} \/ FormsOnWire # {})

\* A login issues the next session.
LEMMA LoginIssues ==
    ASSUME TabShape, NEW t \in Tabs, Login(t, TRUE) \/ Login(t, FALSE)
    PROVE  \E n \in SidSet : Issues(t, n)
<1>1. PICK n : n = NextSid
  OBVIOUS
<1>2. n \in SidSet /\ rows[n].st = "absent"
  BY <1>1, FirstFree DEF Login
<1>3. /\ rows'[n] = [st |-> "active", gen |-> 0, grace |-> FALSE]
      /\ \A s \in SidSet \ {n} : rows'[s] = rows[s] \/ (Alive(s) /\ rows'[s] = [st |-> "gone", gen |-> rows[s].gen, grace |-> rows[s].grace])
  BY <1>1, <1>2 DEF Login, Ending
<1>4. ASSUME NEW s \in SidSet \ {n}
      PROVE  (rows'[s].st = "absent" <=> rows[s].st = "absent") /\ (Alive(s)' => Alive(s)) /\ rows'[s].gen = rows[s].gen
  <2>1. CASE rows'[s] = rows[s]
    BY <2>1 DEF Alive
  <2>2. CASE Alive(s) /\ rows'[s] = [st |-> "gone", gen |-> rows[s].gen, grace |-> rows[s].grace]
    BY <2>2 DEF Alive
  <2> QED
    BY <1>3, <2>1, <2>2
<1>5. /\ form' = [form EXCEPT ![t] = [st |-> "login", first |-> TRUE, ans |-> "none", set |-> {[sid |-> n, gen |-> 0]}]]
      /\ UNCHANGED <<cookie, page, promise, wire, chan, orphans, left, lost, replayed>>
      /\ session[t] = None
      /\ crossed' = (crossed \/ RefreshesOnWire # {} \/ orphans # {} \/ FormsOnWire # {})
  BY <1>1 DEF Login
<1> QED
  BY <1>2, <1>3, <1>4, <1>5 DEF Issues

\* What a step of a tab does to the rows.
LEMMA RowMoves ==
    ASSUME TabShape, NEW t \in Tabs, TabStep(t)
    PROVE  RowsOnlyEnd \/ HandleRefresh(t) \/ \E n \in SidSet : Issues(t, n)
<1>1. CASE rows' = rows
  BY <1>1 DEF RowsOnlyEnd, Alive
<1>2. CASE Logout(t)
  <2>1. \A s \in SidSet : rows'[s] = rows[s] \/ (Alive(s) /\ rows'[s] = [st |-> "revoked", gen |-> rows[s].gen, grace |-> rows[s].grace])
    BY <1>2 DEF Logout, Ending
  <2>2. ASSUME NEW s \in SidSet
        PROVE  (rows'[s].st = "absent" <=> rows[s].st = "absent") /\ (Alive(s)' => Alive(s)) /\ rows'[s].gen = rows[s].gen
    <3>1. CASE rows'[s] = rows[s]
      BY <3>1 DEF Alive
    <3>2. CASE Alive(s) /\ rows'[s] = [st |-> "revoked", gen |-> rows[s].gen, grace |-> rows[s].grace]
      BY <3>2 DEF Alive
    <3> QED
      BY <2>1, <3>1, <3>2
  <2> QED
    BY <2>2 DEF RowsOnlyEnd
<1>3. CASE Login(t, TRUE) \/ Login(t, FALSE)
  BY <1>3, LoginIssues
<1>4. CASE StartRefresh(t) \/ LateRefusal(t) \/ TakeLock(t) \/ AnswerArrives(t) \/ MismatchArrives(t)
  BY <1>1, <1>4 DEF StartRefresh, LateRefusal, TakeLock, AnswerArrives, MismatchArrives
<1>5. CASE LoginArrives(t) \/ LogoutArrives(t) \/ RecoverLogout(t) \/ LogoutRecovered(t) \/ EventArrives(t)
  BY <1>1, <1>5 DEF LoginArrives, LogoutArrives, RecoverLogout, LogoutRecovered, EventArrives
<1>6. CASE AnswerLost(t) \/ FormLost(t) \/ Reload(t) \/ TokenExpires(t) \/ EventTooLate(t)
  BY <1>1, <1>6 DEF AnswerLost, FormLost, Reload, TokenExpires, EventTooLate
<1> QED
  BY <1>2, <1>3, <1>4, <1>5, <1>6 DEF TabStep

\* The form of t carries the first secret of s.
Offers(t, s) == form[t].st = "login" /\ form[t].set = {[sid |-> s, gen |-> 0]}

\* A tab adopts the session its login brought, and the cookie with it.
TakesOffer(t, s) ==
    /\ LoginArrives(t) /\ Offers(t, s)
    /\ cookie' = [sid |-> s, gen |-> 0]
    /\ form' = [form EXCEPT ![t] = NoForm]
    /\ \/ session[t] = None /\ session' = [session EXCEPT ![t] = s] /\ Post(t, "authenticated", s)
       \/ session[t] # None /\ session' = session /\ chan' = chan

\* The answer to a login delivers what the form carries.
LEMMA LoginDelivers ==
    ASSUME TabShape, NEW t \in Tabs, LoginArrives(t)
    PROVE  \E s \in SidSet : TakesOffer(t, s)
<1>1. PICK s \in SidSet : /\ form[t].set = {[sid |-> s, gen |-> 0]}
                          /\ Given(form[t].set) = [sid |-> s, gen |-> 0]
                          /\ Given(form[t].set).sid = s /\ form[t].set # {}
  BY LoginGives DEF LoginArrives
<1>2. cookie' = [sid |-> s, gen |-> 0]
  BY <1>1 DEF LoginArrives, Store, Keep
<1>3. \/ session[t] = None /\ session' = [session EXCEPT ![t] = s] /\ Post(t, "authenticated", s)
      \/ session[t] # None /\ session' = session /\ chan' = chan
  BY <1>1 DEF LoginArrives, Adopt, page
<1> QED
  BY <1>1, <1>2, <1>3 DEF TakesOffer, Offers, LoginArrives

\* The successor of the secret that was sent arrives.
TakesAnswer(t) ==
    /\ wire[t].st = "down" /\ wire[t].ans = "ok" /\ wire[t].ck # None /\ wire[t].ck.sid \in SidSet /\ wire[t].ck.gen \in Nat
    /\ cookie' = [sid |-> wire[t].ck.sid, gen |-> wire[t].ck.gen + 1]
    /\ \/ session' = session
       \/ current[t] /\ session' = [session EXCEPT ![t] = wire[t].ck.sid]
    /\ chan' = chan

\* What the answer to a refresh brings.
LEMMA AnswerDelivers ==
    ASSUME TabShape, NEW t \in Tabs, AnswerArrives(t)
    PROVE  /\ wire[t].st = "down"
           /\ \/ TakesAnswer(t)
              \/ /\ cookie' = None \/ (cookie' = cookie /\ wire[t].ans = "mismatch")
                 /\ session' = session \/ session' = [session EXCEPT ![t] = None]
<1>1. wire[t].st = "down" /\ wire[t].ans \in {"ok", "denied", "mismatch"}
  BY DEF AnswerArrives, TabShape, Answered
<1>2. CASE wire[t].ans = "ok"
  <2>1. /\ wire[t].ck # None /\ wire[t].ck.sid \in SidSet /\ wire[t].ck.gen \in Nat
        /\ Given(wire[t].set) = [sid |-> wire[t].ck.sid, gen |-> wire[t].ck.gen + 1]
        /\ Given(wire[t].set).sid = wire[t].ck.sid
        /\ wire[t].set # {}
    BY <1>1, <1>2, OkGives
  <2>2. cookie' = [sid |-> wire[t].ck.sid, gen |-> wire[t].ck.gen + 1]
    BY <2>1 DEF AnswerArrives, Store, Keep
  <2>3. /\ chan' = chan
        /\ session' = session \/ (current[t] /\ session' = [session EXCEPT ![t] = wire[t].ck.sid])
    BY <1>2, <2>1 DEF AnswerArrives, Adopt, page
  <2> QED
    BY <1>1, <1>2, <2>1, <2>2, <2>3 DEF TakesAnswer
<1>3. CASE wire[t].ans # "ok"
  <2>1. wire[t].set = {None} \/ (wire[t].set = {} /\ wire[t].ans = "mismatch")
    BY <1>1, <1>3 DEF TabShape, Answered
  <2>2. cookie' = None \/ (cookie' = cookie /\ wire[t].ans = "mismatch")
    BY <2>1, GivenOne DEF AnswerArrives, Store, Keep
  <2>3. session' = session \/ session' = [session EXCEPT ![t] = None]
    BY <1>3 DEF AnswerArrives, Reset, page
  <2> QED
    BY <1>1, <2>2, <2>3
<1> QED
  BY <1>2, <1>3

\* What a step of a tab does to the cookie and to the session of the tab.
LEMMA CookieMoves ==
    ASSUME TabShape, NEW t \in Tabs, TabStep(t)
    PROVE  \/ AnswerArrives(t)
           \/ \E s \in SidSet : TakesOffer(t, s)
           \/ /\ cookie' = cookie \/ (cookie' = None /\ t \in FormsOnWire)
              /\ session' = session \/ session' = [session EXCEPT ![t] = None]
<1> USE DEF page
<1>1. CASE LoginArrives(t)
  BY <1>1, LoginDelivers
<1>2. CASE LogoutArrives(t)
  <2>1. form[t].set \in {{}, {None}}
    BY <1>2 DEF LogoutArrives, TabShape, FormOK
  <2>2. cookie' = cookie \/ (cookie' = None /\ t \in FormsOnWire)
    BY <1>2, <2>1, GivenOne DEF LogoutArrives, Store, Keep, FormsOnWire
  <2>3. session' = session \/ session' = [session EXCEPT ![t] = None]
    BY <1>2 DEF LogoutArrives, SignOut, Reset
  <2> QED
    BY <2>2, <2>3
<1>3. CASE StartRefresh(t) \/ LateRefusal(t) \/ TakeLock(t) \/ HandleRefresh(t) \/ MismatchArrives(t) \/ RecoverLogout(t)
  BY <1>3 DEF StartRefresh, LateRefusal, TakeLock, HandleRefresh, MismatchArrives, RecoverLogout, Reset
<1>4. CASE LogoutRecovered(t) \/ EventArrives(t) \/ Reload(t)
  BY <1>4 DEF LogoutRecovered, EventArrives, Reload, SignOut, Reset, Unload
<1>5. CASE Login(t, TRUE) \/ Login(t, FALSE) \/ Logout(t) \/ AnswerLost(t) \/ FormLost(t) \/ TokenExpires(t) \/ EventTooLate(t)
  BY <1>5 DEF Login, Logout, AnswerLost, FormLost, TokenExpires, EventTooLate
<1> QED
  BY <1>1, <1>2, <1>3, <1>4, <1>5 DEF TabStep

\* What a step of a tab does to the forms.
LEMMA FormMoves ==
    ASSUME TabShape, NEW t \in Tabs, TabStep(t)
    PROVE  \/ form' = form
           \/ \E n \in SidSet : Issues(t, n)
           \/ /\ \A u \in Tabs \ {t} : form'[u] = form[u]
              /\ form'[t].st # "login" /\ (Logout(t) \/ form'[t].st # "logout")
<1>0. FormTypes
  BY DEF TabShape, TabTypes
<1>1. CASE \E st \in {"none", "recover", "recovering", "recovered"} : form' = [form EXCEPT ![t] = Waiting(st)]
  BY <1>0, <1>1 DEF Waiting, FormTypes
<1>2. CASE LoginArrives(t) \/ LogoutArrives(t) \/ LogoutRecovered(t) \/ RecoverLogout(t) \/ FormLost(t)
  BY <1>1, <1>2 DEF LoginArrives, LogoutArrives, LogoutRecovered, RecoverLogout, FormLost, NoForm
<1>3. CASE EventArrives(t) \/ Reload(t)
  BY <1>1, <1>3 DEF EventArrives, Reload, Unload, NoForm
<1>4. CASE Login(t, TRUE) \/ Login(t, FALSE)
  BY <1>4, LoginIssues
<1>5. CASE Logout(t)
  <2>1. PICK a, k, b : form' = [form EXCEPT ![t] = [st |-> "logout", first |-> b, ans |-> a, set |-> k]]
    BY <1>5 DEF Logout
  <2> QED
    BY <1>0, <1>5, <2>1 DEF FormTypes
<1>6. CASE StartRefresh(t) \/ LateRefusal(t) \/ TakeLock(t) \/ HandleRefresh(t) \/ AnswerArrives(t)
  BY <1>6 DEF StartRefresh, LateRefusal, TakeLock, HandleRefresh, AnswerArrives
<1>7. CASE MismatchArrives(t) \/ AnswerLost(t) \/ TokenExpires(t) \/ EventTooLate(t)
  BY <1>7 DEF MismatchArrives, AnswerLost, TokenExpires, EventTooLate
<1> QED
  BY <1>2, <1>3, <1>4, <1>5, <1>6, <1>7 DEF TabStep

\* A page that goes leaves at most its request behind.
LEMMA OrphanMoves ==
    ASSUME TabShape, NEW t \in Tabs, TabStep(t)
    PROVE  \/ orphans' = orphans
           \/ /\ wire[t].st = "up" /\ orphans' = orphans \cup {[ck |-> wire[t].ck, exp |-> wire[t].exp]}
              /\ cookie' = cookie
<1>1. CASE EventArrives(t) \/ Reload(t)
  BY <1>1 DEF EventArrives, Reload, Unload
<1>2. CASE StartRefresh(t) \/ LateRefusal(t) \/ TakeLock(t) \/ HandleRefresh(t) \/ AnswerArrives(t) \/ MismatchArrives(t)
  BY <1>2 DEF StartRefresh, LateRefusal, TakeLock, HandleRefresh, AnswerArrives, MismatchArrives
<1>3. CASE LoginArrives(t) \/ LogoutArrives(t) \/ RecoverLogout(t) \/ LogoutRecovered(t)
  BY <1>3 DEF LoginArrives, LogoutArrives, RecoverLogout, LogoutRecovered
<1>4. CASE Login(t, TRUE) \/ Login(t, FALSE) \/ Logout(t) \/ AnswerLost(t) \/ FormLost(t) \/ TokenExpires(t) \/ EventTooLate(t)
  BY <1>4 DEF Login, Logout, AnswerLost, FormLost, TokenExpires, EventTooLate
<1> QED
  BY <1>1, <1>2, <1>3, <1>4 DEF TabStep

Carries(c, s) == c # None /\ c.sid = s

\* The client has seen session s: the cookie, a page, its past or a request is of s.
Bears(s) ==
    \/ Carries(cookie, s)
    \/ \E u \in Tabs : session[u] = s \/ s \in left[u] \/ (wire[u].st # "none" /\ Carries(wire[u].ck, s))
    \/ \E o \in orphans : Carries(o.ck, s)

\* The client sees a session for the first time when the answer to its login arrives.
LEMMA BearsStep ==
    ASSUME TabShape, NEW t \in Tabs, TabStep(t), NEW s \in SidSet, Bears(s)'
    PROVE  Bears(s) \/ TakesOffer(t, s)
<1>0. PageTypes /\ WireTypes /\ HistoryTypes /\ s # None
  BY TabsAssumption DEF TabShape, TabTypes
<1>1. ASSUME Carries(cookie', s) PROVE Bears(s) \/ TakesOffer(t, s)
  <2>1. CASE cookie' = cookie
    BY <1>1, <2>1 DEF Bears
  <2>2. CASE cookie' = None
    BY <1>1, <2>2 DEF Carries
  <2>3. CASE TakesAnswer(t)
    BY <1>1, <2>3 DEF Bears, Carries, TakesAnswer
  <2>4. ASSUME NEW q \in SidSet, TakesOffer(t, q) PROVE TakesOffer(t, s)
    <3>1. q = s
      BY <1>1, <2>4 DEF Carries, TakesOffer
    <3> QED
      BY <2>4, <3>1
  <2> QED
    BY <2>1, <2>2, <2>3, <2>4, CookieMoves, AnswerDelivers
<1>2. ASSUME NEW u \in Tabs, session'[u] = s PROVE Bears(s) \/ TakesOffer(t, s)
  <2>1. CASE session' = session \/ session' = [session EXCEPT ![t] = None]
    BY <1>0, <1>2, <2>1 DEF Bears, PageTypes
  <2>2. CASE TakesAnswer(t)
    BY <1>0, <1>2, <2>2 DEF Bears, Carries, TakesAnswer, PageTypes
  <2>3. ASSUME NEW q \in SidSet, TakesOffer(t, q) PROVE Bears(s) \/ TakesOffer(t, s)
    <3>1. q = s \/ session[u] = s
      BY <1>0, <1>2, <2>3 DEF TakesOffer, PageTypes
    <3> QED
      BY <2>3, <3>1 DEF Bears
  <2> QED
    BY <2>1, <2>2, <2>3, CookieMoves, AnswerDelivers
<1>3. ASSUME NEW u \in Tabs, s \in left'[u] PROVE Bears(s)
  BY <1>0, <1>3, LeftMoves DEF Bears, Ended, HistoryTypes
<1>4. ASSUME NEW u \in Tabs, wire'[u].st # "none", Carries(wire'[u].ck, s) PROVE Bears(s)
  <2>1. CASE SendsRefresh(t)
    BY <1>0, <1>4, <2>1 DEF SendsRefresh, Bears, WireTypes
  <2>2. CASE HandleRefresh(t)
    BY <1>0, <1>4, <2>2 DEF HandleRefresh, Bears, WireTypes
  <2>3. CASE EndsRefresh(t)
    BY <1>0, <1>4, <2>3 DEF EndsRefresh, Bears, WireTypes, Quiet
  <2>4. CASE wire' = wire
    BY <1>4, <2>4 DEF Bears
  <2> QED
    BY <2>1, <2>2, <2>3, <2>4, WireMoves
<1>5. ASSUME NEW o \in orphans', Carries(o.ck, s) PROVE Bears(s)
  BY <1>5, OrphanMoves DEF Bears
<1> QED
  BY <1>1, <1>2, <1>3, <1>4, <1>5 DEF Bears, Carries

\* An offer is made by the login that issues the session.
LEMMA OffersStep ==
    ASSUME TabShape, NEW t \in Tabs, TabStep(t), NEW u \in Tabs, NEW s \in SidSet, Offers(u, s)'
    PROVE  Offers(u, s) \/ (u = t /\ Issues(t, s))
<1>0. FormTypes
  BY DEF TabShape, TabTypes
<1>1. CASE form' = form
  BY <1>1 DEF Offers
<1>2. ASSUME NEW n \in SidSet, Issues(t, n) PROVE Offers(u, s) \/ (u = t /\ Issues(t, s))
  <2>1. CASE u = t
    <3>1. {[sid |-> n, gen |-> 0]} = {[sid |-> s, gen |-> 0]}
      BY <1>0, <1>2, <2>1 DEF Issues, Offers, FormTypes
    <3>2. [sid |-> n, gen |-> 0] = [sid |-> s, gen |-> 0]
      BY <3>1
    <3>3. n = s
      BY <3>2
    <3> QED
      BY <1>2, <2>1, <3>3
  <2>2. CASE u # t
    BY <1>0, <1>2, <2>2 DEF Issues, Offers, FormTypes
  <2> QED
    BY <2>1, <2>2
<1>3. CASE (\A v \in Tabs \ {t} : form'[v] = form[v]) /\ form'[t].st # "login"
  BY <1>3 DEF Offers
<1> QED
  BY <1>1, <1>2, <1>3, FormMoves

\* What the client has seen or is about to see exists.
SidsKnown == \A s \in SidSet : Bears(s) \/ (\E t \in Tabs : Offers(t, s)) => rows[s].st # "absent"

\* A session that a login is bringing has never been refreshed, and nobody else has seen it.
OffersPrivate ==
    \A t \in Tabs, s \in SidSet :
        Offers(t, s) => rows[s].gen = 0 /\ ~Bears(s) /\ \A u \in Tabs : Offers(u, s) => u = t

\* The generation of a session moves only while the client bears it.
LEMMA GenMoves ==
    ASSUME TabShape, NEW t \in Tabs, TabStep(t), NEW s \in SidSet, rows[s].st # "absent"
    PROVE  rows'[s].st # "absent" /\ (Bears(s) \/ rows'[s].gen = rows[s].gen) /\ (Alive(s)' => Alive(s))
<1>1. CASE RowsOnlyEnd
  BY <1>1 DEF RowsOnlyEnd
<1>2. CASE HandleRefresh(t)
  <2>1. ServerTypes /\ wire[t].ck \in Secret
    BY DEF TabShape, TabTypes, WireTypes
  <2>2. /\ rows'[s].st # "absent" /\ (Alive(s)' => Alive(s))
        /\ rows'[s].gen = rows[s].gen \/ (wire[t].ck # None /\ s = wire[t].ck.sid)
    BY <1>2, <2>1, RefreshFacts DEF HandleRefresh
  <2> QED
    BY <1>2, <2>2 DEF HandleRefresh, Bears, Carries
<1>3. ASSUME NEW n \in SidSet, Issues(t, n)
      PROVE  rows'[s].st # "absent" /\ rows'[s].gen = rows[s].gen /\ (Alive(s)' => Alive(s))
  BY <1>3 DEF Issues
<1> QED
  BY <1>1, <1>2, <1>3, RowMoves

\* Both are kept by a step of a tab.
LEMMA KnownStep ==
    ASSUME TabShape, SidsKnown, OffersPrivate, NEW t \in Tabs, TabStep(t)
    PROVE  SidsKnown' /\ OffersPrivate'
<1>0. FormTypes
  BY DEF TabShape, TabTypes
<1>1. ASSUME NEW s \in SidSet, Bears(s)' PROVE rows[s].st # "absent"
  BY <1>1, BearsStep DEF SidsKnown, TakesOffer
<1>2. ASSUME NEW s \in SidSet, Bears(s)' \/ \E u \in Tabs : Offers(u, s)' PROVE rows'[s].st # "absent"
  <2>1. CASE rows[s].st # "absent"
    BY <2>1, GenMoves
  <2>2. CASE rows[s].st = "absent"
    <3>1. PICK u \in Tabs : Offers(u, s)'
      BY <1>1, <1>2, <2>2
    <3>2. Issues(t, s)
      BY <2>2, <3>1, OffersStep DEF SidsKnown
    <3> QED
      BY <3>2 DEF Issues
  <2> QED
    BY <2>1, <2>2
<1>3. ASSUME NEW u \in Tabs, NEW s \in SidSet, Offers(u, s)'
      PROVE  rows'[s].gen = 0 /\ ~Bears(s)' /\ \A v \in Tabs : Offers(v, s)' => v = u
  <2>1. CASE u = t /\ Issues(t, s)
    <3>1. rows'[s].gen = 0 /\ rows[s].st = "absent"
      BY <2>1 DEF Issues
    <3>2. ~Bears(s)'
      BY <1>1, <3>1
    <3>3. ASSUME NEW v \in Tabs, Offers(v, s)', v # t PROVE FALSE
      <4>1. Offers(v, s)
        BY <3>3, OffersStep
      <4> QED
        BY <3>1, <4>1 DEF SidsKnown
    <3> QED
      BY <2>1, <3>1, <3>2, <3>3
  <2>2. CASE Offers(u, s)
    <3>1. rows[s].st # "absent" /\ rows[s].gen = 0 /\ ~Bears(s) /\ \A v \in Tabs : Offers(v, s) => v = u
      BY <2>2 DEF SidsKnown, OffersPrivate
    <3>2. rows'[s].gen = 0
      BY <3>1, GenMoves
    <3>3. ~TakesOffer(t, s)
      <4>1. TakesOffer(t, s) => t = u /\ form'[t].st # "login"
        BY <1>0, <3>1 DEF TakesOffer, NoForm, Waiting, FormTypes
      <4> QED
        BY <1>3, <4>1 DEF Offers
    <3>4. ~Bears(s)'
      BY <3>1, <3>3, BearsStep
    <3>5. \A v \in Tabs : Offers(v, s)' => v = u
      BY <3>1, OffersStep DEF Issues
    <3> QED
      BY <3>2, <3>4, <3>5
  <2> QED
    BY <1>3, <2>1, <2>2, OffersStep
<1> QED
  BY <1>2, <1>3 DEF SidsKnown, OffersPrivate

\* They are kept by a step of the server.
LEMMA KnownServerStep ==
    ASSUME TabShape, SidsKnown, OffersPrivate, ServerStep
    PROVE  SidsKnown' /\ OffersPrivate'
<1>0. UNCHANGED <<cookie, session, wire, form, left>>
  BY ServerMoves DEF page
<1>1. orphans' \subseteq orphans
  BY ServerMoves DEF HandleOrphan
<1>2. ASSUME NEW s \in SidSet, Bears(s)' PROVE Bears(s)
  BY <1>0, <1>1, <1>2 DEF Bears
<1>3. ASSUME NEW s \in SidSet, NEW u \in Tabs PROVE Offers(u, s)' <=> Offers(u, s)
  BY <1>0 DEF Offers
<1>4. ASSUME NEW s \in SidSet PROVE rows'[s].gen = rows[s].gen \/ Bears(s)
  <2>1. ASSUME NEW o \in orphans, RefreshRow(o.ck, o.exp), o.ck \in Secret PROVE rows'[s].gen = rows[s].gen \/ Bears(s)
    <3>1. ServerTypes
      BY DEF TabShape, TabTypes
    <3>2. rows'[s].gen = rows[s].gen \/ (o.ck # None /\ s = o.ck.sid)
      BY <2>1, <3>1, RefreshFacts
    <3> QED
      BY <3>2 DEF Bears, Carries
  <2> QED
    BY <2>1, ServerMoves
<1>5. \A s \in SidSet : rows[s].st # "absent" => rows'[s].st # "absent"
  BY ServerMoves
<1> QED
  BY <1>2, <1>3, <1>4, <1>5 DEF SidsKnown, OffersPrivate

-----------------------------------------------------------------------------
(* Reuse of a spent secret.                                                 *)

\* Unless an answer of its session was lost, the cookie is the current secret, or
\* the answer with the current one is on its way to the tab that asked for it.
CookieFresh ==
    cookie # None /\ cookie.sid \notin lost =>
      \/ cookie.gen = rows[cookie.sid].gen
      \/ /\ cookie.gen + 1 = rows[cookie.sid].gen
         /\ \E t \in Tabs : wire[t].st = "down" /\ wire[t].ans = "ok" /\ wire[t].ck = cookie

\* A request carries the current secret, and an answer brings it.
WireFresh(t) ==
    wire[t].st # "none" /\ wire[t].ck # None /\ wire[t].ck.sid \notin lost =>
      /\ wire[t].st = "up" => wire[t].ck.gen = rows[wire[t].ck.sid].gen
      /\ wire[t].st = "down" /\ wire[t].ans = "ok" => wire[t].ck.gen + 1 = rows[wire[t].ck.sid].gen

SecretsFresh == CookieFresh /\ \A t \in Tabs : WireFresh(t)

\* A cookie while no answer with a new secret is on its way is the current one.
LEMMA CookieCurrent ==
    ASSUME CookieFresh, cookie # None, cookie.sid \notin lost,
           \A t \in Tabs : wire[t].st = "down" /\ wire[t].ans = "ok" => wire[t].ck # cookie
    PROVE  cookie.gen = rows[cookie.sid].gen
  BY DEF CookieFresh

\* Rows the client bears keep their generation in every step but the handling of a refresh.
LEMMA BorneKept ==
    ASSUME TabShape, SidsKnown, NEW t \in Tabs, TabStep(t), ~HandleRefresh(t), NEW s \in SidSet, Bears(s)
    PROVE  rows'[s].gen = rows[s].gen
<1>1. rows[s].st # "absent"
  BY DEF SidsKnown
<1> QED
  BY <1>1, RowMoves DEF RowsOnlyEnd, Issues

\* What is lost stays lost.
LEMMA LostGrows ==
    ASSUME TabShape, NEW t \in Tabs, TabStep(t)
    PROVE  lost \subseteq lost'
  BY LostMoves

\* The secrets stay fresh when a refresh is sent.
LEMMA FreshSends ==
    ASSUME TabShape, SecretsFresh, NEW t \in Tabs, TabStep(t), SendsRefresh(t)
    PROVE  SecretsFresh'
<1>0. WireTypes /\ CookieFresh
  BY DEF TabShape, TabTypes, SecretsFresh
<1>1. PICK e \in SidSet \cup {None} :
        wire' = [wire EXCEPT ![t] = [st |-> "up", ck |-> cookie, exp |-> e, ans |-> "none", set |-> {}]]
  BY DEF SendsRefresh
<1>2. /\ rows' = rows /\ cookie' = cookie /\ lost' = lost
      /\ \A u \in Tabs : wire[u].st = "none" \/ (u = t /\ wire[u].ans = "mismatch")
  BY DEF SendsRefresh
<1>3. cookie # None /\ cookie.sid \notin lost => cookie.gen = rows[cookie.sid].gen
  BY <1>0, <1>2, CookieCurrent
<1>4. CookieFresh'
  BY <1>2, <1>3 DEF CookieFresh
<1>5. ASSUME NEW u \in Tabs PROVE WireFresh(u)'
  <2>1. CASE u = t
    BY <1>0, <1>1, <1>2, <1>3, <2>1 DEF WireFresh, WireTypes
  <2>2. CASE u # t
    BY <1>0, <1>1, <1>2, <2>2 DEF WireFresh, WireTypes
  <2> QED
    BY <2>1, <2>2
<1> QED
  BY <1>4, <1>5 DEF SecretsFresh

\* They stay fresh when the server handles a refresh: the answer is then on its way.
LEMMA FreshHandles ==
    ASSUME TabShape, SecretsFresh, NEW t \in Tabs, HandleRefresh(t)
    PROVE  SecretsFresh'
<1>0. WireTypes /\ CookieFresh /\ ServerTypes /\ WireFresh(t) /\ wire[t].ck \in Secret /\ cookie \in Secret
  BY DEF TabShape, TabTypes, SecretsFresh, WireTypes, ServerTypes
<1>1. PICK ck, e, a, k : ck = wire[t].ck /\ e = wire[t].exp /\ a = Answer(ck, e).ans /\ k = Answer(ck, e).set
  OBVIOUS
<1>2. /\ wire[t].st = "up" /\ cookie' = cookie /\ lost' = lost /\ RefreshRow(ck, e)
      /\ wire' = [wire EXCEPT ![t] = [st |-> "down", ck |-> ck, exp |-> e, ans |-> a, set |-> k]]
  BY <1>1 DEF HandleRefresh
<1>3. \A u \in Tabs : u # t => wire[u].st = "none"
  BY <1>2, OneOnWire
<1>4. ASSUME NEW s \in SidSet
      PROVE  \/ rows'[s].gen = rows[s].gen
             \/ ck # None /\ s = ck.sid /\ ck.gen = rows[s].gen /\ rows'[s].gen = rows[s].gen + 1 /\ a = "ok"
  BY <1>0, <1>1, <1>2, RefreshFacts
<1>5. a = "ok" => ck # None
  BY <1>0, <1>1, AnswerFacts
<1>6. ASSUME NEW u \in Tabs PROVE WireFresh(u)'
  <2>1. CASE u = t
    <3>1. SUFFICES ASSUME ck # None, ck.sid \notin lost, a = "ok" PROVE ck.gen + 1 = rows'[ck.sid].gen
      BY <1>0, <1>2, <2>1 DEF WireFresh, WireTypes
    <3>2. ck.gen = rows[ck.sid].gen
      BY <1>0, <1>1, <1>2, <3>1 DEF WireFresh
    <3>3. ck \in Secret /\ Answer(ck, e).ans = "ok"
      BY <1>0, <1>1, <3>1
    <3>4. rows'[ck.sid].gen = ck.gen + 1
      BY <1>0, <1>2, <3>2, <3>3, RefreshFacts
    <3> QED
      BY <3>4
  <2>2. CASE u # t
    BY <1>0, <1>2, <1>3, <2>2 DEF WireFresh, WireTypes
  <2> QED
    BY <2>1, <2>2
<1>7. CookieFresh'
  <2>1. SUFFICES ASSUME cookie # None, cookie.sid \notin lost
                 PROVE  \/ cookie.gen = rows'[cookie.sid].gen
                        \/ /\ cookie.gen + 1 = rows'[cookie.sid].gen
                           /\ wire'[t].st = "down" /\ wire'[t].ans = "ok" /\ wire'[t].ck = cookie
    BY <1>2 DEF CookieFresh
  <2>2. cookie.gen = rows[cookie.sid].gen
    BY <1>0, <1>2, <1>3, <2>1, CookieCurrent
  <2>3. cookie.sid \in SidSet /\ cookie.gen \in Nat /\ cookie = [sid |-> cookie.sid, gen |-> cookie.gen]
    BY <1>0, <2>1, SecretParts
  <2>4. CASE rows'[cookie.sid].gen = rows[cookie.sid].gen
    BY <2>2, <2>4
  <2>5. CASE /\ ck # None /\ cookie.sid = ck.sid /\ ck.gen = rows[ck.sid].gen /\ a = "ok"
             /\ rows'[cookie.sid].gen = rows[cookie.sid].gen + 1
    <3>1. ck = [sid |-> ck.sid, gen |-> ck.gen]
      BY <1>0, <1>1, <2>5, SecretParts
    <3>2. ck = cookie
      BY <2>2, <2>3, <2>5, <3>1
    <3> QED
      BY <1>0, <1>2, <2>2, <2>3, <2>5, <3>2 DEF WireTypes
  <2> QED
    BY <1>4, <2>3, <2>4, <2>5
<1> QED
  BY <1>6, <1>7 DEF SecretsFresh

\* They stay fresh when a refresh is over: the cookie is the new secret, or the session counts as lost.
LEMMA FreshEnds ==
    ASSUME TabShape, SecretsFresh, NEW t \in Tabs, TabStep(t), EndsRefresh(t)
    PROVE  SecretsFresh'
<1>0. WireTypes /\ CookieFresh /\ WireFresh(t) /\ lost \subseteq lost'
  BY LostGrows DEF TabShape, TabTypes, SecretsFresh
<1>1. rows' = rows /\ wire' = [wire EXCEPT ![t] = Quiet]
  BY DEF EndsRefresh
<1>2. ASSUME NEW u \in Tabs PROVE WireFresh(u)'
  <2>1. CASE u = t
    BY <1>0, <1>1, <2>1 DEF WireFresh, WireTypes, Quiet
  <2>2. CASE u # t
    BY <1>0, <1>1, <2>2 DEF WireFresh, WireTypes, SecretsFresh
  <2> QED
    BY <2>1, <2>2
<1>3. ASSUME cookie' = cookie, cookie # None /\ cookie.sid \notin lost' => ~(wire[t].st = "down" /\ wire[t].ans = "ok" /\ wire[t].ck = cookie)
      PROVE  CookieFresh'
  <2>1. SUFFICES ASSUME cookie # None, cookie.sid \notin lost'
                 PROVE  \/ cookie.gen = rows[cookie.sid].gen
                        \/ /\ cookie.gen + 1 = rows[cookie.sid].gen
                           /\ \E u \in Tabs : wire'[u].st = "down" /\ wire'[u].ans = "ok" /\ wire'[u].ck = cookie
    BY <1>1, <1>3 DEF CookieFresh
  <2>2. \A u \in Tabs : u # t => wire'[u] = wire[u]
    BY <1>0, <1>1 DEF WireTypes
  <2> QED
    BY <1>0, <1>3, <2>1, <2>2 DEF CookieFresh
<1>4. ASSUME AnswerArrives(t) PROVE CookieFresh'
  <2>1. ASSUME TakesAnswer(t) PROVE CookieFresh'
    <3>1. /\ wire[t].st = "down" /\ wire[t].ans = "ok" /\ wire[t].ck # None /\ wire[t].ck.gen \in Nat
          /\ cookie' = [sid |-> wire[t].ck.sid, gen |-> wire[t].ck.gen + 1]
      BY <2>1 DEF TakesAnswer
    <3>2. cookie'.sid = wire[t].ck.sid /\ cookie'.gen = wire[t].ck.gen + 1
      BY <3>1
    <3>3. cookie'.sid \notin lost' => cookie'.gen = rows'[cookie'.sid].gen
      BY <1>0, <1>1, <3>1, <3>2 DEF WireFresh
    <3> QED
      BY <3>3 DEF CookieFresh
  <2>2. ASSUME cookie' = None PROVE CookieFresh'
    BY <2>2 DEF CookieFresh
  <2>3. ASSUME cookie' = cookie, wire[t].ans = "mismatch" PROVE CookieFresh'
    BY <1>3, <2>3
  <2> QED
    BY <1>4, <2>1, <2>2, <2>3, AnswerDelivers
<1>5. ASSUME cookie' = cookie, wire[t].st = "down" /\ wire[t].ck # None => wire[t].ck.sid \in lost'
      PROVE  CookieFresh'
  BY <1>3, <1>5
<1>6. CookieFresh'
  BY <1>4, <1>5 DEF EndsRefresh
<1> QED
  BY <1>2, <1>6 DEF SecretsFresh

\* They stay fresh when nothing on the wire moves: a login brings the only secret of its session.
LEMMA FreshRests ==
    ASSUME TabShape, SidsKnown, OffersPrivate, SecretsFresh, NEW t \in Tabs, TabStep(t),
           wire' = wire, lost' = lost, ~HandleRefresh(t), ~AnswerArrives(t)
    PROVE  SecretsFresh'
<1>0. WireTypes /\ ServerTypes
  BY DEF TabShape, TabTypes
<1>1. ASSUME NEW u \in Tabs PROVE WireFresh(u)'
  <2>1. CASE wire[u].st # "none" /\ wire[u].ck # None
    <3>1. wire[u].ck.sid \in SidSet
      BY <1>0, <2>1, SecretParts DEF WireTypes
    <3>2. rows'[wire[u].ck.sid].gen = rows[wire[u].ck.sid].gen
      BY <2>1, <3>1, BorneKept DEF Bears, Carries
    <3> QED
      BY <3>2 DEF WireFresh, SecretsFresh
  <2>2. CASE ~(wire[u].st # "none" /\ wire[u].ck # None)
    BY <2>2 DEF WireFresh
  <2> QED
    BY <2>1, <2>2
<1>2. ASSUME cookie' = None PROVE CookieFresh'
  BY <1>2 DEF CookieFresh
<1>3. ASSUME cookie' = cookie, cookie # None PROVE CookieFresh'
  <2>1. cookie.sid \in SidSet
    BY <1>0, <1>3, SecretParts DEF ServerTypes
  <2>2. rows'[cookie.sid].gen = rows[cookie.sid].gen
    BY <1>3, <2>1, BorneKept DEF Bears, Carries
  <2> QED
    BY <1>3, <2>2 DEF CookieFresh, SecretsFresh
<1>4. ASSUME NEW s \in SidSet, TakesOffer(t, s) PROVE CookieFresh'
  <2>1. cookie' = [sid |-> s, gen |-> 0] /\ rows' = rows
    BY <1>4 DEF TakesOffer, LoginArrives
  <2>2. rows[s].gen = 0
    BY <1>4 DEF TakesOffer, OffersPrivate
  <2>3. cookie'.sid = s /\ cookie'.gen = 0
    BY <2>1
  <2> QED
    BY <2>1, <2>2, <2>3 DEF CookieFresh
<1>5. CookieFresh'
  BY <1>2, <1>3, <1>4, CookieMoves
<1> QED
  BY <1>1, <1>5 DEF SecretsFresh

\* A step of a tab keeps the secrets fresh.
LEMMA FreshStep ==
    ASSUME TabShape, SidsKnown, OffersPrivate, SecretsFresh, NEW t \in Tabs, TabStep(t)
    PROVE  SecretsFresh'
<1>1. CASE SendsRefresh(t)
  BY <1>1, FreshSends
<1>2. CASE HandleRefresh(t)
  BY <1>2, FreshHandles
<1>3. CASE EndsRefresh(t)
  BY <1>3, FreshEnds
<1>4. CASE wire' = wire /\ lost' = lost /\ ~HandleRefresh(t) /\ ~EndsRefresh(t)
  <2>1. ~AnswerArrives(t)
    <3>1. AnswerArrives(t) => wire[t].st = "down" /\ wire'[t].st = "none"
      BY DEF AnswerArrives, Quiet, TabShape, TabTypes, WireTypes
    <3> QED
      BY <1>4, <3>1
  <2> QED
    BY <1>4, <2>1, FreshRests
<1> QED
  BY <1>1, <1>2, <1>3, <1>4, WireMoves

\* A step of the server does: a request that outlived its page makes its session count as lost.
LEMMA FreshServerStep ==
    ASSUME TabShape, SecretsFresh, ServerStep
    PROVE  SecretsFresh'
<1>0. UNCHANGED <<cookie, wire>> /\ ServerTypes /\ WireTypes
  BY ServerMoves DEF TabShape, TabTypes
<1>1. lost \subseteq lost' /\ \A s \in SidSet : rows'[s].gen = rows[s].gen \/ s \in lost'
  <2>1. ASSUME NEW o \in orphans, HandleOrphan(o), RefreshRow(o.ck, o.exp), o.ck \in Secret
        PROVE  lost \subseteq lost' /\ \A s \in SidSet : rows'[s].gen = rows[s].gen \/ s \in lost'
    <3>1. \A s \in SidSet : rows'[s].gen = rows[s].gen \/ (o.ck # None /\ s = o.ck.sid)
      BY <1>0, <2>1, RefreshFacts
    <3> QED
      BY <2>1, <3>1 DEF HandleOrphan
  <2> QED
    BY <2>1, ServerMoves
<1>2. CookieFresh'
  <2>1. cookie # None => cookie.sid \in SidSet
    BY <1>0, SecretParts DEF ServerTypes
  <2> QED
    BY <1>0, <1>1, <2>1 DEF CookieFresh, SecretsFresh
<1>3. ASSUME NEW u \in Tabs PROVE WireFresh(u)'
  <2>1. wire[u].ck # None => wire[u].ck.sid \in SidSet
    BY <1>0, SecretParts DEF WireTypes
  <2> QED
    BY <1>0, <1>1, <2>1 DEF WireFresh, SecretsFresh
<1> QED
  BY <1>2, <1>3 DEF SecretsFresh

\* A refresh the server handles revokes for reuse only a session with a lost answer.
LEMMA ReuseStep ==
    ASSUME TabShape, SecretsFresh, ReuseNeedsLoss, NEW t \in Tabs, TabStep(t)
    PROVE  ReuseNeedsLoss'
<1>0. ServerTypes /\ wire[t].ck \in Secret /\ lost \subseteq lost' /\ HistoryTypes' /\ WireFresh(t)
  BY LostGrows, HistoryTypesStep DEF TabShape, TabTypes, WireTypes, SecretsFresh
<1>1. CASE HandleRefresh(t)
  <2>1. ASSUME NEW s \in SidSet, s \in replayed' PROVE s \in lost'
    <3>1. wire[t].st = "up" /\ RefreshRow(wire[t].ck, wire[t].exp)
      BY <1>1 DEF HandleRefresh
    <3>2. s \in replayed \/ (wire[t].ck # None /\ s = wire[t].ck.sid /\ wire[t].ck.gen + 1 = rows[s].gen)
      BY <1>0, <2>1, <3>1, RefreshFacts
    <3>3. CASE wire[t].ck # None /\ s = wire[t].ck.sid /\ wire[t].ck.gen + 1 = rows[s].gen
      <4>1. wire[t].ck.gen \in Nat
        BY <1>0, <3>3, SecretParts
      <4>2. s \notin lost => wire[t].ck.gen = rows[s].gen
        BY <1>0, <3>1, <3>3 DEF WireFresh
      <4> QED
        BY <1>0, <3>3, <4>1, <4>2
    <3> QED
      BY <1>0, <3>2, <3>3 DEF ReuseNeedsLoss
  <2> QED
    BY <1>0, <2>1 DEF ReuseNeedsLoss, HistoryTypes
<1>2. CASE replayed' = replayed
  BY <1>0, <1>2 DEF ReuseNeedsLoss
<1> QED
  BY <1>1, <1>2, ReplayedMoves

\* So does one that outlived its page, and its session counts as lost.
LEMMA ReuseServerStep ==
    ASSUME TabShape, ReuseNeedsLoss, ServerStep
    PROVE  ReuseNeedsLoss'
<1>0. ServerTypes /\ HistoryTypes
  BY DEF TabShape, TabTypes
<1>1. ASSUME NEW o \in orphans, HandleOrphan(o), RefreshRow(o.ck, o.exp), o.ck \in Secret PROVE ReuseNeedsLoss'
  <2>1. replayed' \subseteq replayed \cup SidSet
    BY <1>0, <1>1, RefreshFacts
  <2>2. ASSUME NEW s \in SidSet, s \in replayed' PROVE s \in replayed \/ (o.ck # None /\ s = o.ck.sid)
    BY <1>0, <1>1, <2>2, RefreshFacts
  <2>3. replayed' \subseteq SidSet
    BY <1>0, <2>1 DEF HistoryTypes
  <2>4. lost \subseteq lost' /\ (o.ck # None => o.ck.sid \in lost')
    BY <1>1 DEF HandleOrphan
  <2> QED
    BY <2>2, <2>3, <2>4 DEF ReuseNeedsLoss
<1>2. CASE UNCHANGED <<lost, replayed>>
  BY <1>2 DEF ReuseNeedsLoss
<1> QED
  BY <1>1, <1>2, ServerMoves

-----------------------------------------------------------------------------
(* Signed out.                                                              *)

\* What a tab has left is ended, and no refresh the script will still listen to is
\* about to bring it back.
LeftEnded ==
    \A t \in Tabs : /\ \A s \in left[t] : ~Alive(s)
                    /\ current[t] /\ wire[t].st = "down" /\ wire[t].ans = "ok" => wire[t].ck.sid \notin left[t]

\* Only the start of a refresh makes the epoch of a tab its own.
LEMMA CurrentMoves ==
    ASSUME TabShape, NEW t \in Tabs, TabStep(t), NEW u \in Tabs, current'[u]
    PROVE  current[u] \/ (u = t /\ wire'[t].st = "none")
<1> USE DEF promise
<1>0. PromiseTypes /\ WireTypes /\ WireTypes'
  BY WireTypesStep DEF TabShape, TabTypes
<1>1. CASE Begin(t)
  BY <1>0, <1>1 DEF Begin, PromiseTypes, WireTypes
<1>2. CASE current' = current \/ current' = [current EXCEPT ![t] = FALSE]
  BY <1>0, <1>2 DEF PromiseTypes
<1>3. CASE StartRefresh(t) \/ LateRefusal(t) \/ RecoverLogout(t)
  BY <1>1, <1>2, <1>3 DEF StartRefresh, LateRefusal, RecoverLogout
<1>4. CASE TakeLock(t) \/ HandleRefresh(t) \/ MismatchArrives(t) \/ AnswerLost(t) \/ FormLost(t) \/ TokenExpires(t) \/ EventTooLate(t)
  BY <1>2, <1>4 DEF TakeLock, HandleRefresh, MismatchArrives, AnswerLost, FormLost, TokenExpires, EventTooLate
<1>5. CASE AnswerArrives(t) \/ LoginArrives(t) \/ LogoutArrives(t) \/ LogoutRecovered(t)
  BY <1>2, <1>5 DEF AnswerArrives, LoginArrives, LogoutArrives, LogoutRecovered, SignOut, Supersede
<1>6. CASE EventArrives(t) \/ Reload(t)
  BY <1>2, <1>6 DEF EventArrives, Reload, Unload, Supersede
<1>7. CASE Login(t, TRUE) \/ Login(t, FALSE) \/ Logout(t)
  BY <1>2, <1>7 DEF Login, Logout
<1> QED
  BY <1>3, <1>4, <1>5, <1>6, <1>7 DEF TabStep

\* An answer that brings a session is new only if the server gives it in this step, to a live session.
LEMMA AnswerMoves ==
    ASSUME TabShape, NEW t \in Tabs, TabStep(t), NEW u \in Tabs, wire'[u].st = "down", wire'[u].ans = "ok"
    PROVE  \/ wire[u] = wire'[u]
           \/ HandleRefresh(t) /\ Alive(wire'[u].ck.sid)
<1>0. WireTypes /\ ServerTypes
  BY DEF TabShape, TabTypes
<1>1. CASE SendsRefresh(t)
  BY <1>0, <1>1 DEF SendsRefresh, WireTypes
<1>2. CASE HandleRefresh(t)
  <2>1. CASE u = t
    <3>1. wire'[t].ck = wire[t].ck /\ wire'[t].ans = Answer(wire[t].ck, wire[t].exp).ans /\ wire[t].ck \in Secret
      BY <1>0, <1>2 DEF HandleRefresh, WireTypes
    <3> QED
      BY <1>0, <1>2, <2>1, <3>1, AnswerFacts
  <2>2. CASE u # t
    BY <1>0, <1>2, <2>2 DEF HandleRefresh, WireTypes
  <2> QED
    BY <2>1, <2>2
<1>3. CASE EndsRefresh(t)
  BY <1>0, <1>3 DEF EndsRefresh, WireTypes, Quiet
<1>4. CASE wire' = wire
  BY <1>4
<1> QED
  BY <1>1, <1>2, <1>3, <1>4, WireMoves

\* A step of a tab keeps it.
LEMMA LeftStep ==
    ASSUME TabShape, SidsKnown, LeftEnded, NEW t \in Tabs, TabStep(t)
    PROVE  LeftEnded'
<1>0. HistoryTypes /\ WireTypes /\ PromiseTypes
  BY DEF TabShape, TabTypes
<1>1. ASSUME NEW u \in Tabs, NEW s \in left'[u] PROVE ~Alive(s)'
  <2>1. CASE s \in left[u]
    <3>1. s \in SidSet /\ rows[s].st # "absent" /\ ~Alive(s)
      BY <1>0, <2>1 DEF HistoryTypes, LeftEnded, SidsKnown, Bears
    <3> QED
      BY <3>1, GenMoves
  <2>2. CASE s \notin left[u]
    <3>1. s \in Ended(session[t]) /\ rows' = rows
      BY <1>0, <1>1, <2>2, LeftMoves DEF HistoryTypes
    <3>2. s \in SidSet => ~Alive(s)
      BY <3>1 DEF Ended
    <3>3. s \in SidSet
      BY <3>1 DEF Ended, TabShape, TabTypes, PageTypes
    <3> QED
      BY <3>1, <3>2, <3>3 DEF Alive
  <2> QED
    BY <2>1, <2>2
<1>2. ASSUME NEW u \in Tabs, current'[u], wire'[u].st = "down", wire'[u].ans = "ok"
      PROVE  wire'[u].ck.sid \notin left'[u]
  <2>1. current[u]
    BY <1>2, CurrentMoves
  <2>2. left'[u] = left[u]
    BY <1>0, <1>2, LeftMoves DEF HistoryTypes, PromiseTypes
  <2>3. CASE wire[u] = wire'[u]
    BY <1>2, <2>1, <2>2, <2>3 DEF LeftEnded
  <2>4. CASE Alive(wire'[u].ck.sid)
    BY <2>2, <2>4 DEF LeftEnded
  <2> QED
    BY <1>2, <2>3, <2>4, AnswerMoves
<1> QED
  BY <1>1, <1>2 DEF LeftEnded

\* A step of the server does: it brings no session back.
LEMMA LeftServerStep ==
    ASSUME TabShape, LeftEnded, ServerStep
    PROVE  LeftEnded'
<1>0. HistoryTypes /\ UNCHANGED <<left, current, wire>>
  BY ServerMoves DEF TabShape, TabTypes, promise
<1>1. \A s \in SidSet : Alive(s)' => Alive(s)
  BY ServerMoves
<1> QED
  BY <1>0, <1>1 DEF LeftEnded, HistoryTypes

\* A tab that gets a session does not get one it has left.
LEMMA StaysOut ==
    ASSUME TabShape, OffersPrivate, LeftEnded, NEW t \in Tabs, TabStep(t), NEW u \in Tabs,
           session'[u] # session[u], session'[u] # None
    PROVE  session'[u] \notin left[u]
<1>0. PageTypes
  BY DEF TabShape, TabTypes
<1>1. CASE TakesAnswer(t)
  BY <1>0, <1>1 DEF TakesAnswer, PageTypes, LeftEnded
<1>2. ASSUME NEW s \in SidSet, TakesOffer(t, s) PROVE session'[u] \notin left[u]
  <2>1. ~Bears(s)
    BY <1>2 DEF TakesOffer, OffersPrivate
  <2>2. u = t /\ session'[u] = s
    BY <1>0, <1>2 DEF TakesOffer, PageTypes
  <2> QED
    BY <2>1, <2>2 DEF Bears
<1>3. CASE session' = session \/ session' = [session EXCEPT ![t] = None]
  BY <1>0, <1>3 DEF PageTypes
<1> QED
  BY <1>1, <1>2, <1>3, CookieMoves, AnswerDelivers

-----------------------------------------------------------------------------
(* The tabs and the cookie.                                                 *)

\* As long as no login or logout met a refresh, a refresh on the wire is of the
\* cookie of the profile, and a login or logout is alone.
Uncrossed ==
    ~crossed =>
      /\ \A t \in Tabs : wire[t].st # "none" => cookie = wire[t].ck
      /\ \A t \in FormsOnWire : /\ \A u \in Tabs : wire[u].st = "none"
                                /\ \A u \in FormsOnWire : u = t
                                /\ orphans = {}
                                /\ form[t].st = "login" => session[t] = None

\* A step of a tab keeps it.
LEMMA UncrossedStep ==
    ASSUME TabShape, Uncrossed, NEW t \in Tabs, TabStep(t)
    PROVE  Uncrossed'
<1>0. FormTypes /\ WireTypes /\ PageTypes /\ WireTypes' /\ (crossed => crossed')
  BY WireTypesStep, CrossedMoves DEF TabShape, TabTypes
<1>1. ASSUME NEW n \in SidSet, Issues(t, n) PROVE Uncrossed'
  <2>1. SUFFICES ASSUME ~crossed' PROVE Uncrossed'
    BY DEF Uncrossed
  <2>2. ~crossed /\ RefreshesOnWire = {} /\ orphans = {} /\ FormsOnWire = {}
    BY <1>1, <2>1 DEF Issues
  <2>3. \A u \in Tabs : form'[u].st \in {"login", "logout"} => u = t
    BY <1>0, <1>1, <2>2 DEF Issues, FormsOnWire, FormTypes
  <2>4. wire' = wire /\ orphans' = orphans /\ session'[t] = None
    BY <1>1 DEF Issues, page
  <2> QED
    BY <2>2, <2>3, <2>4 DEF Uncrossed, RefreshesOnWire, FormsOnWire
<1>2. CASE Logout(t)
  <2>1. SUFFICES ASSUME ~crossed' PROVE Uncrossed'
    BY DEF Uncrossed
  <2>2. ~crossed /\ RefreshesOnWire = {} /\ orphans = {} /\ FormsOnWire \ {t} = {}
    BY <1>2, <2>1 DEF Logout
  <2>3. PICK a, k, b : form' = [form EXCEPT ![t] = [st |-> "logout", first |-> b, ans |-> a, set |-> k]]
    BY <1>2 DEF Logout
  <2>4. (\A u \in Tabs : form'[u].st \in {"login", "logout"} => u = t) /\ form'[t].st = "logout"
    BY <1>0, <2>2, <2>3 DEF FormsOnWire, FormTypes
  <2>5. wire' = wire /\ orphans' = orphans
    BY <1>2 DEF Logout
  <2> QED
    BY <2>2, <2>4, <2>5 DEF Uncrossed, RefreshesOnWire, FormsOnWire
<1>3. ASSUME NEW s \in SidSet, TakesOffer(t, s) PROVE Uncrossed'
  <2>1. form[t].st = "login" /\ form' = [form EXCEPT ![t] = NoForm] /\ wire' = wire
    BY <1>3 DEF TakesOffer, Offers, LoginArrives
  <2>2. \A u \in Tabs : form'[u].st \in {"login", "logout"} => u # t /\ form[u].st \in {"login", "logout"}
    BY <1>0, <2>1 DEF FormTypes, NoForm, Waiting
  <2> QED
    BY <1>0, <2>1, <2>2 DEF Uncrossed, FormsOnWire
<1>4. ASSUME ~\E n \in SidSet : Issues(t, n), ~Logout(t), ~\E s \in SidSet : TakesOffer(t, s) PROVE Uncrossed'
  <2>1. SUFFICES ASSUME ~crossed' PROVE Uncrossed'
    BY DEF Uncrossed
  <2>2. ~crossed
    BY <1>0, <2>1
  <2>3. ASSUME NEW u \in Tabs, form'[u].st \in {"login", "logout"} PROVE u \in FormsOnWire /\ form'[u] = form[u]
    BY <1>4, <2>3, FormMoves DEF FormsOnWire
  <2>4. FormsOnWire' = {u \in Tabs : form'[u].st \in {"login", "logout"}}
    BY DEF FormsOnWire
  <2>5. CASE SendsRefresh(t)
    <3>1. FormsOnWire' = {}
      BY <2>1, <2>3, <2>4, <2>5 DEF SendsRefresh
    <3>2. ASSUME NEW u \in Tabs, wire'[u].st # "none" PROVE cookie' = wire'[u].ck
      BY <1>0, <2>5, <3>2 DEF SendsRefresh, WireTypes
    <3> QED
      BY <3>1, <3>2 DEF Uncrossed
  <2>6. CASE HandleRefresh(t)
    <3>1. FormsOnWire' = {}
      BY <2>2, <2>3, <2>4, <2>6 DEF HandleRefresh, Uncrossed
    <3>2. ASSUME NEW u \in Tabs, wire'[u].st # "none" PROVE cookie' = wire'[u].ck
      BY <1>0, <2>2, <2>6, <3>2 DEF HandleRefresh, WireTypes, Uncrossed
    <3> QED
      BY <3>1, <3>2 DEF Uncrossed
  <2>7. CASE AnswerArrives(t)
    <3>1. wire[t].st = "down" /\ wire' = [wire EXCEPT ![t] = Quiet]
      BY <2>7 DEF AnswerArrives
    <3>2. FormsOnWire' = {}
      BY <2>2, <2>3, <2>4, <3>1 DEF Uncrossed
    <3>3. ASSUME NEW u \in Tabs PROVE wire'[u].st = "none"
      BY <1>0, <3>1, OneOnWire DEF WireTypes, Quiet
    <3> QED
      BY <3>2, <3>3 DEF Uncrossed
  <2>8. ASSUME ~AnswerArrives(t), \A u \in Tabs : wire'[u] = wire[u] \/ wire'[u].st = "none" PROVE Uncrossed'
    <3>1. /\ cookie' = cookie \/ (cookie' = None /\ t \in FormsOnWire)
          /\ session' = session \/ session' = [session EXCEPT ![t] = None]
      BY <1>4, <2>8, CookieMoves
    <3>2. ASSUME NEW u \in Tabs, wire'[u].st # "none" PROVE cookie' = wire'[u].ck
      <4>1. wire[u] = wire'[u] /\ FormsOnWire = {}
        BY <2>2, <2>8, <3>2 DEF Uncrossed
      <4> QED
        BY <2>2, <3>1, <3>2, <4>1 DEF Uncrossed
    <3>3. ASSUME NEW u \in FormsOnWire'
          PROVE  /\ \A v \in Tabs : wire'[v].st = "none"
                 /\ \A v \in FormsOnWire' : v = u
                 /\ orphans' = {}
                 /\ form'[u].st = "login" => session'[u] = None
      <4>1. u \in Tabs /\ u \in FormsOnWire /\ form'[u] = form[u]
        BY <2>3, <2>4, <3>3
      <4>2. (\A v \in Tabs : wire[v].st = "none") /\ orphans = {} /\ (form[u].st = "login" => session[u] = None)
        BY <2>2, <4>1 DEF Uncrossed
      <4>3. \A v \in FormsOnWire' : v = u
        BY <2>2, <2>3, <2>4, <4>1 DEF Uncrossed
      <4>4. orphans' = {}
        BY <4>2, OrphanMoves
      <4>5. form'[u].st = "login" => session'[u] = None
        BY <1>0, <3>1, <4>1, <4>2 DEF PageTypes
      <4>6. \A v \in Tabs : wire'[v].st = "none"
        BY <2>8, <4>2
      <4> QED
        BY <4>3, <4>4, <4>5, <4>6
    <3> QED
      BY <3>2, <3>3 DEF Uncrossed
  <2>9. CASE EndsRefresh(t)
    <3>1. \A u \in Tabs : wire'[u] = wire[u] \/ wire'[u].st = "none"
      BY <1>0, <2>9 DEF EndsRefresh, WireTypes, Quiet
    <3> QED
      BY <2>7, <2>8, <3>1
  <2>10. CASE wire' = wire
    BY <2>7, <2>8, <2>10
  <2> QED
    BY <2>5, <2>6, <2>9, <2>10, WireMoves
<1> QED
  BY <1>1, <1>2, <1>3, <1>4

\* A step of the server does.
LEMMA UncrossedServerStep ==
    ASSUME TabShape, Uncrossed, ServerStep
    PROVE  Uncrossed'
<1>1. UNCHANGED <<cookie, session, wire, form, crossed>>
  BY ServerMoves DEF page
<1>2. orphans' \subseteq orphans
  BY ServerMoves DEF HandleOrphan
<1> QED
  BY <1>1, <1>2 DEF Uncrossed, FormsOnWire

\* The login behind the cookie is announced to t.
Heard(t) == \E i \in DOMAIN chan[t] : chan[t][i].kind = "authenticated" /\ chan[t][i].sid = cookie.sid

\* A tab with another session than the cookie's has the announcement before it, or discarded an event.
TabsFollow ==
    ~crossed /\ cookie # None => \A t \in Tabs : session[t] \in {None, cookie.sid} \cup missed[t] \/ Heard(t)

\* What a step of a tab does to the events before u.
LEMMA ChanMoves ==
    ASSUME TabShape, NEW t \in Tabs, TabStep(t), NEW u \in Tabs
    PROVE  \/ chan'[u] = chan[u]
           \/ \E e \in Events : chan'[u] = Append(chan[u], e)
           \/ u = t /\ session'[t] \in {None} \cup missed'[t]
           \/ /\ u = t /\ chan[t] # <<>> /\ chan'[t] = Tail(chan[t])
              /\ Head(chan[t]).kind = "authenticated" <=> Head(chan[t]).sid = session[t]
              /\ session' = session /\ cookie' = cookie
<1> USE DEF page
<1>0. ChanTypes /\ PageTypes /\ session[t] \in SidSet \cup {None}
  BY DEF TabShape, TabTypes, PageTypes
<1>1. ASSUME NEW kind \in {"authenticated", "signed_out"}, NEW s \in SidSet, Post(t, kind, s)
      PROVE  chan'[u] = chan[u] \/ \E e \in Events : chan'[u] = Append(chan[u], e)
  <2>1. [kind |-> kind, sid |-> s] \in Events
    BY DEF Events
  <2> QED
    BY <1>1, <2>1 DEF Post
<1>2. CASE AnswerArrives(t) \/ LogoutArrives(t) \/ LogoutRecovered(t)
  BY <1>0, <1>1, <1>2 DEF AnswerArrives, LogoutArrives, LogoutRecovered, SignOut
<1>3. CASE LoginArrives(t)
  <2>1. Given(form[t].set).sid \in SidSet
    BY <1>3, LoginGives DEF LoginArrives
  <2> QED
    BY <1>1, <1>3, <2>1 DEF LoginArrives
<1>4. CASE EventArrives(t)
  <2>1. CASE u # t
    BY <1>0, <1>4, <2>1 DEF EventArrives, ChanTypes
  <2>2. CASE u = t
    <3>1. CASE Unload(t) \/ Reset(t, "complete")
      BY <1>0, <2>2, <3>1 DEF Unload, Reset, PageTypes
    <3>2. CASE /\ Head(chan[t]).kind = "authenticated" <=> Head(chan[t]).sid = session[t]
               /\ chan' = [chan EXCEPT ![t] = Tail(@)]
               /\ UNCHANGED page
      BY <1>0, <1>4, <2>2, <3>2 DEF EventArrives, ChanTypes
    <3> QED
      BY <1>4, <3>1, <3>2 DEF EventArrives
  <2> QED
    BY <2>1, <2>2
<1>5. CASE Reload(t)
  BY <1>0, <1>5 DEF Reload, Unload, ChanTypes, PageTypes
<1>6. CASE StartRefresh(t) \/ LateRefusal(t) \/ TakeLock(t) \/ HandleRefresh(t) \/ MismatchArrives(t) \/ RecoverLogout(t)
  BY <1>6 DEF StartRefresh, LateRefusal, TakeLock, HandleRefresh, MismatchArrives, RecoverLogout
<1>7. CASE Login(t, TRUE) \/ Login(t, FALSE) \/ Logout(t) \/ AnswerLost(t) \/ FormLost(t) \/ TokenExpires(t)
  BY <1>7 DEF Login, Logout, AnswerLost, FormLost, TokenExpires
<1>8. CASE EventTooLate(t)
  <2>1. CASE u # t
    BY <1>0, <1>8, <2>1 DEF EventTooLate, ChanTypes
  <2>2. CASE u = t
    BY <1>0, <1>8, <2>2 DEF EventTooLate, TabShape, TabTypes, HistoryTypes
  <2> QED
    BY <2>1, <2>2
<1> QED
  BY <1>2, <1>3, <1>4, <1>5, <1>6, <1>7, <1>8 DEF TabStep

\* An announcement stays before u, or u acts on it, or it came too late.
LEMMA HeardStep ==
    ASSUME TabShape, NEW t \in Tabs, TabStep(t), NEW u \in Tabs, cookie'.sid = cookie.sid, Heard(u)
    PROVE  Heard(u)' \/ session'[u] \in {None, cookie.sid} \cup missed'[u]
<1>0. chan[u] \in Seq(Events)
  BY DEF TabShape, TabTypes, ChanTypes
<1>1. PICK i \in DOMAIN chan[u] : chan[u][i].kind = "authenticated" /\ chan[u][i].sid = cookie.sid
  BY DEF Heard
<1>2. CASE chan'[u] = chan[u]
  BY <1>1, <1>2 DEF Heard
<1>3. ASSUME NEW e \in Events, chan'[u] = Append(chan[u], e) PROVE Heard(u)'
  <2>1. i \in DOMAIN chan'[u] /\ chan'[u][i] = chan[u][i]
    BY <1>0, <1>3
  <2> QED
    BY <1>1, <2>1 DEF Heard
<1>4. CASE /\ u = t /\ chan[t] # <<>> /\ chan'[t] = Tail(chan[t])
           /\ Head(chan[t]).kind = "authenticated" <=> Head(chan[t]).sid = session[t]
           /\ session' = session
  <2>1. CASE i = 1
    BY <1>0, <1>1, <1>4, <2>1
  <2>2. CASE i # 1
    <3>1. i - 1 \in DOMAIN chan'[u] /\ chan'[u][i - 1] = chan[u][i]
      BY <1>0, <1>4, <2>2
    <3> QED
      BY <1>1, <3>1 DEF Heard
  <2> QED
    BY <2>1, <2>2
<1> QED
  BY <1>2, <1>3, <1>4, ChanMoves

\* A step of a tab keeps the tabs following the cookie.
LEMMA FollowStep ==
    ASSUME TabShape, Uncrossed, TabsFollow, NEW t \in Tabs, TabStep(t)
    PROVE  TabsFollow'
<1>0. PageTypes /\ ChanTypes /\ (crossed => crossed')
  BY CrossedMoves DEF TabShape, TabTypes
<1>1. SUFFICES ASSUME ~crossed', cookie' # None, NEW u \in Tabs PROVE session'[u] \in {None, cookie'.sid} \cup missed'[u] \/ Heard(u)'
  BY DEF TabsFollow
<1>2. ~crossed
  BY <1>0, <1>1
<1>3. ASSUME cookie # None, cookie'.sid = cookie.sid, session'[u] \in {None, cookie.sid, session[u]}
      PROVE  session'[u] \in {None, cookie'.sid} \cup missed'[u] \/ Heard(u)'
  <2>1. missed[u] \subseteq missed'[u]
    BY MissedMoves DEF TabShape, TabTypes, HistoryTypes
  <2>2. CASE Heard(u)
    BY <1>3, <2>2, HeardStep
  <2>3. CASE session[u] \in {None, cookie.sid} \cup missed[u]
    BY <1>3, <2>1, <2>3
  <2> QED
    BY <1>2, <1>3, <2>2, <2>3 DEF TabsFollow
<1>4. ASSUME NEW s \in SidSet, TakesOffer(t, s) PROVE session'[u] \in {None, cookie'.sid} \cup missed'[u] \/ Heard(u)'
  <2>1. cookie'.sid = s /\ form[t].st = "login"
    BY <1>4 DEF TakesOffer, Offers
  <2>2. session[t] = None
    BY <1>2, <2>1 DEF Uncrossed, FormsOnWire
  <2>3. session' = [session EXCEPT ![t] = s] /\ Post(t, "authenticated", s)
    BY <1>4, <2>2 DEF TakesOffer
  <2>4. CASE u = t
    BY <1>0, <2>1, <2>3, <2>4 DEF PageTypes
  <2>5. CASE u # t
    <3>1. PICK e : e = [kind |-> "authenticated", sid |-> s]
      OBVIOUS
    <3>2. e \in Events /\ e.kind = "authenticated" /\ e.sid = s
      BY <3>1 DEF Events
    <3>3. chan[u] \in Seq(Events) /\ chan'[u] = Append(chan[u], e)
      BY <1>0, <2>3, <2>5, <3>1 DEF Post, ChanTypes
    <3>4. Len(chan[u]) + 1 \in DOMAIN chan'[u] /\ chan'[u][Len(chan[u]) + 1] = e
      BY <3>2, <3>3
    <3> QED
      BY <2>1, <3>2, <3>4 DEF Heard
  <2> QED
    BY <2>4, <2>5
<1>5. CASE TakesAnswer(t)
  <2>1. /\ wire[t].st = "down" /\ wire[t].ck # None /\ cookie'.sid = wire[t].ck.sid
        /\ session' = session \/ session' = [session EXCEPT ![t] = wire[t].ck.sid]
    BY <1>5 DEF TakesAnswer
  <2>2. cookie = wire[t].ck
    BY <1>2, <2>1 DEF Uncrossed
  <2> QED
    BY <1>0, <1>3, <2>1, <2>2 DEF PageTypes
<1>6. CASE (cookie' = cookie \/ cookie' = None) /\ (session' = session \/ session' = [session EXCEPT ![t] = None])
  BY <1>0, <1>1, <1>3, <1>6 DEF PageTypes
<1> QED
  BY <1>4, <1>5, <1>6, CookieMoves, AnswerDelivers

-----------------------------------------------------------------------------
TabInv ==
    /\ TabShape /\ SidsKnown /\ OffersPrivate
    /\ SecretsFresh /\ ReuseNeedsLoss
    /\ LeftEnded
    /\ Uncrossed /\ TabsFollow

\* It holds at first: one tab is signed in with the cookie, and nothing is on its way.
LEMMA TabInvInit == TabInit => TabInv
<1> SUFFICES ASSUME TabInit PROVE TabInv
  OBVIOUS
<1>0. TabShape /\ 1 \in SidSet /\ None \notin SidSet
  BY TabShapeInit, TabBounds, TabsAssumption DEF SidSet
<1>1. /\ cookie = [sid |-> 1, gen |-> 0] /\ cookie.sid = 1 /\ cookie.gen = 0
      /\ rows[1] = [st |-> "active", gen |-> 0, grace |-> FALSE]
      /\ \A u \in Tabs : /\ session[u] \in {1, None} /\ wire[u].st = "none" /\ form[u].st = "none"
                         /\ left[u] = {}
      /\ orphans = {} /\ replayed = {}
  BY <1>0 DEF TabInit, Quiet, NoForm, Waiting
<1>2. \A s \in SidSet : Bears(s) => s = 1
  BY <1>0, <1>1 DEF Bears, Carries
<1>3. SidsKnown /\ OffersPrivate
  BY <1>1, <1>2 DEF SidsKnown, OffersPrivate, Offers
<1>4. SecretsFresh /\ ReuseNeedsLoss
  BY <1>1 DEF SecretsFresh, CookieFresh, WireFresh, ReuseNeedsLoss
<1>5. LeftEnded /\ Uncrossed /\ TabsFollow
  BY <1>1 DEF LeftEnded, Uncrossed, TabsFollow, FormsOnWire
<1> QED
  BY <1>0, <1>3, <1>4, <1>5 DEF TabInv

\* Every step keeps it.
LEMMA TabInvStep == TabInv /\ [TabNext]_tabVars => TabInv'
<1> SUFFICES ASSUME TabInv, [TabNext]_tabVars PROVE TabInv'
  OBVIOUS
<1>0. /\ TabShape /\ SidsKnown /\ OffersPrivate /\ SecretsFresh /\ ReuseNeedsLoss
      /\ LeftEnded /\ Uncrossed /\ TabsFollow
  BY DEF TabInv
<1>1. TabShape'
  BY <1>0, TabShapeStep
<1>2. ASSUME NEW t \in Tabs, TabStep(t) PROVE TabInv'
  <2>1. SidsKnown' /\ OffersPrivate'
    BY <1>0, <1>2, KnownStep
  <2>2. SecretsFresh' /\ ReuseNeedsLoss'
    BY <1>0, <1>2, FreshStep, ReuseStep
  <2>3. LeftEnded' /\ Uncrossed' /\ TabsFollow'
    BY <1>0, <1>2, LeftStep, UncrossedStep, FollowStep
  <2> QED
    BY <1>1, <2>1, <2>2, <2>3 DEF TabInv
<1>3. CASE ServerStep
  <2>1. SidsKnown' /\ OffersPrivate'
    BY <1>0, <1>3, KnownServerStep
  <2>2. SecretsFresh' /\ ReuseNeedsLoss'
    BY <1>0, <1>3, FreshServerStep, ReuseServerStep
  <2>3. LeftEnded' /\ Uncrossed'
    BY <1>0, <1>3, LeftServerStep, UncrossedServerStep
  <2>4. TabsFollow'
    BY <1>0, <1>3, ServerMoves DEF TabsFollow, Heard, page
  <2> QED
    BY <1>1, <2>1, <2>2, <2>3, <2>4 DEF TabInv
<1>4. CASE UNCHANGED tabVars
  <2>1. UNCHANGED <<rows, cookie, session, current, wire, form>> /\ UNCHANGED <<chan, orphans, missed, left, lost, crossed, replayed>>
    BY <1>4 DEF tabVars, page, promise, tabHistory
  <2>2. (\A s \in SidSet : Bears(s)' <=> Bears(s)) /\ \A t \in Tabs, s \in SidSet : Offers(t, s)' <=> Offers(t, s)
    BY <2>1 DEF Bears, Offers
  <2>3. SidsKnown' /\ OffersPrivate'
    BY <1>0, <2>1, <2>2 DEF SidsKnown, OffersPrivate
  <2>4. SecretsFresh' /\ ReuseNeedsLoss'
    BY <1>0, <2>1 DEF SecretsFresh, CookieFresh, WireFresh, ReuseNeedsLoss
  <2>5. LeftEnded' /\ Uncrossed' /\ TabsFollow'
    BY <1>0, <2>1 DEF LeftEnded, Alive, Uncrossed, FormsOnWire, TabsFollow, Heard
  <2> QED
    BY <1>1, <2>3, <2>4, <2>5 DEF TabInv
<1> QED
  BY <1>2, <1>3, <1>4, StepSplit

\* TabInv is an invariant of the tabs, for any number of them, of sessions and of incidents.
THEOREM TabInvariance == TabSpec => []TabInv
  BY TabInvInit, TabInvStep, PTL DEF TabSpec

\* The stores, the promises and the lock keep their types, whatever the tabs, the
\* server and the network do: a promise that was sent is on the wire, and every
\* waiter of the lock has one.
THEOREM TabTyping == TabSpec => []TabTypeOK
<1>1. TabInv => TabTypeOK
  BY TabTypesImply DEF TabInv, TabShape
<1> QED
  BY <1>1, TabInvariance, PTL

\* The server revokes no session for reuse of a spent secret unless an answer of that
\* session was lost, for any number of tabs that share the cookie.
THEOREM NoReuseWithoutLoss == TabSpec => []ReuseNeedsLoss
<1>1. TabInv => ReuseNeedsLoss
  BY DEF TabInv
<1> QED
  BY <1>1, TabInvariance, PTL

\* Once nothing is on its way, no tab acts for another session than the cookie's,
\* unless a login or logout met a refresh, or the tab had that session when it
\* discarded an event that came too late.
THEOREM TabsAgree == TabSpec => []QuietTabsAgree
<1>1. TabInv => QuietTabsAgree
  <2> SUFFICES ASSUME TabInv, Silent, cookie # None, ~crossed, NEW t \in Tabs
               PROVE  session[t] \in {None, cookie.sid} \cup missed[t]
    BY DEF QuietTabsAgree
  <2>1. chan[t] = <<>>
    BY DEF Silent
  <2>2. ~Heard(t)
    BY <2>1 DEF Heard
  <2> QED
    BY <2>2 DEF TabInv, TabsFollow
<1> QED
  BY <1>1, TabInvariance, PTL

\* A tab never gets back a session it was signed out of after the server had ended it.
THEOREM SignedOutForGood == TabSpec => SignedOutStaysOut
<1>1. ASSUME TabInv, [TabNext]_tabVars
      PROVE  [\A t \in Tabs : session'[t] # session[t] /\ session'[t] # None => session'[t] \notin left[t]]_tabVars
  <2>0. TabShape /\ OffersPrivate /\ LeftEnded
    BY <1>1 DEF TabInv
  <2>1. ASSUME NEW t \in Tabs, TabStep(t), NEW u \in Tabs, session'[u] # session[u], session'[u] # None
        PROVE  session'[u] \notin left[u]
    BY <2>0, <2>1, StaysOut
  <2>2. ServerStep => session' = session
    BY <2>0, ServerMoves DEF page
  <2> QED
    BY <1>1, <2>1, <2>2, StepSplit
<1> QED
  BY <1>1, TabInvariance, PTL DEF TabSpec, SignedOutStaysOut
=============================================================================
