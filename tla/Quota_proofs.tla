----------------------------- MODULE Quota_proofs -----------------------------
(***************************************************************************)
(* What is proved of the two kinds of quota a request draws on.            *)
(*                                                                         *)
(* SubscriptionQuota, for any subscriptions, plans, edits and requests: a  *)
(* limited subscription never passes its total, a row waits only for       *)
(* boundaries of its own lifetime, and no boundary gives fresh quota twice.*)
(*                                                                         *)
(* QuotaReserve, for any callers, amounts and deployments: the books of    *)
(* the row balance, reservations fit into the row, and a hash that stayed  *)
(* warm agrees with its row in the end.                                    *)
(***************************************************************************)
EXTENDS SubscriptionQuota, QuotaReserve, Sums, WellFoundedInduction, TLAPS

\* An open request has drawn what it asked for, unless its row was reset since.
OpenDraws == \A r \in Requests : pc[r] = "consumed" => drawn[r] \in {0, asked[r]}

IInv == TypeOK /\ StartTime <= now /\ OpenDraws /\ UsedWithinTotal /\ BoundaryAhead

-----------------------------------------------------------------------------
(* Boundaries.                                                              *)

\* A bounded set of naturals that is not empty has a greatest element.
LEMMA GreatestExists ==
    ASSUME NEW B \in SUBSET Nat, B # {}, NEW t \in Nat, \A b \in B : b <= t
    PROVE  \E b \in B : \A c \in B : c <= b
<1> DEFINE D == {n \in Nat : t - n \in B}
<1>1. PICK c \in B : TRUE
  OBVIOUS
<1>2. t - c \in D
  BY <1>1
<1>3. PICK d \in D : \A e \in D : d <= e
  BY <1>2, LeastExists
<1>4. \A e \in B : t - e \in D
  OBVIOUS
<1>5. ASSUME NEW e \in B PROVE e <= t - d
  <2>1. d <= t - e
    BY <1>3, <1>4
  <2>2. e \in Nat /\ d \in Nat
    OBVIOUS
  <2> QED
    BY <2>1, <2>2
<1> QED
  BY <1>3, <1>5

\* calcNextResetTime answers 0 or a time after its base and within the lifetime.
LEMMA NextResetFacts ==
    ASSUME NEW base \in Nat, NEW p, NEW end \in Nat
    PROVE  /\ NextReset(base, p, end) \in Nat
           /\ NextReset(base, p, end) > 0 =>
                base < NextReset(base, p, end) /\ NextReset(base, p, end) <= end
<1> DEFINE B == Boundaries(base, p, end)
<1>1. B \subseteq (base + 1)..end
  BY DEF Boundaries
<1>2. CASE B = {}
  BY <1>2 DEF NextReset
<1>3. CASE B # {}
  <2>1. B \in SUBSET Nat
    BY <1>1
  <2>2. \E b \in B : \A c \in B : b <= c
    BY <2>1, <1>3, LeastExists
  <2>3. NextReset(base, p, end) \in B
    BY <1>3, <2>2, Zenon DEF NextReset
  <2> QED
    BY <1>1, <2>3
<1> QED
  BY <1>2, <1>3

\* The loop of maybeResetUserSubscriptionWithPlanTx ends at the last boundary that
\* has passed, which comes after the last reset.
LEMMA LatestFacts ==
    ASSUME NEW s \in Subs, NEW p, NEW t \in Nat, Base(s) \in Nat, End[s] \in Nat, Passed(s, p, t) # {}
    PROVE  /\ Latest(Passed(s, p, t)) \in Nat
           /\ Base(s) < Latest(Passed(s, p, t))
           /\ Latest(Passed(s, p, t)) <= t /\ Latest(Passed(s, p, t)) <= End[s]
<1> DEFINE P == Passed(s, p, t)
<1>1. \A b \in P : b \in (Base(s) + 1)..End[s] /\ b <= t
  BY DEF Passed, Boundaries
<1>2. P \in SUBSET Nat /\ P # {}
  BY <1>1
<1>3. \E b \in P : \A c \in P : c <= b
  BY <1>1, <1>2, GreatestExists
<1>4. Latest(P) \in P
  BY <1>3, Zenon DEF Latest
<1> QED
  BY <1>1, <1>4

-----------------------------------------------------------------------------
\* What a row holds after it was brought up to date: a boundary of its lifetime
\* ahead of its last reset, and its quota untouched or fresh; fresh only for a
\* boundary after the last reset.
LEMMA UpToDate ==
    ASSUME IInv, NEW s \in Subs, NEW p, NEW t \in Nat, t <= now
    PROVE  /\ LastAfter(s, p, t) \in Nat /\ NextAfter(s, p, t) \in Nat
           /\ UsedAfter(s, p, t) \in {0, used[s]}
           /\ LastAfter(s, p, t) <= now
           /\ NextAfter(s, p, t) > 0 =>
                /\ 0 < LastAfter(s, p, t) /\ LastAfter(s, p, t) < NextAfter(s, p, t)
                /\ NextAfter(s, p, t) <= End[s]
           /\ Resets(s, p, t) => last[s] < LastAfter(s, p, t)
<1>1. /\ last[s] \in Nat /\ next[s] \in Nat /\ used[s] \in Nat /\ End[s] \in Nat
      /\ now \in Nat /\ StartTime <= now /\ last[s] <= now
      /\ next[s] > 0 => 0 < last[s] /\ last[s] < next[s] /\ next[s] <= End[s]
  BY RowsAssumption DEF IInv, TypeOK, RowType, TaskType, BoundaryAhead
<1>2. Base(s) \in Nat /\ 0 < Base(s) /\ last[s] <= Base(s) /\ Base(s) <= now
  BY <1>1 DEF Base, StartTime
<1>3. CASE Resets(s, p, t)
  <2>1. Passed(s, p, t) # {}
    BY <1>3 DEF Resets
  <2> DEFINE l == Latest(Passed(s, p, t))
  <2>2. l \in Nat /\ Base(s) < l /\ l <= t
    BY <1>1, <1>2, <2>1, LatestFacts
  <2>3. /\ NextReset(l, p, End[s]) \in Nat
        /\ NextReset(l, p, End[s]) > 0 => l < NextReset(l, p, End[s]) /\ NextReset(l, p, End[s]) <= End[s]
    <3> HIDE DEF l
    <3> QED
      BY <1>1, <2>2, NextResetFacts
  <2>4. LastAfter(s, p, t) = l /\ NextAfter(s, p, t) = NextReset(l, p, End[s]) /\ UsedAfter(s, p, t) = 0
    BY <1>3 DEF LastAfter, NextAfter, UsedAfter
  <2> HIDE DEF l
  <2> QED
    BY <1>1, <1>2, <2>2, <2>3, <2>4
<1>4. CASE ~Resets(s, p, t) /\ Schedules(s, p, t)
  <2>1. /\ LastAfter(s, p, t) = Base(s) /\ UsedAfter(s, p, t) = used[s]
        /\ NextAfter(s, p, t) = NextReset(Base(s), p, End[s])
    BY <1>4 DEF LastAfter, NextAfter, UsedAfter
  <2>2. /\ NextReset(Base(s), p, End[s]) \in Nat
        /\ NextReset(Base(s), p, End[s]) > 0 =>
             Base(s) < NextReset(Base(s), p, End[s]) /\ NextReset(Base(s), p, End[s]) <= End[s]
    BY <1>1, <1>2, NextResetFacts
  <2> QED
    BY <1>1, <1>2, <1>4, <2>1, <2>2
<1>5. CASE ~Resets(s, p, t) /\ ~Schedules(s, p, t)
  <2>1. LastAfter(s, p, t) = last[s] /\ UsedAfter(s, p, t) = used[s] /\ NextAfter(s, p, t) = next[s]
    BY <1>5 DEF LastAfter, NextAfter, UsedAfter
  <2> QED
    BY <1>1, <1>5, <2>1
<1> QED
  BY <1>3, <1>4, <1>5

\* BringUpToDate keeps the boundaries ahead of the resets.
LEMMA UpToDateRows ==
    ASSUME IInv, NEW S, NEW t \in Nat, t <= now, BringUpToDate(S, t), now' = now
    PROVE  last' \in [Subs -> Nat] /\ next' \in [Subs -> Nat] /\ BoundaryAhead'
<1> DEFINE plan(s) == shown[PlanOf[s]]
<1>1. ASSUME NEW s \in Subs
      PROVE  /\ last'[s] \in {last[s], LastAfter(s, plan(s), t)}
             /\ s \in S => last'[s] = LastAfter(s, plan(s), t) /\ next'[s] = NextAfter(s, plan(s), t)
             /\ s \notin S => last'[s] = last[s] /\ next'[s] = next[s]
  BY DEF BringUpToDate
<1>2. ASSUME NEW s \in Subs
      PROVE  /\ last'[s] \in Nat /\ next'[s] \in Nat /\ last'[s] <= now
             /\ next'[s] > 0 => 0 < last'[s] /\ last'[s] < next'[s] /\ next'[s] <= End[s]
  <2>1. CASE s \in S
    BY <1>1, <2>1, UpToDate
  <2>2. CASE s \notin S
    BY <1>1, <2>2 DEF IInv, TypeOK, RowType, BoundaryAhead
  <2> QED
    BY <2>1, <2>2
<1>3. last' = [s \in Subs |-> last'[s]] /\ next' = [s \in Subs |-> next'[s]]
  BY DEF BringUpToDate
<1>4. BoundaryAhead'
  BY <1>2 DEF BoundaryAhead
<1> QED
  BY <1>2, <1>3, <1>4

-----------------------------------------------------------------------------
(* The initial state and every action preserve the inductive invariant.     *)

\* New subscriptions (CreateUserSubscriptionFromPlanTx) satisfy the invariant.
LEMMA InitIInv == Init => IInv
<1> SUFFICES ASSUME Init PROVE IInv
  OBVIOUS
<1>1. ASSUME NEW s \in Subs
      PROVE  /\ next[s] \in Nat /\ last[s] \in Nat /\ last[s] <= now
             /\ next[s] > 0 => 0 < last[s] /\ last[s] < next[s] /\ next[s] <= End[s]
  <2>1. End[s] \in Nat /\ StartTime \in Nat /\ StartTime = 1
    BY RowsAssumption DEF StartTime
  <2>2. /\ NextReset(StartTime, Period[PlanOf[s]], End[s]) \in Nat
        /\ NextReset(StartTime, Period[PlanOf[s]], End[s]) > 0 =>
             /\ StartTime < NextReset(StartTime, Period[PlanOf[s]], End[s])
             /\ NextReset(StartTime, Period[PlanOf[s]], End[s]) <= End[s]
    BY <2>1, NextResetFacts
  <2>3. /\ now = StartTime
        /\ next[s] = NextReset(StartTime, Period[PlanOf[s]], End[s])
        /\ last[s] = IF next[s] > 0 THEN StartTime ELSE 0
    BY DEF Init
  <2> QED
    BY <2>1, <2>2, <2>3
<1>2. last = [s \in Subs |-> last[s]] /\ next = [s \in Subs |-> next[s]]
  BY DEF Init
<1>3. BoundaryAhead
  BY <1>1 DEF BoundaryAhead
<1>4. active \in [Subs -> BOOLEAN]
  BY Zenon DEF Init
<1>5. RowType
  BY <1>1, <1>2, <1>4 DEF Init, RowType
<1>6. PlanType
  BY PeriodAssumption DEF Init, PlanType
<1>7. RequestType /\ TaskType /\ HistoryType /\ StartTime <= now
  BY DEF Init, RequestType, TaskType, HistoryType, StartTime, Steps
<1>8. OpenDraws /\ UsedWithinTotal
  BY RowsAssumption DEF Init, OpenDraws, UsedWithinTotal
<1> QED
  BY <1>3, <1>5, <1>6, <1>7, <1>8 DEF IInv, TypeOK

\* PreConsumeUserSubscription: the charge fits, on top of a reset as well.
LEMMA PreConsumeKeeps ==
    ASSUME IInv, NEW r \in Requests, NEW n \in Amounts, NEW t \in Recent, PreConsume(r, n, t)
    PROVE  IInv'
<1>1. t \in Nat /\ t <= now /\ n \in Nat
  BY RowsAssumption DEF Recent, StartTime, IInv, TypeOK, TaskType
<1>2. PICK s \in Candidates(t) :
        LET looked == {u \in Candidates(t) : Before(u, s)}
        IN  /\ HasRoom(s, n, t)
            /\ BringUpToDate(looked, t)
            /\ used' = [u \in Subs |->
                          IF u = s THEN Current(u, t) + n ELSE IF u \in looked THEN Current(u, t) ELSE used[u]]
            /\ pc' = [pc EXCEPT ![r] = "consumed"]
            /\ sub' = [sub EXCEPT ![r] = s]
            /\ asked' = [asked EXCEPT ![r] = n]
            /\ record' = [record EXCEPT ![r] = now]
            /\ drawn' = [q \in Requests |-> IF q = r THEN n ELSE DrawnAfter(q, looked, t)]
  BY Zenon DEF PreConsume
<1>3. UNCHANGED <<now, planVars, active, taskVars, events, crossed>>
  BY DEF PreConsume
<1>4. s \in Subs
  BY DEF Candidates
<1> DEFINE looked == {u \in Candidates(t) : Before(u, s)}
<1>5. now' = now
  BY <1>3
<1>6. last' \in [Subs -> Nat] /\ next' \in [Subs -> Nat] /\ BoundaryAhead'
  <2> HIDE DEF looked
  <2>1. BringUpToDate(looked, t)
    BY <1>2 DEF looked
  <2> QED
    BY <1>1, <1>5, <2>1, UpToDateRows
<1>7. \A u \in Subs : Current(u, t) \in {0, used[u]} /\ used[u] \in Nat /\ Total[u] \in Nat
  BY <1>1, UpToDate, RowsAssumption DEF Current, IInv, TypeOK, RowType
<1>8. used' \in [Subs -> Nat] /\ UsedWithinTotal'
  <2>1. ASSUME NEW u \in Subs PROVE used'[u] \in Nat /\ (Total[u] > 0 => used'[u] <= Total[u])
    <3>1. CASE u = s
      BY <1>1, <1>2, <1>7, <3>1 DEF HasRoom
    <3>2. CASE u # s
      <4>1. used'[u] \in {Current(u, t), used[u]}
        BY <1>2, <3>2
      <4> QED
        BY <4>1, <1>7 DEF IInv, UsedWithinTotal
    <3> QED
      BY <3>1, <3>2
  <2>2. used' = [u \in Subs |-> used'[u]]
    BY <1>2
  <2> QED
    BY <2>1, <2>2 DEF UsedWithinTotal
<1>9. RowType'
  BY <1>3, <1>6, <1>8 DEF RowType, IInv, TypeOK
<1>10. PlanType' /\ TaskType' /\ StartTime <= now'
  BY <1>3 DEF IInv, TypeOK, PlanType, TaskType, planVars, taskVars
<1>11. RequestType'
  BY <1>1, <1>2, <1>4 DEF IInv, TypeOK, RequestType, TaskType, Steps
<1>12. \A q \in Requests \ {r} : drawn'[q] \in {0, drawn[q]}
  BY <1>2 DEF DrawnAfter
<1>13. drawn'[r] = n /\ drawn' = [q \in Requests |-> drawn'[q]]
  BY <1>2
<1>14. HistoryType'
  BY <1>1, <1>3, <1>12, <1>13 DEF IInv, TypeOK, HistoryType
<1>15. OpenDraws'
  <2>1. \A q \in Requests \ {r} : pc'[q] = pc[q] /\ asked'[q] = asked[q]
    BY <1>2 DEF IInv, TypeOK, RequestType
  <2>2. asked'[r] = n
    BY <1>2 DEF IInv, TypeOK, RequestType
  <2> QED
    BY <1>12, <1>13, <2>1, <2>2 DEF OpenDraws, IInv
<1> QED
  BY <1>6, <1>8, <1>9, <1>10, <1>11, <1>14, <1>15 DEF IInv, TypeOK

\* The end of a session, with or without a delta (PostConsumeUserSubscriptionDelta).
LEMMA FinishKeeps ==
    ASSUME IInv, NEW r \in Requests, NEW step \in Steps \ {"consumed"}, NEW delta \in Int,
           pc[r] = "consumed", delta >= -asked[r], Finish(r, step),
           (Fits(sub[r], delta) /\ Apply(r, delta)) \/ UNCHANGED <<rowVars, history>>
    PROVE  IInv'
<1>1. sub[r] \in Subs /\ asked[r] \in Nat
  BY DEF IInv, TypeOK, RequestType
<1>2. now' = now /\ PlanType' /\ TaskType' /\ StartTime <= now'
  BY DEF IInv, TypeOK, PlanType, TaskType, Finish, planVars, taskVars
<1>3. RequestType'
  BY DEF IInv, TypeOK, RequestType, Finish, Steps
<1>4. \A q \in Requests : pc'[q] = "consumed" => q # r /\ pc[q] = "consumed" /\ asked'[q] = asked[q]
  BY DEF IInv, TypeOK, RequestType, Finish
<1>5. CASE UNCHANGED <<rowVars, history>>
  <2>1. RowType' /\ HistoryType' /\ UsedWithinTotal'
    BY <1>5 DEF IInv, TypeOK, RowType, HistoryType, UsedWithinTotal, rowVars, history, Finish
  <2>2. BoundaryAhead'
    BY <1>2, <1>5 DEF IInv, BoundaryAhead, rowVars
  <2>3. OpenDraws'
    BY <1>4, <1>5 DEF IInv, OpenDraws, history
  <2> QED
    BY <1>2, <1>3, <2>1, <2>2, <2>3 DEF IInv, TypeOK
<1>6. CASE Fits(sub[r], delta) /\ Apply(r, delta)
  <2>1. used[sub[r]] \in Nat /\ NewUsed(sub[r], delta) \in Nat
    BY <1>1 DEF IInv, TypeOK, RowType, NewUsed
  <2>2. used' = [used EXCEPT ![sub[r]] = NewUsed(sub[r], delta)] /\ UNCHANGED <<active, last, next>>
    BY <1>6 DEF Apply
  <2>3. RowType'
    BY <2>1, <2>2 DEF IInv, TypeOK, RowType
  <2>4. UsedWithinTotal'
    <3>1. \A s \in Subs : s # sub[r] => used'[s] = used[s]
      BY <2>2 DEF IInv, TypeOK, RowType
    <3>2. used'[sub[r]] = NewUsed(sub[r], delta)
      BY <1>1, <2>2 DEF IInv, TypeOK, RowType
    <3> QED
      BY <1>6, <3>1, <3>2 DEF IInv, UsedWithinTotal, Fits
  <2>5. BoundaryAhead'
    BY <1>2, <2>2 DEF IInv, BoundaryAhead
  <2>6. drawn[r] \in {0, asked[r]} /\ drawn[r] \in Nat
    BY DEF IInv, OpenDraws, TypeOK, HistoryType
  <2>7. drawn' = [drawn EXCEPT ![r] = IF drawn[r] > 0 THEN drawn[r] + delta ELSE 0]
    BY <1>6 DEF Apply
  <2>8. crossed' \in {crossed, crossed \cup {sub[r]}}
    BY <1>6 DEF Apply
  <2>9. HistoryType'
    BY <1>1, <2>6, <2>7, <2>8 DEF IInv, TypeOK, HistoryType, Finish
  <2>10. OpenDraws'
    <3>1. \A q \in Requests : q # r => drawn'[q] = drawn[q]
      BY <2>7 DEF IInv, TypeOK, HistoryType
    <3> QED
      BY <1>4, <3>1 DEF IInv, OpenDraws
  <2> QED
    BY <1>2, <1>3, <2>3, <2>4, <2>5, <2>9, <2>10 DEF IInv, TypeOK
<1> QED
  BY <1>5, <1>6

\* SubscriptionFunding.Settle.
LEMMA SettleKeeps ==
    ASSUME IInv, NEW r \in Requests, NEW cost \in Amounts \cup {0}, Settle(r, cost)
    PROVE  IInv'
<1>1. asked[r] \in Nat /\ cost \in Nat /\ pc[r] = "consumed"
  BY RowsAssumption DEF IInv, TypeOK, RequestType, Settle
<1> DEFINE delta == cost - asked[r]
<1>2. delta \in Int /\ delta >= -asked[r]
  BY <1>1
<1>3. \/ Fits(sub[r], delta) /\ Apply(r, delta) /\ Finish(r, "settled")
      \/ UNCHANGED <<rowVars, history>> /\ Finish(r, "unsettled")
  BY DEF Settle
<1>4. {"settled", "unsettled"} \subseteq Steps \ {"consumed"}
  BY DEF Steps
<1> HIDE DEF delta
<1>5. CASE Fits(sub[r], delta) /\ Apply(r, delta) /\ Finish(r, "settled")
  BY <1>1, <1>2, <1>4, <1>5, FinishKeeps
<1>6. CASE UNCHANGED <<rowVars, history>> /\ Finish(r, "unsettled")
  BY <1>1, <1>2, <1>4, <1>6, FinishKeeps
<1> QED
  BY <1>3, <1>5, <1>6

\* RefundSubscriptionPreConsume, whose delta is never refused.
LEMMA RefundKeeps ==
    ASSUME IInv, NEW r \in Requests, Refund(r)
    PROVE  IInv'
<1>1. asked[r] \in Nat /\ pc[r] = "consumed" /\ sub[r] \in Subs
  BY DEF IInv, TypeOK, RequestType, Refund
<1> DEFINE delta == -asked[r]
<1>2. delta \in Int /\ delta >= -asked[r]
  BY <1>1
<1>3. {"refunded", "unsettled"} \subseteq Steps \ {"consumed"}
  BY DEF Steps
\* What is given back always fits.
<1>4. Fits(sub[r], delta)
  <2>1. used[sub[r]] \in Nat /\ Total[sub[r]] \in Nat
    BY <1>1, RowsAssumption DEF IInv, TypeOK, RowType
  <2>2. Total[sub[r]] > 0 => used[sub[r]] <= Total[sub[r]]
    BY <1>1 DEF IInv, UsedWithinTotal
  <2> QED
    BY <1>1, <2>1, <2>2 DEF Fits, NewUsed
<1>5. \/ Apply(r, delta) /\ Finish(r, "refunded")
      \/ UNCHANGED <<rowVars, history>> /\ Finish(r, "unsettled")
  BY DEF Refund
<1> HIDE DEF delta
<1>6. CASE Apply(r, delta) /\ Finish(r, "refunded")
  BY <1>1, <1>2, <1>3, <1>4, <1>6, FinishKeeps
<1>7. CASE UNCHANGED <<rowVars, history>> /\ Finish(r, "unsettled")
  BY <1>1, <1>2, <1>3, <1>7, FinishKeeps
<1> QED
  BY <1>5, <1>6, <1>7

\* Resets by an administrator, with or without moving the boundary.
LEMMA AdminResetKeeps ==
    ASSUME IInv, NEW p \in Plans, NEW advance \in BOOLEAN, NEW t \in Recent, AdminReset(p, advance, t)
    PROVE  IInv'
<1>1. t \in Nat /\ t <= now /\ 0 < t
  BY DEF Recent, StartTime, IInv, TypeOK, TaskType
<1> DEFINE S == {s \in Candidates(t) : PlanOf[s] = p}
           after(s) == NextReset(t, shown[p], End[s])
<1>2. /\ used' = [s \in Subs |-> IF s \in S THEN 0 ELSE used[s]]
      /\ drawn' = [r \in Requests |-> IF sub[r] \in S THEN 0 ELSE drawn[r]]
      /\ next' = [s \in Subs |-> IF s \in S /\ advance THEN after(s) ELSE next[s]]
      /\ last' = [s \in Subs |-> IF s \in S /\ advance THEN IF after(s) > 0 THEN t ELSE 0 ELSE last[s]]
      /\ UNCHANGED <<now, planVars, active, reqVars, taskVars, crossed>>
      /\ events' \in Nat
  BY DEF AdminReset, IInv, TypeOK, HistoryType
<1>3. ASSUME NEW s \in Subs
      PROVE  after(s) \in Nat /\ (after(s) > 0 => t < after(s) /\ after(s) <= End[s])
  BY <1>1, RowsAssumption, NextResetFacts
<1>4. ASSUME NEW s \in Subs
      PROVE  /\ used'[s] \in Nat /\ last'[s] \in Nat /\ next'[s] \in Nat
             /\ used'[s] \in {0, used[s]} /\ last'[s] <= now
             /\ next'[s] > 0 => 0 < last'[s] /\ last'[s] < next'[s] /\ next'[s] <= End[s]
  <2> HIDE DEF S, after
  <2>1. used[s] \in Nat /\ last[s] \in Nat /\ next[s] \in Nat /\ now \in Nat /\ last[s] <= now
    BY DEF IInv, TypeOK, RowType, TaskType, BoundaryAhead
  <2>2. next[s] > 0 => 0 < last[s] /\ last[s] < next[s] /\ next[s] <= End[s]
    BY DEF IInv, BoundaryAhead
  <2>3. CASE s \in S /\ advance
    BY <1>1, <1>2, <1>3, <2>1, <2>3
  <2>4. CASE ~(s \in S /\ advance)
    BY <1>2, <2>1, <2>2, <2>4
  <2> QED
    BY <2>3, <2>4
<1>5. RowType'
  <2>1. active' \in [Subs -> BOOLEAN]
    BY <1>2 DEF IInv, TypeOK, RowType
  <2>2. used' = [s \in Subs |-> used'[s]] /\ last' = [s \in Subs |-> last'[s]] /\ next' = [s \in Subs |-> next'[s]]
    BY <1>2
  <2> HIDE DEF S, after
  <2> QED
    BY <1>4, <2>1, <2>2 DEF RowType
<1>6. UsedWithinTotal' /\ BoundaryAhead'
  <2> HIDE DEF S, after
  <2>1. UsedWithinTotal'
    BY <1>4, RowsAssumption DEF IInv, UsedWithinTotal
  <2>2. now' = now
    BY <1>2
  <2>3. BoundaryAhead'
    BY <1>4, <2>2 DEF BoundaryAhead
  <2> QED
    BY <2>1, <2>3
<1>7. PlanType' /\ RequestType' /\ TaskType' /\ StartTime <= now'
  BY <1>2 DEF IInv, TypeOK, PlanType, RequestType, TaskType, planVars, reqVars, taskVars
<1>8. HistoryType' /\ OpenDraws'
  <2> HIDE DEF S, after
  <2>1. \A r \in Requests : drawn'[r] \in {0, drawn[r]}
    BY <1>2
  <2>2. drawn' = [r \in Requests |-> drawn'[r]]
    BY <1>2
  <2> QED
    BY <1>2, <2>1, <2>2 DEF IInv, TypeOK, HistoryType, OpenDraws, reqVars
<1> QED
  BY <1>5, <1>6, <1>7, <1>8 DEF IInv, TypeOK

\* One row of ResetDueSubscriptions.
LEMMA ResetRowKeeps ==
    ASSUME IInv, NEW s \in Subs, ResetRow(s)
    PROVE  IInv'
<1>1. taskNow \in Nat /\ taskNow <= now /\ now' = now /\ count \in Nat
  BY DEF ResetRow, IInv, TypeOK, TaskType
<1>2. PlanType' /\ RequestType' /\ StartTime <= now'
  BY DEF ResetRow, IInv, TypeOK, PlanType, RequestType, planVars, reqVars
<1>3. TaskType'
  BY <1>1 DEF ResetRow, IInv, TypeOK, TaskType
<1>4. active' = active /\ crossed' = crossed /\ events' = events /\ pc' = pc /\ asked' = asked
  BY DEF ResetRow, reqVars
<1>5. CASE DueAt(s, taskNow)
  <2>1. last' \in [Subs -> Nat] /\ next' \in [Subs -> Nat] /\ BoundaryAhead'
    BY <1>1, <1>5, UpToDateRows DEF ResetRow
  <2>2. Current(s, taskNow) \in {0, used[s]} /\ used[s] \in Nat
    BY <1>1, UpToDate DEF Current, IInv, TypeOK, RowType
  <2>3. used' = [used EXCEPT ![s] = Current(s, taskNow)]
    BY <1>5 DEF ResetRow
  <2>4. RowType' /\ UsedWithinTotal'
    <3>1. RowType'
      BY <1>4, <2>1, <2>2, <2>3 DEF IInv, TypeOK, RowType
    <3>2. \A u \in Subs : used'[u] \in {0, used[u]}
      BY <2>2, <2>3 DEF IInv, TypeOK, RowType
    <3>3. UsedWithinTotal'
      BY <3>2, RowsAssumption DEF IInv, UsedWithinTotal
    <3> QED
      BY <3>1, <3>3
  <2>5. drawn' = [r \in Requests |-> drawn'[r]] /\ \A r \in Requests : drawn'[r] \in {0, drawn[r]}
    BY <1>5 DEF ResetRow, DrawnAfter
  <2>6. HistoryType' /\ OpenDraws'
    BY <1>4, <2>5 DEF IInv, TypeOK, HistoryType, OpenDraws
  <2> QED
    BY <1>2, <1>3, <2>1, <2>4, <2>6 DEF IInv, TypeOK
<1>6. CASE ~DueAt(s, taskNow)
  <2>1. UNCHANGED <<used, last, next, drawn>>
    BY <1>6 DEF ResetRow
  <2>2. RowType' /\ UsedWithinTotal' /\ BoundaryAhead' /\ HistoryType' /\ OpenDraws'
    BY <1>1, <1>4, <2>1
    DEF IInv, TypeOK, RowType, UsedWithinTotal, BoundaryAhead, HistoryType, OpenDraws
  <2> QED
    BY <1>2, <1>3, <2>2 DEF IInv, TypeOK
<1> QED
  BY <1>5, <1>6

\* Steps that leave the quota of every row alone.
LEMMA QuotaUntouched ==
    ASSUME IInv, UNCHANGED <<used, last, next, asked, history>>, now' \in Nat, now <= now',
           RowType', PlanType', RequestType', TaskType', events' \in Nat,
           \A r \in Requests : pc'[r] = "consumed" => pc[r] = "consumed"
    PROVE  IInv'
<1>1. BoundaryAhead' /\ UsedWithinTotal'
  BY DEF IInv, TypeOK, RowType, TaskType, BoundaryAhead, UsedWithinTotal
<1>2. HistoryType' /\ OpenDraws'
  BY DEF IInv, TypeOK, HistoryType, OpenDraws, history
<1>3. StartTime <= now'
  BY DEF IInv, TypeOK, TaskType, StartTime
<1> QED
  BY <1>1, <1>2, <1>3 DEF IInv, TypeOK

\* Every step preserves the inductive invariant.
LEMMA NextIInv == IInv /\ [Next]_vars => IInv'
<1> SUFFICES ASSUME IInv, [Next]_vars PROVE IInv'
  OBVIOUS
<1>1. RowType /\ PlanType /\ RequestType /\ TaskType /\ now \in Nat /\ events \in Nat
  BY DEF IInv, TypeOK, TaskType, HistoryType
<1>2. CASE \E r \in Requests, n \in Amounts, t \in Recent : PreConsume(r, n, t)
  BY <1>2, PreConsumeKeeps
<1>3. CASE \E r \in Requests, cost \in Amounts \cup {0} : Settle(r, cost)
  BY <1>3, SettleKeeps
<1>4. CASE \E r \in Requests : Refund(r)
  BY <1>4, RefundKeeps
<1>5. CASE \E p \in Plans, advance \in BOOLEAN, t \in Recent : AdminReset(p, advance, t)
  BY <1>5, AdminResetKeeps
<1>6. CASE \E s \in Subs : ResetRow(s)
  BY <1>6, ResetRowKeeps
<1>7. CASE \E r \in Requests, n \in Amounts, t \in Recent : Refuse(r, n, t)
  <2>1. PICK r \in Requests : pc' = [pc EXCEPT ![r] = "refused"]
    BY <1>7 DEF Refuse
  <2>2. UNCHANGED <<now, planVars, rowVars, sub, asked, record, taskVars, events, history>>
    BY <1>7 DEF Refuse
  <2>3. RequestType' /\ \A q \in Requests : pc'[q] = "consumed" => pc[q] = "consumed"
    BY <1>1, <2>1, <2>2 DEF RequestType, Steps
  <2>4. RowType' /\ PlanType' /\ TaskType'
    BY <1>1, <2>2 DEF RowType, PlanType, TaskType, planVars, rowVars, taskVars
  <2> QED
    BY <1>1, <2>2, <2>3, <2>4, QuotaUntouched DEF rowVars
<1>8. CASE \E p \in Plans : ReloadPlan(p) \/ \E new \in Edits : EditPlan(p, new)
  <2>1. UNCHANGED <<now, rowVars, reqVars, taskVars, history>> /\ events' \in Nat
    BY <1>1, <1>8 DEF ReloadPlan, EditPlan
  <2>2. PlanType'
    BY <1>1, <1>8, PeriodAssumption DEF ReloadPlan, EditPlan, PlanType
  <2>3. RowType' /\ RequestType' /\ TaskType'
    BY <1>1, <2>1 DEF RowType, RequestType, TaskType, rowVars, reqVars, taskVars
  <2> QED
    BY <1>1, <2>1, <2>2, <2>3, QuotaUntouched DEF rowVars, reqVars
<1>9. CASE ExpireDue
  <2>1. active' \in [Subs -> BOOLEAN]
    BY <1>9, Zenon DEF ExpireDue
  <2>2. UNCHANGED <<now, planVars, used, last, next, reqVars, events, history>>
    BY <1>9 DEF ExpireDue
  <2>3. RowType' /\ PlanType' /\ RequestType' /\ TaskType'
    BY <1>1, <1>9, <2>1, <2>2 DEF ExpireDue, RowType, PlanType, RequestType, TaskType, planVars, reqVars
  <2> QED
    BY <1>1, <2>2, <2>3, QuotaUntouched DEF reqVars
<1>10. CASE ScanDue
  <2>1. UNCHANGED <<now, planVars, rowVars, reqVars, events, history>>
    BY <1>10 DEF ScanDue
  <2>2. todo' \subseteq Subs
    BY <1>10 DEF ScanDue, Batches
  <2>3. RowType' /\ PlanType' /\ RequestType' /\ TaskType'
    BY <1>1, <1>10, <2>1, <2>2 DEF ScanDue, RowType, PlanType, RequestType, TaskType, planVars, rowVars, reqVars
  <2> QED
    BY <1>1, <2>1, <2>3, QuotaUntouched DEF rowVars, reqVars
<1>11. CASE EndBatch
  <2>1. UNCHANGED <<now, planVars, rowVars, pc, sub, asked, events, history>>
    BY <1>11 DEF EndBatch, Cleanup, reqVars
  <2>2. record' \in [Requests -> Nat]
    BY <1>1, <1>11 DEF EndBatch, Cleanup, RequestType, reqVars
  <2>3. RowType' /\ PlanType' /\ RequestType'
    BY <1>1, <2>1, <2>2 DEF RowType, PlanType, RequestType, planVars, rowVars
  <2>4. TaskType'
    BY <1>1, <1>11 DEF EndBatch, TaskType
  <2> QED
    BY <1>1, <2>1, <2>3, <2>4, QuotaUntouched DEF rowVars
<1>12. CASE TaskFails \/ \E s \in Subs : SkipRow(s)
  <2>1. UNCHANGED <<now, planVars, rowVars, reqVars, history>> /\ events' \in Nat
    BY <1>1, <1>12 DEF TaskFails, SkipRow
  <2>2. RowType' /\ PlanType' /\ RequestType' /\ TaskType'
    BY <1>1, <1>12, <2>1 DEF TaskFails, SkipRow, RowType, PlanType, RequestType, TaskType, planVars, rowVars, reqVars
  <2> QED
    BY <1>1, <2>1, <2>2, QuotaUntouched DEF rowVars, reqVars
<1>13. CASE Tick \/ UNCHANGED vars
  <2>1. UNCHANGED <<planVars, rowVars, reqVars, taskVars, events, history>> /\ now' \in {now, now + 1}
    BY <1>13 DEF Tick, vars
  <2>2. RowType' /\ PlanType' /\ RequestType' /\ TaskType'
    BY <1>1, <2>1 DEF RowType, PlanType, RequestType, TaskType, planVars, rowVars, reqVars, taskVars
  <2> QED
    BY <1>1, <2>1, <2>2, QuotaUntouched DEF rowVars, reqVars
<1> QED
  BY <1>2, <1>3, <1>4, <1>5, <1>6, <1>7, <1>8, <1>9, <1>10, <1>11, <1>12, <1>13
  DEF Next, RequestStep, TaskStep

\* The inductive invariant holds always.
LEMMA Invariance == Spec => []IInv
  BY InitIInv, NextIInv, PTL DEF Spec

-----------------------------------------------------------------------------
\* Every variable keeps its type; AmountUsed never becomes negative
\* (PostConsumeUserSubscriptionDelta clamps it at zero).
THEOREM QuotaTyping == Spec => []TypeOK
<1>1. IInv => TypeOK
  BY DEF IInv
<1> QED
  BY <1>1, Invariance, PTL

\* No mixture of charges, settlements, refunds, resets and plan edits takes a
\* limited subscription past its total.
THEOREM TotalIsKept == Spec => []UsedWithinTotal
<1>1. IInv => UsedWithinTotal
  BY DEF IInv
<1> QED
  BY <1>1, Invariance, PTL

\* Whoever reset it last and whatever was edited, a row waits for a boundary after
\* its last reset and within its lifetime (maybeResetUserSubscriptionWithPlanTx,
\* resetUserSubscriptionTx).
THEOREM BoundariesLieAhead == Spec => []BoundaryAhead
<1>1. IInv => BoundaryAhead
  BY DEF IInv
<1> QED
  BY <1>1, Invariance, PTL

\* Apart from administrators, the quota of a period is given back only for a
\* boundary that has come and lies after the last reset, so no boundary counts
\* twice however requests and the maintenance task interleave.
THEOREM BoundariesCountOnce == Spec => BoundaryUsedOnce
<1>1. ASSUME IInv, [Next]_vars,
             \A p \in Plans, advance \in BOOLEAN, t \in Recent : ~AdminReset(p, advance, t),
             NEW r \in Requests, pc'[r] = pc[r], drawn'[r] # drawn[r]
      PROVE  last[sub[r]] < last'[sub[r]] /\ last'[sub[r]] <= now
  <2> DEFINE plan(s) == shown[PlanOf[s]]
  <2>1. ASSUME NEW S \in SUBSET Subs, NEW t \in Nat, t <= now, BringUpToDate(S, t),
               drawn'[r] = DrawnAfter(r, S, t)
        PROVE  last[sub[r]] < last'[sub[r]] /\ last'[sub[r]] <= now
    <3>1. sub[r] \in S /\ Resets(sub[r], plan(sub[r]), t)
      BY <1>1, <2>1 DEF DrawnAfter
    <3>2. last'[sub[r]] = LastAfter(sub[r], plan(sub[r]), t)
      BY <2>1, <3>1 DEF BringUpToDate
    <3>3. sub[r] \in Subs
      BY <3>1
    <3> QED
      BY <1>1, <2>1, <3>1, <3>2, <3>3, UpToDate
  <2>2. CASE \E q \in Requests, n \in Amounts, t \in Recent : PreConsume(q, n, t)
    <3>1. PICK q \in Requests, n \in Amounts, t \in Recent : PreConsume(q, n, t)
      BY <2>2
    <3>2. q # r
      BY <1>1, <3>1 DEF PreConsume, IInv, TypeOK, RequestType
    <3>3. PICK s \in Candidates(t) :
             /\ BringUpToDate({u \in Candidates(t) : Before(u, s)}, t)
             /\ drawn' = [x \in Requests |-> IF x = q THEN n ELSE DrawnAfter(x, {u \in Candidates(t) : Before(u, s)}, t)]
      BY <3>1, Zenon DEF PreConsume
    <3>4. drawn'[r] = DrawnAfter(r, {u \in Candidates(t) : Before(u, s)}, t)
      BY <3>2, <3>3
    <3>5. {u \in Candidates(t) : Before(u, s)} \in SUBSET Subs
      BY DEF Candidates
    <3>6. t \in Nat /\ t <= now
      BY <1>1 DEF Recent, StartTime, IInv, TypeOK, TaskType
    <3> QED
      BY <2>1, <3>3, <3>4, <3>5, <3>6
  <2>3. CASE \E s \in Subs : ResetRow(s)
    <3>1. PICK s \in Subs : ResetRow(s)
      BY <2>3
    <3>2. taskNow \in Nat /\ taskNow <= now
      BY <1>1 DEF IInv, TypeOK, TaskType
    <3>3. BringUpToDate({s}, taskNow) /\ drawn'[r] = DrawnAfter(r, {s}, taskNow)
      BY <1>1, <3>1 DEF ResetRow
    <3> QED
      BY <2>1, <3>2, <3>3
  <2>4. CASE \E q \in Requests : Refund(q) \/ \E cost \in Amounts \cup {0} : Settle(q, cost)
    <3>1. PICK q \in Requests : Refund(q) \/ \E cost \in Amounts \cup {0} : Settle(q, cost)
      BY <2>4
    <3>2. pc[q] = "consumed" /\ pc'[q] # "consumed"
      BY <1>1, <3>1 DEF Refund, Settle, Finish, IInv, TypeOK, RequestType
    <3>3. drawn'[r] = drawn[r]
      BY <1>1, <3>1, <3>2 DEF Refund, Settle, Apply, history, IInv, TypeOK, HistoryType
    <3> QED
      BY <1>1, <3>3
  <2>5. CASE UNCHANGED drawn
    BY <1>1, <2>5
  <2>6. \/ \E q \in Requests, n \in Amounts, t \in Recent : PreConsume(q, n, t)
        \/ \E s \in Subs : ResetRow(s)
        \/ \E q \in Requests : Refund(q) \/ \E cost \in Amounts \cup {0} : Settle(q, cost)
        \/ UNCHANGED drawn
    BY <1>1
    DEF Next, RequestStep, TaskStep, Refuse, ReloadPlan, EditPlan, ExpireDue, ScanDue, EndBatch,
        TaskFails, SkipRow, Tick, vars, history
  <2> QED
    BY <2>2, <2>3, <2>4, <2>5, <2>6
<1>2. IInv /\ [Next]_vars => [ForgetsAtBoundary]_vars
  BY <1>1 DEF ForgetsAtBoundary
<1> QED
  BY <1>2, Invariance, PTL DEF Spec, BoundaryUsedOnce

-----------------------------------------------------------------------------
(* The row and what its requests have drawn.                                *)

\* A request that has not begun has drawn nothing.
IdleDrewNothing == \A r \in Requests : pc[r] = "idle" => drawn[r] = 0

BooksInv == PeriodUsageExact /\ IdleDrewNothing

\* Draws are amounts.
LEMMA DrawsType == IInv => \A s : Draws(s) \in [Requests -> Nat]
  BY DEF IInv, TypeOK, HistoryType, Draws

\* In the next state as well.
LEMMA DrawsTypePrime == IInv' => \A s : Draws(s)' \in [Requests -> Nat]
  BY DEF IInv, TypeOK, HistoryType, Draws

\* A row whose requests draw as before is exact as before.
LEMMA SameDraws ==
    ASSUME NEW s \in Subs, used'[s] = used[s], used[s] = SumFunction(Draws(s)),
           \A r \in Requests : /\ (sub'[r] = s) <=> (sub[r] = s)
                               /\ sub[r] = s => drawn'[r] = drawn[r]
    PROVE  used'[s] = SumFunction(Draws(s)')
<1>1. Draws(s)' = Draws(s)
  BY DEF Draws
<1> QED
  BY <1>1

\* A fresh row has no draws.
LEMMA FreshDraws ==
    ASSUME NEW s \in Subs, used'[s] = 0, \A r \in Requests : sub'[r] = s => drawn'[r] = 0
    PROVE  used'[s] = SumFunction(Draws(s)')
<1>1. PICK f : f = [r \in Requests |-> 0]
  OBVIOUS
<1>2. Draws(s)' = f
  BY <1>1 DEF Draws
<1> QED
  BY <1>1, <1>2, SumOfZeros, RequestAssumption

\* A row that one request draws n more from, on top of what it has drawn or of nothing.
LEMMA OneDraws ==
    ASSUME NEW s \in Subs, NEW r \in Requests, NEW f \in [Requests -> Nat], NEW n \in Int,
           Draws(s)' \in [Requests -> Nat],
           \A q \in Requests \ {r} : Draws(s)'[q] = f[q],
           Draws(s)'[r] = f[r] + n
    PROVE  SumFunction(Draws(s)') = SumFunction(f) + n /\ SumFunction(Draws(s)') \in Nat
<1>1. PICK g : g = Draws(s)'
  OBVIOUS
<1>2. g \in [Requests -> Nat] /\ g \in [Requests -> Int] /\ f \in [Requests -> Int]
  BY <1>1
<1>3. SumFunction(g) = SumFunction(f) + g[r] - f[r]
  BY <1>1, <1>2, SumChange, RequestAssumption
<1>4. SumFunction(g) \in Nat /\ SumFunction(f) \in Int
  BY <1>2, SumNat, SumType, RequestAssumption
<1>5. g[r] = f[r] + n /\ f[r] \in Nat
  BY <1>1
<1>6. SumFunction(g) = SumFunction(f) + n
  BY <1>3, <1>4, <1>5
<1> QED
  BY <1>1, <1>4, <1>6

\* PreConsumeUserSubscription: the reset forgets the draws of the row, the charge
\* adds its own.
LEMMA PreConsumeExact ==
    ASSUME IInv, IInv', BooksInv, NEW r \in Requests, NEW n \in Amounts, NEW t \in Recent, PreConsume(r, n, t)
    PROVE  BooksInv'
<1>1. PICK s \in Candidates(t) :
            /\ used' = [u \in Subs |->
                          IF u = s THEN Current(u, t) + n
                          ELSE IF u \in {v \in Candidates(t) : Before(v, s)} THEN Current(u, t) ELSE used[u]]
            /\ pc' = [pc EXCEPT ![r] = "consumed"]
            /\ sub' = [sub EXCEPT ![r] = s]
            /\ drawn' = [q \in Requests |-> IF q = r THEN n ELSE DrawnAfter(q, {v \in Candidates(t) : Before(v, s)}, t)]
            /\ crossed' = crossed
  BY Zenon DEF PreConsume
<1>2. PICK L : L = {v \in Candidates(t) : Before(v, s)}
  OBVIOUS
<1>3. s \in Subs /\ s \in L /\ pc[r] = "idle" /\ drawn[r] = 0 /\ n \in Nat
  <2>1. s \in Subs /\ pc[r] = "idle" /\ n \in Nat
    BY RowsAssumption DEF Candidates, PreConsume
  <2>2. s \in Nat /\ End[s] \in Nat
    BY <2>1, SubsAssumption, RowsAssumption
  <2>3. s \in L
    BY <1>2, <2>2 DEF Before
  <2> QED
    BY <2>1, <2>3 DEF BooksInv, IdleDrewNothing
<1>4. /\ \A q \in Requests \ {r} : sub'[q] = sub[q] /\ drawn'[q] = DrawnAfter(q, L, t)
      /\ sub'[r] = s /\ drawn'[r] = n
  BY <1>1, <1>2 DEF IInv, TypeOK, RequestType
<1>5. \A u \in Subs : used'[u] = IF u = s THEN Current(u, t) + n ELSE IF u \in L THEN Current(u, t) ELSE used[u]
  BY <1>1, <1>2
<1>6. ASSUME NEW u \in Subs \ crossed PROVE used'[u] = SumFunction(Draws(u)')
  <2>1. PICK f : f = IF u \in L /\ Resets(u, shown[PlanOf[u]], t) THEN [q \in Requests |-> 0] ELSE Draws(u)
    OBVIOUS
  <2>2. f \in [Requests -> Nat] /\ Draws(u)' \in [Requests -> Nat]
    BY <2>1, DrawsType, DrawsTypePrime
  <2>3. f[r] = 0
    BY <1>3, <2>1 DEF Draws
  <2>4. ASSUME NEW q \in Requests \ {r} PROVE Draws(u)'[q] = f[q]
    BY <1>4, <2>1 DEF Draws, DrawnAfter
  <2>5. Draws(u)'[r] = IF u = s THEN n ELSE 0
    BY <1>4 DEF Draws
  <2>6. SumFunction(f) = IF u \in L THEN Current(u, t) ELSE used[u]
    <3>1. CASE u \in L /\ Resets(u, shown[PlanOf[u]], t)
      BY <2>1, <3>1, SumOfZeros, RequestAssumption DEF Current, UsedAfter
    <3>2. CASE ~(u \in L /\ Resets(u, shown[PlanOf[u]], t))
      BY <1>6, <2>1, <3>2 DEF Current, UsedAfter, BooksInv, PeriodUsageExact
    <3> QED
      BY <3>1, <3>2
  <2>7. SumFunction(f) \in Nat
    BY <2>2, SumNat, RequestAssumption
  <2>8. PICK m \in Nat : m = IF u = s THEN n ELSE 0
    BY <1>3
  <2>9. SumFunction(Draws(u)') = SumFunction(f) + m
    <3>1. Draws(u)'[r] = f[r] + m
      BY <2>3, <2>5, <2>8
    <3>2. u \in Subs /\ m \in Int
      BY <1>6
    <3> QED
      BY <2>2, <2>4, <3>1, <3>2, OneDraws
  <2>10. used'[u] = SumFunction(f) + m
    BY <1>3, <1>5, <1>6, <2>6, <2>7, <2>8
  <2> QED
    BY <2>9, <2>10
<1>7. IdleDrewNothing'
  <2>1. ASSUME NEW q \in Requests, pc'[q] = "idle" PROVE drawn'[q] = 0
    <3>1. q # r /\ pc[q] = "idle"
      BY <1>1, <2>1 DEF IInv, TypeOK, RequestType
    <3> QED
      BY <1>4, <3>1 DEF BooksInv, IdleDrewNothing, DrawnAfter
  <2> QED
    BY <2>1 DEF IdleDrewNothing
<1> QED
  BY <1>1, <1>6, <1>7 DEF BooksInv, PeriodUsageExact

\* PostConsumeUserSubscriptionDelta: in the period of the charge the clamp never acts.
LEMMA ApplyExact ==
    ASSUME IInv, IInv', BooksInv, NEW r \in Requests, NEW delta \in Int, pc[r] = "consumed",
           Apply(r, delta), UNCHANGED sub,
           \A q \in Requests \ {r} : pc'[q] = pc[q], pc'[r] # "idle"
    PROVE  BooksInv'
<1>1. PICK s \in Subs : s = sub[r]
  BY DEF IInv, TypeOK, RequestType
<1>2. /\ drawn[r] \in Nat /\ drawn'[r] = IF drawn[r] > 0 THEN drawn[r] + delta ELSE 0
      /\ \A q \in Requests \ {r} : drawn'[q] = drawn[q]
      /\ used'[s] = NewUsed(s, delta) /\ used[s] \in Nat
      /\ \A u \in Subs \ {s} : used'[u] = used[u]
      /\ crossed' = IF drawn[r] = 0 /\ delta # 0 THEN crossed \cup {s} ELSE crossed
  BY <1>1 DEF Apply, IInv, TypeOK, HistoryType, RowType
<1>3. ASSUME NEW u \in Subs \ crossed' PROVE used'[u] = SumFunction(Draws(u)')
  <2>1. u \in Subs \ crossed
    BY <1>2, <1>3
  <2>2. used[u] = SumFunction(Draws(u))
    BY <2>1 DEF BooksInv, PeriodUsageExact
  <2>3. CASE u # s
    BY <1>1, <1>2, <2>1, <2>2, <2>3, SameDraws
  <2>4. CASE u = s
    <3>1. drawn'[r] = drawn[r] + delta
      BY <1>2, <1>3, <2>4
    <3>2. Draws(s) \in [Requests -> Nat] /\ Draws(s)' \in [Requests -> Nat]
      BY DrawsType, DrawsTypePrime
    <3>3. /\ \A q \in Requests \ {r} : Draws(s)'[q] = Draws(s)[q]
          /\ Draws(s)'[r] = Draws(s)[r] + delta
      BY <1>1, <1>2, <3>1 DEF Draws
    <3>4. SumFunction(Draws(s)') = SumFunction(Draws(s)) + delta /\ SumFunction(Draws(s)') \in Nat
      <4>1. PICK f : f = Draws(s)
        OBVIOUS
      <4>2. f \in [Requests -> Nat] /\ (\A q \in Requests \ {r} : Draws(s)'[q] = f[q]) /\ Draws(s)'[r] = f[r] + delta
        BY <3>2, <3>3, <4>1
      <4>3. SumFunction(Draws(s)') = SumFunction(f) + delta /\ SumFunction(Draws(s)') \in Nat
        BY <3>2, <4>2, OneDraws
      <4> QED
        BY <4>1, <4>3
    <3> QED
      BY <1>2, <2>2, <2>4, <3>4 DEF NewUsed
  <2> QED
    BY <2>3, <2>4
<1>4. IdleDrewNothing'
  BY <1>2 DEF BooksInv, IdleDrewNothing
<1> QED
  BY <1>3, <1>4 DEF BooksInv, PeriodUsageExact

\* Settlements and refunds.
LEMMA FinishExact ==
    ASSUME IInv, IInv', BooksInv, NEW r \in Requests,
           Refund(r) \/ \E cost \in Amounts \cup {0} : Settle(r, cost)
    PROVE  BooksInv'
<1>1. /\ pc[r] = "consumed" /\ pc'[r] # "idle" /\ sub' = sub
      /\ \A q \in Requests \ {r} : pc'[q] = pc[q]
  BY DEF Refund, Settle, Finish, IInv, TypeOK, RequestType
<1>2. CASE UNCHANGED <<rowVars, history>>
  <2>1. \A u \in Subs : Draws(u)' = Draws(u)
    BY <1>1, <1>2 DEF Draws, history
  <2> QED
    BY <1>1, <1>2, <2>1 DEF BooksInv, PeriodUsageExact, IdleDrewNothing, rowVars, history
<1>3. CASE \E delta \in Int : Apply(r, delta)
  BY <1>1, <1>3, ApplyExact
<1>4. UNCHANGED <<rowVars, history>> \/ \E delta \in Int : Apply(r, delta)
  <2>1. asked[r] \in Int /\ \A cost \in Amounts \cup {0} : cost - asked[r] \in Int
    BY RowsAssumption DEF IInv, TypeOK, RequestType
  <2>2. -asked[r] \in Int
    BY <2>1
  <2> QED
    BY <2>1, <2>2 DEF Refund, Settle
<1> QED
  BY <1>2, <1>3, <1>4

\* A reset, by the task or by an administrator, empties a row and its draws together.
LEMMA ResetExact ==
    ASSUME IInv, IInv', BooksInv, UNCHANGED <<pc, sub, crossed>>,
           \A u \in Subs :
              \/ used'[u] = 0 /\ \A r \in Requests : sub[r] = u => drawn'[r] = 0
              \/ used'[u] = used[u] /\ \A r \in Requests : sub[r] = u => drawn'[r] = drawn[r],
           \A r \in Requests : drawn'[r] \in {0, drawn[r]}
    PROVE  BooksInv'
<1>1. ASSUME NEW u \in Subs \ crossed PROVE used'[u] = SumFunction(Draws(u)')
  <2>1. used[u] = SumFunction(Draws(u)) /\ u \in Subs
    BY <1>1 DEF BooksInv, PeriodUsageExact
  <2>2. CASE used'[u] = 0 /\ \A r \in Requests : sub[r] = u => drawn'[r] = 0
    BY <2>1, <2>2, FreshDraws
  <2>3. CASE used'[u] = used[u] /\ \A r \in Requests : sub[r] = u => drawn'[r] = drawn[r]
    BY <2>1, <2>3, SameDraws
  <2> QED
    BY <2>1, <2>2, <2>3
<1>2. IdleDrewNothing'
  BY DEF BooksInv, IdleDrewNothing
<1> QED
  BY <1>1, <1>2 DEF BooksInv, PeriodUsageExact

\* AdminResetPlanSubscriptions, AdminResetUserSubscriptionsByPlan
LEMMA AdminResetExact ==
    ASSUME IInv, IInv', BooksInv, NEW p \in Plans, NEW advance \in BOOLEAN, NEW t \in Recent,
           AdminReset(p, advance, t)
    PROVE  BooksInv'
<1>1. PICK S : /\ used' = [s \in Subs |-> IF s \in S THEN 0 ELSE used[s]]
               /\ drawn' = [r \in Requests |-> IF sub[r] \in S THEN 0 ELSE drawn[r]]
  BY Zenon DEF AdminReset
<1>2. UNCHANGED <<pc, sub, crossed>>
  BY DEF AdminReset, reqVars
<1>3. ASSUME NEW u \in Subs
      PROVE \/ used'[u] = 0 /\ \A r \in Requests : sub[r] = u => drawn'[r] = 0
            \/ used'[u] = used[u] /\ \A r \in Requests : sub[r] = u => drawn'[r] = drawn[r]
  BY <1>1
<1>4. \A r \in Requests : drawn'[r] \in {0, drawn[r]}
  BY <1>1
<1> QED
  BY <1>2, <1>3, <1>4, ResetExact

\* One row of the maintenance task.
LEMMA ResetRowExact ==
    ASSUME IInv, IInv', BooksInv, NEW s \in Subs, ResetRow(s)
    PROVE  BooksInv'
<1>1. UNCHANGED <<pc, sub, crossed>>
  BY DEF ResetRow, reqVars
<1>2. CASE DueAt(s, taskNow)
  <2>1. /\ used' = [used EXCEPT ![s] = Current(s, taskNow)]
        /\ drawn' = [r \in Requests |-> DrawnAfter(r, {s}, taskNow)]
    BY <1>2 DEF ResetRow
  <2>2. ASSUME NEW u \in Subs
        PROVE \/ used'[u] = 0 /\ \A r \in Requests : sub[r] = u => drawn'[r] = 0
              \/ used'[u] = used[u] /\ \A r \in Requests : sub[r] = u => drawn'[r] = drawn[r]
    <3>1. CASE u = s
      BY <2>1, <3>1 DEF DrawnAfter, Current, UsedAfter, IInv, TypeOK, RowType
    <3>2. CASE u # s
      BY <2>1, <3>2 DEF DrawnAfter, IInv, TypeOK, RowType
    <3> QED
      BY <3>1, <3>2
  <2>3. \A r \in Requests : drawn'[r] \in {0, drawn[r]}
    BY <2>1 DEF DrawnAfter
  <2> QED
    BY <1>1, <2>2, <2>3, ResetExact
<1>3. CASE ~DueAt(s, taskNow)
  <2>1. UNCHANGED <<used, drawn>>
    BY <1>3 DEF ResetRow
  <2> QED
    BY <1>1, <2>1, ResetExact
<1> QED
  BY <1>2, <1>3

\* Until somebody settles or refunds across a reset, AmountUsed is what the requests
\* of the current period have drawn: no reset forgets a charge of the new period or
\* keeps one of the old, and the clamp of PostConsumeUserSubscriptionDelta forgives
\* nothing, for any requests, plans, edits and resets.
THEOREM PeriodsAreExact == Spec => []PeriodUsageExact
<1>1. Init => BooksInv
  <2> SUFFICES ASSUME Init PROVE BooksInv
    OBVIOUS
  <2>1. PICK f : f = [r \in Requests |-> 0]
    OBVIOUS
  <2>2. \A s \in Subs : Draws(s) = f
    BY <2>1 DEF Init, Draws
  <2>3. SumFunction(f) = 0
    BY <2>1, SumOfZeros, RequestAssumption
  <2> QED
    BY <2>2, <2>3 DEF Init, BooksInv, PeriodUsageExact, IdleDrewNothing
<1>2. IInv /\ IInv' /\ BooksInv /\ [Next]_vars => BooksInv'
  <2> SUFFICES ASSUME IInv, IInv', BooksInv, [Next]_vars PROVE BooksInv'
    OBVIOUS
  <2>1. CASE \E r \in Requests, n \in Amounts, t \in Recent : PreConsume(r, n, t)
    BY <2>1, PreConsumeExact
  <2>2. CASE \E r \in Requests : Refund(r) \/ \E cost \in Amounts \cup {0} : Settle(r, cost)
    BY <2>2, FinishExact
  <2>3. CASE \E p \in Plans, advance \in BOOLEAN, t \in Recent : AdminReset(p, advance, t)
    BY <2>3, AdminResetExact
  <2>4. CASE \E s \in Subs : ResetRow(s)
    BY <2>4, ResetRowExact
  <2>5. CASE UNCHANGED <<used, sub, history>> /\ \A r \in Requests : pc'[r] = "idle" => pc[r] = "idle"
    <3>1. \A u \in Subs : Draws(u)' = Draws(u)
      BY <2>5 DEF Draws, history
    <3> QED
      BY <2>5, <3>1 DEF BooksInv, PeriodUsageExact, IdleDrewNothing, history
  <2>6. CASE \E r \in Requests, n \in Amounts, t \in Recent : Refuse(r, n, t)
    BY <2>5, <2>6 DEF Refuse, rowVars, IInv, TypeOK, RequestType
  <2>7. CASE ExpireDue \/ ScanDue \/ EndBatch \/ TaskFails \/ (\E s \in Subs : SkipRow(s)) \/ Tick \/ UNCHANGED vars
    BY <2>5, <2>7 DEF ExpireDue, ScanDue, EndBatch, TaskFails, SkipRow, Tick, Cleanup, vars, rowVars, reqVars
  <2>8. CASE \E p \in Plans : ReloadPlan(p) \/ \E new \in Edits : EditPlan(p, new)
    BY <2>5, <2>8 DEF ReloadPlan, EditPlan, rowVars, reqVars
  <2> QED
    BY <2>1, <2>2, <2>3, <2>4, <2>6, <2>7, <2>8 DEF Next, RequestStep, TaskStep
<1>3. BooksInv => PeriodUsageExact
  BY DEF BooksInv
<1> QED
  BY <1>1, <1>2, <1>3, Invariance, PTL DEF Spec
-----------------------------------------------------------------------------
(* The quota of a row behind its hash and the batch store: QuotaReserve.    *)

RowTypes    == db \in Int /\ queue \in Int /\ taken \in Int /\ lost \in Int
HashTypes   == warm \in BOOLEAN /\ fence \in BOOLEAN /\ cache \in Int /\ (~warm => cache = 0)
CallTypes   == /\ at \in [Callers -> CallLabels]
               /\ op \in [Callers -> {"reserve", "increase", "decrease"}]
               /\ amount \in [Callers -> Nat] /\ seen \in [Callers -> Int]
               /\ async \in [Callers -> {"none", "launched", "gone"}]
BudgetTypes == expiries \in 0..MaxExpiries /\ redisErrors \in 0..MaxRedis /\ faults \in 0..MaxFaults

\* The parts of the type invariant.
LEMMA QuotaTypeParts ==
    QuotaTypeOK <=> deployment \in Deployments /\ RowTypes /\ HashTypes /\ CallTypes /\ BudgetTypes
  BY DEF QuotaTypeOK, RowTypes, HashTypes, CallTypes, BudgetTypes

\* A delta is an integer.
LEMMA DeltaType ==
    ASSUME CallTypes, NEW c \in Callers PROVE Delta(c) \in Int /\ amount[c] \in Nat
  BY DEF CallTypes, Delta

\* A step of a caller keeps the types.
LEMMA CallerTypes ==
    ASSUME QuotaTypeOK, UNCHANGED deployment, NEW c \in Callers, CallerStep(c)
    PROVE  QuotaTypeOK'
<1> USE DEF RowTypes, HashTypes, CallTypes, BudgetTypes, Go, quotaVars, cacheVars, budget, CallLabels, Finished, RedisError, DBError
<1>0. /\ deployment \in Deployments /\ RowTypes /\ HashTypes /\ CallTypes /\ BudgetTypes
      /\ Delta(c) \in Int /\ amount[c] \in Nat
  BY QuotaTypeParts, DeltaType
<1>1. ASSUME NEW onMiss \in {"hydrate", "dbReserve"}, CacheReserve(c, onMiss) PROVE QuotaTypeOK'
  <2>1. CallTypes'
    BY <1>0, <1>1 DEF CacheReserve
  <2>2. HashTypes' /\ RowTypes'
    BY <1>0, <1>1 DEF CacheReserve
  <2>3. BudgetTypes'
    BY <1>0, <1>1, FaultAssumption DEF CacheReserve
  <2> QED
    BY <1>0, <2>1, <2>2, <2>3 DEF QuotaTypeOK
<1>2. CASE TryCache(c) \/ RetryCache(c)
  BY <1>1, <1>2 DEF TryCache, RetryCache
<1>3. CASE Hydrate(c)
  <2>1. CallTypes' /\ HashTypes' /\ RowTypes'
    BY <1>0, <1>3 DEF Hydrate
  <2>2. BudgetTypes'
    BY <1>0, <1>3, FaultAssumption DEF Hydrate
  <2> QED
    BY <1>0, <2>1, <2>2 DEF QuotaTypeOK
<1>4. CASE Populate(c)
  <2>1. CallTypes' /\ RowTypes'
    BY <1>0, <1>4 DEF Populate
  <2>2. HashTypes'
    BY <1>0, <1>4 DEF Populate, Publish
  <2>3. BudgetTypes'
    BY <1>0, <1>4, FaultAssumption DEF Populate
  <2> QED
    BY <1>0, <2>1, <2>2, <2>3 DEF QuotaTypeOK
<1>5. CASE DBReserve(c)
  <2>1. CallTypes' /\ RowTypes' /\ HashTypes'
    BY <1>0, <1>5 DEF DBReserve
  <2>2. BudgetTypes'
    BY <1>0, <1>5, FaultAssumption DEF DBReserve
  <2> QED
    BY <1>0, <2>1, <2>2 DEF QuotaTypeOK
<1>6. CASE Persist(c)
  <2>1. CallTypes' /\ RowTypes' /\ HashTypes'
    BY <1>0, <1>6 DEF Persist, AddToRow
  <2>2. BudgetTypes'
    BY <1>0, <1>6, FaultAssumption DEF Persist
  <2> QED
    BY <1>0, <2>1, <2>2 DEF QuotaTypeOK
<1>7. CASE Compensate(c)
  <2>1. CallTypes' /\ RowTypes' /\ HashTypes'
    BY <1>0, <1>7 DEF Compensate, AddToCache
  <2>2. BudgetTypes'
    BY <1>0, <1>7, FaultAssumption DEF Compensate
  <2> QED
    BY <1>0, <2>1, <2>2 DEF QuotaTypeOK
<1>8. CASE Launch(c)
  <2>1. CallTypes' /\ RowTypes' /\ HashTypes' /\ BudgetTypes'
    BY <1>0, <1>8 DEF Launch
  <2> QED
    BY <1>0, <2>1 DEF QuotaTypeOK
<1>9. CASE Write(c)
  <2>1. CallTypes' /\ RowTypes' /\ HashTypes'
    BY <1>0, <1>9 DEF Write, AddToRow
  <2>2. BudgetTypes'
    BY <1>0, <1>9, FaultAssumption DEF Write
  <2> QED
    BY <1>0, <2>1, <2>2 DEF QuotaTypeOK
<1>10. CASE ApplyAsync(c)
  <2>1. CallTypes' /\ RowTypes' /\ HashTypes'
    BY <1>0, <1>10 DEF ApplyAsync, AddToCache
  <2>2. BudgetTypes'
    BY <1>0, <1>10, FaultAssumption DEF ApplyAsync
  <2> QED
    BY <1>0, <2>1, <2>2 DEF QuotaTypeOK
<1> QED
  BY <1>2, <1>3, <1>4, <1>5, <1>6, <1>7, <1>8, <1>9, <1>10 DEF CallerStep

\* Every step keeps the types.
LEMMA QuotaTypesStep == QuotaTypeOK /\ [QuotaNext]_reserveVars => QuotaTypeOK'
<1> SUFFICES ASSUME QuotaTypeOK, [QuotaNext]_reserveVars PROVE QuotaTypeOK'
  OBVIOUS
<1>0. deployment \in Deployments /\ RowTypes /\ HashTypes /\ CallTypes /\ BudgetTypes
  BY QuotaTypeParts
<1> USE DEF RowTypes, HashTypes, CallTypes, BudgetTypes, Go, quotaVars, cacheVars, callVars, budget, CallLabels, Finished
<1>1. CASE UNCHANGED reserveVars
  BY <1>0, <1>1 DEF reserveVars, QuotaTypeOK
<1>2. ASSUME UNCHANGED deployment, NEW c \in Callers, NEW o \in Operations, NEW n \in QuotaAmounts, Begin(c, o, n)
      PROVE  QuotaTypeOK'
  <2>1. o \in {"reserve", "increase", "decrease"} /\ n \in Nat
    BY <1>2, ChoiceAssumption
  <2>2. CallTypes'
    BY <1>0, <1>2, <2>1 DEF Begin, First
  <2>3. RowTypes' /\ HashTypes' /\ BudgetTypes'
    BY <1>0, <1>2 DEF Begin
  <2> QED
    BY <1>0, <1>2, <2>2, <2>3 DEF QuotaTypeOK
<1>3. ASSUME UNCHANGED deployment, TakeBatch \/ WriteBatch PROVE QuotaTypeOK'
  BY <1>0, <1>3, FaultAssumption DEF TakeBatch, WriteBatch, QuotaTypeOK
<1>4. ASSUME UNCHANGED deployment, Expire \/ LowerFence PROVE QuotaTypeOK'
  <2>1. HashTypes'
    <3>1. warm' \in BOOLEAN /\ fence' \in BOOLEAN
      BY <1>0, <1>4, Zenon DEF Expire, LowerFence
    <3>2. cache' \in Int /\ (~warm' => cache' = 0)
      BY <1>0, <1>4 DEF Expire, LowerFence
    <3> QED
      BY <3>1, <3>2
  <2>2. RowTypes' /\ CallTypes' /\ BudgetTypes'
    BY <1>0, <1>4, FaultAssumption DEF Expire, LowerFence
  <2> QED
    BY <1>0, <1>4, <2>1, <2>2 DEF QuotaTypeOK
<1>5. ASSUME UNCHANGED deployment, Crash PROVE QuotaTypeOK'
  BY <1>0, <1>5, FaultAssumption DEF Crash, QuotaTypeOK
<1> QED
  BY <1>1, <1>2, <1>3, <1>4, <1>5, CallerTypes DEF QuotaNext

-----------------------------------------------------------------------------
(* Where a caller is, and what that says of its operation and goroutine.    *)

\* What a caller's place says of its operation and of its goroutine.
Placed(c) ==
    /\ at[c] = "idle" => amount[c] = 0 /\ op[c] = "reserve"
    /\ at[c] \in {"try", "hydrate", "populate", "retry", "dbReserve", "persist", "compensate", "refused"} => op[c] = "reserve"
    /\ at[c] \in {"launch", "write"} => op[c] \in {"increase", "decrease"}
    /\ op[c] = "reserve" => async[c] = "none"
    /\ at[c] = "launch" => async[c] = "none" /\ LaunchesFirst(c)
    /\ at[c] = "write" => (async[c] # "none" <=> RedisEnabled /\ LaunchesFirst(c))
    /\ at[c] = "done" /\ op[c] # "reserve" /\ RedisEnabled => async[c] # "none"
    /\ at[c] \in {"failed", "compensate", "crashed"} /\ faults = 0 => async[c] = "none" /\ at[c] = "failed"

CallersPlaced == \A c \in Callers : Placed(c)

\* Without Redis nobody meets a hash.
NoHash ==
    ~RedisEnabled =>
        /\ ~warm
        /\ \A c \in Callers : /\ async[c] = "none"
                              /\ at[c] \notin {"try", "hydrate", "populate", "retry", "persist", "compensate"}

\* The hash has been there from the start and nobody failed to reach it ...
Steady == RedisEnabled /\ deployment.warm /\ expiries = 0 /\ redisErrors = 0

\* ... so nobody has had to look elsewhere.
HashStays ==
    Steady => warm /\ ~fence /\ \A c \in Callers : at[c] \notin {"hydrate", "populate", "retry", "dbReserve"}

NothingLost == faults = 0 => lost = 0

\* Everything about caller d is as it was.
Same(d) == at'[d] = at[d] /\ op'[d] = op[d] /\ amount'[d] = amount[d] /\ async'[d] = async[d]

\* The other callers are where they were.
Elsewhere(c) == \A d \in Callers \ {c} : Same(d)

\* Budgets only grow, and the deployment is for good.
LEMMA BudgetsGrow ==
    ASSUME QuotaTypeOK, QuotaNext
    PROVE  /\ deployment' = deployment
           /\ (faults' = 0 => faults = 0) /\ (expiries' = 0 => expiries = 0) /\ (redisErrors' = 0 => redisErrors = 0)
<1> USE DEF quotaVars, cacheVars, callVars, budget, RedisError, DBError, QuotaTypeOK
<1>1. expiries \in Nat /\ redisErrors \in Nat /\ faults \in Nat
  BY FaultAssumption
<1>2. CASE \E c \in Callers, o \in Operations, n \in QuotaAmounts : Begin(c, o, n)
  BY <1>1, <1>2 DEF Begin, QuotaNext
<1>3. ASSUME NEW c \in Callers, CallerStep(c)
      PROVE  (faults' = 0 => faults = 0) /\ (expiries' = 0 => expiries = 0) /\ (redisErrors' = 0 => redisErrors = 0)
  <2>1. CASE TryCache(c) \/ RetryCache(c)
    BY <1>1, <2>1 DEF TryCache, RetryCache, CacheReserve
  <2>2. CASE Hydrate(c) \/ Populate(c) \/ DBReserve(c)
    BY <1>1, <2>2 DEF Hydrate, Populate, DBReserve
  <2>3. CASE Persist(c) \/ Compensate(c) \/ Launch(c)
    BY <1>1, <2>3 DEF Persist, Compensate, Launch
  <2>4. CASE Write(c) \/ ApplyAsync(c)
    BY <1>1, <2>4 DEF Write, ApplyAsync
  <2> QED
    BY <1>3, <2>1, <2>2, <2>3, <2>4 DEF CallerStep
<1>4. CASE TakeBatch \/ WriteBatch \/ Expire \/ LowerFence \/ Crash
  BY <1>1, <1>4 DEF TakeBatch, WriteBatch, Expire, LowerFence, Crash, QuotaNext
<1>5. CASE UNCHANGED reserveVars
  BY <1>5 DEF reserveVars
<1> QED
  BY <1>2, <1>3, <1>4, <1>5 DEF QuotaNext

\* A caller's step leaves the other callers alone, and its own operation.
LEMMA CallerMoves ==
    ASSUME QuotaTypeOK, NEW c \in Callers, CallerStep(c)
    PROVE  Elsewhere(c) /\ op' = op /\ amount' = amount
<1> USE DEF quotaVars, cacheVars, callVars, budget, QuotaTypeOK, Elsewhere, Same, Go
<1>1. CASE TryCache(c) \/ RetryCache(c)
  BY <1>1 DEF TryCache, RetryCache, CacheReserve
<1>2. CASE Hydrate(c) \/ Populate(c) \/ DBReserve(c)
  BY <1>2 DEF Hydrate, Populate, DBReserve
<1>3. CASE Persist(c) \/ Compensate(c) \/ Launch(c)
  BY <1>3 DEF Persist, Compensate, Launch
<1>4. CASE Write(c) \/ ApplyAsync(c)
  BY <1>4 DEF Write, ApplyAsync
<1> QED
  BY <1>1, <1>2, <1>3, <1>4 DEF CallerStep

\* A caller that nothing happens to stays placed.
LEMMA PlacedFrame ==
    ASSUME NEW d, Placed(d), Same(d), UNCHANGED deployment, faults' = 0 => faults = 0
    PROVE  Placed(d)'
  BY DEF Placed, Same, LaunchesFirst, Row, RedisEnabled

\* A caller that steps is placed again.
LEMMA PlacedMove ==
    ASSUME QuotaTypeOK, UNCHANGED deployment, NEW c \in Callers, Placed(c), CallerStep(c),
           faults' = 0 => faults = 0, op' = op, amount' = amount
    PROVE  Placed(c)'
<1> USE DEF quotaVars, cacheVars, callVars, budget, QuotaTypeOK, Placed, Go, LaunchesFirst, Row, RedisEnabled
<1>0. faults \in Nat
  BY FaultAssumption
<1>1. CASE TryCache(c) \/ RetryCache(c)
  BY <1>1 DEF TryCache, RetryCache, CacheReserve
<1>2. CASE Hydrate(c) \/ Populate(c)
  BY <1>2 DEF Hydrate, Populate
<1>3. CASE DBReserve(c)
  BY <1>3 DEF DBReserve
<1>4. CASE Persist(c) \/ Compensate(c)
  BY <1>0, <1>4 DEF Persist, Compensate, DBError
<1>5. CASE Launch(c)
  BY <1>5 DEF Launch, Cached
<1>6. CASE Write(c)
  BY <1>0, <1>6 DEF Write, Cached, DBError, FitsWallet
<1>7. CASE ApplyAsync(c)
  BY <1>7 DEF ApplyAsync
<1> QED
  BY <1>1, <1>2, <1>3, <1>4, <1>5, <1>6, <1>7 DEF CallerStep

\* A caller that begins is placed.
LEMMA PlacedBegin ==
    ASSUME QuotaTypeOK, UNCHANGED deployment, NEW c \in Callers, Placed(c),
           NEW o \in Operations, NEW n \in QuotaAmounts, Begin(c, o, n)
    PROVE  Placed(c)' /\ Elsewhere(c) /\ async' = async /\ async[c] = "none" /\ amount[c] = 0
           /\ n \in Nat /\ op'[c] = o /\ amount'[c] = n /\ at[c] = "idle" /\ at'[c] = First(o)
           /\ o \in {"reserve", "increase", "decrease"}
<1>1. o \in {"reserve", "increase", "decrease"} /\ n \in Nat
  BY ChoiceAssumption
<1>2. /\ at[c] = "idle" /\ at'[c] = First(o) /\ op'[c] = o /\ amount'[c] = n /\ async' = async /\ faults' = faults
      /\ Elsewhere(c)
  BY DEF Begin, Go, QuotaTypeOK, Elsewhere, Same, budget
<1>3. async[c] = "none" /\ amount[c] = 0
  BY <1>2 DEF Placed
<1>4. Placed(c)'
  BY <1>1, <1>2, <1>3 DEF Placed, First, LaunchesFirst, Row, RedisEnabled
<1> QED
  BY <1>1, <1>2, <1>3, <1>4

\* Every step keeps the callers placed.
LEMMA PlacedStep == QuotaTypeOK /\ CallersPlaced /\ [QuotaNext]_reserveVars => CallersPlaced'
<1> SUFFICES ASSUME QuotaTypeOK, CallersPlaced, [QuotaNext]_reserveVars, NEW d \in Callers PROVE Placed(d)'
  BY DEF CallersPlaced
<1>0. Placed(d)
  BY DEF CallersPlaced
<1>1. CASE UNCHANGED reserveVars
  BY <1>0, <1>1, PlacedFrame DEF reserveVars, callVars, budget, Same
<1>2. CASE QuotaNext
  <2>0. deployment' = deployment /\ (faults' = 0 => faults = 0)
    BY <1>2, BudgetsGrow
  <2>1. ASSUME NEW c \in Callers, NEW o \in Operations, NEW n \in QuotaAmounts, Begin(c, o, n) PROVE Placed(d)'
    <3>1. CASE d = c
      BY <1>0, <2>0, <2>1, <3>1, PlacedBegin
    <3>2. CASE d # c
      <4>1. Placed(c)
        BY DEF CallersPlaced
      <4>2. Same(d)
        BY <2>0, <2>1, <3>2, <4>1, PlacedBegin DEF Elsewhere
      <4> QED
        BY <1>0, <2>0, <4>2, PlacedFrame
    <3> QED
      BY <3>1, <3>2
  <2>2. ASSUME NEW c \in Callers, CallerStep(c) PROVE Placed(d)'
    <3>1. Elsewhere(c) /\ op' = op /\ amount' = amount
      BY <2>2, CallerMoves
    <3>2. CASE d = c
      BY <1>0, <2>0, <2>2, <3>1, <3>2, PlacedMove
    <3>3. CASE d # c
      BY <1>0, <2>0, <3>1, <3>3, PlacedFrame DEF Elsewhere
    <3> QED
      BY <3>2, <3>3
  <2>3. CASE TakeBatch \/ WriteBatch \/ Expire \/ LowerFence
    BY <1>0, <2>0, <2>3, PlacedFrame DEF TakeBatch, WriteBatch, Expire, LowerFence, callVars, Same
  <2>4. CASE Crash
    <3>1. faults' # 0
      BY <2>4, FaultAssumption DEF Crash, QuotaTypeOK
    <3> QED
      BY <1>0, <2>0, <2>4, <3>1 DEF Crash, Placed, Finished, QuotaTypeOK, LaunchesFirst, Row, RedisEnabled
  <2> QED
    BY <1>1, <1>2, <2>1, <2>2, <2>3, <2>4 DEF QuotaNext
<1> QED
  BY <1>1, <1>2

\* What a deployment decides is Boolean.
LEMMA DeploymentTypes ==
    ASSUME QuotaTypeOK
    PROVE  RedisEnabled \in BOOLEAN /\ Batch \in BOOLEAN /\ deployment.warm \in BOOLEAN /\ Row \in {"user", "token"}
  BY SwitchAssumption DEF QuotaTypeOK, Deployment, RedisEnabled, Batch, Row

\* Without Redis there is never a hash, nor anyone on the way to one.
LEMMA NoHashStep == QuotaTypeOK /\ CallersPlaced /\ NoHash /\ [QuotaNext]_reserveVars => NoHash'
<1> SUFFICES ASSUME QuotaTypeOK, CallersPlaced, NoHash, [QuotaNext]_reserveVars, ~RedisEnabled'
             PROVE  /\ ~warm'
                    /\ \A d \in Callers : /\ async'[d] = "none"
                                          /\ at'[d] \notin {"try", "hydrate", "populate", "retry", "persist", "compensate"}
  BY DEF NoHash
<1> USE DEF quotaVars, cacheVars, callVars, budget, QuotaTypeOK
<1>1. CASE UNCHANGED reserveVars
  BY <1>1 DEF reserveVars, NoHash, RedisEnabled
<1>2. CASE QuotaNext
  <2>0. ~RedisEnabled /\ ~warm
    BY <1>2, BudgetsGrow DEF RedisEnabled, NoHash
  <2>1. ASSUME NEW d \in Callers
        PROVE  async[d] = "none" /\ at[d] \notin {"try", "hydrate", "populate", "retry", "persist", "compensate"}
    BY <2>0 DEF NoHash
  <2>2. ASSUME NEW c \in Callers, NEW o \in Operations, NEW n \in QuotaAmounts, Begin(c, o, n)
        PROVE  /\ ~warm'
               /\ \A d \in Callers : /\ async'[d] = "none"
                                     /\ at'[d] \notin {"try", "hydrate", "populate", "retry", "persist", "compensate"}
    BY <2>0, <2>1, <2>2 DEF Begin, Go, First
  <2>3. ASSUME NEW c \in Callers, CallerStep(c)
        PROVE  /\ ~warm'
               /\ \A d \in Callers : /\ async'[d] = "none"
                                     /\ at'[d] \notin {"try", "hydrate", "populate", "retry", "persist", "compensate"}
    <3>1. DBReserve(c) \/ Launch(c) \/ Write(c)
      BY <2>1, <2>3 DEF CallerStep, TryCache, Hydrate, Populate, RetryCache, Persist, Compensate, ApplyAsync
    <3> QED
      BY <2>0, <2>1, <3>1 DEF DBReserve, Launch, Write, Go
  <2>4. CASE TakeBatch \/ WriteBatch \/ LowerFence
    BY <2>0, <2>1, <2>4 DEF TakeBatch, WriteBatch, LowerFence
  <2>5. CASE Expire
    BY <2>0, <2>5 DEF Expire
  <2>6. CASE Crash
    BY <2>0, <2>1, <2>6 DEF Crash, Finished
  <2> QED
    BY <1>1, <1>2, <2>2, <2>3, <2>4, <2>5, <2>6 DEF QuotaNext
<1> QED
  BY <1>1, <1>2

\* A step that ends in a steady state began in one, and met no error of Redis.
LEMMA SteadyBefore ==
    ASSUME QuotaTypeOK, [QuotaNext]_reserveVars, Steady'
    PROVE  Steady /\ ~Expire /\ ~RedisError
<1>1. CASE UNCHANGED reserveVars
  BY <1>1 DEF reserveVars, budget, Steady, RedisEnabled, Expire, RedisError, QuotaTypeOK
<1>2. CASE QuotaNext
  <2>1. Steady /\ redisErrors' = 0 /\ expiries' = 0
    BY <1>2, BudgetsGrow DEF Steady, RedisEnabled
  <2>2. ~Expire /\ ~RedisError
    BY <2>1 DEF Expire, RedisError, Steady
  <2> QED
    BY <2>1, <2>2
<1> QED
  BY <1>1, <1>2

\* A hash that nothing has disturbed is still there.
LEMMA HashStaysStep == QuotaTypeOK /\ CallersPlaced /\ HashStays /\ [QuotaNext]_reserveVars => HashStays'
<1> SUFFICES ASSUME QuotaTypeOK, CallersPlaced, HashStays, [QuotaNext]_reserveVars, Steady'
             PROVE  warm' /\ ~fence' /\ \A d \in Callers : at'[d] \notin {"hydrate", "populate", "retry", "dbReserve"}
  BY DEF HashStays
<1>0. Steady /\ ~Expire /\ ~RedisError /\ warm /\ ~fence /\ RedisEnabled
  BY SteadyBefore DEF HashStays, Steady
<1>1. ASSUME NEW d \in Callers PROVE at[d] \notin {"hydrate", "populate", "retry", "dbReserve"}
  BY <1>0 DEF HashStays
<1> USE DEF quotaVars, cacheVars, callVars, budget, QuotaTypeOK
<1>2. CASE UNCHANGED reserveVars
  BY <1>0, <1>1, <1>2 DEF reserveVars
<1>3. ASSUME NEW c \in Callers, NEW o \in Operations, NEW n \in QuotaAmounts, Begin(c, o, n)
      PROVE  warm' /\ ~fence' /\ \A d \in Callers : at'[d] \notin {"hydrate", "populate", "retry", "dbReserve"}
  BY <1>0, <1>1, <1>3 DEF Begin, Go, First
<1>4. ASSUME NEW c \in Callers, CallerStep(c)
      PROVE  warm' /\ ~fence' /\ \A d \in Callers : at'[d] \notin {"hydrate", "populate", "retry", "dbReserve"}
  <2>1. TryCache(c) \/ Persist(c) \/ Compensate(c) \/ Launch(c) \/ Write(c) \/ ApplyAsync(c)
    BY <1>1, <1>4 DEF CallerStep, Hydrate, Populate, RetryCache, DBReserve
  <2>2. CASE TryCache(c)
    <3>1. warm' = warm /\ fence' = fence
      BY <1>0, <2>2 DEF TryCache, CacheReserve, Go
    <3>2. \A d \in Callers : at'[d] \notin {"hydrate", "populate", "retry", "dbReserve"}
      BY <1>0, <1>1, <2>2 DEF TryCache, CacheReserve, Go
    <3> QED
      BY <1>0, <3>1, <3>2, Zenon
  <2>3. CASE Persist(c) \/ Launch(c) \/ Write(c)
    <3>1. warm' = warm /\ fence' = fence
      BY <1>0, <2>3 DEF Persist, Launch, Write, Go
    <3>2. \A d \in Callers : at'[d] \notin {"hydrate", "populate", "retry", "dbReserve"}
      BY <1>0, <1>1, <2>3 DEF Persist, Launch, Write, Go
    <3> QED
      BY <1>0, <3>1, <3>2, Zenon
  <2>4. CASE Compensate(c) \/ ApplyAsync(c)
    <3>1. warm' = warm /\ fence' = fence
      BY <1>0, <2>4 DEF Compensate, ApplyAsync, AddToCache, Go
    <3>2. \A d \in Callers : at'[d] \notin {"hydrate", "populate", "retry", "dbReserve"}
      BY <1>0, <1>1, <2>4 DEF Compensate, ApplyAsync, AddToCache, Go
    <3> QED
      BY <1>0, <3>1, <3>2, Zenon
  <2> QED
    BY <2>1, <2>2, <2>3, <2>4
<1>5. CASE TakeBatch \/ WriteBatch \/ LowerFence
  <2>1. warm' = warm /\ fence' = fence
    BY <1>0, <1>5 DEF TakeBatch, WriteBatch, LowerFence
  <2>2. at' = at
    BY <1>5 DEF TakeBatch, WriteBatch, LowerFence
  <2> QED
    BY <1>0, <1>1, <2>1, <2>2, Zenon
<1>6. CASE Crash
  BY <1>0, <1>1, <1>6 DEF Crash, Finished
<1> QED
  BY <1>0, <1>2, <1>3, <1>4, <1>5, <1>6 DEF QuotaNext

\* Without a failure of the database or a crash nothing is lost.
LEMMA NothingLostStep == QuotaTypeOK /\ NothingLost /\ [QuotaNext]_reserveVars => NothingLost'
<1> SUFFICES ASSUME QuotaTypeOK, NothingLost, [QuotaNext]_reserveVars, faults' = 0 PROVE lost' = 0
  BY DEF NothingLost
<1> USE DEF quotaVars, cacheVars, callVars, budget, QuotaTypeOK, NothingLost
<1>1. CASE UNCHANGED reserveVars
  BY <1>1 DEF reserveVars
<1>2. CASE QuotaNext
  <2>0. faults = 0 /\ lost = 0
    BY <1>2, BudgetsGrow
  <2>1. ASSUME NEW c \in Callers, CallerStep(c) PROVE lost' = 0
    <3>1. CASE TryCache(c) \/ RetryCache(c) \/ Hydrate(c) \/ Populate(c)
      BY <2>0, <3>1 DEF TryCache, RetryCache, CacheReserve, Hydrate, Populate, DBError
    <3>2. CASE DBReserve(c) \/ Persist(c) \/ Compensate(c)
      BY <2>0, <3>2 DEF DBReserve, Persist, Compensate, AddToRow, DBError
    <3>3. CASE Launch(c) \/ Write(c) \/ ApplyAsync(c)
      BY <2>0, <3>3 DEF Launch, Write, ApplyAsync, AddToRow, DBError
    <3> QED
      BY <2>1, <3>1, <3>2, <3>3 DEF CallerStep
  <2>2. CASE \E c \in Callers, o \in Operations, n \in QuotaAmounts : Begin(c, o, n)
    BY <2>0, <2>2 DEF Begin
  <2>3. CASE TakeBatch \/ WriteBatch \/ Expire \/ LowerFence \/ Crash
    BY <2>0, <2>3 DEF TakeBatch, WriteBatch, Expire, LowerFence, Crash
  <2> QED
    BY <1>1, <1>2, <2>1, <2>2, <2>3 DEF QuotaNext
<1> QED
  BY <1>1, <1>2

-----------------------------------------------------------------------------
(* What the callers have done, added up.                                    *)

\* The quota a reservation has taken from the hash and not brought back.
Holds == [c \in Callers |-> IF op[c] = "reserve" /\ at[c] \in {"persist", "done", "compensate"} THEN amount[c] ELSE 0]

\* The quota an increase may have brought to the hash, and to the row.
Arrived == [c \in Callers |-> IF op[c] = "increase" /\ async[c] = "gone" THEN amount[c] ELSE 0]
Banked  == [c \in Callers |-> IF op[c] = "increase" /\ at[c] = "done" THEN amount[c] ELSE 0]

\* What each operation has done to a hash that is always reached.
Shown == [c \in Callers |-> IF op[c] = "reserve" THEN 0 - Reserves[c] ELSE IF async[c] = "gone" THEN Delta(c) ELSE 0]

\* The hash never shows more than the row had, less what is reserved, plus what has arrived.
HashCovers == Steady => SumFunction(Holds) + cache <= InitQuota + SumFunction(Arrived)

\* As long as the database works too, the hash shows exactly what was done to it.
HashBooks == Steady /\ faults = 0 => cache = InitQuota + SumFunction(Shown)

\* Without Redis the same of the row, whichever of the deltas under way are lost.
RowCovers ==
    ~RedisEnabled =>
        /\ SumFunction(Reserves) + db <= InitQuota + SumFunction(Banked)
        /\ SumFunction(Reserves) + db + queue <= InitQuota + SumFunction(Banked)
        /\ SumFunction(Reserves) + db + taken <= InitQuota + SumFunction(Banked)
        /\ SumFunction(Reserves) + db + queue + taken <= InitQuota + SumFunction(Banked)

\* All these functions are functions of the callers.
LEMMA TotalTypes ==
    CallTypes => /\ Effects \in [Callers -> Int] /\ Shown \in [Callers -> Int]
                 /\ Reserves \in [Callers -> Nat] /\ Credits \in [Callers -> Nat]
                 /\ Holds \in [Callers -> Nat] /\ Arrived \in [Callers -> Nat] /\ Banked \in [Callers -> Nat]
<1> SUFFICES ASSUME CallTypes
             PROVE  /\ Effects \in [Callers -> Int] /\ Shown \in [Callers -> Int]
                    /\ Reserves \in [Callers -> Nat] /\ Credits \in [Callers -> Nat]
                    /\ Holds \in [Callers -> Nat] /\ Arrived \in [Callers -> Nat] /\ Banked \in [Callers -> Nat]
  OBVIOUS
<1>1. \A c \in Callers : Delta(c) \in Int /\ amount[c] \in Nat
  BY DeltaType
<1>2. Reserves \in [Callers -> Nat] /\ Credits \in [Callers -> Nat]
  BY <1>1 DEF Reserves, Credits
<1>3. Holds \in [Callers -> Nat] /\ Arrived \in [Callers -> Nat] /\ Banked \in [Callers -> Nat]
  BY <1>1 DEF Holds, Arrived, Banked
<1>4. Effects \in [Callers -> Int]
  BY <1>1 DEF Effects
<1>5. Shown \in [Callers -> Int]
  <2>1. \A c \in Callers : Reserves[c] \in Nat
    BY <1>2
  <2> QED
    BY <1>1, <2>1 DEF Shown
<1> QED
  BY <1>2, <1>3, <1>4, <1>5

\* The same after a step.
LEMMA TotalTypesAfter ==
    (CallTypes => /\ Effects \in [Callers -> Int] /\ Shown \in [Callers -> Int]
                  /\ Reserves \in [Callers -> Nat] /\ Credits \in [Callers -> Nat]
                  /\ Holds \in [Callers -> Nat] /\ Arrived \in [Callers -> Nat] /\ Banked \in [Callers -> Nat])'
  BY TotalTypes, PTL

\* Their sums are integers.
LEMMA TotalIsInt ==
    ASSUME NEW f, f \in [Callers -> Int] \/ f \in [Callers -> Nat]
    PROVE  SumFunction(f) \in Int
<1>1. f \in [Callers -> Int]
  OBVIOUS
<1> QED
  BY <1>1, SumType, CallerAssumption

\* One caller moves, and the sum with it.
LEMMA TotalMoves ==
    ASSUME NEW c \in Callers, NEW f, f \in [Callers -> Int] \/ f \in [Callers -> Nat],
           NEW g, g \in [Callers -> Int] \/ g \in [Callers -> Nat],
           \A d \in Callers \ {c} : g[d] = f[d]
    PROVE  SumFunction(f) \in Int /\ SumFunction(g) \in Int /\ SumFunction(g) = SumFunction(f) + g[c] - f[c]
<1>1. f \in [Callers -> Int] /\ g \in [Callers -> Int]
  OBVIOUS
<1> QED
  BY <1>1, SumChange, SumType, CallerAssumption

\* When one caller moves, each of the sums changes by what that caller's entry does.
LEMMA TotalsMove ==
    ASSUME CallTypes, CallTypes', NEW c \in Callers, Elsewhere(c)
    PROVE  /\ SumFunction(Effects') = SumFunction(Effects) + Effects'[c] - Effects[c]
           /\ SumFunction(Shown') = SumFunction(Shown) + Shown'[c] - Shown[c]
           /\ SumFunction(Reserves') = SumFunction(Reserves) + Reserves'[c] - Reserves[c]
           /\ SumFunction(Credits') = SumFunction(Credits) + Credits'[c] - Credits[c]
           /\ SumFunction(Holds') = SumFunction(Holds) + Holds'[c] - Holds[c]
           /\ SumFunction(Arrived') = SumFunction(Arrived) + Arrived'[c] - Arrived[c]
           /\ SumFunction(Banked') = SumFunction(Banked) + Banked'[c] - Banked[c]
<1> USE TotalTypes, TotalTypesAfter DEF Elsewhere, Same
<1>1. \A d \in Callers \ {c} : Delta(d)' = Delta(d)
  BY DEF Delta
<1>2. \A d \in Callers \ {c} : Effects'[d] = Effects[d]
  BY <1>1 DEF Effects
<1>3. \A d \in Callers \ {c} : Reserves'[d] = Reserves[d] /\ Credits'[d] = Credits[d]
  BY DEF Reserves, Credits
<1>4. \A d \in Callers \ {c} : Holds'[d] = Holds[d] /\ Arrived'[d] = Arrived[d] /\ Banked'[d] = Banked[d]
  BY DEF Holds, Arrived, Banked
<1>5. \A d \in Callers \ {c} : Shown'[d] = Shown[d]
  BY <1>1, <1>3 DEF Shown
<1>6. SumFunction(Effects') = SumFunction(Effects) + Effects'[c] - Effects[c]
  BY <1>2, TotalMoves
<1>7. SumFunction(Shown') = SumFunction(Shown) + Shown'[c] - Shown[c]
  BY <1>5, TotalMoves
<1>8. SumFunction(Reserves') = SumFunction(Reserves) + Reserves'[c] - Reserves[c]
  BY <1>3, TotalMoves
<1>9. SumFunction(Credits') = SumFunction(Credits) + Credits'[c] - Credits[c]
  BY <1>3, TotalMoves
<1>10. SumFunction(Holds') = SumFunction(Holds) + Holds'[c] - Holds[c]
  BY <1>4, TotalMoves
<1>11. SumFunction(Arrived') = SumFunction(Arrived) + Arrived'[c] - Arrived[c]
  BY <1>4, TotalMoves
<1>12. SumFunction(Banked') = SumFunction(Banked) + Banked'[c] - Banked[c]
  BY <1>4, TotalMoves
<1> QED
  BY <1>6, <1>7, <1>8, <1>9, <1>10, <1>11, <1>12

\* The sums and the entries are integers, before and after a step.
LEMMA TotalInts ==
    CallTypes => /\ SumFunction(Effects) \in Int /\ SumFunction(Shown) \in Int /\ SumFunction(Reserves) \in Int
                 /\ SumFunction(Credits) \in Int /\ SumFunction(Holds) \in Int /\ SumFunction(Arrived) \in Int
                 /\ SumFunction(Banked) \in Int
                 /\ \A c \in Callers : /\ Effects[c] \in Int /\ Shown[c] \in Int /\ Reserves[c] \in Nat
                                       /\ Credits[c] \in Nat /\ Holds[c] \in Nat /\ Arrived[c] \in Nat /\ Banked[c] \in Nat
  BY TotalTypes, TotalIsInt

\* The same after a step.
LEMMA TotalIntsAfter ==
    (CallTypes => /\ SumFunction(Effects) \in Int /\ SumFunction(Shown) \in Int /\ SumFunction(Reserves) \in Int
                  /\ SumFunction(Credits) \in Int /\ SumFunction(Holds) \in Int /\ SumFunction(Arrived) \in Int
                  /\ SumFunction(Banked) \in Int
                  /\ \A c \in Callers : /\ Effects[c] \in Int /\ Shown[c] \in Int /\ Reserves[c] \in Nat
                                        /\ Credits[c] \in Nat /\ Holds[c] \in Nat /\ Arrived[c] \in Nat /\ Banked[c] \in Nat)'
  BY TotalInts, PTL

\* A step in which the callers keep their places keeps the sums.
LEMMA TotalsStay ==
    ASSUME UNCHANGED <<at, op, amount, async>>
    PROVE  /\ Effects' = Effects /\ Shown' = Shown /\ Reserves' = Reserves /\ Credits' = Credits
           /\ Holds' = Holds /\ Arrived' = Arrived /\ Banked' = Banked
  BY DEF Effects, Shown, Reserves, Credits, Holds, Arrived, Banked, Delta

\* Beginning an operation changes no sum but that of the credits, which grows.
LEMMA TotalsBegin ==
    ASSUME QuotaTypeOK, UNCHANGED deployment, NEW c \in Callers, Placed(c),
           NEW o \in Operations, NEW n \in QuotaAmounts, Begin(c, o, n)
    PROVE  /\ Effects'[c] = Effects[c] /\ Shown'[c] = Shown[c] /\ Reserves'[c] = Reserves[c]
           /\ Credits'[c] >= Credits[c]
           /\ Holds'[c] = Holds[c] /\ Arrived'[c] = Arrived[c] /\ Banked'[c] = Banked[c]
<1>1. /\ async'[c] = "none" /\ async[c] = "none" /\ amount[c] = 0 /\ n \in Nat /\ op'[c] = o /\ amount'[c] = n
      /\ at[c] = "idle" /\ at'[c] = First(o) /\ o \in {"reserve", "increase", "decrease"}
  BY PlacedBegin
<1>2. at'[c] \in {"try", "dbReserve", "launch", "write"}
  BY <1>1 DEF First
<1>3. op[c] = "reserve"
  BY <1>1 DEF Placed
<1>4. Reserves[c] = 0 /\ Reserves'[c] = 0 /\ Credits[c] = 0 /\ Credits'[c] >= 0
  BY <1>1, <1>2, <1>3 DEF Reserves, Credits
<1>5. /\ Effects'[c] = Effects[c] /\ Holds'[c] = Holds[c] /\ Arrived'[c] = Arrived[c] /\ Banked'[c] = Banked[c]
  BY <1>1, <1>2, <1>3 DEF Effects, Holds, Arrived, Banked
<1>6. Shown'[c] = Shown[c]
  BY <1>1, <1>3, <1>4 DEF Shown
<1> QED
  BY <1>4, <1>5, <1>6

\* A caller's step moves the row, the batch store and the caller's effect together.
LEMMA CallerBooks ==
    ASSUME QuotaTypeOK, QuotaTypeOK', NEW c \in Callers, Placed(c), CallerStep(c)
    PROVE  db' + queue' + taken' + lost' = db + queue + taken + lost + Effects'[c] - Effects[c]
<1>0. /\ op'[c] = op[c] /\ amount'[c] = amount[c] /\ amount[c] \in Nat
      /\ db \in Int /\ queue \in Int /\ taken \in Int /\ lost \in Int
  BY CallerMoves DEF QuotaTypeOK
<1>1. Effects[c] = (IF at[c] = "done" THEN Delta(c) ELSE 0) /\ Effects'[c] = (IF at'[c] = "done" THEN Delta(c) ELSE 0)
  BY <1>0 DEF Effects, Delta
<1>2. Delta(c) \in Int /\ (op[c] = "reserve" => Delta(c) = -amount[c])
  BY <1>0 DEF Delta
<1> USE DEF quotaVars, cacheVars, budget, Go, DBError, RedisError
<1>3. CASE TryCache(c) \/ RetryCache(c)
  <2>1. at[c] # "done" /\ at'[c] # "done" /\ UNCHANGED quotaVars
    BY <1>3 DEF TryCache, RetryCache, CacheReserve, QuotaTypeOK
  <2> QED
    BY <1>0, <1>1, <2>1
<1>4. CASE Hydrate(c) \/ Populate(c) \/ Launch(c) \/ Compensate(c)
  <2>1. at[c] # "done" /\ at'[c] # "done" /\ UNCHANGED quotaVars
    BY <1>4 DEF Hydrate, Populate, Launch, Compensate, QuotaTypeOK
  <2> QED
    BY <1>0, <1>1, <2>1
<1>5. CASE DBReserve(c)
  <2>1. op[c] = "reserve" /\ at[c] # "done"
    BY <1>5 DEF Placed, DBReserve
  <2>2. \/ at'[c] = "done" /\ db' = db - amount[c] /\ UNCHANGED <<queue, taken, lost>>
        \/ at'[c] # "done" /\ UNCHANGED quotaVars
    BY <1>5 DEF DBReserve, QuotaTypeOK
  <2> QED
    BY <1>0, <1>1, <1>2, <2>1, <2>2
<1>6. CASE Persist(c)
  <2>1. op[c] = "reserve" /\ at[c] # "done"
    BY <1>6 DEF Placed, Persist
  <2>2. \/ at'[c] = "done" /\ AddToRow(-amount[c])
        \/ at'[c] # "done" /\ UNCHANGED quotaVars
    BY <1>6 DEF Persist, QuotaTypeOK
  <2> QED
    BY <1>0, <1>1, <1>2, <2>1, <2>2 DEF AddToRow
<1>7. CASE Write(c)
  <2>1. at[c] # "done"
    BY <1>7 DEF Write
  <2>2. \/ at'[c] = "done" /\ AddToRow(Delta(c))
        \/ at'[c] # "done" /\ UNCHANGED quotaVars
    BY <1>7 DEF Write, QuotaTypeOK
  <2> QED
    BY <1>0, <1>1, <1>2, <2>1, <2>2 DEF AddToRow
<1>8. CASE ApplyAsync(c)
  <2>1. at' = at /\ UNCHANGED quotaVars
    BY <1>8 DEF ApplyAsync
  <2> QED
    BY <1>0, <1>1, <1>2, <2>1
<1> QED
  BY <1>3, <1>4, <1>5, <1>6, <1>7, <1>8 DEF CallerStep

\* Every step keeps the books.
LEMMA BooksStep ==
    QuotaTypeOK /\ QuotaTypeOK' /\ CallersPlaced /\ BooksBalance /\ [QuotaNext]_reserveVars => BooksBalance'
<1> SUFFICES ASSUME QuotaTypeOK, QuotaTypeOK', CallersPlaced, BooksBalance, [QuotaNext]_reserveVars
             PROVE  db' + queue' + taken' + lost' = InitQuota + SumFunction(Effects')
  BY DEF BooksBalance
<1>0. /\ CallTypes /\ CallTypes' /\ InitQuota \in Nat
      /\ db \in Int /\ queue \in Int /\ taken \in Int /\ lost \in Int
      /\ db' \in Int /\ queue' \in Int /\ taken' \in Int /\ lost' \in Int
      /\ db + queue + taken + lost = InitQuota + SumFunction(Effects)
  BY RowAssumption DEF QuotaTypeOK, CallTypes, BooksBalance
<1>1. /\ SumFunction(Effects) \in Int /\ SumFunction(Effects') \in Int
      /\ \A c \in Callers : Effects[c] \in Int /\ Effects'[c] \in Int
  BY <1>0, TotalInts, TotalIntsAfter
<1>2. CASE UNCHANGED reserveVars
  BY <1>0, <1>2, TotalsStay DEF reserveVars, callVars, quotaVars
<1>3. ASSUME UNCHANGED deployment, NEW c \in Callers, NEW o \in Operations, NEW n \in QuotaAmounts, Begin(c, o, n)
      PROVE  db' + queue' + taken' + lost' = InitQuota + SumFunction(Effects')
  <2>1. Placed(c)
    BY DEF CallersPlaced
  <2>2. Elsewhere(c) /\ Effects'[c] = Effects[c]
    BY <1>3, <2>1, PlacedBegin, TotalsBegin
  <2>3. SumFunction(Effects') = SumFunction(Effects) + Effects'[c] - Effects[c]
    BY <1>0, <2>2, TotalsMove
  <2> QED
    BY <1>0, <1>1, <1>3, <2>2, <2>3 DEF Begin, quotaVars
<1>4. ASSUME NEW c \in Callers, CallerStep(c)
      PROVE  db' + queue' + taken' + lost' = InitQuota + SumFunction(Effects')
  <2>1. Placed(c)
    BY DEF CallersPlaced
  <2>2. Elsewhere(c)
    BY <1>4, CallerMoves
  <2>3. SumFunction(Effects') = SumFunction(Effects) + Effects'[c] - Effects[c]
    BY <1>0, <2>2, TotalsMove
  <2>4. db' + queue' + taken' + lost' = db + queue + taken + lost + Effects'[c] - Effects[c]
    BY <1>4, <2>1, CallerBooks
  <2> QED
    BY <1>0, <1>1, <2>3, <2>4
<1>5. CASE TakeBatch \/ WriteBatch \/ Expire \/ LowerFence
  <2>1. Effects' = Effects
    BY <1>5, TotalsStay DEF TakeBatch, WriteBatch, Expire, LowerFence, callVars
  <2>2. db' + queue' + taken' + lost' = db + queue + taken + lost
    <3>1. CASE TakeBatch
      BY <1>0, <3>1 DEF TakeBatch
    <3>2. CASE WriteBatch
      <4>1. taken' = 0 /\ queue' = queue /\ ((db' = db + taken /\ lost' = lost) \/ (db' = db /\ lost' = lost + taken))
        BY <3>2 DEF WriteBatch
      <4>2. db \in Int /\ queue \in Int /\ taken \in Int /\ lost \in Int
        BY <1>0
      <4>3. CASE db' = db + taken /\ lost' = lost
        BY <4>1, <4>2, <4>3
      <4>4. CASE db' = db /\ lost' = lost + taken
        BY <4>1, <4>2, <4>4
      <4> QED
        BY <4>1, <4>3, <4>4
    <3>3. CASE Expire \/ LowerFence
      BY <1>0, <3>3 DEF Expire, LowerFence, quotaVars
    <3> QED
      BY <1>5, <3>1, <3>2, <3>3
  <2> QED
    BY <1>0, <2>1, <2>2
<1>6. CASE Crash
  <2>1. Effects' = Effects
    BY <1>6 DEF Crash, Effects, Delta, Finished, QuotaTypeOK
  <2>2. db' + queue' + taken' + lost' = db + queue + taken + lost
    BY <1>0, <1>6 DEF Crash
  <2> QED
    BY <1>0, <2>1, <2>2
<1> QED
  BY <1>2, <1>3, <1>4, <1>5, <1>6 DEF QuotaNext

-----------------------------------------------------------------------------
(* The hash and the row cover what is reserved.                             *)

\* A caller's step on a steady hash takes from the hash what it comes to hold
\* and brings it no more than arrives; without a failure it does both exactly.
LEMMA CallerHash ==
    ASSUME QuotaTypeOK, QuotaTypeOK', NEW c \in Callers, Placed(c), CallerStep(c),
           RedisEnabled, warm, ~RedisError, at[c] \notin {"hydrate", "populate", "retry", "dbReserve"}
    PROVE  /\ Holds'[c] - Holds[c] + cache' - cache <= Arrived'[c] - Arrived[c]
           /\ faults' = 0 => cache' - cache = Shown'[c] - Shown[c]
<1>0. /\ op'[c] = op[c] /\ amount'[c] = amount[c] /\ amount[c] \in Nat /\ cache \in Int
      /\ op[c] \in {"reserve", "increase", "decrease"} /\ faults \in Nat
      /\ async[c] \in {"none", "launched", "gone"}
  BY CallerMoves, FaultAssumption DEF QuotaTypeOK
<1>1. /\ Holds[c] = (IF op[c] = "reserve" /\ at[c] \in {"persist", "done", "compensate"} THEN amount[c] ELSE 0)
      /\ Holds'[c] = (IF op[c] = "reserve" /\ at'[c] \in {"persist", "done", "compensate"} THEN amount[c] ELSE 0)
  BY <1>0 DEF Holds
<1>2. /\ Arrived[c] = (IF op[c] = "increase" /\ async[c] = "gone" THEN amount[c] ELSE 0)
      /\ Arrived'[c] = (IF op[c] = "increase" /\ async'[c] = "gone" THEN amount[c] ELSE 0)
  BY <1>0 DEF Arrived
<1>3. /\ Reserves[c] = (IF op[c] = "reserve" /\ at[c] \in {"persist", "done"} THEN amount[c] ELSE 0)
      /\ Reserves'[c] = (IF op[c] = "reserve" /\ at'[c] \in {"persist", "done"} THEN amount[c] ELSE 0)
  BY <1>0 DEF Reserves
<1>4. /\ Shown[c] = (IF op[c] = "reserve" THEN 0 - Reserves[c] ELSE IF async[c] = "gone" THEN Delta(c) ELSE 0)
      /\ Shown'[c] = (IF op[c] = "reserve" THEN 0 - Reserves'[c] ELSE IF async'[c] = "gone" THEN Delta(c) ELSE 0)
  BY <1>0 DEF Shown, Delta
<1>5. Delta(c) \in Int /\ Delta(c) = (IF op[c] = "increase" THEN amount[c] ELSE -amount[c])
  BY <1>0 DEF Delta
<1> USE DEF quotaVars, cacheVars, budget, Go
<1>6. CASE TryCache(c)
  <2>1. op[c] = "reserve" /\ at[c] = "try" /\ async'[c] = async[c]
    BY <1>6 DEF Placed, TryCache, CacheReserve
  <2>2. \/ at'[c] = "persist" /\ cache' = cache - amount[c]
        \/ at'[c] = "refused" /\ cache' = cache
    BY <1>6 DEF TryCache, CacheReserve, QuotaTypeOK
  <2> QED
    BY <1>0, <1>1, <1>2, <1>3, <1>4, <2>1, <2>2
<1>7. CASE Persist(c)
  <2>1. op[c] = "reserve" /\ at[c] = "persist" /\ async'[c] = async[c] /\ cache' = cache
    BY <1>7 DEF Placed, Persist
  <2>2. at'[c] = "done" \/ (at'[c] = "compensate" /\ faults' # 0)
    BY <1>0, <1>7 DEF Persist, DBError, QuotaTypeOK
  <2> QED
    BY <1>0, <1>1, <1>2, <1>3, <1>4, <2>1, <2>2
<1>8. CASE Compensate(c)
  <2>1. op[c] = "reserve" /\ at[c] = "compensate" /\ async'[c] = async[c] /\ faults' = faults /\ faults # 0
    BY <1>8 DEF Placed, Compensate, RedisError
  <2>2. at'[c] = "failed" /\ cache' = cache + amount[c]
    BY <1>8 DEF Compensate, AddToCache, QuotaTypeOK
  <2> QED
    BY <1>0, <1>1, <1>2, <1>3, <1>4, <2>1, <2>2
<1>9. CASE Launch(c)
  <2>1. op[c] # "reserve" /\ async[c] # "gone" /\ async'[c] # "gone" /\ cache' = cache
    BY <1>9 DEF Placed, Launch, QuotaTypeOK
  <2> QED
    BY <1>0, <1>1, <1>2, <1>3, <1>4, <2>1
<1>10. CASE Write(c)
  <2>1. op[c] # "reserve" /\ cache' = cache
    BY <1>10 DEF Placed, Write
  <2>2. async'[c] = async[c] \/ (async'[c] = "launched" /\ async[c] = "none")
    BY <1>10 DEF Placed, Write, QuotaTypeOK
  <2> QED
    BY <1>0, <1>1, <1>2, <1>3, <1>4, <1>5, <2>1, <2>2
<1>11. CASE ApplyAsync(c)
  <2>1. op[c] # "reserve" /\ async[c] = "launched" /\ async'[c] = "gone" /\ at' = at /\ cache' = cache + Delta(c)
    BY <1>11 DEF Placed, ApplyAsync, AddToCache, QuotaTypeOK
  <2> QED
    BY <1>0, <1>1, <1>2, <1>3, <1>4, <1>5, <2>1
<1> QED
  BY <1>6, <1>7, <1>8, <1>9, <1>10, <1>11 DEF CallerStep, Hydrate, Populate, RetryCache, DBReserve

\* Every step keeps the hash within what it covers, and its books.
LEMMA HashStep ==
    QuotaTypeOK /\ QuotaTypeOK' /\ CallersPlaced /\ HashStays /\ HashCovers /\ HashBooks /\ [QuotaNext]_reserveVars
      => HashCovers' /\ HashBooks'
<1> SUFFICES ASSUME QuotaTypeOK, QuotaTypeOK', CallersPlaced, HashStays, HashCovers, HashBooks, [QuotaNext]_reserveVars,
                    Steady'
             PROVE  /\ SumFunction(Holds') + cache' <= InitQuota + SumFunction(Arrived')
                    /\ faults' = 0 => cache' = InitQuota + SumFunction(Shown')
  BY DEF HashCovers, HashBooks
<1> DEFINE Goal == /\ SumFunction(Holds') + cache' <= InitQuota + SumFunction(Arrived')
                   /\ faults' = 0 => cache' = InitQuota + SumFunction(Shown')
<1>0. CallTypes /\ CallTypes' /\ InitQuota \in Nat /\ cache \in Int /\ cache' \in Int /\ faults \in Nat
  BY RowAssumption, FaultAssumption DEF QuotaTypeOK, CallTypes
<1>1. /\ SumFunction(Holds) \in Int /\ SumFunction(Arrived) \in Int /\ SumFunction(Shown) \in Int
      /\ SumFunction(Holds') \in Int /\ SumFunction(Arrived') \in Int /\ SumFunction(Shown') \in Int
      /\ \A c \in Callers : /\ Holds[c] \in Int /\ Arrived[c] \in Int /\ Shown[c] \in Int
                            /\ Holds'[c] \in Int /\ Arrived'[c] \in Int /\ Shown'[c] \in Int
  BY <1>0, TotalInts, TotalIntsAfter
<1>2. Steady /\ ~Expire /\ ~RedisError /\ warm /\ RedisEnabled
  BY SteadyBefore DEF HashStays, Steady
<1>3. /\ SumFunction(Holds) + cache <= InitQuota + SumFunction(Arrived)
      /\ faults = 0 => cache = InitQuota + SumFunction(Shown)
  BY <1>2 DEF HashCovers, HashBooks
<1>4. CASE UNCHANGED reserveVars
  <2>1. cache' = cache /\ faults' = faults /\ Holds' = Holds /\ Arrived' = Arrived /\ Shown' = Shown
    BY <1>4, TotalsStay DEF reserveVars, callVars, cacheVars, budget
  <2> QED
    BY <1>3, <2>1
<1>5. ASSUME UNCHANGED deployment, NEW c \in Callers, NEW o \in Operations, NEW n \in QuotaAmounts, Begin(c, o, n)
      PROVE  Goal
  <2>1. Placed(c)
    BY DEF CallersPlaced
  <2>2. Elsewhere(c) /\ Holds'[c] = Holds[c] /\ Arrived'[c] = Arrived[c] /\ Shown'[c] = Shown[c]
    BY <1>5, <2>1, PlacedBegin, TotalsBegin
  <2>3. /\ SumFunction(Holds') = SumFunction(Holds) + Holds'[c] - Holds[c]
        /\ SumFunction(Arrived') = SumFunction(Arrived) + Arrived'[c] - Arrived[c]
        /\ SumFunction(Shown') = SumFunction(Shown) + Shown'[c] - Shown[c]
    BY <1>0, <2>2, TotalsMove
  <2>4. cache' = cache /\ faults' = faults
    BY <1>5 DEF Begin, cacheVars, budget
  <2> QED
    BY <1>0, <1>1, <1>3, <2>2, <2>3, <2>4
<1>6. ASSUME QuotaNext, NEW c \in Callers, CallerStep(c) PROVE Goal
  <2>1. Placed(c) /\ at[c] \notin {"hydrate", "populate", "retry", "dbReserve"}
    BY <1>2 DEF CallersPlaced, HashStays
  <2>2. Elsewhere(c)
    BY <1>6, CallerMoves
  <2>3. /\ SumFunction(Holds') = SumFunction(Holds) + Holds'[c] - Holds[c]
        /\ SumFunction(Arrived') = SumFunction(Arrived) + Arrived'[c] - Arrived[c]
        /\ SumFunction(Shown') = SumFunction(Shown) + Shown'[c] - Shown[c]
    BY <1>0, <2>2, TotalsMove
  <2>4. /\ Holds'[c] - Holds[c] + cache' - cache <= Arrived'[c] - Arrived[c]
        /\ faults' = 0 => cache' - cache = Shown'[c] - Shown[c]
    BY <1>2, <1>6, <2>1, CallerHash
  <2>5. faults' = 0 => faults = 0
    BY <1>6, BudgetsGrow
  <2> QED
    BY <1>0, <1>1, <1>3, <2>3, <2>4, <2>5
<1>7. CASE TakeBatch \/ WriteBatch \/ LowerFence
  <2>1. cache' = cache /\ (faults' = 0 => faults = 0) /\ UNCHANGED <<at, op, amount, async>>
    BY <1>0, <1>7 DEF TakeBatch, WriteBatch, LowerFence, callVars, cacheVars, budget
  <2>2. Holds' = Holds /\ Arrived' = Arrived /\ Shown' = Shown
    BY <2>1, TotalsStay
  <2> QED
    BY <1>3, <2>1, <2>2
<1>8. CASE Crash
  <2>1. cache' = cache /\ faults' # 0 /\ op' = op /\ amount' = amount
    BY <1>0, <1>8 DEF Crash, cacheVars
  <2>2. \A c \in Callers : Holds'[c] <= Holds[c] /\ Arrived[c] <= Arrived'[c]
    BY <1>8, <2>1 DEF Crash, Holds, Arrived, Finished, QuotaTypeOK
  <2>3. /\ Holds \in [Callers -> Int] /\ Holds' \in [Callers -> Int]
        /\ Arrived \in [Callers -> Int] /\ Arrived' \in [Callers -> Int]
    BY <1>0, TotalTypes, TotalTypesAfter
  <2>4. SumFunction(Holds') <= SumFunction(Holds) /\ SumFunction(Arrived) <= SumFunction(Arrived')
    BY <2>2, <2>3, SumMonotone, CallerAssumption
  <2> QED
    BY <1>0, <1>1, <1>3, <2>1, <2>4
<1> QED
  BY <1>2, <1>4, <1>5, <1>6, <1>7, <1>8 DEF QuotaNext

\* Without Redis a caller reserves from the row what the row has, and brings the
\* row or the batch store no more than it is credited with.
LEMMA CallerRow ==
    ASSUME QuotaTypeOK, QuotaTypeOK', NEW c \in Callers, Placed(c), CallerStep(c), ~RedisEnabled, NoHash
    PROVE  /\ taken' = taken
           /\ Reserves'[c] - Reserves[c] + db' - db <= Banked'[c] - Banked[c]
           /\ Reserves'[c] - Reserves[c] + db' - db + queue' - queue <= Banked'[c] - Banked[c]
<1>0. /\ op'[c] = op[c] /\ amount'[c] = amount[c] /\ amount[c] \in Nat /\ db \in Int /\ queue \in Int
      /\ op[c] \in {"reserve", "increase", "decrease"}
  BY CallerMoves DEF QuotaTypeOK
<1>1. DBReserve(c) \/ Launch(c) \/ Write(c)
  BY DEF NoHash, CallerStep, TryCache, Hydrate, Populate, RetryCache, Persist, Compensate, ApplyAsync
<1>2. /\ Reserves[c] = (IF op[c] = "reserve" /\ at[c] \in {"persist", "done"} THEN amount[c] ELSE 0)
      /\ Reserves'[c] = (IF op[c] = "reserve" /\ at'[c] \in {"persist", "done"} THEN amount[c] ELSE 0)
  BY <1>0 DEF Reserves
<1>3. /\ Banked[c] = (IF op[c] = "increase" /\ at[c] = "done" THEN amount[c] ELSE 0)
      /\ Banked'[c] = (IF op[c] = "increase" /\ at'[c] = "done" THEN amount[c] ELSE 0)
  BY <1>0 DEF Banked
<1> USE DEF quotaVars, budget, Go, DBError
<1>4. CASE DBReserve(c)
  <2>1. op[c] = "reserve" /\ at[c] = "dbReserve"
    BY <1>4 DEF Placed, DBReserve
  <2>2. \/ at'[c] = "done" /\ db' = db - amount[c] /\ UNCHANGED <<queue, taken>>
        \/ at'[c] \in {"refused", "failed"} /\ UNCHANGED <<db, queue, taken>>
    BY <1>4 DEF DBReserve, QuotaTypeOK
  <2> QED
    BY <1>0, <1>2, <1>3, <2>1, <2>2
<1>5. CASE Launch(c)
  <2>1. op[c] # "reserve" /\ at[c] = "launch" /\ at'[c] = "write" /\ UNCHANGED <<db, queue, taken>>
    BY <1>5 DEF Placed, Launch, QuotaTypeOK
  <2> QED
    BY <1>0, <1>2, <1>3, <2>1
<1>6. CASE Write(c)
  <2>1. op[c] # "reserve" /\ at[c] = "write"
    BY <1>6 DEF Placed, Write
  <2>2. \/ at'[c] = "done" /\ AddToRow(Delta(c))
        \/ at'[c] = "failed" /\ UNCHANGED <<db, queue, taken>>
    BY <1>6 DEF Write, QuotaTypeOK
  <2>3. Delta(c) \in Int /\ Delta(c) = (IF op[c] = "increase" THEN amount[c] ELSE -amount[c])
    BY <1>0 DEF Delta
  <2>4. CASE AddToRow(Delta(c)) /\ at'[c] = "done"
    <3>1. taken' = taken /\ (\/ queue' = queue /\ db' = db + Delta(c)
                             \/ queue' = queue + Delta(c) /\ db' = db)
      BY <2>4 DEF AddToRow
    <3> QED
      BY <1>0, <1>2, <1>3, <2>1, <2>3, <2>4, <3>1
  <2> QED
    BY <1>0, <1>2, <1>3, <2>1, <2>2, <2>4
<1> QED
  BY <1>1, <1>4, <1>5, <1>6

\* A crash takes no finished operation back, and forgets none that was credited.
LEMMA CrashTotals ==
    ASSUME QuotaTypeOK, Crash
    PROVE  /\ Banked' = Banked
           /\ \A c \in Callers : Reserves'[c] <= Reserves[c] /\ Credits'[c] = Credits[c]
<1>1. op' = op /\ amount' = amount
  BY DEF Crash
<1>2. Banked' = Banked
  BY <1>1 DEF Crash, Banked, Finished, QuotaTypeOK
<1>3. \A c \in Callers : Reserves'[c] <= Reserves[c] /\ Credits'[c] = Credits[c]
  BY <1>1 DEF Crash, Reserves, Credits, Finished, QuotaTypeOK
<1> QED
  BY <1>2, <1>3

\* Every step keeps the row within what it covers.
LEMMA RowStep ==
    QuotaTypeOK /\ QuotaTypeOK' /\ CallersPlaced /\ NoHash /\ RowCovers /\ [QuotaNext]_reserveVars => RowCovers'
<1> SUFFICES ASSUME QuotaTypeOK, QuotaTypeOK', CallersPlaced, NoHash, RowCovers, [QuotaNext]_reserveVars, ~RedisEnabled'
             PROVE  /\ SumFunction(Reserves') + db' <= InitQuota + SumFunction(Banked')
                    /\ SumFunction(Reserves') + db' + queue' <= InitQuota + SumFunction(Banked')
                    /\ SumFunction(Reserves') + db' + taken' <= InitQuota + SumFunction(Banked')
                    /\ SumFunction(Reserves') + db' + queue' + taken' <= InitQuota + SumFunction(Banked')
  BY DEF RowCovers
<1> DEFINE Goal == /\ SumFunction(Reserves') + db' <= InitQuota + SumFunction(Banked')
                   /\ SumFunction(Reserves') + db' + queue' <= InitQuota + SumFunction(Banked')
                   /\ SumFunction(Reserves') + db' + taken' <= InitQuota + SumFunction(Banked')
                   /\ SumFunction(Reserves') + db' + queue' + taken' <= InitQuota + SumFunction(Banked')
<1>0. CallTypes /\ CallTypes'
  BY DEF QuotaTypeOK, CallTypes
<1>1. /\ db \in Int /\ queue \in Int /\ taken \in Int /\ db' \in Int /\ queue' \in Int /\ taken' \in Int
      /\ InitQuota \in Nat
  BY RowAssumption DEF QuotaTypeOK
<1>2. /\ SumFunction(Reserves) \in Int /\ SumFunction(Banked) \in Int
      /\ SumFunction(Reserves') \in Int /\ SumFunction(Banked') \in Int
      /\ \A c \in Callers : /\ Reserves[c] \in Int /\ Banked[c] \in Int
                            /\ Reserves'[c] \in Int /\ Banked'[c] \in Int
  BY <1>0, TotalInts, TotalIntsAfter
<1>3. ~RedisEnabled
  BY BudgetsGrow DEF RedisEnabled, reserveVars
<1>4. /\ SumFunction(Reserves) + db <= InitQuota + SumFunction(Banked)
      /\ SumFunction(Reserves) + db + queue <= InitQuota + SumFunction(Banked)
      /\ SumFunction(Reserves) + db + taken <= InitQuota + SumFunction(Banked)
      /\ SumFunction(Reserves) + db + queue + taken <= InitQuota + SumFunction(Banked)
  BY <1>3 DEF RowCovers
<1>5. CASE UNCHANGED reserveVars
  <2>1. UNCHANGED <<db, queue, taken>> /\ Reserves' = Reserves /\ Banked' = Banked
    BY <1>5, TotalsStay DEF reserveVars, callVars, quotaVars
  <2> QED
    BY <1>4, <2>1
<1>6. ASSUME UNCHANGED deployment, NEW c \in Callers, NEW o \in Operations, NEW n \in QuotaAmounts, Begin(c, o, n)
      PROVE  Goal
  <2>1. Placed(c)
    BY DEF CallersPlaced
  <2>2. Elsewhere(c) /\ Reserves'[c] = Reserves[c] /\ Banked'[c] = Banked[c]
    BY <1>6, <2>1, PlacedBegin, TotalsBegin
  <2>3. /\ SumFunction(Reserves') = SumFunction(Reserves) + Reserves'[c] - Reserves[c]
        /\ SumFunction(Banked') = SumFunction(Banked) + Banked'[c] - Banked[c]
    BY <1>0, <2>2, TotalsMove
  <2>4. UNCHANGED <<db, queue, taken>>
    BY <1>6 DEF Begin, quotaVars
  <2> QED
    BY <1>1, <1>2, <1>4, <2>2, <2>3, <2>4
<1>7. ASSUME NEW c \in Callers, CallerStep(c) PROVE Goal
  <2>1. Placed(c)
    BY DEF CallersPlaced
  <2>2. Elsewhere(c)
    BY <1>7, CallerMoves
  <2>3. /\ SumFunction(Reserves') = SumFunction(Reserves) + Reserves'[c] - Reserves[c]
        /\ SumFunction(Banked') = SumFunction(Banked) + Banked'[c] - Banked[c]
    BY <1>0, <2>2, TotalsMove
  <2>4. /\ taken' = taken
        /\ Reserves'[c] - Reserves[c] + db' - db <= Banked'[c] - Banked[c]
        /\ Reserves'[c] - Reserves[c] + db' - db + queue' - queue <= Banked'[c] - Banked[c]
    BY <1>3, <1>7, <2>1, CallerRow
  <2> QED
    BY <1>1, <1>2, <1>4, <2>3, <2>4
<1>8. CASE TakeBatch \/ WriteBatch \/ Expire \/ LowerFence
  <2>1. Reserves' = Reserves /\ Banked' = Banked
    BY <1>8, TotalsStay DEF TakeBatch, WriteBatch, Expire, LowerFence, callVars
  <2>2. CASE TakeBatch
    BY <1>1, <1>2, <1>4, <2>1, <2>2 DEF TakeBatch
  <2>3. CASE WriteBatch
    <3>1. taken' = 0 /\ queue' = queue /\ (db' = db + taken \/ db' = db)
      BY <2>3 DEF WriteBatch
    <3>2. CASE db' = db + taken
      BY <1>1, <1>2, <1>4, <2>1, <3>1, <3>2
    <3>3. CASE db' = db
      BY <1>1, <1>2, <1>4, <2>1, <3>1, <3>3
    <3> QED
      BY <3>1, <3>2, <3>3
  <2>4. CASE Expire \/ LowerFence
    <3>1. UNCHANGED <<db, queue, taken>>
      BY <2>4 DEF Expire, LowerFence, quotaVars
    <3> QED
      BY <1>4, <2>1, <3>1
  <2> QED
    BY <1>8, <2>2, <2>3, <2>4
<1>9. CASE Crash
  <2>1. db' = db /\ queue' = 0 /\ taken' = 0
    BY <1>9 DEF Crash
  <2>2. Banked' = Banked /\ \A c \in Callers : Reserves'[c] <= Reserves[c]
    BY <1>9, CrashTotals
  <2>3. Reserves \in [Callers -> Int] /\ Reserves' \in [Callers -> Int]
    BY <1>0, TotalTypes, TotalTypesAfter
  <2>4. SumFunction(Reserves') <= SumFunction(Reserves)
    BY <2>2, <2>3, SumMonotone, CallerAssumption
  <2> QED
    BY <1>1, <1>2, <1>4, <2>1, <2>2, <2>4
<1> QED
  BY <1>5, <1>6, <1>7, <1>8, <1>9 DEF QuotaNext

\* What has arrived or is banked was credited, and what is reserved is held.
LEMMA TotalsOrdered ==
    ASSUME QuotaTypeOK, CallersPlaced
    PROVE  /\ SumFunction(Arrived) <= SumFunction(Credits)
           /\ SumFunction(Banked) <= SumFunction(Credits)
           /\ SumFunction(Reserves) <= SumFunction(Holds)
<1>1. CallTypes
  BY DEF QuotaTypeOK, CallTypes
<1>2. \A c \in Callers : Arrived[c] <= Credits[c] /\ Banked[c] <= Credits[c] /\ Reserves[c] <= Holds[c]
  BY DEF QuotaTypeOK, CallersPlaced, Placed, Arrived, Credits, Banked, Reserves, Holds
<1>3. /\ Arrived \in [Callers -> Int] /\ Credits \in [Callers -> Int] /\ Banked \in [Callers -> Int]
      /\ Reserves \in [Callers -> Int] /\ Holds \in [Callers -> Int]
  BY <1>1, TotalTypes
<1> QED
  BY <1>2, <1>3, SumMonotone, CallerAssumption

\* A caller's step reserves only what the hash or the row has.
LEMMA CallerReserves ==
    ASSUME QuotaTypeOK, QuotaTypeOK', NEW c \in Callers, Placed(c), CallerStep(c)
    PROVE  /\ Credits'[c] = Credits[c]
           /\ \/ Reserves'[c] <= Reserves[c]
              \/ at[c] \in {"try", "retry"} /\ warm /\ Reserves'[c] - Reserves[c] <= cache
              \/ at[c] = "dbReserve" /\ Reserves'[c] - Reserves[c] <= db
<1>0. /\ op'[c] = op[c] /\ amount'[c] = amount[c] /\ amount[c] \in Nat /\ cache \in Int /\ db \in Int
      /\ op[c] \in {"reserve", "increase", "decrease"}
  BY CallerMoves DEF QuotaTypeOK
<1>1. /\ Reserves[c] = (IF op[c] = "reserve" /\ at[c] \in {"persist", "done"} THEN amount[c] ELSE 0)
      /\ Reserves'[c] = (IF op[c] = "reserve" /\ at'[c] \in {"persist", "done"} THEN amount[c] ELSE 0)
  BY <1>0 DEF Reserves
<1>2. Credits'[c] = Credits[c]
  <2>1. at[c] # "idle" /\ at'[c] # "idle"
    <3>1. CASE ApplyAsync(c)
      BY <3>1 DEF ApplyAsync, Placed
    <3>2. CASE ~ApplyAsync(c)
      BY <3>2 DEF CallerStep, TryCache, RetryCache, CacheReserve, Hydrate, Populate, DBReserve, Persist,
                  Compensate, Launch, Write, Go, QuotaTypeOK
    <3> QED
      BY <3>1, <3>2
  <2> QED
    BY <1>0, <2>1 DEF Credits
<1> USE DEF quotaVars, cacheVars, budget, Go
<1>3. CASE TryCache(c) \/ RetryCache(c)
  <2>1. /\ at[c] \in {"try", "retry"}
        /\ \/ at'[c] = "persist" /\ warm /\ cache >= amount[c]
           \/ at'[c] \in {"refused", "hydrate", "dbReserve"}
    BY <1>3 DEF TryCache, RetryCache, CacheReserve, HashAdmits, QuotaTypeOK
  <2> QED
    BY <1>0, <1>1, <1>2, <2>1
<1>4. CASE DBReserve(c)
  <2>1. at[c] = "dbReserve" /\ ((at'[c] = "done" /\ db >= amount[c]) \/ at'[c] \in {"refused", "failed"})
    BY <1>4 DEF DBReserve, RowAdmits, QuotaTypeOK
  <2> QED
    BY <1>0, <1>1, <1>2, <2>1
<1>5. CASE Hydrate(c) \/ Populate(c) \/ Compensate(c)
  <2>1. at'[c] \in {"retry", "populate", "dbReserve", "failed"}
    BY <1>5 DEF Hydrate, Populate, Compensate, QuotaTypeOK
  <2> QED
    BY <1>0, <1>1, <1>2, <2>1
<1>6. CASE Persist(c)
  <2>1. op[c] = "reserve" /\ at[c] = "persist"
    BY <1>6 DEF Persist, Placed
  <2> QED
    BY <1>0, <1>1, <1>2, <2>1
<1>7. CASE Launch(c) \/ Write(c)
  <2>1. op[c] # "reserve"
    BY <1>7 DEF Launch, Write, Placed
  <2> QED
    BY <1>0, <1>1, <1>2, <2>1
<1>8. CASE ApplyAsync(c)
  <2>1. at' = at
    BY <1>8 DEF ApplyAsync
  <2> QED
    BY <1>0, <1>1, <1>2, <2>1
<1> QED
  BY <1>3, <1>4, <1>5, <1>6, <1>7, <1>8 DEF CallerStep

\* Every step keeps the reservations within what the row had and was credited with.
LEMMA ReservesStep ==
    QuotaTypeOK /\ QuotaTypeOK' /\ CallersPlaced /\ NoHash /\ HashStays /\ HashCovers /\ RowCovers
    /\ SteadyReservesFit /\ [QuotaNext]_reserveVars => SteadyReservesFit'
<1> SUFFICES ASSUME QuotaTypeOK, QuotaTypeOK', CallersPlaced, NoHash, HashStays, HashCovers, RowCovers,
                    SteadyReservesFit, [QuotaNext]_reserveVars, Undisturbed'
             PROVE  SumFunction(Reserves') <= InitQuota + SumFunction(Credits')
  BY DEF SteadyReservesFit, NoOverReserve
<1>0. CallTypes /\ CallTypes'
  BY DEF QuotaTypeOK, CallTypes
<1>1. /\ SumFunction(Reserves) \in Int /\ SumFunction(Credits) \in Int /\ SumFunction(Holds) \in Int
      /\ SumFunction(Arrived) \in Int /\ SumFunction(Banked) \in Int
      /\ SumFunction(Reserves') \in Int /\ SumFunction(Credits') \in Int
      /\ \A c \in Callers : /\ Reserves[c] \in Int /\ Credits[c] \in Int
                            /\ Reserves'[c] \in Int /\ Credits'[c] \in Int
      /\ InitQuota \in Nat /\ cache \in Int /\ db \in Int
  BY <1>0, TotalInts, TotalIntsAfter, RowAssumption DEF QuotaTypeOK
<1>2. Steady \/ ~RedisEnabled
  <2>1. CASE ~RedisEnabled'
    BY <2>1, BudgetsGrow DEF RedisEnabled, reserveVars
  <2>2. CASE Steady'
    BY <2>2, SteadyBefore
  <2> QED
    BY <2>1, <2>2 DEF Undisturbed, Steady
<1>3. SumFunction(Reserves) <= InitQuota + SumFunction(Credits)
  BY <1>2 DEF SteadyReservesFit, NoOverReserve, Undisturbed, Steady
<1>4. CASE UNCHANGED reserveVars
  BY <1>3, <1>4, TotalsStay DEF reserveVars, callVars
<1>5. ASSUME UNCHANGED deployment, NEW c \in Callers, NEW o \in Operations, NEW n \in QuotaAmounts, Begin(c, o, n)
      PROVE  SumFunction(Reserves') <= InitQuota + SumFunction(Credits')
  <2>1. Placed(c)
    BY DEF CallersPlaced
  <2>2. Elsewhere(c) /\ Reserves'[c] = Reserves[c] /\ Credits'[c] >= Credits[c]
    BY <1>5, <2>1, PlacedBegin, TotalsBegin
  <2>3. /\ SumFunction(Reserves') = SumFunction(Reserves) + Reserves'[c] - Reserves[c]
        /\ SumFunction(Credits') = SumFunction(Credits) + Credits'[c] - Credits[c]
    BY <1>0, <2>2, TotalsMove
  <2> QED
    BY <1>1, <1>3, <2>2, <2>3
<1>6. ASSUME NEW c \in Callers, CallerStep(c)
      PROVE  SumFunction(Reserves') <= InitQuota + SumFunction(Credits')
  <2>1. Placed(c)
    BY DEF CallersPlaced
  <2>2. Elsewhere(c)
    BY <1>6, CallerMoves
  <2>3. /\ SumFunction(Reserves') = SumFunction(Reserves) + Reserves'[c] - Reserves[c]
        /\ SumFunction(Credits') = SumFunction(Credits) + Credits'[c] - Credits[c]
    BY <1>0, <2>2, TotalsMove
  <2>4. /\ Credits'[c] = Credits[c]
        /\ \/ Reserves'[c] <= Reserves[c]
           \/ at[c] \in {"try", "retry"} /\ warm /\ Reserves'[c] - Reserves[c] <= cache
           \/ at[c] = "dbReserve" /\ Reserves'[c] - Reserves[c] <= db
    BY <1>6, <2>1, CallerReserves
  <2>5. /\ SumFunction(Arrived) <= SumFunction(Credits) /\ SumFunction(Banked) <= SumFunction(Credits)
        /\ SumFunction(Reserves) <= SumFunction(Holds)
    BY TotalsOrdered
  <2>6. CASE Reserves'[c] <= Reserves[c]
    BY <1>1, <1>3, <2>3, <2>4, <2>6
  <2>7. CASE at[c] \in {"try", "retry"} /\ Reserves'[c] - Reserves[c] <= cache
    <3>1. Steady
      BY <1>2, <2>7 DEF NoHash
    <3>2. SumFunction(Holds) + cache <= InitQuota + SumFunction(Arrived)
      BY <3>1 DEF HashCovers
    <3> QED
      BY <1>1, <2>3, <2>4, <2>5, <2>7, <3>2
  <2>8. CASE at[c] = "dbReserve" /\ Reserves'[c] - Reserves[c] <= db
    <3>1. ~RedisEnabled
      BY <1>2, <2>8 DEF HashStays
    <3>2. SumFunction(Reserves) + db <= InitQuota + SumFunction(Banked)
      BY <3>1 DEF RowCovers
    <3> QED
      BY <1>1, <2>3, <2>4, <2>5, <2>8, <3>2
  <2> QED
    BY <2>4, <2>6, <2>7, <2>8
<1>7. CASE TakeBatch \/ WriteBatch \/ Expire \/ LowerFence
  BY <1>3, <1>7, TotalsStay DEF TakeBatch, WriteBatch, Expire, LowerFence, callVars
<1>8. CASE Crash
  <2>1. \A c \in Callers : Reserves'[c] <= Reserves[c] /\ Credits[c] <= Credits'[c]
    BY <1>1, <1>8, CrashTotals
  <2>2. /\ Reserves \in [Callers -> Int] /\ Reserves' \in [Callers -> Int]
        /\ Credits \in [Callers -> Int] /\ Credits' \in [Callers -> Int]
    BY <1>0, TotalTypes, TotalTypesAfter
  <2>3. SumFunction(Reserves') <= SumFunction(Reserves) /\ SumFunction(Credits) <= SumFunction(Credits')
    BY <2>1, <2>2, SumMonotone, CallerAssumption
  <2> QED
    BY <1>1, <1>3, <2>3
<1> QED
  BY <1>4, <1>5, <1>6, <1>7, <1>8 DEF QuotaNext

-----------------------------------------------------------------------------
(* The theorems about the quota of a row.                                   *)

ReserveInv ==
    /\ QuotaTypeOK /\ CallersPlaced /\ NoHash /\ HashStays /\ NothingLost
    /\ BooksBalance /\ HashCovers /\ HashBooks /\ RowCovers /\ SteadyReservesFit

\* Before the first operation nobody has done anything.
LEMMA ReserveInit == QuotaInit => ReserveInv
<1> SUFFICES ASSUME QuotaInit PROVE ReserveInv
  OBVIOUS
<1>1. deployment \in Deployment
  BY SwitchAssumption DEF QuotaInit
<1>2. QuotaTypeOK
  <2>1. warm \in BOOLEAN /\ fence \in BOOLEAN
    BY Zenon DEF QuotaInit
  <2>2. cache \in Int /\ (~warm => cache = 0)
    BY <1>1, RowAssumption DEF QuotaInit, Deployment, RedisEnabled
  <2> QED
    BY <2>1, <2>2, RowAssumption, FaultAssumption DEF QuotaInit, QuotaTypeOK, CallLabels
<1>3. CallersPlaced
  BY DEF QuotaInit, CallersPlaced, Placed
<1>4. NoHash
  BY DEF QuotaInit, NoHash
<1>5. HashStays
  BY DEF QuotaInit, HashStays, Steady
<1>6. NothingLost
  BY DEF QuotaInit, NothingLost
<1>7. PICK z : z = [c \in Callers |-> 0]
  OBVIOUS
<1>8. Reserves = z /\ Credits = z /\ Effects = z /\ Holds = z /\ Arrived = z /\ Banked = z
  BY <1>7 DEF QuotaInit, Reserves, Credits, Effects, Holds, Arrived, Banked
<1>9. Shown = z
  <2>1. \A c \in Callers : Reserves[c] = 0 /\ op[c] = "reserve"
    BY <1>7, <1>8 DEF QuotaInit
  <2> QED
    BY <1>7, <2>1 DEF Shown
<1>10. SumFunction(z) = 0
  BY <1>7, SumOfZeros, CallerAssumption
<1>11. BooksBalance /\ RowCovers /\ SteadyReservesFit
  BY <1>8, <1>10, RowAssumption DEF QuotaInit, BooksBalance, RowCovers, SteadyReservesFit, NoOverReserve
<1>12. HashCovers /\ HashBooks
  BY <1>8, <1>9, <1>10, RowAssumption DEF QuotaInit, HashCovers, HashBooks, Steady
<1> QED
  BY <1>2, <1>3, <1>4, <1>5, <1>6, <1>11, <1>12 DEF ReserveInv

\* The invariant is inductive.
LEMMA ReserveInductive == ReserveInv /\ [QuotaNext]_reserveVars => ReserveInv'
<1> SUFFICES ASSUME ReserveInv, [QuotaNext]_reserveVars PROVE ReserveInv'
  OBVIOUS
<1> USE DEF ReserveInv
<1>1. QuotaTypeOK'
  BY QuotaTypesStep
<1>2. CallersPlaced' /\ NoHash' /\ HashStays' /\ NothingLost'
  BY PlacedStep, NoHashStep, HashStaysStep, NothingLostStep
<1>3. BooksBalance'
  BY <1>1, BooksStep
<1>4. HashCovers' /\ HashBooks'
  BY <1>1, HashStep
<1>5. RowCovers' /\ SteadyReservesFit'
  BY <1>1, RowStep, ReservesStep
<1> QED
  BY <1>1, <1>2, <1>3, <1>4, <1>5

\* A quiet hash that nothing disturbed shows what the books say of the row.
LEMMA QuietAgreement == ReserveInv => QuietCacheAgrees
<1> SUFFICES ASSUME ReserveInv, Quiet, warm, Undisturbed, faults = 0 PROVE cache = db
  BY DEF QuietCacheAgrees
<1>1. Steady
  BY DEF Undisturbed, Steady, ReserveInv, NoHash
<1>2. cache = InitQuota + SumFunction(Shown)
  BY <1>1 DEF ReserveInv, HashBooks
<1>3. db = InitQuota + SumFunction(Effects)
  BY DEF ReserveInv, BooksBalance, Quiet, NothingLost, QuotaTypeOK
<1>4. ASSUME NEW c \in Callers PROVE Shown[c] = Effects[c]
  <2>1. /\ at[c] \in {"done", "refused", "failed"} /\ async[c] # "launched"
        /\ async[c] \in {"none", "launched", "gone"} /\ amount[c] \in Nat
        /\ (at[c] = "refused" => op[c] = "reserve") /\ (op[c] = "reserve" => async[c] = "none")
        /\ (at[c] = "done" /\ op[c] # "reserve" => async[c] # "none") /\ (at[c] = "failed" => async[c] = "none")
    BY <1>1 DEF Quiet, Finished, ReserveInv, CallersPlaced, Placed, QuotaTypeOK, Steady
  <2>2. Reserves[c] = IF op[c] = "reserve" /\ at[c] \in {"persist", "done"} THEN amount[c] ELSE 0
    BY DEF Reserves
  <2> QED
    BY <2>1, <2>2 DEF Shown, Effects, Delta
<1>5. Shown = Effects
  BY <1>4 DEF Shown, Effects
<1> QED
  BY <1>2, <1>3, <1>5

\* The invariant of the quota row holds of every behaviour, for any callers,
\* amounts, deployments and bounds.
THEOREM ReserveInvariance == QuotaSpec => []ReserveInv
  BY ReserveInit, ReserveInductive, PTL DEF QuotaSpec

\* The row, its hash, the batch store and the callers keep their types, and a hash
\* that does not exist holds no quota (userQuotaDeltaScript, tokenQuotaDeltaScript).
THEOREM QuotaRowTyping == QuotaSpec => []QuotaTypeOK
<1>1. ReserveInv => QuotaTypeOK
  BY DEF ReserveInv
<1> QED
  BY <1>1, ReserveInvariance, PTL

\* Whatever fails, expires or dies, the row, the batch store and what is known to be
\* lost add up to the operations that reported success (TryReserve*Quota, batchUpdate).
THEOREM QuotaBooksBalance == QuotaSpec => []BooksBalance
<1>1. ReserveInv => BooksBalance
  BY DEF ReserveInv
<1> QED
  BY <1>1, ReserveInvariance, PTL

\* Through an undisturbed hash, or on the row alone, concurrent reservations never
\* take more than the row had and was credited with (PreConsumeTokenQuota,
\* TryReserveUserQuota).
THEOREM ReservationsFit == QuotaSpec => []SteadyReservesFit
<1>1. ReserveInv => SteadyReservesFit
  BY DEF ReserveInv
<1> QED
  BY <1>1, ReserveInvariance, PTL

\* A hash that existed all along agrees with its row once everything is quiet and
\* the database has not failed (cacheIncrUserQuota, cacheDecrUserQuota).
THEOREM QuietHashAgrees == QuotaSpec => []QuietCacheAgrees
  BY QuietAgreement, ReserveInvariance, PTL
===============================================================================
