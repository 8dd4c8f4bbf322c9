---------------------- MODULE SubscriptionPurchase_proofs ----------------------
(***************************************************************************)
(* What the row locks of subscription purchases guarantee, for any number  *)
(* of callers, orders, plans and subscriptions.                            *)
(*                                                                         *)
(* IInv is inductive: a caller past its first lock owns the rows it read   *)
(* (LocksHeld), so the checks it made still hold when it commits           *)
(* (ChecksStillHold), and a fresh row belongs to nobody (RowsInOrder).     *)
(***************************************************************************)
EXTENDS SubscriptionPurchase, Sums, FiniteSetTheorems, TLAPS

\* Sets of subscription ids are finite; their sizes are ordered by inclusion.
LEMMA SmallerSet ==
    ASSUME NEW T \in SUBSET SubIds, NEW S \in SUBSET T
    PROVE  Cardinality(S) \in Nat /\ Cardinality(T) \in Nat /\ Cardinality(S) <= Cardinality(T)
<1>1. IsFiniteSet(SubIds)
  BY FS_Interval, PurchaseBounds DEF SubIds
<1>2. IsFiniteSet(T)
  BY <1>1, FS_Subset
<1> QED
  BY <1>2, FS_Subset, FS_CardinalityType

\* One more id makes a set larger by at most one.
LEMMA OneMore ==
    ASSUME NEW T \in SUBSET SubIds, NEW i \in SubIds
    PROVE  /\ Cardinality(T \cup {i}) \in Nat /\ Cardinality(T) \in Nat
           /\ Cardinality(T \cup {i}) <= Cardinality(T) + 1
<1>1. IsFiniteSet(SubIds)
  BY FS_Interval, PurchaseBounds DEF SubIds
<1>2. IsFiniteSet(T)
  BY <1>1, FS_Subset
<1> QED
  BY <1>2, FS_AddElement, FS_CardinalityType

Rows(p) == {i \in SubIds : Exists(i) /\ plan[i] = p}

\* The number of purchases of a plan is a number.
LEMMA BoughtType ==
    ASSUME NEW p PROVE Bought(p) \in Nat /\ Bought(p) = Cardinality(Rows(p))
  BY SmallerSet DEF Bought, Rows

\* A step that creates no row creates no purchase.
LEMMA BoughtFrame ==
    ASSUME NEW p, \A i \in SubIds : Exists(i)' /\ plan'[i] = p => Exists(i) /\ plan[i] = p
    PROVE  Bought(p)' <= Bought(p) /\ Bought(p)' \in Nat
<1>1. Rows(p)' \in SUBSET Rows(p) /\ Rows(p) \in SUBSET SubIds
  BY DEF Rows
<1>2. Bought(p)' = Cardinality(Rows(p)') /\ Bought(p) = Cardinality(Rows(p))
  BY DEF Bought, Rows
<1> QED
  BY <1>1, <1>2, SmallerSet

\* The limits and the checks of callers other than W carry over a step that
\* creates no row and takes nothing from the wallet.
LEMMA LimitsFrame ==
    ASSUME ChecksStillHold, PurchaseLimitHolds, TypeOK,
           \A i \in SubIds : \A p \in Plans : Exists(i)' /\ plan'[i] = p => Exists(i) /\ plan[i] = p,
           wallet' = wallet, created' = created,
           \A w \in Workers : pc'[w] = "create" => pc[w] = "create" /\ via'[w] = via[w] /\ want'[w] = want[w]
    PROVE  ChecksStillHold' /\ PurchaseLimitHolds'
<1>1. \A p \in Plans : Bought(p)' <= Bought(p) /\ Bought(p)' \in Nat /\ Bought(p) \in Nat
  BY BoughtFrame, BoughtType
<1>2. \A p \in Plans : Limit[p] \in Nat
  BY PlanAssumption
<1>3. PurchaseLimitHolds'
  BY <1>1, <1>2 DEF PurchaseLimitHolds
<1>4. ChecksStillHold'
  BY <1>1, <1>2 DEF ChecksStillHold, TypeOK, CallType
<1> QED
  BY <1>3, <1>4

-----------------------------------------------------------------------------
\* The initial state satisfies the invariant.
LEMMA InitInvariant == Init => IInv
<1> SUFFICES ASSUME Init PROVE IInv
  OBVIOUS
<1>0. \A p \in Plans : Rows(p) = {}
  BY DEF Rows, Exists, Init
<1>1. \A p \in Plans : Bought(p) = 0
  BY <1>0, BoughtType, FS_EmptySet
<1>2. TypeOK
  <2>1. (CHOOSE p \in Plans : TRUE) \in Plans
    BY PlanAssumption
  <2>2. UserType /\ OrderType /\ ExpireType
    BY PurchaseBounds DEF Init, UserType, OrderType, ExpireType, GroupNames
  <2>3. SubType /\ CallType
    BY <2>1, PurchaseBounds DEF Init, SubType, CallType, GroupNames, Statuses, Sources
  <2> QED
    BY <2>2, <2>3 DEF TypeOK
<1>3. LocksHeld /\ ChecksStillHold /\ RowsInOrder
  BY DEF Init, LocksHeld, ChecksStillHold, RowsInOrder
<1>4. OneSubscriptionPerOrder
  BY NameAssumption DEF Init, OneSubscriptionPerOrder
<1>5. PurchaseLimitHolds
  BY <1>1, PlanAssumption DEF PurchaseLimitHolds
<1> QED
  BY <1>2, <1>3, <1>4, <1>5 DEF IInv

-----------------------------------------------------------------------------
\* Steps that neither create, end nor expire a row and leave user and wallet alone.
LEMMA LockingSteps ==
    ASSUME IInv, NEW w \in Workers,
           \/ \E o \in Orders : CompleteOrder(w, o)
           \/ \E p \in Plans, how \in {"admin", "balance"} : Bind(w, how, p)
           \/ Rollback(w)
    PROVE  IInv'
<1> USE DEF IInv
<1>1. CASE \E o \in Orders : CompleteOrder(w, o)
  <2> PICK o \in Orders : CompleteOrder(w, o)
    BY <1>1
  <2>1. TypeOK'
    BY PlanAssumption
       DEF CompleteOrder, TypeOK, UserType, OrderType, SubType, CallType, ExpireType, Sources, userVars, subVars, expireVars
  <2>2. LocksHeld'
    BY NameAssumption DEF CompleteOrder, LocksHeld, TypeOK, OrderType, CallType, OrderRowIsFree
  <2>3. ChecksStillHold' /\ PurchaseLimitHolds'
    BY LimitsFrame DEF CompleteOrder, TypeOK, CallType, userVars, subVars, Exists
  <2>4. RowsInOrder' /\ OneSubscriptionPerOrder'
    BY DEF CompleteOrder, RowsInOrder, OneSubscriptionPerOrder, subVars, expireVars
  <2> QED
    BY <2>1, <2>2, <2>3, <2>4
<1>2. CASE \E p \in Plans, how \in {"admin", "balance"} : Bind(w, how, p)
  <2> PICK p \in Plans, how \in {"admin", "balance"} : Bind(w, how, p)
    BY <1>2
  <2>1. TypeOK'
    BY DEF Bind, TypeOK, UserType, OrderType, SubType, CallType, ExpireType, Sources, userVars, lockVars, subVars, expireVars
  <2>2. LocksHeld'
    BY NameAssumption DEF Bind, LocksHeld, TypeOK, CallType, lockVars
  <2>3. ChecksStillHold' /\ PurchaseLimitHolds'
    BY LimitsFrame DEF Bind, TypeOK, CallType, userVars, subVars, Exists
  <2>4. RowsInOrder' /\ OneSubscriptionPerOrder'
    BY DEF Bind, RowsInOrder, OneSubscriptionPerOrder, subVars, expireVars
  <2> QED
    BY <2>1, <2>2, <2>3, <2>4
<1>3. CASE Rollback(w)
  <2>1. TypeOK'
    BY <1>3, PurchaseBounds
       DEF Rollback, Release, TypeOK, UserType, OrderType, SubType, CallType, ExpireType, userVars, subVars, expireVars
  <2>2. LocksHeld'
    <3>1. pc[w] \in {"create", "refuse"} /\ userLock = w
      BY <1>3 DEF Rollback, LocksHeld
    <3>2. \A v \in Workers : v # w => pc[v] \notin {"create", "refuse"}
      BY <3>1 DEF LocksHeld
    <3> QED
      BY <1>3, <3>1, <3>2 DEF Rollback, Release, LocksHeld, TypeOK, OrderType, CallType
  <2>3. ChecksStillHold' /\ PurchaseLimitHolds'
    BY <1>3, LimitsFrame DEF Rollback, TypeOK, CallType, userVars, subVars, Exists
  <2>4. RowsInOrder' /\ OneSubscriptionPerOrder'
    BY <1>3 DEF Rollback, RowsInOrder, OneSubscriptionPerOrder, subVars, expireVars
  <2> QED
    BY <2>1, <2>2, <2>3, <2>4
<1> QED
  BY <1>1, <1>2, <1>3

\* The caller that gets the user's row makes its checks under the lock.
LEMMA LockingUser ==
    ASSUME IInv, NEW w \in Workers, LockUser(w)
    PROVE  IInv'
<1> USE DEF IInv
<1>1. TypeOK'
  BY DEF LockUser, TypeOK, UserType, OrderType, SubType, CallType, ExpireType, userVars, subVars, expireVars
<1>2. \A v \in Workers : pc[v] \notin {"create", "refuse"}
  BY NameAssumption DEF LockUser, UserRowIsFree, LocksHeld
<1>3. LocksHeld'
  BY <1>2 DEF LockUser, LocksHeld, TypeOK, CallType
<1>4. PurchaseLimitHolds' /\ \A p : Bought(p)' = Bought(p)
  BY DEF LockUser, PurchaseLimitHolds, Bought, Exists, subVars
<1>5. ChecksStillHold'
  BY <1>2, <1>4 DEF LockUser, ChecksStillHold, TypeOK, CallType, userVars, subVars
<1>6. RowsInOrder' /\ OneSubscriptionPerOrder'
  BY DEF LockUser, RowsInOrder, OneSubscriptionPerOrder, subVars, expireVars
<1> QED
  BY <1>1, <1>3, <1>4, <1>5, <1>6

\* The caller that owns the user's row creates one subscription.
LEMMA Creating ==
    ASSUME IInv, NEW w \in Workers, Create(w)
    PROVE  IInv'
<1> USE DEF IInv
<1> DEFINE i == created + 1
           p == want[w]
<1>1. /\ pc[w] = "create" /\ userLock = w /\ i \in SubIds /\ p \in Plans /\ i > created
      /\ via[w] = "balance" => wallet >= Price[p]
      /\ Limit[p] = 0 \/ Bought(p) < Limit[p]
      /\ status[i] = "none" /\ source[i] = "none"
      /\ via[w] \in Orders => orderLock[via[w]] = w /\ order[via[w]] = "pending"
  BY PurchaseBounds DEF Create, LocksHeld, ChecksStillHold, RowsInOrder, TypeOK, SubType, CallType, SubIds
<1>2. \A v \in Workers : v # w => pc[v] \notin {"create", "refuse"}
  BY <1>1 DEF LocksHeld
<1>3. TypeOK'
  <2>1. UserType'
    <3>1. wallet' \in Nat
      BY <1>1, PlanAssumption DEF Create, TypeOK, UserType
    <3>2. group' \in GroupNames \ {NoGroup}
      BY <1>1, PlanAssumption DEF Create, TypeOK, UserType
    <3> QED
      BY <3>1, <3>2 DEF Create, TypeOK, UserType
  <2>2. OrderType'
    BY DEF Create, Release, TypeOK, OrderType
  <2>3. SubType'
    <3>1. (IF Upgrade[p] # NoGroup /\ group # Upgrade[p] THEN group ELSE NoGroup) \in GroupNames
      BY DEF TypeOK, UserType, GroupNames
    <3>2. now + Duration[p] \in Nat /\ i \in 0..MaxSubs
      BY <1>1, PlanAssumption, PurchaseBounds DEF TypeOK, UserType, SubIds
    <3> QED
      BY <1>1, <3>1, <3>2 DEF Create, TypeOK, SubType, CallType, Statuses
  <2>4. CallType' /\ ExpireType'
    BY DEF Create, TypeOK, CallType, ExpireType, expireVars
  <2> QED
    BY <2>1, <2>2, <2>3, <2>4 DEF TypeOK
<1>4. LocksHeld'
  BY <1>1, <1>2 DEF Create, Release, LocksHeld, TypeOK, OrderType, CallType
<1>5. ChecksStillHold'
  BY <1>2 DEF Create, ChecksStillHold, TypeOK, CallType
<1>6. RowsInOrder'
  BY <1>1 DEF Create, RowsInOrder, TypeOK, SubType, SubIds, expireVars
<1>7. OneSubscriptionPerOrder'
  <2>1. source' = [source EXCEPT ![i] = via[w]]
    BY DEF Create
  <2>2. \A j \in SubIds : source[j] \in Orders => order[source[j]] = "success"
    BY DEF OneSubscriptionPerOrder
  <2>3. \A j, k \in SubIds : source'[j] \in Orders /\ source'[j] = source'[k] => j = k
    BY <1>1, <2>1, <2>2 DEF OneSubscriptionPerOrder, TypeOK, SubType
  <2>4. \A o \in Orders : order'[o] = "success" <=> \E j \in SubIds : source'[j] = o
    <3> SUFFICES ASSUME NEW o \in Orders
                 PROVE  order'[o] = "success" <=> \E j \in SubIds : source'[j] = o
      OBVIOUS
    <3>1. CASE via[w] = o
      BY <1>1, <2>1, <3>1 DEF Create, TypeOK, OrderType, SubType
    <3>2. CASE via[w] # o
      <4>1. order'[o] = order[o]
        BY <3>2 DEF Create, TypeOK, OrderType
      <4>2. \A j \in SubIds : source'[j] = o <=> source[j] = o
        BY <1>1, <2>1, <3>2, NameAssumption DEF TypeOK, SubType
      <4> QED
        BY <4>1, <4>2 DEF OneSubscriptionPerOrder
    <3> QED
      BY <3>1, <3>2
  <2> QED
    BY <2>3, <2>4 DEF OneSubscriptionPerOrder
<1>8. PurchaseLimitHolds'
  <2> SUFFICES ASSUME NEW q \in Plans, Limit[q] > 0
               PROVE  Bought(q)' <= Limit[q]
    BY DEF PurchaseLimitHolds
  <2>0. Limit[q] \in Nat
    BY PlanAssumption
  <2>1. CASE q = p
    <3>1. Rows(q)' = Rows(q) \cup {i}
      BY <1>1, <2>1 DEF Create, Rows, Exists, TypeOK, SubType
    <3>2. Bought(q)' = Cardinality(Rows(q) \cup {i})
      BY <3>1 DEF Bought, Rows
    <3>3. Rows(q) \in SUBSET SubIds
      BY DEF Rows
    <3>4. Bought(q)' <= Bought(q) + 1 /\ Bought(q)' \in Nat
      BY <1>1, <3>2, <3>3, OneMore, BoughtType
    <3> QED
      BY <1>1, <2>0, <2>1, <3>4, BoughtType
  <2>2. CASE q # p
    <3>1. \A j \in SubIds : Exists(j)' /\ plan'[j] = q => Exists(j) /\ plan[j] = q
      BY <1>1, <2>2 DEF Create, Exists, TypeOK, SubType
    <3> QED
      BY <2>0, <3>1, BoughtFrame, BoughtType DEF PurchaseLimitHolds
  <2> QED
    BY <2>1, <2>2
<1> QED
  BY <1>3, <1>4, <1>5, <1>6, <1>7, <1>8

\* Orders lapse, rows end or expire, and the clock moves: no row is created.
LEMMA OtherSteps ==
    ASSUME IInv,
           \/ \E o \in Orders : ExpireOrder(o)
           \/ \E i \in SubIds : AdminInvalidate(i) \/ AdminDelete(i)
           \/ ScanDue \/ ExpireRows \/ ExpireGroup \/ ExpireFails \/ Tick
    PROVE  IInv'
<1> USE DEF IInv
<1>1. CASE \E o \in Orders : ExpireOrder(o)
  <2> PICK o \in Orders : ExpireOrder(o)
    BY <1>1
  <2>1. TypeOK'
    BY DEF ExpireOrder, TypeOK, UserType, OrderType, SubType, CallType, ExpireType, userVars, lockVars, subVars, callVars, expireVars
  <2>2. LocksHeld'
    BY NameAssumption DEF ExpireOrder, LocksHeld, TypeOK, OrderType, CallType, lockVars, callVars
  <2>3. ChecksStillHold' /\ PurchaseLimitHolds'
    BY LimitsFrame DEF ExpireOrder, userVars, subVars, callVars, Exists
  <2>4. RowsInOrder' /\ OneSubscriptionPerOrder'
    BY DEF ExpireOrder, RowsInOrder, OneSubscriptionPerOrder, TypeOK, OrderType, subVars, expireVars
  <2> QED
    BY <2>1, <2>2, <2>3, <2>4
<1>2. CASE \E i \in SubIds : AdminInvalidate(i) \/ AdminDelete(i)
  <2> PICK i \in SubIds, how \in {"cancelled", "deleted"} : Remove(i, how)
    BY <1>2 DEF AdminInvalidate, AdminDelete
  <2>1. TypeOK'
    <3>1. DowngradeTarget(i) \in GroupNames
      BY PlanAssumption DEF DowngradeTarget, TypeOK, SubType, GroupNames
    <3>2. UserType'
      BY <3>1 DEF Remove, TypeOK, UserType
    <3>3. SubType'
      BY DEF Remove, TypeOK, UserType, SubType, Statuses
    <3> QED
      BY <3>2, <3>3 DEF Remove, TypeOK, OrderType, CallType, ExpireType, lockVars, callVars, expireVars
  <2>2. LocksHeld' /\ OneSubscriptionPerOrder'
    BY DEF Remove, LocksHeld, OneSubscriptionPerOrder, lockVars, callVars
  <2>3. ChecksStillHold' /\ PurchaseLimitHolds'
    BY LimitsFrame DEF Remove, callVars, Exists, TypeOK, SubType
  <2>4. RowsInOrder'
    BY DEF Remove, RowsInOrder, TypeOK, SubType, ExpireType, Exists, expireVars
  <2> QED
    BY <2>1, <2>2, <2>3, <2>4
<1>3. CASE ScanDue \/ ExpireFails \/ Tick
  <2>1. TypeOK'
    BY <1>3, PurchaseBounds
       DEF ScanDue, ExpireFails, Tick, TypeOK, UserType, OrderType, SubType, CallType, ExpireType,
           userVars, lockVars, subVars, callVars, expireVars
  <2>2. LocksHeld' /\ OneSubscriptionPerOrder'
    BY <1>3 DEF ScanDue, ExpireFails, Tick, LocksHeld, OneSubscriptionPerOrder, lockVars, subVars, callVars
  <2>3. ChecksStillHold' /\ PurchaseLimitHolds'
    BY <1>3, LimitsFrame DEF ScanDue, ExpireFails, Tick, userVars, subVars, callVars, Exists
  <2>4. RowsInOrder'
    BY <1>3 DEF ScanDue, ExpireFails, Tick, RowsInOrder, subVars, expireVars
  <2> QED
    BY <2>1, <2>2, <2>3, <2>4
<1>4. CASE ExpireRows
  <2>1. TypeOK'
    BY <1>4
       DEF ExpireRows, Latest, TypeOK, UserType, OrderType, SubType, CallType, ExpireType, Statuses, userVars, lockVars, callVars
  <2>2. LocksHeld' /\ OneSubscriptionPerOrder'
    BY <1>4 DEF ExpireRows, LocksHeld, OneSubscriptionPerOrder, lockVars, callVars
  <2>3. ChecksStillHold' /\ PurchaseLimitHolds'
    BY <1>4, LimitsFrame DEF ExpireRows, Due, userVars, callVars, Exists, TypeOK, SubType
  <2>4. RowsInOrder'
    <3>1. \A i \in SubIds : i > created' => status'[i] = "none" /\ source'[i] = "none"
      BY <1>4 DEF ExpireRows, Due, RowsInOrder
    <3> QED
      BY <1>4, <3>1 DEF ExpireRows, Due, RowsInOrder, TypeOK, SubType
  <2> QED
    BY <2>1, <2>2, <2>3, <2>4
<1>5. CASE ExpireGroup
  <2>1. TypeOK'
    <3>1. exLast \in SubIds
      BY <1>5 DEF ExpireGroup, RowsInOrder
    <3>2. ExpiryTarget \in GroupNames
      BY <3>1, PlanAssumption DEF ExpiryTarget, TypeOK, SubType, GroupNames
    <3> QED
      BY <1>5, <3>2
         DEF ExpireGroup, TypeOK, UserType, OrderType, SubType, CallType, ExpireType, Statuses, lockVars, callVars
  <2>2. LocksHeld' /\ OneSubscriptionPerOrder'
    BY <1>5 DEF ExpireGroup, LocksHeld, OneSubscriptionPerOrder, lockVars, callVars
  <2>3. ChecksStillHold' /\ PurchaseLimitHolds'
    BY <1>5, LimitsFrame DEF ExpireGroup, RowsInOrder, callVars, Exists, TypeOK, SubType
  <2>4. RowsInOrder'
    BY <1>5 DEF ExpireGroup, RowsInOrder, TypeOK, SubType, ExpireType
  <2> QED
    BY <2>1, <2>2, <2>3, <2>4
<1> QED
  BY <1>1, <1>2, <1>3, <1>4, <1>5

-----------------------------------------------------------------------------
\* No step breaks the invariant.
LEMMA NextInvariant == IInv /\ [Next]_vars => IInv'
<1> SUFFICES ASSUME IInv, [Next]_vars PROVE IInv'
  OBVIOUS
<1>1. CASE \E w \in Workers : \/ \E o \in Orders : CompleteOrder(w, o)
                              \/ \E p \in Plans, how \in {"admin", "balance"} : Bind(w, how, p)
                              \/ LockUser(w) \/ Create(w) \/ Rollback(w)
  BY <1>1, LockingSteps, LockingUser, Creating
<1>2. CASE \/ \E o \in Orders : ExpireOrder(o)
           \/ \E i \in SubIds : AdminInvalidate(i) \/ AdminDelete(i)
           \/ ScanDue \/ ExpireRows \/ ExpireGroup \/ ExpireFails \/ Tick
  BY <1>2, OtherSteps
<1>3. CASE UNCHANGED vars
  <2>1. ChecksStillHold' /\ PurchaseLimitHolds'
    BY <1>3, LimitsFrame DEF IInv, vars, userVars, subVars, callVars, Exists
  <2>2. TypeOK'
    BY <1>3 DEF IInv, vars, userVars, lockVars, subVars, callVars, expireVars,
                TypeOK, UserType, OrderType, SubType, CallType, ExpireType
  <2>3. LocksHeld' /\ RowsInOrder' /\ OneSubscriptionPerOrder'
    BY <1>3 DEF IInv, vars, lockVars, subVars, callVars, expireVars, LocksHeld, RowsInOrder, OneSubscriptionPerOrder
  <2> QED
    BY <2>1, <2>2, <2>3 DEF IInv
<1> QED
  BY <1>1, <1>2, <1>3 DEF Next

\* The invariant holds throughout every behaviour of the purchases.
THEOREM PurchaseInvariant == Spec => []IInv
<1> QED
  BY InitInvariant, NextInvariant, PTL DEF Spec

\* Every variable keeps its type; in particular no interleaving of balance
\* purchases takes the wallet below zero (PurchaseSubscriptionWithBalance).
THEOREM PurchaseTyping == Spec => []TypeOK
<1>1. IInv => TypeOK
  BY DEF IInv
<1> QED
  BY <1>1, PurchaseInvariant, PTL

\* However often and however concurrently a gateway calls back, a paid order has
\* exactly one subscription (CompleteSubscriptionOrder).
THEOREM CompletionIsIdempotent == Spec => []OneSubscriptionPerOrder
<1>1. IInv => OneSubscriptionPerOrder
  BY DEF IInv
<1> QED
  BY <1>1, PurchaseInvariant, PTL

\* No mixture of callbacks, binds and balance purchases passes a plan's limit
\* (CreateUserSubscriptionFromPlanTx under the user's lock).
THEOREM LimitIsKept == Spec => []PurchaseLimitHolds
<1>1. IInv => PurchaseLimitHolds
  BY DEF IInv
<1> QED
  BY <1>1, PurchaseInvariant, PTL

-----------------------------------------------------------------------------
(* The group of a user whose upgrade is active.                             *)

\* A purchase leaves its user in the group that it, or an earlier one, granted.
LEMMA CreateKeepsUpgrade ==
    ASSUME IInv, NEW w \in Workers, Create(w), ActiveUpgradeKeepsGroup,
           \A p \in Plans : Upgrade[p] # BaseGroup
    PROVE  ActiveUpgradeKeepsGroup'
<1>1. created + 1 \in SubIds /\ want[w] \in Plans
  <2>1. pc[w] = "create"
    BY DEF Create
  <2>2. created < MaxSubs /\ created \in Nat
    BY <2>1, PurchaseBounds DEF IInv, ChecksStillHold, TypeOK, SubType
  <2> QED
    BY <2>2, PurchaseBounds DEF SubIds, IInv, TypeOK, CallType
<1> DEFINE p == want[w]
<1>2. CASE Upgrade[p] # NoGroup
  <2>1. group' = Upgrade[p]
    BY <1>2 DEF Create
  <2> QED
    BY <1>1, <2>1 DEF ActiveUpgradeKeepsGroup
<1>3. CASE Upgrade[p] = NoGroup
  <2>1. group' = group /\ now' = now
    BY <1>3 DEF Create
  <2>2. ASSUME NEW i \in SubIds, Live(i, now)', Upgrade[plan'[i]] # NoGroup
        PROVE  Live(i, now) /\ Upgrade[plan[i]] # NoGroup
    <3>1. plan'[created + 1] = p
      BY <1>1 DEF Create, IInv, TypeOK, SubType
    <3>2. i # created + 1
      BY <1>3, <2>2, <3>1
    <3>3. status'[i] = status[i] /\ end'[i] = end[i] /\ plan'[i] = plan[i]
      BY <3>2 DEF Create, IInv, TypeOK, SubType
    <3> QED
      BY <2>1, <2>2, <3>3 DEF Live
  <2> QED
    BY <2>1, <2>2 DEF ActiveUpgradeKeepsGroup
<1> QED
  BY <1>2, <1>3

\* Cancelling or deleting one subscription spares the upgrade of another.
LEMMA RemoveKeepsUpgrade ==
    ASSUME IInv, NEW i \in SubIds, NEW how \in {"cancelled", "deleted"}, Remove(i, how), ActiveUpgradeKeepsGroup
    PROVE  ActiveUpgradeKeepsGroup'
<1>1. now' = now /\ plan' = plan
  BY DEF Remove
<1>2. status'[i] # "active"
  BY DEF Remove, IInv, TypeOK, SubType
<1>3. ASSUME NEW j \in SubIds, Live(j, now)', Upgrade[plan'[j]] # NoGroup
      PROVE  j # i /\ Live(j, now) /\ Upgrade[plan[j]] # NoGroup
  <2>1. j # i
    BY <1>2, <1>3 DEF Live
  <2>2. status'[j] = status[j] /\ end'[j] = end[j]
    BY <2>1 DEF Remove, IInv, TypeOK, SubType
  <2> QED
    BY <1>1, <1>3, <2>1, <2>2 DEF Live
<1>4. CASE LiveUpgrade(now, {i})
  <2>1. group' = group
    BY <1>4 DEF Remove, DowngradeTarget
  <2> QED
    BY <1>3, <2>1 DEF ActiveUpgradeKeepsGroup
<1>5. CASE ~LiveUpgrade(now, {i})
  BY <1>3, <1>5 DEF LiveUpgrade, ActiveUpgradeKeepsGroup
<1> QED
  BY <1>4, <1>5

\* Where no plan upgrades to the base group, no request, callback, cancellation
\* or rollback takes an active upgrade away (downgradeUserGroupForSubscriptionTx,
\* CreateUserSubscriptionFromPlanTx); only the expiry task may.
THEOREM RequestsKeepUpgrades ==
    ASSUME \A p \in Plans : Upgrade[p] # BaseGroup
    PROVE  Spec => UpgradeSurvivesRequests
<1>1. ASSUME IInv, [Next]_vars, exPc' = exPc, ActiveUpgradeKeepsGroup
      PROVE  ActiveUpgradeKeepsGroup'
  <2>1. CASE \E w \in Workers : Create(w)
    BY <1>1, <2>1, CreateKeepsUpgrade
  <2>2. CASE \E i \in SubIds : AdminInvalidate(i) \/ AdminDelete(i)
    BY <1>1, <2>2, RemoveKeepsUpgrade DEF AdminInvalidate, AdminDelete
  <2>3. CASE Tick
    <3>1. \A i \in SubIds : Live(i, now)' => Live(i, now)
      BY <1>1, <2>3 DEF Tick, Live, subVars, IInv, TypeOK, SubType, UserType
    <3> QED
      BY <1>1, <2>3, <3>1 DEF Tick, subVars, ActiveUpgradeKeepsGroup
  <2>4. CASE UNCHANGED <<userVars, subVars>>
    BY <1>1, <2>4 DEF ActiveUpgradeKeepsGroup, Live, userVars, subVars
  <2>5. CASE ScanDue \/ ExpireRows \/ ExpireGroup \/ ExpireFails
    BY <1>1, <2>5 DEF ScanDue, ExpireRows, ExpireGroup, ExpireFails
  <2> QED
    BY <1>1, <2>1, <2>2, <2>3, <2>4, <2>5 DEF Next, CompleteOrder, Bind, LockUser, Rollback, ExpireOrder, vars
<1>2. IInv /\ [Next]_vars => [exPc' = exPc /\ ActiveUpgradeKeepsGroup => ActiveUpgradeKeepsGroup']_vars
  BY <1>1
<1> QED
  BY <1>2, PurchaseInvariant, PTL DEF Spec, UpgradeSurvivesRequests

-----------------------------------------------------------------------------
(* The wallet and the purchases.                                            *)

\* What the wallet paid for each subscription.
Payments == [i \in SubIds |-> Paid(i)]

\* Payments are amounts.
LEMMA PaymentsType == IInv => Payments \in [SubIds -> Int]
<1> SUFFICES ASSUME IInv PROVE Payments \in [SubIds -> Int]
  OBVIOUS
<1>1. ASSUME NEW i \in SubIds PROVE Paid(i) \in Int
  <2>1. plan[i] \in Plans
    BY DEF IInv, TypeOK, SubType
  <2>2. Price[plan[i]] \in Nat
    BY <2>1, PlanAssumption
  <2> QED
    BY <2>2 DEF Paid
<1> QED
  BY <1>1 DEF Payments

\* A purchase from the balance pays for a row that nobody has paid for before.
LEMMA CreatePays ==
    ASSUME IInv, IInv', NEW w \in Workers, Create(w), WalletPaysForPurchases
    PROVE  WalletPaysForPurchases'
<1>1. PICK i : i = created + 1
  OBVIOUS
<1>2. i \in SubIds /\ i > created /\ want[w] \in Plans /\ via[w] \in Sources
  <2>1. created < MaxSubs /\ created \in Nat
    BY PurchaseBounds DEF Create, IInv, ChecksStillHold, TypeOK, SubType
  <2> QED
    BY <1>1, <2>1, PurchaseBounds DEF SubIds, IInv, TypeOK, CallType
<1>3. source[i] = "none" /\ source'[i] = via[w] /\ plan'[i] = want[w]
  BY <1>1, <1>2 DEF IInv, RowsInOrder, TypeOK, SubType, Create
<1>4. \A j \in SubIds \ {i} : source'[j] = source[j] /\ plan'[j] = plan[j]
  BY <1>1 DEF IInv, TypeOK, SubType, Create
<1>5. PICK f, g : f = Payments /\ g = Payments'
  OBVIOUS
<1>6. f \in [SubIds -> Int] /\ g \in [SubIds -> Int]
  <2>1. (IInv => Payments \in [SubIds -> Int])'
    BY PaymentsType, PTL
  <2> QED
    BY <1>5, <2>1, PaymentsType
<1>7. \A j \in SubIds \ {i} : g[j] = f[j]
  BY <1>4, <1>5 DEF Payments, Paid
<1>8. f[i] = 0 /\ g[i] = IF via[w] = "balance" THEN Price[want[w]] ELSE 0
  BY <1>2, <1>3, <1>5 DEF Payments, Paid
<1>9. IsFiniteSet(SubIds)
  BY FS_Interval, PurchaseBounds DEF SubIds
<1>10. SumFunction(g) = SumFunction(f) + g[i] - f[i]
  BY <1>2, <1>6, <1>7, <1>9, SumChange
<1>11. SumFunction(f) \in Int
  BY <1>6, <1>9, SumType
<1>12. wallet + SumFunction(f) = InitWallet
  BY <1>5 DEF WalletPaysForPurchases, Payments
<1>13. wallet' = (IF via[w] = "balance" THEN wallet - Price[want[w]] ELSE wallet) /\ wallet \in Int
  BY DEF Create, IInv, TypeOK, UserType
<1>14. Price[want[w]] \in Nat
  BY <1>2, PlanAssumption
<1>15. wallet' + SumFunction(g) = InitWallet
  BY <1>8, <1>10, <1>11, <1>12, <1>13, <1>14, PurchaseBounds
<1> QED
  BY <1>5, <1>15 DEF WalletPaysForPurchases, Payments

\* Whatever callers are refused, fail or run at once, the wallet and the prices of
\* the subscriptions bought with it add up to what the user began with.
THEOREM WalletBalances == Spec => []WalletPaysForPurchases
<1>1. Init => WalletPaysForPurchases
  <2> SUFFICES ASSUME Init PROVE WalletPaysForPurchases
    OBVIOUS
  <2>1. PICK f : f = [i \in SubIds |-> 0]
    OBVIOUS
  <2>2. [i \in SubIds |-> Paid(i)] = f
    BY <2>1 DEF Init, Paid
  <2>3. IsFiniteSet(SubIds)
    BY FS_Interval, PurchaseBounds DEF SubIds
  <2>4. SumFunction(f) = 0
    BY <2>1, <2>3, SumOfZeros
  <2> QED
    BY <2>2, <2>4, PurchaseBounds DEF Init, WalletPaysForPurchases
<1>2. IInv /\ IInv' /\ [Next]_vars /\ WalletPaysForPurchases => WalletPaysForPurchases'
  <2> SUFFICES ASSUME IInv, IInv', [Next]_vars, WalletPaysForPurchases PROVE WalletPaysForPurchases'
    OBVIOUS
  <2>1. CASE \E w \in Workers : Create(w)
    BY <2>1, CreatePays
  <2>2. CASE UNCHANGED <<wallet, plan, source>>
    <3>1. Payments' = Payments /\ wallet' = wallet
      BY <2>2 DEF Payments, Paid
    <3> QED
      BY <3>1 DEF WalletPaysForPurchases, Payments
  <2>3. CASE \E i \in SubIds : AdminInvalidate(i) \/ AdminDelete(i)
    BY <2>2, <2>3 DEF AdminInvalidate, AdminDelete, Remove
  <2>4. CASE ScanDue \/ ExpireRows \/ ExpireGroup \/ ExpireFails \/ Tick
    BY <2>2, <2>4 DEF ScanDue, ExpireRows, ExpireGroup, ExpireFails, Tick, userVars, subVars
  <2>5. CASE UNCHANGED <<userVars, subVars>>
    BY <2>2, <2>5 DEF userVars, subVars
  <2> QED
    BY <2>1, <2>3, <2>4, <2>5 DEF Next, CompleteOrder, Bind, LockUser, Rollback, ExpireOrder, vars
<1> QED
  BY <1>1, <1>2, PurchaseInvariant, PTL DEF Spec
=============================================================================
