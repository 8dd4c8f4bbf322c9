------------------------ MODULE MCSubscriptionPurchase ------------------------
(* Plans, orders and bounds for model checking subscription purchases.      *)
EXTENDS SubscriptionPurchase, TLC

\* "pro" upgrades and reverts, "team" upgrades over it and names its downgrade.
OnePlan       == {"pro"}
TwoPlans      == {"pro", "team"}
MCUpgrade     == [p \in Plans |-> p]
MCDowngrade   == [p \in Plans |-> IF p = "team" THEN "retired" ELSE NoGroup]
MCLimit       == [p \in Plans |-> IF p = "pro" THEN 2 ELSE 0]
MCPrice       == [p \in Plans |-> IF p = "pro" THEN 2 ELSE 1]
MCDuration    == [p \in Plans |-> 1]
MCOrderPlan   == [o \in Orders |-> "pro"]
Symmetry      == Permutations(Workers)
=============================================================================
