-------------------------- MODULE MCSubscriptionQuota --------------------------
(* Plans, subscriptions and bounds for model checking the quota over time.  *)
EXTENDS SubscriptionQuota

Custom(n)   == [kind |-> "custom", len |-> n]
Calendar(n) == [kind |-> "calendar", len |-> n]
Never       == [kind |-> "never", len |-> 1]

\* One plan with a short period, one that follows the calendar.
MCPlans  == {"p", "q"}
MCPlanOf == [s \in Subs |-> IF s = 1 THEN "p" ELSE "q"]
MCPeriod == [p \in Plans |-> IF p = "p" THEN Custom(2) ELSE Calendar(3)]
MCTotal  == [s \in Subs |-> IF s = 1 THEN 2 ELSE 3]
MCEnd    == [s \in Subs |-> IF s = 1 THEN 5 ELSE 4]
Shorter  == {Custom(1)}

\* Two boundaries within the lifetimes, of which the first plan's comes first.
InTurn    == [p \in Plans |-> IF p = "p" THEN Custom(2) ELSE Calendar(4)]
LongLived == [s \in Subs |-> 6]
Off       == {Never}
================================================================================
