--------------------------- MODULE MCBillingSession ---------------------------
(* Finite instances, and what a comment says of refunds that are retried.    *)
EXTENDS BillingSession, TLC

Symmetry == Permutations(Requests)

\* What the settled requests of the subscription have paid.
SettledCost(r) == IF pc[r] = "settled" /\ source[r] = "subscription" THEN actual[r] ELSE 0

\* RefundSubscriptionPreConsume "is idempotent": a failed refund that is tried
\* again never erases usage that other requests of the subscription paid for.
SubscriptionUsageKept == subUsed >= SumFunction([r \in Requests |-> SettledCost(r)])
=============================================================================
