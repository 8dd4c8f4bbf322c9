---------------------------- MODULE MCQuotaReserve ----------------------------
(* Finite instances of QuotaReserve: the deployments a run covers.          *)
EXTENDS QuotaReserve, TLC

On(row, redis, batch, warmStart) == [row |-> row, redis |-> redis, batch |-> batch, warm |-> warmStart]

\* A warm hash with and without the batch updater, a cold one, and no Redis
\* with and without the batch updater.
AllDeployments ==
    {On("user", TRUE, TRUE, TRUE), On("token", TRUE, FALSE, TRUE), On("token", TRUE, FALSE, FALSE),
     On("user", TRUE, TRUE, FALSE), On("user", FALSE, FALSE, FALSE),
     On("user", FALSE, TRUE, FALSE)}
ColdToken == {On("token", TRUE, FALSE, FALSE)}

Symmetry == Permutations(Callers)
===============================================================================
