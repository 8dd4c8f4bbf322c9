----------------------------- MODULE MCUserSession -----------------------------
(* Finite instances of UserSession. *)
EXTENDS UserSession, TLC

RequestSymmetry == Permutations(Requests)

\* What a request that has ended leaves behind has no influence on later steps:
\* states that differ only in it are explored once.
Locals(r) ==
    <<op[r], sid[r], ver[r], gen[r], began[r], doomed[r], deadline[r], at[r], tries[r], rotated[r], seen[r], targets[r], todo[r]>>
LiveView ==
    <<now, row, cache, ended, tombed, redisErrors, fresh,
      [r \in Requests |-> IF pc[r] \in Over THEN <<"over">> ELSE <<pc[r], Locals(r)>>]>>
=============================================================================
