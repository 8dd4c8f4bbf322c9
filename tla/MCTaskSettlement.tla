--------------------------- MODULE MCTaskSettlement ----------------------------
(* A task with two overlapping polling passes and one user querying it live *)
EXTENDS TaskSettlement, TLC
CONSTANTS p1, p2, f1, relay
PollerSymmetry == Permutations(Pollers)
\* every property is about tasks that no live query wrote over, and of whose funding
\* no batch store lost a part: a state after that is checked, but not followed
Undisturbed == ~rewritten /\ "fund" \notin lost

\* Left out is what no later step and no property reads: the goal of a worker that is
\* not billing, tokens and usage after a fault, and what batch stores hold beyond the
\* question whether it is money that a fault can still lose.
LiveBooks == IF faults = MaxFaults THEN <<fund, tok, used>> ELSE <<fund>>
AtRisk == IF faults > 0 THEN {n \in Processes : queued[n]["fund"] # 0} ELSE {}
LiveView ==
    <<row, fixed, late, channel, sub, LiveBooks, AtRisk, "fund" \in lost, silent, rewritten, pc, mem,
      [w \in Workers |-> IF pc[w] \in {"fund", "token", "used", "quota"} THEN goal[w] ELSE Keep], faults>>
=============================================================================
