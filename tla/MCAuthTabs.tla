------------------------------ MODULE MCAuthTabs -------------------------------
(* Two tabs of one profile, and the view that merges states no step can tell  *)
(* apart.                                                                     *)
EXTENDS AuthTabs, TLC
CONSTANTS t1, t2

TabSymmetry == Permutations(Tabs)

\* what no step and no property reads any more: the epoch of a settled refresh, an outcome
\* nobody awaits, missed events once QuietTabsAgree is off
LiveView ==
    <<rows, cookie, page, stage, [t \in Tabs |-> stage[t] = "none" \/ current[t]],
      [t \in Tabs |-> IF form[t].st = "recovering" THEN outcome[t] ELSE "none"],
      locks, wire, form, chan, orphans, left, lost, crossed, replayed, IF crossed THEN {} ELSE missed, budget>>
=============================================================================
