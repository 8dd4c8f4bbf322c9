---------------------------- MODULE MCUserAuthCache ----------------------------
(***************************************************************************)
(* UserAuthCache for TLC.  Readers, security changes, group transitions    *)
(* and profile edits are interchangeable among themselves.                 *)
(***************************************************************************)
EXTENDS UserAuthCache, TLC

CONSTANTS r1, r2, c1, c2, f1, f2, e1, gA, gB

TwoReaders  == {r1, r2}
OneReader   == {r1}
OneChanger  == {c1}
TwoChangers == {c1, c2}
TwoTransitions == {f1, f2}
OneEditor   == {e1}
Nobody      == {}
TwoGroups   == {gA, gB}
OneGroup    == {gA}

ReadersAndChangers == Permutations(TwoReaders) \cup Permutations(TwoChangers)
=============================================================================
