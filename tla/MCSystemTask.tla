------------------------------ MODULE MCSystemTask ------------------------------
(* Two tasks of one type, of one key or of two, and two runners *)
EXTENDS SystemTask
CONSTANTS r1, r2
OneOrTwoKeys == {[t \in Tasks |-> "a"], [t \in Tasks |-> IF t = 1 THEN "a" ELSE "b"]}
=============================================================================
