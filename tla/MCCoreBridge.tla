---------------------------- MODULE MCCoreBridge ----------------------------
(* Model-checking instances of CoreBridge: three sessions, room for two.   *)
EXTENDS CoreBridge, TLC

CONSTANTS p, s1, s2, r1, r2, r3, m1, m2

Sessions     == {p, s1, s2}
TwoSessions  == {p, s1}
Requests     == {r1, r2, r3}
Symmetry     ==
    Permutations({r1, r2, r3}) \cup Permutations({s1, s2}) \cup Permutations({m1, m2})
Models       == {m1}
TwoModels    == {m1, m2}
=============================================================================
