--------------------------- MODULE MCTurnLifecycle ---------------------------
(* Model-checking instances of TurnLifecycle: two flows, few chunks.       *)
EXTENDS TurnLifecycle, TLC

CONSTANTS f1, f2, i1, i2

Symmetry == Permutations({f1, f2}) \cup Permutations({i1, i2})

TwoFlows == {f1, f2}
OneFlow  == {f1}
TwoIds   == {i1, i2}
OneId    == {i1}
=============================================================================
