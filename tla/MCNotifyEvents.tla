--------------------------- MODULE MCNotifyEvents ---------------------------
(* NotifyEvents on instances TLC can exhaust. *)
EXTENDS NotifyEvents, TLC

CONSTANTS c1, c2, c3, x, y, v0, v1

MCTwoCtx == {c1, c2}
MCThreeCtx == {c1, c2, c3}
MCTwoChar == {x, y}
MCOneChar == {x}
MCValue == {v0, v1}
ThreeCtxSymmetry ==
  Permutations(MCThreeCtx) \cup Permutations(MCTwoChar) \cup Permutations(MCValue)
=============================================================================
