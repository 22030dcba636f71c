-------------------------- MODULE MCPairingServer --------------------------
(* PairingServer with two connections, two controllers and two slots. *)
EXTENDS PairingServer, TLC

CONSTANTS d1, d2, c1, c2, p1, p2

MCDevice == {d1, d2}
MCCtx == {c1, c2}
MCBlock == {p1, p2}
PeerSymmetry == Permutations(MCDevice) \cup Permutations(MCCtx)
=============================================================================
