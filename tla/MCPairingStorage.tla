-------------------------- MODULE MCPairingStorage --------------------------
(* PairingStorage with three slots and two controllers. *)
EXTENDS PairingStorage

CONSTANTS d1, d2

MCDevice == {d1, d2}
=============================================================================
