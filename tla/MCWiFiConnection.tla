-------------------------- MODULE MCWiFiConnection --------------------------
(* A network, the one that replaces it, and a third that is mistaken for them. *)
EXTENDS WiFiConnection
CONSTANTS home, moved, wrong
=============================================================================
