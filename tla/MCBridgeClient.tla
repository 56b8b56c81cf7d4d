--------------------------- MODULE MCBridgeClient ---------------------------
(* A small instance of BridgeClient for TLC. *)
EXTENDS BridgeClient

CONSTANTS r1, r2, d1, d2
=============================================================================
