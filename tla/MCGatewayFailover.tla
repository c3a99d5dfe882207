-------------------------- MODULE MCGatewayFailover --------------------------
(* Small instances of GatewayFailover for TLC. *)
EXTENDS GatewayFailover, TLC

CONSTANTS a1, a2, i1, i2, c1
==============================================================================
