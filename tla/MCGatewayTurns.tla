--------------------------- MODULE MCGatewayTurns ---------------------------
(* Small instances of GatewayTurns: the bounds are in the configurations. *)
EXTENDS GatewayTurns
=============================================================================
