-------------------------- MODULE MCGatewayProcess --------------------------
(* Three gateway processes: one that is replaced and two that replace it.  *)
EXTENDS GatewayProcess
=============================================================================
