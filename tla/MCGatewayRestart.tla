-------------------------- MODULE MCGatewayRestart --------------------------
(* A small gateway for TLC: every session lives on one platform. *)
EXTENDS GatewayRestart

CONSTANT Home  \* the platform of every session

MCPlatformOf(s) == Home
=============================================================================
