---------------------------- MODULE MCAgentCache ----------------------------
(* Small instances of AgentCache. *)
EXTENDS AgentCache

CONSTANTS home, other

MCKeys == {home, other}
MCTried == {home}
=============================================================================
