-------------------------- MODULE MCGatewayNotices --------------------------
(* Small instances of GatewayNotices. *)
EXTENDS GatewayNotices

CONSTANTS s1, s2, group, home, far, p, q

MCSessions == {s1, s2}
MCChats == {group, home, far}
MCPlatforms == {p, q}
\* Two sessions of one chat, which is the home channel of its platform.
MCChatOf == [s \in MCSessions |-> home]
MCPlatformOf == [c \in MCChats |-> IF c = far THEN q ELSE p]
MCHomeOf == [x \in MCPlatforms |-> IF x = p THEN home ELSE far]
=============================================================================
