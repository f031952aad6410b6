---------------------------- MODULE MCPrivateSend ----------------------------
(* A small instance of PrivateSend for TLC: two administrators and a user; the *)
(* first writes in two conversations, once with the ids the host left empty.   *)
EXTENDS PrivateSend, TLC

CONSTANTS m1, m2, m3, m4, a, b, u, s1, s2

Senders == [m \in Messages |-> IF m = m4 THEN b ELSE a]
Sessions == (m1 :> s1) @@ (m2 :> s1) @@ (m3 :> None) @@ (m4 :> s2)
Ids == (m1 :> m1) @@ (m2 :> m2) @@ (m3 :> None) @@ (m4 :> m4)

Symmetry == Permutations(Tokens) \union Permutations(Calls)
===============================================================================
