---------------------------- MODULE MCTaskWrite -----------------------------
(* Small instances of TaskWriteGate for TLC. *)
EXTENDS TaskWriteGate, TLC

CONSTANTS m1, m2, s1, u1, c1, c2, c3

\* Two messages of one sender.
OneChat == (m1 :> s1) @@ (m2 :> s1)
OneUser == (s1 :> u1)

Symmetry == Permutations(Proposals) \union Permutations(Calls)
============================================================================
