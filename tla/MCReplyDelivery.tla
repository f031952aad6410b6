--------------------------- MODULE MCReplyDelivery ---------------------------
(* A small instance of ReplyDelivery for TLC: one chat, in which two replies  *)
(* and an edit overlap in every order.                                        *)
EXTENDS ReplyDelivery, TLC

CONSTANT group

OneChat == [m \in Messages |-> group]
Symmetry == Permutations(Sends)
===============================================================================
