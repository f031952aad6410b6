-------------------------- MODULE MCConfirmation ---------------------------
(* A small instance of ConfirmationTools for TLC. *)
EXTENDS ConfirmationTools, TLC

CONSTANTS p1, p2, d1, d2, k2

\* Outbox keys of the technical versions: the proposal version p2 is spelled
\* like the key of design d1, no proposal version like that of d2.
SharedKeys == (d1 :> p2) @@ (d2 :> k2)
============================================================================
