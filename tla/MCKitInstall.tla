----------------------------- MODULE MCKitInstall -----------------------------
(* A small instance of KitInstall for TLC. *)
EXTENDS KitInstall

CONSTANTS st1, st2

\* The first file is edited by two steps, the second by one of its own.
TwoFiles == <<{st1}, {st1, st2}>>
===============================================================================
