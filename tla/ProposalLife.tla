---------------------------- MODULE ProposalLife ----------------------------
(***************************************************************************)
(* What the write gate promises of one declared proposal, without clocks,  *)
(* slots or threads: it is executed by one writer at a time, at most       *)
(* MaxRetries times, an attempt with an unknown outcome opens it again,    *)
(* one that succeeded or was rejected ends it, and a restart in the middle *)
(* of an attempt ends it too.                                              *)
(***************************************************************************)
EXTENDS Naturals

CONSTANTS Proposals, MaxRetries

VARIABLES
  phase, \* how far the execution of each proposal got
  tries  \* attempts begun

vars == <<phase, tries>>

Phases == {"open", "writing", "done", "void", "lost"}

Init ==
  /\ phase = [p \in Proposals |-> "open"]
  /\ tries = [p \in Proposals |-> 0]

Begin(p) ==
  /\ phase[p] = "open"
  /\ tries[p] < MaxRetries
  /\ phase' = [phase EXCEPT ![p] = "writing"]
  /\ tries' = [tries EXCEPT ![p] = tries[p] + 1]

\* The outcome is unknown: the same proposal may be executed again.
Reopen(p) ==
  /\ phase[p] = "writing"
  /\ phase' = [phase EXCEPT ![p] = "open"]
  /\ UNCHANGED tries

End(p) ==
  /\ phase[p] = "writing"
  /\ \E r \in {"done", "void"} : phase' = [phase EXCEPT ![p] = r]
  /\ UNCHANGED tries

Restart ==
  /\ phase' = [p \in Proposals |-> IF phase[p] = "writing" THEN "lost" ELSE phase[p]]
  /\ UNCHANGED tries

Next == Restart \/ \E p \in Proposals : Begin(p) \/ Reopen(p) \/ End(p)

Spec == Init /\ [][Next]_vars
============================================================================
