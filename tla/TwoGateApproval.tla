-------------------------- MODULE TwoGateApproval --------------------------
(***************************************************************************)
(* What the product_confirmation plugin promises of every task, without    *)
(* its store, its outbox and its threads: the owner is asked about one     *)
(* version at a time, and not again about the same one unless the asking   *)
(* was disowned, every verdict answers a question that was asked and not   *)
(* disowned, and technical design starts only after the product proposal   *)
(* was approved.                                                           *)
(***************************************************************************)
CONSTANTS Tasks, ProductVersions, TechVersions

Question ==
  [gate : {"product"}, task : Tasks, version : ProductVersions]
    \union [gate : {"tech"}, task : Tasks, version : TechVersions]
Decisions == {"APPROVED", "NEEDS_REVISION"}

VARIABLES
  asked,    \* questions put to the owner and not disowned
  verdicts, \* <<question, decision>> pairs recorded as the owner's answers
  stage     \* the gate each task stands at

vars == <<asked, verdicts, stage>>

Answered(q) == \E d \in Decisions : <<q, d>> \in verdicts
Passed(g, t) == \E q \in Question : q.gate = g /\ q.task = t /\ <<q, "APPROVED">> \in verdicts
OpenQuestions(t) == {q \in asked : q.task = t /\ ~ Answered(q)}

Init ==
  /\ asked = {}
  /\ verdicts = {}
  /\ stage = [t \in Tasks |-> "product"]

Ask(q) ==
  /\ q \notin asked
  /\ OpenQuestions(q.task) = {}
  /\ stage[q.task] = q.gate
  /\ ~ Passed(q.gate, q.task)
  /\ asked' = asked \union {q}
  /\ UNCHANGED <<verdicts, stage>>

\* The plugin is told that it did not ask what the owner can read: the
\* question no longer counts, no verdict will answer it, and it may be asked
\* again.
Disown(q) ==
  /\ q \in OpenQuestions(q.task)
  /\ stage[q.task] = q.gate
  /\ ~ Passed(q.gate, q.task)
  /\ asked' = asked \ {q}
  /\ UNCHANGED <<verdicts, stage>>

Answer(q, d) ==
  /\ q \in OpenQuestions(q.task)
  /\ stage[q.task] = q.gate
  /\ ~ Passed(q.gate, q.task)
  /\ verdicts' = verdicts \union {<<q, d>>}
  /\ UNCHANGED <<asked, stage>>

Advance(t) ==
  /\ stage[t] = "product"
  /\ Passed("product", t)
  /\ stage' = [stage EXCEPT ![t] = "tech"]
  /\ UNCHANGED <<asked, verdicts>>

Next ==
  \/ \E q \in Question : Ask(q) \/ Disown(q)
  \/ \E q \in Question, d \in Decisions : Answer(q, d)
  \/ \E t \in Tasks : Advance(t)

Spec == Init /\ [][Next]_vars
============================================================================
