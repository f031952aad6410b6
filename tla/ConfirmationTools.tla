------------------------- MODULE ConfirmationTools -------------------------
(***************************************************************************)
(* The tools of the product_confirmation plugin over their store: request  *)
(* handlers on worker threads that claim the outbox, send one chat message *)
(* and settle the claim, with the drafts, decisions and the advance that   *)
(* run beside them, a gateway process that may crash between any two       *)
(* steps, and the DingTalk platform that accepts or rejects a message at   *)
(* its own pace, also after the handler stopped waiting.                   *)
(*                                                                         *)
(* A call is one invocation of a request tool.  Its identity stands for    *)
(* the claim id, the one-time code and the message it draws.  Invocations  *)
(* refused before they draw them change nothing and are not modelled.      *)
(***************************************************************************)
EXTENDS ConfirmationStore

VARIABLES
  pc,    \* where the handler of each call stands
  job,   \* the gate, task and version each call is for
  wire,  \* calls whose message was submitted and not yet judged by DingTalk
  chat,  \* calls whose message DingTalk accepted: its code is readable
  misread \* calls whose message DingTalk took, or will take, although the
          \* adapter reported it rejected: its code is readable too

toolVars == <<pc, job, wire, chat, misread>>
vars == <<rec, versions, req, log, pc, job, wire, chat, misread>>

\* The claim is held and the handler is still working on the request.
Working == {"claimed", "sending", "undelivered", "delivered"}
\* The handler ended and left the claim in place: nothing may send again.
Retained == {"unknown", "unsettled", "conflict", "raised", "dead"}
Settled == {"released", "finished"}
Refused == {"busy", "alreadyDelivered"}
Running == {"resolved"} \union Working
PCs == {"idle"} \union Running \union Retained \union Settled \union Refused

Job == [gate : Gates, task : Tasks, version : Versions]
ValidJob(j) == j \in Job /\ j.version \in VersionsOf(j.gate)

TypeOK ==
  /\ StoreTypeOK
  /\ pc \in [Claims -> PCs]
  /\ job \in [Claims -> Job \union {None}]
  /\ \A c \in Claims : pc[c] # "idle" => ValidJob(job[c])
  /\ wire \subseteq Claims
  /\ chat \subseteq Claims
  /\ misread \subseteq Claims

Init ==
  /\ StoreInit
  /\ pc = [c \in Claims |-> "idle"]
  /\ job = [c \in Claims |-> None]
  /\ wire = {}
  /\ chat = {}
  /\ misread = {}

Goto(c, l) == pc' = [pc EXCEPT ![c] = l]

----------------------------------------------------------------------------
(* One request call, step by step.                                         *)

\* The handler reads the record outside any transaction; it goes on only if
\* the record is the current draft and an owner is configured.
Resolve(c, g, t, v) ==
  /\ pc[c] = "idle"
  /\ CurrentDraft(t, g, v)
  /\ Owner \in Staff
  /\ Goto(c, "resolved")
  /\ job' = [job EXCEPT ![c] = [gate |-> g, task |-> t, version |-> v]]
  /\ UNCHANGED <<rec, versions, req, log, wire, chat, misread>>

ResolveRequest(c, t, v) == Resolve(c, "product", t, v)
ResolveTechDesignRequest(c, t, v) == Resolve(c, "tech", t, v)

ClaimWon(c) ==
  /\ pc[c] = "resolved"
  /\ \/ job[c].gate = "product" /\ ClaimRequest(job[c].task, job[c].version, c)
     \/ job[c].gate = "tech" /\ ClaimTechDesignRequest(job[c].task, job[c].version, c)
  /\ Goto(c, "claimed")
  /\ UNCHANGED <<job, wire, chat, misread>>

OutboxState(c) == req[job[c].task][Key(job[c].gate, job[c].version)].state

\* No longer the current draft, or another call holds or settled the request.
ClaimLost(c) ==
  /\ pc[c] = "resolved"
  /\ ~ CurrentDraft(job[c].task, job[c].gate, job[c].version)
     \/ OutboxState(c) \in {"CLAIMED", "DELIVERED"}
  /\ Goto(c, IF CurrentDraft(job[c].task, job[c].gate, job[c].version)
                /\ OutboxState(c) = "DELIVERED"
             THEN "alreadyDelivered" ELSE "busy")
  /\ UNCHANGED <<rec, versions, req, log, job, wire, chat, misread>>

\* The message is composed after the claim from required fields of the
\* arguments; a missing one raises out of the handler.
ComposeRaises(c) ==
  /\ pc[c] = "claimed"
  /\ Goto(c, "raised")
  /\ UNCHANGED <<rec, versions, req, log, job, wire, chat, misread>>

\* No session, gateway, adapter or loop: nothing was submitted.
NotSent(c) ==
  /\ pc[c] = "claimed"
  /\ Goto(c, "undelivered")
  /\ UNCHANGED <<rec, versions, req, log, job, wire, chat, misread>>

Submit(c) ==
  /\ pc[c] = "claimed"
  /\ Goto(c, "sending")
  /\ wire' = wire \union {c}
  /\ UNCHANGED <<rec, versions, req, log, job, chat, misread>>

\* DingTalk takes the message, whether or not the handler still waits.
Accept(c) ==
  /\ c \in wire
  /\ wire' = wire \ {c}
  /\ chat' = chat \union {c}
  /\ UNCHANGED <<rec, versions, req, log, pc, job, misread>>

\* DingTalk refuses the message and the adapter reports "rejected": an errcode
\* in the answer, or a status of 300 and above.
Reject(c) ==
  /\ pc[c] = "sending"
  /\ c \in wire
  /\ wire' = wire \ {c}
  /\ Goto(c, "undelivered")
  /\ UNCHANGED <<rec, versions, req, log, job, chat, misread>>

\* The adapter reports "rejected" for every status of 300 and above, also for
\* the 5xx of a proxy behind which DingTalk took the message.
Misread(c) ==
  /\ pc[c] = "sending"
  /\ c \in wire \union chat
  /\ wire' = wire \ {c}
  /\ chat' = chat \ {c}
  /\ misread' = misread \union {c}
  /\ Goto(c, "undelivered")
  /\ UNCHANGED <<rec, versions, req, log, job>>

ReportDelivered(c) ==
  /\ pc[c] = "sending"
  /\ c \in chat
  /\ Goto(c, "delivered")
  /\ UNCHANGED <<rec, versions, req, log, job, wire, chat, misread>>

\* Mutant: a timeout is taken for a failure, and the claim released.
ReportTimeoutAsFailure(c) ==
  /\ pc[c] = "sending"
  /\ Goto(c, "undelivered")
  /\ UNCHANGED <<rec, versions, req, log, job, wire, chat, misread>>

\* Mutant: whoever stops waiting takes the message for delivered.
ReportTimeoutAsSuccess(c) ==
  /\ pc[c] = "sending"
  /\ Goto(c, "delivered")
  /\ UNCHANGED <<rec, versions, req, log, job, wire, chat, misread>>

\* Timeout, exception, or an outcome the adapter does not name: the claim
\* stays, and the message may still be accepted later.
ReportUnknown(c) ==
  /\ pc[c] = "sending"
  /\ Goto(c, "unknown")
  /\ UNCHANGED <<rec, versions, req, log, job, wire, chat, misread>>

\* CLAIMED to FAILED after a definite non-delivery, or a claim mismatch.
Release(c) ==
  LET j == job[c] IN
  /\ pc[c] = "undelivered"
  /\ IF OwnsClaim(j.task, j.gate, j.version, c)
     THEN FailRequest(j.task, j.gate, j.version, c) /\ Goto(c, "released")
     ELSE Goto(c, "conflict") /\ UNCHANGED storeVars
  /\ UNCHANGED <<job, wire, chat, misread>>

\* The transaction of the final store call fails and is rolled back.
StoreRaises(c) ==
  /\ pc[c] \in {"undelivered", "delivered"}
  /\ Goto(c, "unsettled")
  /\ UNCHANGED <<rec, versions, req, log, job, wire, chat, misread>>

\* DELIVERED and WAITING in one transaction, or FINALIZE_CONFLICT.
Finalize(c) ==
  LET j == job[c] IN
  /\ pc[c] = "delivered"
  /\ IF OwnsClaim(j.task, j.gate, j.version, c) /\ CurrentDraft(j.task, j.gate, j.version)
     THEN /\ IF j.gate = "product"
             THEN CompleteRequestDelivery(j.task, j.version, c)
             ELSE CompleteTechDesignRequestDelivery(j.task, j.version, c)
          /\ Goto(c, "finished")
     ELSE Goto(c, "conflict") /\ UNCHANGED storeVars
  /\ UNCHANGED <<job, wire, chat, misread>>

----------------------------------------------------------------------------
(* The other tools: one store transaction each.                            *)

Draft(t, v) == CreateDraft(t, v) /\ UNCHANGED toolVars
TechDesignDraft(t, v) == CreateTechDesignDraft(t, v) /\ UNCHANGED toolVars
Advance(t) == EnterTechDesign(t) /\ UNCHANGED toolVars

\* Whoever replies can quote only a code that appeared in the chat.
Decide(t, v, d, actor, quoted) ==
  /\ quoted \in chat \union misread \union {None}
  /\ \/ ApplyDecision(t, v, d, actor, quoted)
     \/ RepeatDecision(t, v, d, actor, quoted)
  /\ UNCHANGED toolVars

TechDesignDecide(t, v, d, actor, quoted) ==
  /\ quoted \in chat \union misread \union {None}
  /\ \/ ApplyTechDesignDecision(t, v, d, actor, quoted)
     \/ RepeatTechDesignDecision(t, v, d, actor, quoted)
  /\ UNCHANGED toolVars

\* The gateway process dies and restarts: every running handler is gone, the
\* database and what was already submitted to DingTalk are not.
Crash ==
  /\ \E c \in Claims : pc[c] \in Running
  /\ pc' = [c \in Claims |-> IF pc[c] \in Running THEN "dead" ELSE pc[c]]
  /\ UNCHANGED <<rec, versions, req, log, job, wire, chat, misread>>

----------------------------------------------------------------------------

HandlerStep(c) ==
  \/ ClaimWon(c) \/ ClaimLost(c) \/ ComposeRaises(c) \/ NotSent(c) \/ Submit(c)
  \/ Reject(c) \/ Misread(c) \/ ReportDelivered(c) \/ ReportUnknown(c)
  \/ Release(c) \/ StoreRaises(c) \/ Finalize(c)

Next ==
  \/ \E t \in Tasks, v \in ProductVersions : Draft(t, v)
  \/ \E t \in Tasks, v \in TechVersions : TechDesignDraft(t, v)
  \/ \E t \in Tasks : Advance(t)
  \/ \E c \in Claims, t \in Tasks, v \in ProductVersions : ResolveRequest(c, t, v)
  \/ \E c \in Claims, t \in Tasks, v \in TechVersions : ResolveTechDesignRequest(c, t, v)
  \/ \E c \in Claims : HandlerStep(c) \/ Accept(c)
  \/ \E t \in Tasks, v \in ProductVersions, d \in Decisions, a \in Staff,
        q \in Claims \union {None} : Decide(t, v, d, a, q)
  \/ \E t \in Tasks, v \in TechVersions, d \in Decisions, a \in Staff,
        q \in Claims \union {None} : TechDesignDecide(t, v, d, a, q)
  \/ Crash

Spec == Init /\ [][Next]_vars

\* A worker thread is always scheduled again, and the wait for the adapter is
\* bounded by _SEND_TIMEOUT_SECONDS: a handler that can step does.
Fairness == \A c \in Claims : WF_vars(HandlerStep(c))

FairSpec == Spec /\ Fairness
----------------------------------------------------------------------------
(* Safety.                                                                 *)

Question(g, t, v) == [gate |-> g, task |-> t, version |-> v]
Applied == {e \in log : e.reason = "APPLIED"}
Asked(e) == Question(e.gate, e.task, e.version)

\* However calls interleave, time out, crash and are retried, DingTalk never
\* has two confirmation messages for one version of one task, neither in the
\* chat nor still to be judged, but for those the adapter itself reported as
\* rejected: misread holds these, and each of them may be followed by a second
\* message.  (claim_request, fail_request, and the unknown outcomes of
\* _deliver_to_current_chat)
AtMostOneMessage ==
  \A c, d \in wire \union chat : job[c] = job[d] => c = d

\* A handler that knows its message was delivered always finds its claim and
\* the draft it sent: a late re-draft or decision never takes them away, so
\* FINALIZE_CONFLICT and REQUEST_CLAIM_MISMATCH are unreachable.
\* (create_draft against complete_request_delivery)
NeverConflicts ==
  \A c \in Claims : pc[c] # "conflict"

\* A task that waits for the owner waits for the code of a message that is in
\* the chat and names exactly the current version: the owner can answer, and
\* only about what would be approved.  (complete_request_delivery)
WaitingIsAnswerable ==
  \A t \in Tasks, g \in Gates :
    rec[t].status = WaitingState(g) =>
      /\ rec[t].code[g] \in chat
      /\ job[rec[t].code[g]] = Question(g, t, rec[t].version[g])

\* Every accepted decision quoted the code of the message delivered for that
\* very version: a code from an older version or the other gate decides
\* nothing.  (the code gate of apply_decision and apply_tech_design_decision)
DecisionsAnswerMessages ==
  \A e \in log : e.code \in chat /\ job[e.code] = Asked(e)

----------------------------------------------------------------------------
(* Why they hold: invariants that every step preserves.                    *)

RowOf(c) == req[job[c].task][Key(job[c].gate, job[c].version)]

HolderInv == \A c \in Claims : pc[c] \in Working =>
  /\ OwnsClaim(job[c].task, job[c].gate, job[c].version, c)
  /\ CurrentDraft(job[c].task, job[c].gate, job[c].version)

MessageInv == \A c \in wire \union chat :
  RowOf(c).claim = c /\ RowOf(c).state \in {"CLAIMED", "DELIVERED"}

NoMessageInv ==
  /\ wire \intersect chat = {}
  /\ \A c \in Claims : pc[c] \in {"idle", "resolved", "claimed", "undelivered"} =>
       c \notin wire \union chat
  /\ \A c \in Claims : pc[c] \in {"delivered", "finished"} => c \in chat

\* A handler at work holds the claim of the draft it is about; a message that
\* was submitted belongs to the claim of its row, until that is settled as
\* DELIVERED; a released claim has no message but a misread one.
\* (claim_request, create_draft, fail_request, complete_request_delivery)
ClaimInv == HolderInv /\ MessageInv /\ NoMessageInv

\* A stored code is the code of a message about the current version whose call
\* saw it delivered, and is there whenever an answer is awaited or was given.
\* (complete_request_delivery, create_draft)
CodeInv ==
  \A t \in Tasks, g \in Gates :
    /\ rec[t].code[g] # None =>
         /\ pc[rec[t].code[g]] = "finished"
         /\ rec[t].code[g] \in chat
         /\ job[rec[t].code[g]] = Question(g, t, rec[t].version[g])
    /\ rec[t].status = WaitingState(g) \/ rec[t].decision[g] # None => rec[t].code[g] # None
    /\ rec[t].status = DraftState("product") => rec[t].decision["product"] = None
    /\ rec[t].status \in TechStates \union {"PRODUCT_APPROVED"} =>
         rec[t].decision["product"] = "APPROVED"

----------------------------------------------------------------------------
(* Properties of steps, and liveness.                                      *)

\* A claim is settled, as DELIVERED or as FAILED and open to a retry, unless
\* its handler ended in one of the ways that keep it.
\* (_handle_request, _handle_tech_design_request)
ClaimsSettle ==
  \A t \in Tasks, k \in RequestKeys :
    req[t][k].state = "CLAIMED" ~>
      req[t][k].state # "CLAIMED" \/ pc[req[t][k].claim] \in Retained

----------------------------------------------------------------------------
(* The promise kept: TwoGateApproval.                                      *)

Promise == INSTANCE TwoGateApproval WITH
  asked <- {job[c] : c \in chat},
  verdicts <- {<<Asked(e), e.decision>> : e \in Applied},
  stage <- [t \in Tasks |-> IF rec[t].status \in TechStates THEN "tech" ELSE "product"]

\* The store and its tools implement the two-gate promise step by step: each
\* step asks one question, loses one to a report that it was not asked,
\* records one answer, advances one task, or is invisible at that level.
KeepsPromise == Promise!Spec

============================================================================
