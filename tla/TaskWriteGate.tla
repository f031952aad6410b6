--------------------------- MODULE TaskWriteGate ---------------------------
(***************************************************************************)
(* The h1_task_write plugin over the fact store: the agent declares a      *)
(* proposal in one turn of a sender, the adapter flags it delivered, and a *)
(* write tool called in a turn of the same user consumes it and writes a   *)
(* Kanban card or the session's task binding, outside the lock.            *)
(*                                                                         *)
(* The turns of one (chat, user) slot run one at a time (the host queues   *)
(* messages of a busy session); turns of different slots, and the write    *)
(* calls of one turn, interleave.  A write may outlive its turn, which the *)
(* host ends when the agent is interrupted or idle for too long.  A queued *)
(* message gets a dispatch of its own, or the running turn goes on with it *)
(* in the dispatch context it already has.                                 *)
(*                                                                         *)
(* The handler first looks the record up to compare the users and then     *)
(* consumes it.  The lookup reads only fields that never change, so both   *)
(* are one step.  Refused calls change nothing and are no steps.           *)
(***************************************************************************)
EXTENDS ProposalFacts

CONSTANTS
  Msgs,          \* inbound messages, each the start of one turn
  SlotOf,        \* message -> (chat, user) of its source
  UserOf,        \* slot -> user
  Calls          \* invocations of any write tool that pass the gate

ASSUME RoutingAssumption ==
  /\ SlotOf \in [Msgs -> Slots]
  /\ DOMAIN UserOf = Slots
  /\ None \notin Msgs
ASSUME FiniteAssumption == IsFiniteSet(Calls)

VARIABLES
  at,       \* where the turn of each message stands
  scope,    \* the message whose dispatch context each turn runs in
  pc,       \* where the handler of each call stands
  job,      \* the message and the proposal of each call
  cards,    \* Kanban cards made: the proposal and the idempotency key of each
  binding,  \* persisted task binding of each slot: the proposal it came from
  origin,   \* history: the turn each proposal was declared in
  shown,    \* history: proposals declared before a final reply to their slot
  aside     \* history: proposals flagged by anything but a final reply

gateVars == <<at, scope, pc, job, cards, binding, origin, shown, aside>>
vars == <<known, fact, pending, now, at, scope, pc, job, cards, binding, origin, shown, aside>>

Turns == {"new", "queued", "acked", "running", "over"}
Live == {"writing", "carded"}
Settled == {"ok", "rejected"}
PCs == {"idle", "unknown", "dead"} \union Live \union Settled
Job == [msg : Msgs, prop : Proposals]

TypeOK ==
  /\ FactsTypeOK
  /\ at \in [Msgs -> Turns]
  /\ scope \in [Msgs -> Msgs \union {None}]
  /\ pc \in [Calls -> PCs]
  /\ job \in [Calls -> Job \union {None}]
  /\ \A c \in Calls : pc[c] # "idle" => job[c] \in Job /\ fact[job[c].prop] # None
  /\ cards \subseteq Proposals \X (Proposals \union Calls)
  /\ binding \in [Slots -> Proposals \union {None}]
  /\ origin \in [Proposals -> Msgs \union {None}]
  /\ shown \subseteq Proposals
  /\ aside \subseteq Proposals

Init ==
  /\ FactsInit
  /\ at = [m \in Msgs |-> "new"]
  /\ scope = [m \in Msgs |-> None]
  /\ pc = [c \in Calls |-> "idle"]
  /\ job = [c \in Calls |-> None]
  /\ cards = {}
  /\ binding = [s \in Slots |-> None]
  /\ origin = [p \in Proposals |-> None]
  /\ shown = {}
  /\ aside = {}

Goto(c, l) == pc' = [pc EXCEPT ![c] = l]
SetTurn(m, l) == at' = [at EXCEPT ![m] = l]
Dispatch(m) == SetTurn(m, "running") /\ scope' = [scope EXCEPT ![m] = m]
Busy(s) == \E m \in Msgs : SlotOf[m] = s /\ at[m] = "running"

----------------------------------------------------------------------------
(* The turns.                                                              *)

\* Reading the last receipt for the prompt sweeps the store; slash commands
\* and messages with an explicit binding do not read it.
Arrive(m) ==
  /\ at[m] = "new"
  /\ IF Busy(SlotOf[m]) THEN SetTurn(m, "queued") /\ UNCHANGED scope ELSE Dispatch(m)
  /\ Sweep \/ UNCHANGED factVars
  /\ UNCHANGED <<pc, job, cards, binding, origin, shown, aside>>

\* The adapter takes a message for a final reply when it carries reply_to, or is
\* an edit with finalize=True.  Others than a turn's own final reply do.
MarkAside(s) ==
  /\ MarkDelivered(s, FALSE)
  /\ aside' = aside \union Marked(s, FALSE)

\* The sender of a queued message is answered at once: with busy_ack_enabled,
\* and always while the gateway drains.
SideReply(m) ==
  /\ at[m] = "queued"
  /\ SetTurn(m, "acked")
  /\ MarkAside(SlotOf[m])
  /\ UNCHANGED <<scope, pc, job, cards, binding, origin, shown>>

\* A slash command is answered beside the turn that runs, if any, and so is a
\* message a draining gateway does not accept.
Command(m) ==
  /\ at[m] = "new"
  /\ SetTurn(m, "over")
  /\ MarkAside(SlotOf[m])
  /\ UNCHANGED <<scope, pc, job, cards, binding, origin, shown>>

\* The platform adapter dispatches a message that is still queued when the
\* slot is idle.
StartQueued(m) ==
  /\ at[m] \in {"queued", "acked"}
  /\ ~ Busy(SlotOf[m])
  /\ Dispatch(m)
  /\ UNCHANGED <<known, fact, pending, now, pc, job, cards, binding, origin, shown, aside>>

\* The running turn goes on with a queued message.  What it answered itself is
\* dropped if it was interrupted, and sent without reply_to otherwise.
FollowUp(m, n) ==
  /\ at[m] \in {"queued", "acked"}
  /\ at[n] = "running"
  /\ SlotOf[m] = SlotOf[n]
  /\ at' = [at EXCEPT ![n] = "over", ![m] = "running"]
  /\ scope' = [scope EXCEPT ![m] = scope[n]]
  /\ UNCHANGED <<known, fact, pending, now, pc, job, cards, binding, origin, shown, aside>>

Declare(m, p, k) ==
  /\ at[m] = "running"
  /\ DeclareProposal(p, SlotOf[m], k)
  /\ origin' = [origin EXCEPT ![p] = m]
  /\ UNCHANGED <<at, scope, pc, job, cards, binding, shown, aside>>

DeclareAgain(m) ==
  /\ at[m] = "running"
  /\ DeclareRefused(SlotOf[m])
  /\ UNCHANGED gateVars

\* The tool-progress bubble of the turn is edited with finalize=True, where AI
\* Cards are configured.
ProgressEdit(m) ==
  /\ at[m] = "running"
  /\ MarkAside(SlotOf[m])
  /\ UNCHANGED <<at, scope, pc, job, cards, binding, origin, shown>>

\* The final reply arrives.
Reply(m) ==
  /\ at[m] = "running"
  /\ SetTurn(m, "over")
  /\ MarkDelivered(SlotOf[m], FALSE)
  /\ shown' = shown \union {p \in Proposals : fact[p] # None /\ fact[p].slot = SlotOf[m]}
  /\ UNCHANGED <<scope, pc, job, cards, binding, origin, aside>>

\* The reply is a failure receipt instead, or nobody knows that it arrived.
ReplyWithReceipt(m) ==
  /\ at[m] = "running"
  /\ SetTurn(m, "over")
  /\ MarkDelivered(SlotOf[m], TRUE)
  /\ UNCHANGED <<scope, pc, job, cards, binding, origin, shown, aside>>

ReplyLost(m) ==
  /\ at[m] = "running"
  /\ SetTurn(m, "over")
  /\ UNCHANGED <<known, fact, pending, now, scope, pc, job, cards, binding, origin, shown, aside>>

----------------------------------------------------------------------------
(* One write call.                                                         *)

Prop(c) == job[c].prop
KindOf(c) == fact[Prop(c)].kind
Target(c) == SlotOf[job[c].msg]

\* The chat is not compared: a user may confirm in another chat.  The message
\* id the agent quotes is compared with that of scope[m].
SameUser(m, p) == UserOf[fact[p].slot] = UserOf[SlotOf[m]]

Write(c, m, p) ==
  /\ pc[c] = "idle"
  /\ at[m] = "running"
  /\ p \in known
  /\ SameUser(m, p)
  /\ Consume(p)
  /\ Goto(c, "writing")
  /\ job' = [job EXCEPT ![c] = [msg |-> m, prop |-> p]]
  /\ UNCHANGED <<at, scope, cards, binding, origin, shown, aside>>

\* Mutant: the key is drawn anew by each call.
OperationIdPerCall(c) == c
OperationId(c) == Prop(c)

\* Kanban answers a repeated key with the card it has.
MakeCard(c) == cards' = cards \union {<<Prop(c), OperationId(c)>>}

SetBinding(c) ==
  binding' = [binding EXCEPT ![Target(c)] = IF KindOf(c) = "unbind" THEN None ELSE Prop(c)]

CreateCard(c) ==
  /\ pc[c] = "writing"
  /\ KindOf(c) = "create"
  /\ MakeCard(c)
  /\ Goto(c, "carded")
  /\ UNCHANGED <<known, fact, pending, now, at, scope, job, binding, origin, shown, aside>>

\* The card is there and valid; what is left is the binding.
ReadyToBind(c) == pc[c] = "carded" \/ (pc[c] = "writing" /\ KindOf(c) # "create")

WriteBinding(c) ==
  /\ ReadyToBind(c)
  /\ SetBinding(c)
  /\ Goto(c, "ok")
  /\ UNCHANGED <<known, fact, pending, now, at, scope, job, cards, origin, shown, aside>>

\* Mutant: a void proposal is opened again.
RejectAndRollback(c) ==
  /\ pc[c] = "writing"
  /\ KindOf(c) # "unbind"
  /\ Rollback(Prop(c))
  /\ Goto(c, "rejected")
  /\ UNCHANGED <<at, scope, job, cards, binding, origin, shown, aside>>

\* The board or task of the declaration is gone: the proposal is void.
Reject(c) ==
  /\ pc[c] = "writing"
  /\ KindOf(c) # "unbind"
  /\ Goto(c, "rejected")
  /\ UNCHANGED <<known, fact, pending, now, at, scope, job, cards, binding, origin, shown, aside>>

\* Any other failure, before or after the write it reports took effect.
Fail(c) ==
  /\ pc[c] \in Live
  /\ Rollback(Prop(c))
  /\ Goto(c, "unknown")
  /\ \/ UNCHANGED <<cards, binding>>
     \/ pc[c] = "writing" /\ KindOf(c) = "create" /\ MakeCard(c) /\ UNCHANGED binding
     \/ ReadyToBind(c) /\ SetBinding(c) /\ UNCHANGED cards
  /\ UNCHANGED <<at, scope, job, origin, shown, aside>>

\* Cards and bindings survive a restart of the gateway, nothing else does.
Restart ==
  /\ Forget
  /\ at' = [m \in Msgs |-> IF at[m] = "new" THEN "new" ELSE "over"]
  /\ pc' = [c \in Calls |-> IF pc[c] \in Live THEN "dead" ELSE pc[c]]
  /\ UNCHANGED <<scope, job, cards, binding, origin, shown, aside>>

PassTime == Tick /\ UNCHANGED gateVars

----------------------------------------------------------------------------

TurnStep(m) ==
  \/ Arrive(m) \/ SideReply(m) \/ Command(m) \/ StartQueued(m)
  \/ DeclareAgain(m) \/ ProgressEdit(m)
  \/ Reply(m) \/ ReplyWithReceipt(m) \/ ReplyLost(m)

CallStep(c) == CreateCard(c) \/ WriteBinding(c) \/ Reject(c) \/ Fail(c)

Next ==
  \/ \E m \in Msgs : TurnStep(m)
  \/ \E m, n \in Msgs : FollowUp(m, n)
  \/ \E m \in Msgs, p \in Proposals, k \in Kinds : Declare(m, p, k)
  \/ \E c \in Calls, m \in Msgs, p \in Proposals : Write(c, m, p)
  \/ \E c \in Calls : CallStep(c)
  \/ Restart
  \/ PassTime

Spec == Init /\ [][Next]_vars

\* The Kanban and session calls of a write end: their database waits for a
\* lock are bounded.
Fairness == \A c \in Calls : WF_vars(CallStep(c))

FairSpec == Spec /\ Fairness
----------------------------------------------------------------------------
(* Safety.                                                                 *)

LiveCalls(p) == {c \in Calls : pc[c] \in Live /\ Prop(c) = p}
EndedWell(p) == \E c \in Calls : pc[c] \in Settled /\ Prop(c) = p

\* At most one handler executes a proposal, whatever is declared, evicted,
\* swept or rolled back beside it, and none once it succeeded, was rejected or
\* died with the process.
\* (try_consume_h1_proposal, rollback_h1_consumption)
OneWriter ==
  \A c, d \in Calls :
    pc[c] \in Live /\ pc[d] \in Live \union Settled \union {"dead"} /\ Prop(c) = Prop(d)
      => c = d

\* No proposal is executed more often than _H1_WRITE_MAX_RETRIES allows,
\* counted over the handlers that passed the gate.  (try_consume_h1_proposal)
AttemptsBounded ==
  \A p \in Proposals :
    Cardinality({c \in Calls : pc[c] # "idle" /\ Prop(c) = p}) <= MaxRetries

\* Retries of one proposal, also after a failure that hid a committed card,
\* leave one card.  (operation_id in _apply_write)
OneCard == \A x, y \in cards : x[1] = y[1] => x = y

\* A slot waits for a proposal that its own sender declared and nobody has
\* been told of: a delivery never flags the proposal of another chat or user,
\* nor one that is already being executed.
\* (declare_h1_proposal, mark_h1_turn_delivered)
SlotInv ==
  \A s \in Slots : pending[s] # None =>
    /\ fact[pending[s]].slot = s
    /\ ~ fact[pending[s]].delivered
    /\ \A c \in Calls : pc[c] # "idle" => Prop(c) # pending[s]

\* The user's confirmation is a later message: nothing is written for a
\* proposal in the turn that declared it, unless an acknowledgement, a
\* command's answer or a progress edit passed for its final reply.
\* (H1_DECLARE_PROPOSAL_SCHEMA, verify_and_consume_h1_proposal)
WrittenAfterConfirm ==
  \A c \in Calls :
    pc[c] # "idle" => job[c].msg # origin[Prop(c)] \/ Prop(c) \in aside

\* A proposal counts as delivered only after a final reply reached the chat it
\* was declared in, with the same exception.  (mark_h1_turn_delivered)
DeliveredMeansReplied ==
  \A p \in Proposals :
    fact[p] # None /\ fact[p].delivered => p \in shown \/ p \in aside

----------------------------------------------------------------------------
(* Why they hold: invariants that every step preserves.                    *)

\* The state of a record and the handlers agree: an open one has no handler at
\* work or ended well, a record still found is not that of a handler that died
\* with the process, and each attempt is one call that passed the gate.
\* (try_consume_h1_proposal, rollback_h1_consumption)
Tries(p) == IF fact[p] = None THEN 0 ELSE fact[p].retries
GateInv ==
  /\ OneWriter
  /\ \A p \in Proposals : fact[p] # None /\ fact[p].state = "declared" =>
       LiveCalls(p) = {} /\ ~ EndedWell(p)
  /\ \A c \in Calls : pc[c] = "dead" => Prop(c) \notin known
  /\ \A p \in Proposals :
       Cardinality({c \in Calls : pc[c] # "idle" /\ Prop(c) = p}) = Tries(p)

\* One turn of a slot runs at a time, in a dispatch context of this slot; a
\* proposal belongs to the slot of the turn that declared it, which ended when
\* a final reply showed it.
\* (the host's session queue, _handle_declare)
TurnInv ==
  /\ \A m, n \in Msgs :
       at[m] = "running" /\ at[n] = "running" /\ SlotOf[m] = SlotOf[n] => m = n
  /\ \A m \in Msgs : at[m] = "running" =>
       scope[m] \in Msgs /\ SlotOf[scope[m]] = SlotOf[m]
  /\ \A p \in Proposals : fact[p] # None =>
       /\ origin[p] \in Msgs
       /\ SlotOf[origin[p]] = fact[p].slot
       /\ at[origin[p]] \in {"running", "over"}
  /\ \A p \in shown : fact[p] # None /\ at[origin[p]] = "over"

----------------------------------------------------------------------------
(* Liveness, and the promise kept.                                         *)

\* A consumed proposal is eventually executed, rejected, open to a retry, or
\* gone: the user's confirmation is never swallowed.  (_handle_write)
ConsumptionEnds ==
  \A p \in Proposals :
    p \in known /\ fact[p].state = "consumed" ~>
      p \notin known \/ fact[p].state = "declared" \/ EndedWell(p)

PhaseOf(p) ==
  IF LiveCalls(p) # {} THEN "writing"
  ELSE IF \E c \in Calls : pc[c] = "ok" /\ Prop(c) = p THEN "done"
  ELSE IF \E c \in Calls : pc[c] = "rejected" /\ Prop(c) = p THEN "void"
  ELSE IF \E c \in Calls : pc[c] = "dead" /\ Prop(c) = p THEN "lost"
  ELSE "open"

Life == INSTANCE ProposalLife WITH
  phase <- [p \in Proposals |-> PhaseOf(p)],
  tries <- [p \in Proposals |-> Tries(p)]

\* The gate over its bounded, forgetful store implements the life of each
\* proposal: eviction, expiry and restarts never give it a second writer, a
\* further attempt, or a life after its end.
KeepsLife == Life!Spec
============================================================================
