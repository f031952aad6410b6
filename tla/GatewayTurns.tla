---------------------------- MODULE GatewayTurns ----------------------------
(* The turns of one session: which message runs when.  A message that finds
   the session idle starts a turn; one that finds it busy waits, in the
   adapter's single pending slot or in the overflow list behind it, until the
   running turn takes it as its next run or the adapter hands it to a new turn.
   /stop, stale-turn eviction, the recursion limit, the drain of a stopping
   gateway and /goal continuations all work on the same queue.

   Code: overlays/hermes/gateway/run.py.  The platform adapter that calls it
   (gateway/platforms/base.py) is not in the repository: of it, the model has
   the guard of a busy session, the pending slot, and the hand-over of the slot
   when a turn is over.

   Messages are numbered in the order they arrive.  A turn is named by the
   message that opened it. *)
EXTENDS Naturals, Sequences

CONSTANTS
    MaxMsgs,   \* bound: messages, goal continuations included
    MaxStops,  \* bound: /stop, /new, evictions, and commands that pass by
    Cap,       \* _BUSY_QUEUE_MAX_PENDING
    MaxDepth,  \* _MAX_INTERRUPT_DEPTH
    Goals      \* is there a standing /goal?

ASSUME TurnsAssumption ==
    /\ MaxMsgs \in Nat /\ MaxStops \in Nat
    /\ Cap \in Nat \ {0} /\ MaxDepth \in Nat
    /\ Goals \in BOOLEAN

VARIABLES
    fate,     \* what became of each message that arrived
    slotPend, \* adapter._pending_messages[key]: a message, or 0
    overflow, \* _queued_events[key]
    holder,   \* _running_agents[key]: the turn in the slot, or 0
    agentIn,  \* the slot holds an agent, not the sentinel
    gen,      \* _session_run_generation[key]
    guard,    \* the turn for which the adapter holds the session busy, Relay, or 0
    pc, genOf, depth, cur, \* per turn: place, generation, recursion depth, message
    asked,    \* per turn: the message that interrupted its agent, 0, or Control
    draining, \* _draining: "no", or what busy chats get: "queue", "refuse"
    \* history
    ran,      \* messages in the order agents got them
    stops,    \* how often that happened
    upset     \* what happened that the queue does not make up for

queue == <<slotPend, overflow>>
running == <<holder, agentIn>>
turn == <<pc, genOf, depth, cur, asked>>
vars == <<fate, queue, running, gen, guard, turn, draining, ran, stops, upset>>

Msgs == 1 .. MaxMsgs
Control == MaxMsgs + 1  \* a control interrupt: its text is never a message
Relay == MaxMsgs + 1    \* an adapter's task whose message met a busy session
\* "gone": refused, dropped at the cap, merged into another message, stopped,
\* discarded by a drain, or unusable.
Fates == {"held", "taken", "ran", "gone", "overwritten"}
Places == {"none", "setup", "working", "ended", "taking", "unwinding",
           "closing", "replying", "over"}
Upsets == {"stop", "overtaken", "handover", "overwritten", "stolen", "clobbered", "undrained"}

TypeOK ==
    /\ fate \in Seq(Fates) /\ Len(fate) <= MaxMsgs
    /\ slotPend \in 0 .. MaxMsgs
    /\ overflow \in Seq(Msgs)
    /\ holder \in 0 .. MaxMsgs /\ agentIn \in BOOLEAN
    /\ gen \in Nat
    /\ guard \in 0 .. Relay
    /\ pc \in [Msgs -> Places]
    /\ genOf \in [Msgs -> Nat]
    /\ depth \in [Msgs -> 0 .. MaxDepth]
    /\ cur \in [Msgs -> 0 .. MaxMsgs]
    /\ asked \in [Msgs -> 0 .. Control]
    /\ draining \in {"no", "queue", "refuse"}
    /\ ran \in Seq(Msgs)
    /\ stops \in Nat
    /\ upset \subseteq Upsets

Init ==
    /\ fate = <<>> /\ slotPend = 0 /\ overflow = <<>>
    /\ holder = 0 /\ agentIn = FALSE /\ gen = 0 /\ guard = 0
    /\ pc = [t \in Msgs |-> "none"]
    /\ genOf = [t \in Msgs |-> 0] /\ depth = [t \in Msgs |-> 0]
    /\ cur = [t \in Msgs |-> 0] /\ asked = [t \in Msgs |-> 0]
    /\ draining = "no" /\ ran = <<>> /\ stops = 0 /\ upset = {}

-----------------------------------------------------------------------------
(* The queue. *)

Arrives == Len(fate) < MaxMsgs
New == Len(fate) + 1  \* the number of the message that arrives now
QueueDepth == Len(overflow) + IF slotPend = 0 THEN 0 ELSE 1

\* _enqueue_fifo: the slot when it is free, else behind everything waiting.
EnqueueFifo(m) ==
    IF slotPend = 0
    THEN slotPend' = m /\ UNCHANGED overflow
    ELSE overflow' = Append(overflow, m) /\ UNCHANGED slotPend

\* _queue_or_replace_pending_event: media joins the waiting event; at the cap
\* the message is dropped, though its sender is told that it was queued.
QueueOrReplace(m) ==
    \/ /\ slotPend # 0
       /\ fate' = Append(fate, "gone") /\ UNCHANGED queue
    \/ /\ QueueDepth >= Cap
       /\ fate' = Append(fate, "gone") /\ UNCHANGED queue
    \/ /\ QueueDepth < Cap
       /\ fate' = Append(fate, "held") /\ EnqueueFifo(m)

\* Mutant: an empty slot ends the chain, whatever the overflow holds.
SlotOnly == slotPend

\* _dequeue_pending_event, then _promote_queued_event: the slot first, else
\* the head of the overflow; behind a taken slot the head moves up.
NextUp == IF slotPend # 0 THEN slotPend
          ELSE IF overflow # <<>> THEN Head(overflow) ELSE 0
Rest == IF overflow = <<>> THEN <<>> ELSE Tail(overflow)
Staged == IF slotPend # 0 /\ overflow # <<>> THEN Head(overflow) ELSE 0

Waiting == (IF slotPend = 0 THEN <<>> ELSE <<slotPend>>) \o overflow

-----------------------------------------------------------------------------
(* Messages that arrive. *)

\* _handle_message claims the session: the sentinel goes into the slot and the
\* turn gets a generation of its own.
Claim(m) ==
    /\ holder' = m /\ agentIn' = FALSE
    /\ gen' = gen + 1

\* A per-turn variable when turn t (if any) ends and m (if any) opens one.
After(f, t, m, end, start) ==
    [u \in Msgs |-> IF u = m THEN start ELSE IF u = t THEN end ELSE f[u]]

\* The locals of a turn are gone with it.
TurnsAre(t, m) ==
    /\ pc' = After(pc, t, m, "over", "setup")
    /\ genOf' = After(genOf, t, m, 0, gen + 1)
    /\ cur' = After(cur, t, m, 0, m)
    /\ depth' = After(depth, t, m, 0, 0)
    /\ asked' = After(asked, t, m, 0, 0)

\* A message for an idle session; it is refused by a draining gateway, and by
\* one at its limit of active sessions (the other sessions are not modelled).
TurnStarts ==
    /\ Arrives /\ guard = 0 /\ holder = 0
    /\ \/ /\ draining = "no"
          /\ fate' = Append(fate, "taken") /\ Claim(New) /\ TurnsAre(0, New)
          /\ guard' = New
       \/ /\ fate' = Append(fate, "gone")
          /\ UNCHANGED <<running, gen, turn, guard>>
    /\ UNCHANGED <<queue, draining, ran, stops, upset>>

\* A command that passes the adapter's guard (/queue, /steer) and finds the slot
\* released already, by a turn that is on its way out or was stopped: it starts
\* at once, ahead of what waits.  The guard stays with the old turn.
CommandStarts ==
    /\ Arrives /\ guard # 0 /\ holder = 0
    /\ \/ /\ draining = "no" /\ stops < MaxStops
          /\ fate' = Append(fate, "taken") /\ Claim(New) /\ TurnsAre(0, New)
          /\ stops' = stops + 1 /\ upset' = upset \union {"overtaken"}
       \/ /\ fate' = Append(fate, "gone")
          /\ UNCHANGED <<running, gen, turn, stops, upset>>
    /\ UNCHANGED <<queue, guard, draining, ran>>

\* Such a turn may leave the adapter idle and the session busy.  What arrives
\* then has a task of the adapter to itself, with no turn.
Task == IF guard = 0 THEN Relay ELSE guard
Passed == IF guard = 0 THEN {"overtaken"} ELSE {}

\* Does a follow-up's interrupt reach an agent that is at work?
Interruptible == holder # 0 /\ agentIn /\ pc[holder] = "working"

\* agent.interrupt, from the handler or the monitor of the run: the message is
\* only peeked at, so that the queue still has it when the run ends.
Interrupts(m) == Interruptible /\ asked' = [asked EXCEPT ![holder] = m]

\* _handle_active_session_busy_message: queued; in interrupt mode, unless the
\* agent drives subagents, the running agent is interrupted as well.
FollowUp ==
    /\ Arrives /\ guard # 0 /\ draining # "refuse"
    /\ QueueOrReplace(New)
    /\ \/ UNCHANGED asked
       \/ draining = "no" /\ Interrupts(New)
    /\ UNCHANGED <<running, gen, guard, pc, genOf, depth, cur, draining, ran, stops, upset>>

FollowUpRefused ==
    /\ Arrives /\ guard # 0 /\ draining = "refuse"
    /\ fate' = Append(fate, "gone")
    /\ UNCHANGED <<queue, running, gen, guard, turn, draining, ran, stops, upset>>

\* The same in _handle_message, when the adapter is idle or hands a message over
\* and the session is busy: the agent gets the text and the queue does not, so
\* an agent that is done loses it; a draining gateway may refuse it.
GetsText(m) ==
    /\ agentIn
    /\ \/ draining = "no" /\ Interrupts(m)
       \/ draining = "no" /\ ~Interruptible /\ UNCHANGED asked
       \/ draining = "refuse" /\ UNCHANGED asked

LateFollowUp ==
    /\ Arrives /\ guard = 0 /\ holder # 0
    /\ \/ /\ ~agentIn \/ draining # "refuse"
          /\ QueueOrReplace(New)
          /\ UNCHANGED asked
       \/ /\ ~agentIn /\ slotPend = 0  \* the sentinel: no cap
          /\ slotPend' = New
          /\ fate' = Append(fate, "held")
          /\ UNCHANGED <<overflow, asked>>
       \/ /\ GetsText(New)
          /\ fate' = Append(fate, "gone")
          /\ UNCHANGED queue
    /\ guard' = Task /\ upset' = upset \union Passed
    /\ UNCHANGED <<running, gen, pc, genOf, depth, cur, draining, ran, stops>>

\* /queue on a busy session: no cap.
QueueCommand ==
    /\ Arrives /\ holder # 0
    /\ fate' = Append(fate, "held") /\ EnqueueFifo(New)
    /\ guard' = Task /\ upset' = upset \union Passed
    /\ UNCHANGED <<running, gen, turn, draining, ran, stops>>

\* /steer before the agent exists: the slot is assigned, whatever it holds.
SteerTooEarly ==
    /\ Arrives /\ holder # 0 /\ ~agentIn
    /\ fate' = Append([m \in DOMAIN fate |->
                          IF m = slotPend THEN "overwritten" ELSE fate[m]], "held")
    /\ slotPend' = New
    /\ guard' = Task
    /\ upset' = upset \union Passed \union (IF slotPend = 0 THEN {} ELSE {"overwritten"})
    /\ UNCHANGED <<overflow, running, gen, turn, draining, ran, stops>>

\* /stop, /new (_interrupt_and_clear_session): the agent is interrupted, the
\* generation moves on, the slot of the adapter is emptied (the overflow is
\* not), the session is free.  The adapter may let go of the session at once
\* or when the old turn has come to its end.
Stop ==
    /\ stops < MaxStops /\ holder # 0
    /\ Interrupts(Control) \/ (~Interruptible /\ UNCHANGED asked)
    /\ gen' = gen + 1
    /\ slotPend' = 0
    /\ fate' = [m \in DOMAIN fate |-> IF m = slotPend THEN "gone" ELSE fate[m]]
    /\ holder' = 0 /\ agentIn' = FALSE
    /\ guard' \in {guard, 0}
    /\ stops' = stops + 1 /\ upset' = upset \union {"stop"}
    /\ UNCHANGED <<overflow, pc, genOf, depth, cur, draining, ran>>

\* The staleness check of _handle_message, met by a command that starts no
\* turn: a real agent that was idle for too long loses the session.
Evict ==
    /\ stops < MaxStops /\ holder # 0 /\ agentIn
    /\ guard' = Task
    /\ gen' = gen + 1
    /\ holder' = 0 /\ agentIn' = FALSE
    /\ stops' = stops + 1 /\ upset' = upset \union {"stop"}
    /\ UNCHANGED <<fate, queue, turn, draining, ran>>

BeginDrain ==
    /\ draining = "no"
    /\ draining' \in {"queue", "refuse"}
    /\ UNCHANGED <<fate, queue, running, gen, guard, turn, ran, stops, upset>>

-----------------------------------------------------------------------------
(* One turn. *)

At(t, place) == pc[t] = place
Goes(t, place) == pc' = [pc EXCEPT ![t] = place]
Current(t) == genOf[t] = gen

\* The agent exists: it gets the message.
Setup(t) ==
    /\ At(t, "setup") /\ Goes(t, "working")
    /\ fate' = [fate EXCEPT ![t] = "ran"]
    /\ ran' = Append(ran, t)
    /\ UNCHANGED <<queue, running, gen, guard, genOf, depth, cur, asked, draining, stops, upset>>

\* _handle_message_with_agent returns before it has an agent.
SetupEnds(t) ==
    /\ At(t, "setup") /\ Goes(t, "closing")
    /\ fate' = [fate EXCEPT ![t] = "gone"]
    /\ upset' = upset \union {"undrained"}
    /\ UNCHANGED <<queue, running, gen, guard, genOf, depth, cur, asked, draining, ran, stops>>

\* track_agent: only a turn of the current generation fills the slot.
Promote(t) ==
    /\ At(t, "working") /\ Current(t) /\ ~(holder = t /\ agentIn)
    /\ holder' = t /\ agentIn' = TRUE
    /\ UNCHANGED <<fate, queue, gen, guard, turn, draining, ran, stops, upset>>

AgentEnds(t) ==
    /\ At(t, "working") /\ Goes(t, "ended")
    /\ UNCHANGED <<fate, queue, running, gen, guard, genOf, depth, cur, asked, draining, ran, stops, upset>>

\* The inactivity timeout: there is no result, and so nothing is dequeued.
AgentTimesOut(t) ==
    /\ At(t, "working") /\ Goes(t, "unwinding")
    /\ upset' = upset \union {"undrained"}
    /\ UNCHANGED <<fate, queue, running, gen, guard, genOf, depth, cur, asked, draining, ran, stops>>

\* Mutant: the overflow head does not move up behind a taken slot.
DequeueOnly == slotPend' = 0 /\ overflow' = IF slotPend = 0 THEN Rest ELSE overflow

\* Mutant: the head leaves the overflow and does not reach the slot.
DequeueForgets == slotPend' = 0 /\ overflow' = Rest

\* What dequeuing does to slot and overflow.
Dequeue == slotPend' = Staged /\ overflow' = Rest

Stolen(t) == IF Current(t) THEN {} ELSE {"stolen"}

\* The end of a run: the next waiting message becomes the turn's next run.
TakesNext(t) ==
    /\ At(t, "ended") /\ NextUp # 0 /\ draining = "no" /\ depth[t] < MaxDepth
    /\ Goes(t, "taking") /\ Dequeue
    /\ cur' = [cur EXCEPT ![t] = NextUp]
    /\ fate' = [fate EXCEPT ![NextUp] = "taken"]
    /\ upset' = upset \union Stolen(t)
    /\ UNCHANGED <<running, gen, guard, genOf, depth, asked, draining, ran, stops>>

\* No event waits, but the interrupt had a text: it becomes the next message.
TakesInterruptText(t) ==
    /\ At(t, "ended") /\ NextUp = 0 /\ asked[t] \in Msgs
    /\ draining = "no" /\ depth[t] < MaxDepth
    /\ Goes(t, "taking")
    /\ cur' = [cur EXCEPT ![t] = asked[t]]
    /\ fate' = [fate EXCEPT ![asked[t]] = "taken"]
    /\ upset' = upset \union {"stolen"}
    /\ UNCHANGED <<queue, running, gen, guard, genOf, depth, asked, draining, ran, stops>>

\* At the recursion limit the message goes back into the slot, over the one
\* that had just moved up.
PutsBack(t) ==
    /\ At(t, "ended") /\ NextUp # 0 /\ draining = "no" /\ depth[t] >= MaxDepth
    /\ Goes(t, "unwinding")
    /\ slotPend' = NextUp /\ overflow' = Rest
    /\ fate' = [m \in DOMAIN fate |-> IF m = Staged THEN "overwritten" ELSE fate[m]]
    /\ upset' = upset \union Stolen(t) \union (IF Staged = 0 THEN {} ELSE {"overwritten"})
    /\ UNCHANGED <<running, gen, guard, genOf, depth, cur, asked, draining, ran, stops>>

\* A draining gateway discards what it took.
DiscardsNext(t) ==
    /\ At(t, "ended") /\ NextUp # 0 /\ draining # "no"
    /\ Goes(t, "unwinding") /\ Dequeue
    /\ fate' = [fate EXCEPT ![NextUp] = "gone"]
    /\ UNCHANGED <<running, gen, guard, genOf, depth, cur, asked, draining, ran, stops, upset>>

NothingNext(t) ==
    /\ At(t, "ended") /\ NextUp = 0
    /\ asked[t] \notin Msgs \/ draining # "no" \/ depth[t] >= MaxDepth
    /\ Goes(t, "unwinding")
    /\ UNCHANGED <<fate, queue, running, gen, guard, genOf, depth, cur, asked, draining, ran, stops, upset>>

\* After the first response is delivered and the message prepared, it runs.
RunsNext(t) ==
    /\ At(t, "taking") /\ Goes(t, "working")
    /\ depth' = [depth EXCEPT ![t] = @ + 1]
    /\ asked' = [asked EXCEPT ![t] = 0]
    /\ fate' = [fate EXCEPT ![cur[t]] = "ran"]
    /\ ran' = Append(ran, cur[t])
    /\ UNCHANGED <<queue, running, gen, guard, genOf, cur, draining, stops, upset>>

\* The message cannot be prepared, or was a /goal continuation of a goal that
\* is over: the turn ends.  An overflow behind an empty slot is left waiting.
NextUnusable(t) ==
    /\ At(t, "taking") /\ Goes(t, "unwinding")
    /\ fate' = [fate EXCEPT ![cur[t]] = "gone"]
    /\ upset' = upset \union {"undrained"}
    /\ UNCHANGED <<queue, running, gen, guard, genOf, depth, cur, asked, draining, ran, stops>>

\* Mutant: a stale turn releases the slot too.
UnwindAnyway(t) ==
    /\ At(t, "unwinding") /\ Goes(t, "closing")
    /\ holder' = 0 /\ agentIn' = FALSE
    /\ UNCHANGED <<fate, queue, gen, guard, genOf, depth, cur, asked, draining, ran, stops, upset>>

\* The finally of _run_agent: the slot is released by its own generation only.
Unwind(t) ==
    /\ At(t, "unwinding") /\ Goes(t, "closing")
    /\ IF Current(t) THEN holder' = 0 /\ agentIn' = FALSE ELSE UNCHANGED running
    /\ UNCHANGED <<fate, queue, gen, guard, genOf, depth, cur, asked, draining, ran, stops, upset>>

\* Mutant: the release is left to _run_agent.
ReleaseNothing(t) == UNCHANGED <<running, upset>>

\* The finally of _handle_message: the slot is released whoever holds it.
Release(t) ==
    /\ holder' = 0 /\ agentIn' = FALSE
    /\ upset' = IF holder \in {0, t} THEN upset ELSE upset \union {"clobbered"}

\* _post_turn_goal_continuation: the judge's next prompt joins the queue.
GoalContinues ==
    /\ Goals /\ Arrives
    /\ fate' = Append(fate, "held") /\ EnqueueFifo(New)

\* _handle_message after the run: a stale result is dropped; after a current
\* one a standing /goal may put its continuation into the queue.
Closes(t) ==
    /\ At(t, "closing") /\ Goes(t, "replying")
    /\ \/ UNCHANGED <<fate, queue>>
       \/ Current(t) /\ fate[t] = "ran" /\ GoalContinues
    /\ Release(t)
    /\ UNCHANGED <<gen, guard, genOf, depth, cur, asked, draining, ran, stops>>

\* What waits in the slot gets a turn of its own, or is refused, as above.
Delivers(t) ==
    /\ guard = t /\ holder = 0 /\ slotPend # 0
    /\ slotPend' = 0
    /\ \/ /\ draining = "no"
          /\ fate' = [fate EXCEPT ![slotPend] = "taken"]
          /\ upset' = IF overflow = <<>> THEN upset ELSE upset \union {"handover"}
          /\ Claim(slotPend) /\ TurnsAre(t, slotPend)
          /\ guard' = slotPend
       \/ /\ fate' = [fate EXCEPT ![slotPend] = "gone"]
          /\ upset' = IF overflow = <<>> THEN upset ELSE upset \union {"handover", "undrained"}
          /\ guard' = 0 /\ TurnsAre(t, 0)
          /\ UNCHANGED <<running, gen>>
    /\ UNCHANGED <<overflow, draining, ran, stops>>

\* The session is busy with a turn that passed by: the message is dropped at the
\* cap, its text is given to the agent, or it is back in the slot, to be handed
\* over again.
MeetsBusy(t) ==
    /\ guard = t /\ holder # 0 /\ slotPend # 0
    /\ \/ agentIn /\ draining # "refuse" /\ Len(overflow) >= Cap /\ UNCHANGED asked
       \/ GetsText(slotPend)
    /\ slotPend' = 0
    /\ fate' = [fate EXCEPT ![slotPend] = "gone"]
    /\ upset' = upset \union {"overtaken"}
    /\ UNCHANGED <<overflow, running, gen, guard, pc, genOf, depth, cur, draining, ran, stops>>

\* The adapter has sent the reply: it hands over the slot, or the session is
\* idle again.
HandsOver(t) == At(t, "replying") /\ Delivers(t)
FindsBusy(t) == At(t, "replying") /\ MeetsBusy(t)
TurnOver(t) ==
    /\ At(t, "replying") /\ (guard # t \/ slotPend = 0)
    /\ TurnsAre(t, 0)
    /\ guard' = IF guard = t THEN 0 ELSE guard
    /\ UNCHANGED <<fate, queue, running, gen, draining, ran, stops, upset>>

\* The same for a task of the adapter that has no turn.
RelayOver ==
    /\ guard = Relay /\ slotPend = 0
    /\ guard' = 0
    /\ UNCHANGED <<fate, queue, running, gen, turn, draining, ran, stops, upset>>

RelayStep == Delivers(Relay) \/ MeetsBusy(Relay) \/ RelayOver

-----------------------------------------------------------------------------
TurnStep(t) ==
    \/ Setup(t) \/ SetupEnds(t) \/ Promote(t) \/ AgentEnds(t) \/ AgentTimesOut(t)
    \/ TakesNext(t) \/ TakesInterruptText(t) \/ PutsBack(t) \/ DiscardsNext(t)
    \/ NothingNext(t) \/ RunsNext(t) \/ NextUnusable(t)
    \/ Unwind(t) \/ Closes(t) \/ HandsOver(t) \/ FindsBusy(t) \/ TurnOver(t)

Environment ==
    \/ TurnStarts \/ CommandStarts \/ FollowUp \/ FollowUpRefused \/ LateFollowUp
    \/ QueueCommand \/ SteerTooEarly \/ Stop \/ Evict \/ BeginDrain

Next == Environment \/ RelayStep \/ \E t \in Msgs : TurnStep(t)

Spec == Init /\ [][Next]_vars

\* A turn goes on: its agent ends, or is interrupted when it has been idle for
\* too long (the inactivity timeout); everything else is gateway code.
FairSpec == Spec /\ WF_vars(RelayStep) /\ \A t \in Msgs : WF_vars(TurnStep(t))

-----------------------------------------------------------------------------
Without(tags) == upset \cap tags = {}
PlacesOf(m) == {i \in DOMAIN Waiting : Waiting[i] = m}
Increasing(s) == \A i, j \in DOMAIN s : i < j => s[i] < s[j]

\* Every message that arrived is waiting in one place, is held by one turn, has
\* been run once, or has one of the other fates: no hand-over, put-back or
\* promotion duplicates a message or forgets it.  Only after a stop, or when a
\* command passed by, may a turn take what was meant for the next one, and then
\* an interrupt may bring the text of a message a second time.
Accounted ==
    /\ "stolen" \in upset => ~Without({"stop", "overtaken"})
    /\ \A m \in DOMAIN fate :
        /\ (fate[m] = "held") = (PlacesOf(m) # {})
        /\ \A i, j \in PlacesOf(m) : i = j
        /\ fate[m] = "taken" => \E t \in Msgs : cur[t] = m /\ pc[t] \in {"setup", "taking"}
        /\ fate[m] = "ran" => \E i \in DOMAIN ran : ran[i] = m
        /\ Without({"stolen"}) => \A i, j \in DOMAIN ran : ran[i] = m /\ ran[j] = m => i = j

\* Messages run in the order they arrived, and what waits is younger than what
\* ran, unless the session was stopped, a message was overwritten, a command
\* passed by between a turn's release of the slot and the hand-over, or the slot
\* was handed to a new turn while the overflow was not empty.
OrderKept ==
    Without({"stop", "overtaken", "overwritten", "handover"}) => Increasing(ran \o Waiting)

\* A turn of the current generation that is at work holds the slot of its
\* session, so no second agent starts beside it, unless an old turn that was
\* stopped released the slot on its way out.
WorkerHoldsSlot ==
    Without({"clobbered"}) =>
        \A t \in Msgs :
            Current(t) /\ pc[t] \in {"setup", "working", "ended", "taking"} => holder = t

\* Nothing waits for ever: unless the session is stopped, the gateway drains, a
\* turn ended without a look at the queue, a hand-over was refused or a command
\* passed by, what waits is taken in the end.
QueueDrains ==
    Waiting # <<>> ~>
        Waiting = <<>> \/ draining # "no" \/ ~Without({"stop", "overtaken", "undrained"})

\* A session does not stay locked: every turn releases the slot in the end,
\* also one that never got an agent.
SessionUnlocks == holder # 0 ~> holder = 0

=============================================================================
