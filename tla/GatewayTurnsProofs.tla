------------------------- MODULE GatewayTurnsProofs -------------------------
(* Type correctness of GatewayTurns, and that a turn at work holds the slot of
   its session, for any number of messages and stops, any queue cap and any
   recursion limit. *)
EXTENDS GatewayTurns, SequenceTheorems, TLAPS

Alive(t) == pc[t] \notin {"none", "over"}

\* Generations only grow, and no two turns that are not over share one.
GenerationsInv ==
    /\ \A t \in Msgs : genOf[t] <= gen
    /\ \A t, u \in Msgs : Alive(t) /\ Alive(u) /\ genOf[t] = genOf[u] => t = u

SlotInv == GenerationsInv /\ WorkerHoldsSlot

QueueTypes ==
    /\ fate \in Seq(Fates) /\ Len(fate) <= MaxMsgs
    /\ slotPend \in 0 .. MaxMsgs
    /\ overflow \in Seq(Msgs)
    /\ ran \in Seq(Msgs)

TurnTypes ==
    /\ pc \in [Msgs -> Places]
    /\ genOf \in [Msgs -> Nat]
    /\ depth \in [Msgs -> 0 .. MaxDepth]
    /\ cur \in [Msgs -> 0 .. MaxMsgs]
    /\ asked \in [Msgs -> 0 .. Control]

SlotTypes ==
    /\ holder \in 0 .. MaxMsgs /\ agentIn \in BOOLEAN
    /\ gen \in Nat
    /\ guard \in 0 .. Relay
    /\ draining \in {"no", "queue", "refuse"}
    /\ stops \in Nat
    /\ upset \subseteq Upsets

LEMMA TypeParts == TypeOK <=> QueueTypes /\ TurnTypes /\ SlotTypes
  BY DEF TypeOK, QueueTypes, TurnTypes, SlotTypes

\* A message that a turn has taken is a message, and there is room for the run.
TakingInv == \A t \in Msgs : pc[t] = "taking" => cur[t] \in Msgs /\ depth[t] < MaxDepth

-----------------------------------------------------------------------------
LEMMA MsgsRange ==
  /\ \A m \in Msgs : m \in 0 .. MaxMsgs /\ m \in 0 .. Control
  /\ \A m \in 0 .. MaxMsgs : m \in 0 .. Control /\ (m # 0 => m \in Msgs)
  /\ 0 \in 0 .. MaxMsgs /\ 0 \in 0 .. Control /\ Control \in 0 .. Control
  /\ 0 \in 0 .. MaxDepth
  /\ \A m \in 0 .. MaxMsgs : m \in 0 .. Relay
  /\ Relay \in 0 .. Relay /\ Relay \notin Msgs /\ Relay # 0
  BY TurnsAssumption DEF Msgs, Control, Relay

\* Updating a sequence in place keeps its length and its type.
LEMMA UpdateTypes ==
  ASSUME NEW S, NEW s \in Seq(S), NEW f, DOMAIN f = DOMAIN s,
         \A i \in DOMAIN s : f[i] \in S, f = [i \in DOMAIN s |-> f[i]]
  PROVE  f \in Seq(S) /\ Len(f) = Len(s)
  BY DOMAIN s = 1 .. Len(s)

\* Appending a fate keeps the bound while a message may still arrive.
LEMMA AppendTypes ==
  ASSUME QueueTypes, NEW x \in Fates, Arrives
  PROVE  /\ Append(fate, x) \in Seq(Fates)
         /\ Len(Append(fate, x)) <= MaxMsgs
         /\ New \in Msgs
  BY TurnsAssumption DEF QueueTypes, Arrives, New, Msgs

\* The same after a waiting message was given another fate.
LEMMA FateTypes ==
  ASSUME QueueTypes, NEW f, DOMAIN f = DOMAIN fate,
         \A i \in DOMAIN fate : f[i] \in Fates, f = [i \in DOMAIN fate |-> f[i]]
  PROVE  f \in Seq(Fates) /\ Len(f) <= MaxMsgs
  BY UpdateTypes DEF QueueTypes

\* What is next in the queue is a message, and the rest is a queue.
LEMMA NextTypes ==
  ASSUME QueueTypes
  PROVE  /\ NextUp \in 0 .. MaxMsgs
         /\ Staged \in 0 .. MaxMsgs
         /\ Rest \in Seq(Msgs)
<1>1. overflow # <<>> => Head(overflow) \in Msgs /\ Tail(overflow) \in Seq(Msgs)
  BY DEF QueueTypes
<1>2. Rest \in Seq(Msgs)
  BY <1>1 DEF QueueTypes, Rest
<1> QED
  BY <1>1, <1>2, MsgsRange DEF QueueTypes, NextUp, Staged

\* A message that joins the queue leaves a queue.
LEMMA EnqueueTypes ==
  ASSUME QueueTypes, NEW m \in Msgs, EnqueueFifo(m)
  PROVE  slotPend' \in 0 .. MaxMsgs /\ overflow' \in Seq(Msgs)
<1>1. Append(overflow, m) \in Seq(Msgs)
  BY DEF QueueTypes
<1> QED
  BY <1>1, MsgsRange DEF QueueTypes, EnqueueFifo

\* Where a turn ends and another opens.
LEMMA TurnsAreTypes ==
  ASSUME TurnTypes, gen \in Nat, NEW t, NEW m \in 0 .. MaxMsgs, TurnsAre(t, m)
  PROVE  TurnTypes'
<1>1. ASSUME NEW S, NEW f \in [Msgs -> S], NEW end \in S, NEW start \in S
      PROVE  After(f, t, m, end, start) \in [Msgs -> S]
  BY DEF After
<1>2. "over" \in Places /\ "setup" \in Places /\ 0 \in Nat /\ gen + 1 \in Nat
  BY DEF Places
<1>3. 0 \in 0 .. MaxMsgs /\ 0 \in 0 .. MaxDepth /\ 0 \in 0 .. Control
  BY MsgsRange
<1>4. pc' \in [Msgs -> Places] /\ genOf' \in [Msgs -> Nat]
  BY <1>1, <1>2 DEF TurnTypes, TurnsAre
<1>5. cur' \in [Msgs -> 0 .. MaxMsgs]
  BY <1>1, <1>3 DEF TurnTypes, TurnsAre
<1>6. depth' \in [Msgs -> 0 .. MaxDepth] /\ asked' \in [Msgs -> 0 .. Control]
  BY <1>1, <1>3 DEF TurnTypes, TurnsAre
<1> QED
  BY <1>4, <1>5, <1>6 DEF TurnTypes

LEMMA TurnsAreFacts ==
  ASSUME NEW t, NEW m, TurnsAre(t, m), NEW u \in Msgs
  PROVE  /\ pc'[u] = IF u = m THEN "setup" ELSE IF u = t THEN "over" ELSE pc[u]
         /\ genOf'[u] = IF u = m THEN gen + 1 ELSE IF u = t THEN 0 ELSE genOf[u]
  BY DEF TurnsAre, After

LEMMA TypeInit == Init => TypeOK
<1>1. <<>> \in Seq(Fates) /\ <<>> \in Seq(Msgs) /\ Len(<<>>) = 0
  BY EmptySeq
<1>2. Init => QueueTypes
  BY <1>1, MsgsRange, TurnsAssumption DEF Init, QueueTypes
<1>3. Init => TurnTypes
  BY MsgsRange DEF Init, TurnTypes, Places
<1>4. Init => SlotTypes
  <2> SUFFICES ASSUME Init PROVE SlotTypes
    OBVIOUS
  <2>1. holder \in 0 .. MaxMsgs /\ guard \in 0 .. Relay /\ gen \in Nat /\ stops \in Nat
    BY MsgsRange DEF Init
  <2>2. upset \subseteq Upsets /\ agentIn \in BOOLEAN /\ draining \in {"no", "queue", "refuse"}
    BY DEF Init
  <2> QED
    BY <2>1, <2>2 DEF SlotTypes
<1> QED
  BY <1>2, <1>3, <1>4, TypeParts

\* One message in the queue gets another fate.
LEMMA OneFate ==
  ASSUME QueueTypes, NEW m, NEW v \in Fates
  PROVE  [fate EXCEPT ![m] = v] \in Seq(Fates) /\ Len([fate EXCEPT ![m] = v]) <= MaxMsgs
<1> DEFINE f == [fate EXCEPT ![m] = v]
<1>1. \A i \in DOMAIN fate : f[i] \in Fates
  BY DEF QueueTypes
<1> QED
  BY <1>1, FateTypes

\* The slot is handed over, by a turn or by a task of the adapter without one.
LEMMA DeliversTypes ==
  ASSUME TypeOK, NEW t, Delivers(t)
  PROVE  QueueTypes' /\ TurnTypes' /\ SlotTypes'
<1>t. QueueTypes /\ TurnTypes /\ SlotTypes
  BY TypeParts
<1>r. slotPend \in 0 .. MaxMsgs /\ 0 \in 0 .. MaxMsgs /\ slotPend \in 0 .. Relay /\ 0 \in 0 .. Relay
  BY <1>t, MsgsRange DEF QueueTypes
<1>1. QueueTypes'
  <2>1. PICK v \in Fates : fate' = [fate EXCEPT ![slotPend] = v]
    BY DEF Delivers, Fates
  <2>2. fate' \in Seq(Fates) /\ Len(fate') <= MaxMsgs
    BY <1>t, <2>1, OneFate
  <2>3. slotPend' = 0 /\ overflow' = overflow /\ ran' = ran
    BY DEF Delivers
  <2> QED
    BY <1>t, <1>r, <2>2, <2>3 DEF QueueTypes
<1>2. TurnTypes'
  <2>1. TurnsAre(t, slotPend) \/ TurnsAre(t, 0)
    BY DEF Delivers
  <2> QED
    BY <1>t, <1>r, <2>1, TurnsAreTypes DEF SlotTypes
<1>3. SlotTypes'
  <2>1. gen \in Nat /\ gen + 1 \in Nat
    BY <1>t DEF SlotTypes
  <2>2. /\ holder' \in {holder, slotPend} /\ guard' \in {slotPend, 0} /\ gen' \in {gen, gen + 1}
        /\ agentIn' \in {agentIn, FALSE}
    BY DEF Delivers, Claim, running
  <2>3. upset' \subseteq Upsets /\ UNCHANGED <<draining, stops>>
    BY <1>t DEF Delivers, SlotTypes, Upsets
  <2> QED
    BY <1>t, <1>r, <2>1, <2>2, <2>3 DEF SlotTypes
<1> QED
  BY <1>1, <1>2, <1>3

\* What the slot held meets a busy session.
LEMMA MeetsBusyTypes ==
  ASSUME TypeOK, NEW t, MeetsBusy(t)
  PROVE  QueueTypes' /\ TurnTypes' /\ SlotTypes'
<1>t. QueueTypes /\ TurnTypes /\ SlotTypes
  BY TypeParts
<1>1. QueueTypes'
  <2>1. "gone" \in Fates
    BY DEF Fates
  <2>2. fate' \in Seq(Fates) /\ Len(fate') <= MaxMsgs
    BY <1>t, <2>1, OneFate DEF MeetsBusy
  <2>3. slotPend' = 0 /\ overflow' = overflow /\ ran' = ran
    BY DEF MeetsBusy
  <2> QED
    BY <1>t, <2>2, <2>3, MsgsRange DEF QueueTypes
<1>2. TurnTypes'
  <2>1. slotPend \in 0 .. Control
    BY <1>t, MsgsRange DEF QueueTypes
  <2>2. UNCHANGED asked \/ asked' = [asked EXCEPT ![holder] = slotPend]
    BY DEF MeetsBusy, GetsText, Interrupts
  <2>3. UNCHANGED <<pc, genOf, depth, cur>>
    BY DEF MeetsBusy
  <2> QED
    BY <1>t, <2>1, <2>2, <2>3 DEF TurnTypes
<1>3. SlotTypes'
  <2>1. UNCHANGED <<holder, agentIn, gen, guard, draining, stops>>
    BY DEF MeetsBusy, running
  <2>2. upset' \subseteq Upsets
    BY <1>t DEF MeetsBusy, SlotTypes, Upsets
  <2> QED
    BY <1>t, <2>1, <2>2 DEF SlotTypes
<1> QED
  BY <1>1, <1>2, <1>3

\* A task of the adapter without a turn goes on.
LEMMA RelayTypes ==
  ASSUME TypeOK, RelayStep
  PROVE  QueueTypes' /\ TurnTypes' /\ SlotTypes'
<1>1. CASE Delivers(Relay)
  BY <1>1, DeliversTypes
<1>2. CASE MeetsBusy(Relay)
  BY <1>2, MeetsBusyTypes
<1>3. CASE RelayOver
  BY <1>3, TypeParts, MsgsRange DEF QueueTypes, TurnTypes, SlotTypes, RelayOver, queue, running, turn
<1> QED
  BY <1>1, <1>2, <1>3 DEF RelayStep

\* A message arrives while the adapter is idle and the session is not.
LEMMA LateFollowUpTypes ==
  ASSUME TypeOK, LateFollowUp
  PROVE  QueueTypes' /\ TurnTypes' /\ SlotTypes'
<1>t. QueueTypes /\ TurnTypes /\ SlotTypes
  BY TypeParts
<1>n. New \in Msgs /\ New \in 0 .. Control /\ "gone" \in Fates /\ "held" \in Fates
  BY <1>t, AppendTypes, MsgsRange DEF LateFollowUp, Fates
<1>1. QueueTypes'
  <2>1. Arrives /\ ran' = ran
    BY DEF LateFollowUp
  <2>2. CASE fate' = Append(fate, "gone") /\ UNCHANGED queue
    BY <1>t, <1>n, <2>1, <2>2, AppendTypes DEF QueueTypes, queue
  <2>3. CASE fate' = Append(fate, "held") /\ EnqueueFifo(New)
    BY <1>t, <1>n, <2>1, <2>3, AppendTypes, EnqueueTypes DEF QueueTypes
  <2> QED
    BY <2>2, <2>3 DEF LateFollowUp, QueueOrReplace, EnqueueFifo
<1>2. TurnTypes'
  <2>1. UNCHANGED asked \/ asked' = [asked EXCEPT ![holder] = New]
    BY DEF LateFollowUp, GetsText, Interrupts
  <2>2. UNCHANGED <<pc, genOf, depth, cur>>
    BY DEF LateFollowUp
  <2> QED
    BY <1>t, <1>n, <2>1, <2>2 DEF TurnTypes
<1>3. SlotTypes'
  <2>1. UNCHANGED <<holder, agentIn, gen, draining, stops>> /\ guard' = Relay
    BY DEF LateFollowUp, Task, running
  <2>2. upset' \subseteq Upsets
    BY <1>t DEF LateFollowUp, Passed, SlotTypes, Upsets
  <2> QED
    BY <1>t, <2>1, <2>2, MsgsRange DEF SlotTypes
<1> QED
  BY <1>1, <1>2, <1>3

\* A command starts a turn ahead of what waits.
LEMMA CommandStartsTypes ==
  ASSUME TypeOK, CommandStarts
  PROVE  QueueTypes' /\ TurnTypes' /\ SlotTypes'
<1>t. QueueTypes /\ TurnTypes /\ SlotTypes
  BY TypeParts
<1>n. New \in 0 .. MaxMsgs /\ 0 \in 0 .. MaxMsgs /\ "gone" \in Fates /\ "taken" \in Fates
  BY <1>t, AppendTypes, MsgsRange DEF CommandStarts, Fates
<1>1. QueueTypes'
  <2>1. Arrives /\ UNCHANGED <<slotPend, overflow, ran>>
    BY DEF CommandStarts, queue
  <2>2. fate' = Append(fate, "taken") \/ fate' = Append(fate, "gone")
    BY DEF CommandStarts
  <2> QED
    BY <1>t, <1>n, <2>1, <2>2, AppendTypes DEF QueueTypes
<1>2. TurnTypes'
  <2>1. CASE TurnsAre(0, New)
    BY <1>t, <1>n, <2>1, TurnsAreTypes DEF SlotTypes
  <2>2. CASE UNCHANGED turn
    BY <1>t, <2>2 DEF TurnTypes, turn
  <2> QED
    BY <2>1, <2>2 DEF CommandStarts
<1>3. SlotTypes'
  <2>1. gen \in Nat /\ gen + 1 \in Nat /\ stops \in Nat /\ stops + 1 \in Nat
    BY <1>t DEF SlotTypes
  <2>2. /\ holder' \in {holder, New} /\ gen' \in {gen, gen + 1} /\ agentIn' \in {agentIn, FALSE}
        /\ stops' \in {stops, stops + 1} /\ UNCHANGED <<guard, draining>>
    BY DEF CommandStarts, Claim, running
  <2>3. upset' \subseteq Upsets
    BY <1>t DEF CommandStarts, SlotTypes, Upsets
  <2> QED
    BY <1>t, <1>n, <2>1, <2>2, <2>3 DEF SlotTypes
<1> QED
  BY <1>1, <1>2, <1>3

\* The steps keep the types of the queue.
LEMMA QueueTypesStep == TypeOK /\ TakingInv /\ [Next]_vars => QueueTypes'
<1> SUFFICES ASSUME TypeOK, TakingInv, [Next]_vars PROVE QueueTypes'
  OBVIOUS
<1>t. QueueTypes /\ TurnTypes /\ SlotTypes
  BY TypeParts
<1>1. CASE TurnStarts
  BY <1>t, <1>1, AppendTypes DEF QueueTypes, Fates, TurnStarts, Claim, TurnsAre, After, New,
     Arrives, queue, running, turn
<1>2. CASE FollowUp
  <2>1. New \in Msgs
    BY <1>t, <1>2, AppendTypes DEF FollowUp, New, Arrives, Interrupts, Interruptible, queue,
       running, turn, Fates
  <2>2. CASE fate' = Append(fate, "gone") /\ UNCHANGED queue
    BY <1>t, <1>2, <2>2, AppendTypes DEF QueueTypes, Fates, FollowUp, New, Arrives, Interrupts,
       Interruptible, queue, running, turn
  <2>3. CASE fate' = Append(fate, "held") /\ EnqueueFifo(New)
    BY <1>t, <1>2, <2>1, <2>3, AppendTypes, EnqueueTypes DEF QueueTypes, Fates, FollowUp, New,
       Arrives, Interrupts, Interruptible, queue, running, turn
  <2> QED
    BY <1>2, <2>2, <2>3 DEF FollowUp, QueueOrReplace
<1>3. CASE FollowUpRefused
  BY <1>t, <1>3, AppendTypes DEF QueueTypes, Fates, FollowUpRefused, New, Arrives, queue, running, turn
<1>4. CASE QueueCommand
  <2>1. New \in Msgs
    BY <1>t, <1>4, AppendTypes DEF QueueCommand, New, Arrives, queue, running, turn, Fates
  <2> QED
    BY <1>t, <1>4, <2>1, AppendTypes, EnqueueTypes DEF QueueTypes, Fates, QueueCommand, New,
       Arrives, queue, running, turn
<1>5. CASE SteerTooEarly
  <2> DEFINE f == [m \in DOMAIN fate |-> IF m = slotPend THEN "overwritten" ELSE fate[m]]
  <2>1. f \in Seq(Fates) /\ Len(f) = Len(fate)
    <3>1. \A i \in DOMAIN fate : f[i] \in Fates
      BY <1>t DEF QueueTypes, Fates
    <3> QED
      BY <1>t, <3>1, UpdateTypes, SMTT(60) DEF QueueTypes
  <2>2. fate' = Append(f, "held") /\ New \in Msgs /\ Len(fate) < MaxMsgs
    BY <1>t, <1>5, AppendTypes DEF SteerTooEarly, New, Arrives, queue, running, turn, Fates
  <2>3. fate' \in Seq(Fates) /\ Len(fate') <= MaxMsgs
    <3> HIDE DEF f
    <3> QED
      BY <1>t, <2>1, <2>2, TurnsAssumption DEF Fates, QueueTypes
  <2> QED
    BY <1>t, <1>5, <2>2, <2>3 DEF QueueTypes, Msgs, SteerTooEarly, New, Arrives, queue, running, turn
<1>6. CASE Stop
  <2> DEFINE f == [m \in DOMAIN fate |-> IF m = slotPend THEN "gone" ELSE fate[m]]
  <2>1. f \in Seq(Fates) /\ Len(f) <= MaxMsgs
    <3>1. \A i \in DOMAIN fate : f[i] \in Fates
      BY <1>t DEF QueueTypes, Fates
    <3> QED
      BY <1>t, <3>1, FateTypes
  <2>2. fate' = f
    BY <1>6 DEF Stop
  <2> QED
    BY <1>t, <1>6, <2>1, <2>2, NextTypes, TurnsAssumption DEF QueueTypes, Stop, Interrupts,
       Interruptible, queue, running, turn
<1>7. CASE Evict
  BY <1>t, <1>7 DEF QueueTypes, Evict, queue, running, turn
<1>8. CASE BeginDrain
  BY <1>t, <1>8 DEF QueueTypes, BeginDrain, queue, running, turn
<1>9. CASE \E t \in Msgs : TurnStep(t)
  <2> SUFFICES ASSUME NEW t \in Msgs, TurnStep(t) PROVE QueueTypes'
    BY <1>9
  <2>1. CASE Setup(t)
    <3> DEFINE f == [fate EXCEPT ![t] = "ran"]
    <3>1. f \in Seq(Fates) /\ Len(f) <= MaxMsgs
      <4>1. \A i \in DOMAIN fate : f[i] \in Fates
        BY <1>t DEF QueueTypes, Fates
      <4> QED
        BY <1>t, <4>1, FateTypes
    <3>2. fate' = f
      BY <2>1 DEF Setup
    <3> QED
      BY <1>t, <2>1, <3>1, <3>2, NextTypes DEF QueueTypes, TurnTypes, Msgs, Setup, At, Goes, queue,
         running, turn
  <2>2. CASE SetupEnds(t)
    <3> DEFINE f == [fate EXCEPT ![t] = "gone"]
    <3>1. f \in Seq(Fates) /\ Len(f) <= MaxMsgs
      <4>1. \A i \in DOMAIN fate : f[i] \in Fates
        BY <1>t DEF QueueTypes, Fates
      <4> QED
        BY <1>t, <4>1, FateTypes
    <3>2. fate' = f
      BY <2>2 DEF SetupEnds
    <3> QED
      BY <1>t, <2>2, <3>1, <3>2, NextTypes DEF QueueTypes, TurnTypes, Msgs, SetupEnds, At, Goes,
         queue, running, turn
  <2>3. CASE Promote(t)
    BY <1>t, <2>3 DEF QueueTypes, Promote, At, Goes, Current, queue, running, turn
  <2>4. CASE AgentEnds(t)
    BY <1>t, <2>4 DEF QueueTypes, AgentEnds, At, Goes, queue, running, turn
  <2>5. CASE AgentTimesOut(t)
    BY <1>t, <2>5 DEF QueueTypes, AgentTimesOut, At, Goes, queue, running, turn
  <2>6. CASE TakesNext(t)
    <3> DEFINE f == [fate EXCEPT ![NextUp] = "taken"]
    <3>1. f \in Seq(Fates) /\ Len(f) <= MaxMsgs
      <4>1. \A i \in DOMAIN fate : f[i] \in Fates
        BY <1>t DEF QueueTypes, Fates
      <4> QED
        BY <1>t, <4>1, FateTypes
    <3>2. fate' = f
      BY <2>6 DEF TakesNext
    <3> QED
      BY <1>t, <2>6, <3>1, <3>2, NextTypes DEF QueueTypes, TurnTypes, Msgs, TakesNext, Dequeue,
         Stolen, At, Goes, Current, queue, running, turn
  <2>7. CASE TakesInterruptText(t)
    <3> DEFINE f == [fate EXCEPT ![asked[t]] = "taken"]
    <3>1. f \in Seq(Fates) /\ Len(f) <= MaxMsgs
      <4>1. \A i \in DOMAIN fate : f[i] \in Fates
        BY <1>t DEF QueueTypes, Fates
      <4> QED
        BY <1>t, <4>1, FateTypes
    <3>2. fate' = f
      BY <2>7 DEF TakesInterruptText
    <3> QED
      BY <1>t, <2>7, <3>1, <3>2, NextTypes DEF QueueTypes, TurnTypes, Msgs, TakesInterruptText, At,
         Goes, queue, running, turn
  <2>8. CASE PutsBack(t)
    <3> DEFINE f == [m \in DOMAIN fate |-> IF m = Staged THEN "overwritten" ELSE fate[m]]
    <3>1. f \in Seq(Fates) /\ Len(f) <= MaxMsgs
      <4>1. \A i \in DOMAIN fate : f[i] \in Fates
        BY <1>t DEF QueueTypes, Fates
      <4> QED
        BY <1>t, <4>1, FateTypes
    <3>2. fate' = f
      BY <2>8 DEF PutsBack
    <3> QED
      BY <1>t, <2>8, <3>1, <3>2, NextTypes, TurnsAssumption DEF QueueTypes, PutsBack, Stolen, At,
         Goes, Current, queue, running, turn
  <2>9. CASE DiscardsNext(t)
    <3> DEFINE f == [fate EXCEPT ![NextUp] = "gone"]
    <3>1. f \in Seq(Fates) /\ Len(f) <= MaxMsgs
      <4>1. \A i \in DOMAIN fate : f[i] \in Fates
        BY <1>t DEF QueueTypes, Fates
      <4> QED
        BY <1>t, <4>1, FateTypes
    <3>2. fate' = f
      BY <2>9 DEF DiscardsNext
    <3> QED
      BY <1>t, <2>9, <3>1, <3>2, NextTypes DEF QueueTypes, TurnTypes, Msgs, DiscardsNext, Dequeue,
         At, Goes, queue, running, turn
  <2>10. CASE NothingNext(t)
    BY <1>t, <2>10 DEF QueueTypes, NothingNext, At, Goes, queue, running, turn
  <2>11. CASE RunsNext(t)
    <3> DEFINE f == [fate EXCEPT ![cur[t]] = "ran"]
    <3>1. f \in Seq(Fates) /\ Len(f) <= MaxMsgs
      <4>1. \A i \in DOMAIN fate : f[i] \in Fates
        BY <1>t DEF QueueTypes, Fates
      <4> QED
        BY <1>t, <4>1, FateTypes
    <3>2. fate' = f
      BY <2>11 DEF RunsNext
    <3> QED
      BY <1>t, <2>11, <3>1, <3>2, NextTypes DEF QueueTypes, TurnTypes, TakingInv, RunsNext, At,
         Goes, queue, running, turn
  <2>12. CASE NextUnusable(t)
    <3> DEFINE f == [fate EXCEPT ![cur[t]] = "gone"]
    <3>1. f \in Seq(Fates) /\ Len(f) <= MaxMsgs
      <4>1. \A i \in DOMAIN fate : f[i] \in Fates
        BY <1>t DEF QueueTypes, Fates
      <4> QED
        BY <1>t, <4>1, FateTypes
    <3>2. fate' = f
      BY <2>12 DEF NextUnusable
    <3> QED
      BY <1>t, <2>12, <3>1, <3>2, NextTypes DEF QueueTypes, TurnTypes, Msgs, NextUnusable, At,
         Goes, queue, running, turn
  <2>13. CASE Unwind(t)
    BY <1>t, <2>13 DEF QueueTypes, Unwind, At, Goes, Current, queue, running, turn
  <2>14. CASE Closes(t)
    <3>1. CASE UNCHANGED <<fate, queue>>
      BY <1>t, <2>14, <3>1 DEF QueueTypes, Closes, Release, GoalContinues, New, Arrives, At, Goes,
         Current, queue, running, turn
    <3>2. CASE Arrives /\ fate' = Append(fate, "held") /\ EnqueueFifo(New)
      <4>1. New \in Msgs
        BY <1>t, <3>2, AppendTypes DEF Fates
      <4> QED
        BY <1>t, <2>14, <3>2, <4>1, AppendTypes, EnqueueTypes DEF QueueTypes, Fates, Closes,
           Release, GoalContinues, New, Arrives, At, Goes, Current, queue, running, turn
    <3> QED
      BY <2>14, <3>1, <3>2 DEF Closes, GoalContinues
  <2>15. CASE HandsOver(t)
    BY <2>15, DeliversTypes DEF HandsOver
  <2>16. CASE TurnOver(t)
    BY <1>t, <2>16 DEF QueueTypes, TurnOver, TurnsAre, After, At, Goes, queue, running, turn
  <2>17. CASE FindsBusy(t)
    BY <2>17, MeetsBusyTypes DEF FindsBusy
  <2> QED
    BY <2>1, <2>2, <2>3, <2>4, <2>5, <2>6, <2>7, <2>8, <2>9, <2>10, <2>11, <2>12, <2>13, <2>14,
       <2>15, <2>16, <2>17 DEF TurnStep
<1>10. CASE UNCHANGED vars
  BY <1>t, <1>10 DEF QueueTypes, vars, queue, running, turn
<1>11. CASE CommandStarts
  BY <1>11, CommandStartsTypes
<1>12. CASE LateFollowUp
  BY <1>12, LateFollowUpTypes
<1>13. CASE RelayStep
  BY <1>13, RelayTypes
<1> QED
  BY <1>1, <1>2, <1>3, <1>4, <1>5, <1>6, <1>7, <1>8, <1>9, <1>10,
     <1>11, <1>12, <1>13 DEF Next, Environment

\* The steps keep the types of the turns.
LEMMA TurnTypesStep == TypeOK /\ TakingInv /\ [Next]_vars => TurnTypes'
<1> SUFFICES ASSUME TypeOK, TakingInv, [Next]_vars PROVE TurnTypes'
  OBVIOUS
<1>t. QueueTypes /\ TurnTypes /\ SlotTypes
  BY TypeParts
<1>1. CASE TurnStarts
  <2>1. New \in 0 .. MaxMsgs /\ 0 \in 0 .. MaxMsgs
    BY <1>t, <1>1, AppendTypes, MsgsRange DEF TurnStarts, Fates
  <2>2. CASE TurnsAre(0, New)
    BY <1>t, <2>1, <2>2, TurnsAreTypes DEF SlotTypes
  <2>3. CASE UNCHANGED turn
    BY <1>t, <2>3 DEF TurnTypes, turn
  <2> QED
    BY <1>1, <2>2, <2>3 DEF TurnStarts
<1>2. CASE FollowUp
  <2>1. New \in Msgs
    BY <1>t, <1>2, AppendTypes DEF FollowUp, New, Arrives, Interrupts, Interruptible, queue,
       running, turn, Fates
  <2> QED
    BY <1>t, <1>2, <2>1, MsgsRange, TurnsAssumption DEF TurnTypes, SlotTypes, Places, FollowUp,
       Interrupts, Interruptible, queue, running, turn
<1>3. CASE FollowUpRefused
  BY <1>t, <1>3, MsgsRange, TurnsAssumption DEF TurnTypes, SlotTypes, Places, FollowUpRefused,
     queue, running, turn
<1>4. CASE QueueCommand
  BY <1>t, <1>4, MsgsRange, TurnsAssumption DEF TurnTypes, SlotTypes, Places, QueueCommand, queue,
     running, turn
<1>5. CASE SteerTooEarly
  BY <1>t, <1>5, MsgsRange, TurnsAssumption DEF TurnTypes, SlotTypes, Places, SteerTooEarly, queue,
     running, turn
<1>6. CASE Stop
  BY <1>t, <1>6, MsgsRange, TurnsAssumption DEF TurnTypes, SlotTypes, Places, Stop, Interrupts,
     Interruptible, queue, running, turn
<1>7. CASE Evict
  BY <1>t, <1>7, MsgsRange, TurnsAssumption DEF TurnTypes, SlotTypes, Places, Evict, queue,
     running, turn
<1>8. CASE BeginDrain
  BY <1>t, <1>8, MsgsRange, TurnsAssumption DEF TurnTypes, SlotTypes, Places, BeginDrain, queue,
     running, turn
<1>9. CASE \E t \in Msgs : TurnStep(t)
  <2> SUFFICES ASSUME NEW t \in Msgs, TurnStep(t) PROVE TurnTypes'
    BY <1>9
  <2>1. CASE Setup(t)
    BY <1>t, <2>1, MsgsRange, TurnsAssumption DEF TurnTypes, SlotTypes, Places, Setup, At, Goes,
       queue, running, turn
  <2>2. CASE SetupEnds(t)
    BY <1>t, <2>2, MsgsRange, TurnsAssumption DEF TurnTypes, SlotTypes, Places, SetupEnds, At,
       Goes, queue, running, turn
  <2>3. CASE Promote(t)
    BY <1>t, <2>3, MsgsRange, TurnsAssumption DEF TurnTypes, SlotTypes, Places, Promote, At, Goes,
       Current, queue, running, turn
  <2>4. CASE AgentEnds(t)
    BY <1>t, <2>4, MsgsRange, TurnsAssumption DEF TurnTypes, SlotTypes, Places, AgentEnds, At,
       Goes, queue, running, turn
  <2>5. CASE AgentTimesOut(t)
    BY <1>t, <2>5, MsgsRange, TurnsAssumption DEF TurnTypes, SlotTypes, Places, AgentTimesOut, At,
       Goes, queue, running, turn
  <2>6. CASE TakesNext(t)
    BY <1>t, <2>6, NextTypes, MsgsRange, TurnsAssumption DEF TurnTypes, SlotTypes, Places,
       TakesNext, Dequeue, Stolen, At, Goes, Current, queue, running, turn
  <2>7. CASE TakesInterruptText(t)
    BY <1>t, <2>7, MsgsRange, TurnsAssumption DEF TurnTypes, SlotTypes, Places, TakesInterruptText,
       At, Goes, queue, running, turn
  <2>8. CASE PutsBack(t)
    BY <1>t, <2>8, MsgsRange, TurnsAssumption DEF TurnTypes, SlotTypes, Places, PutsBack, Stolen,
       At, Goes, Current, queue, running, turn
  <2>9. CASE DiscardsNext(t)
    BY <1>t, <2>9, MsgsRange, TurnsAssumption DEF TurnTypes, SlotTypes, Places, DiscardsNext,
       Dequeue, At, Goes, queue, running, turn
  <2>10. CASE NothingNext(t)
    BY <1>t, <2>10, MsgsRange, TurnsAssumption DEF TurnTypes, SlotTypes, Places, NothingNext, At,
       Goes, queue, running, turn
  <2>11. CASE RunsNext(t)
    BY <1>t, <2>11, MsgsRange, TurnsAssumption, SMTT(60) DEF TurnTypes, SlotTypes, Places,
       TakingInv, RunsNext, At, Goes, queue, running, turn
  <2>12. CASE NextUnusable(t)
    BY <1>t, <2>12, MsgsRange, TurnsAssumption DEF TurnTypes, SlotTypes, Places, NextUnusable, At,
       Goes, queue, running, turn
  <2>13. CASE Unwind(t)
    BY <1>t, <2>13, MsgsRange, TurnsAssumption DEF TurnTypes, SlotTypes, Places, Unwind, At, Goes,
       Current, queue, running, turn
  <2>14. CASE Closes(t)
    BY <1>t, <2>14, MsgsRange, TurnsAssumption DEF TurnTypes, SlotTypes, Places, Closes, Release,
       GoalContinues, At, Goes, Current, queue, running, turn
  <2>15. CASE HandsOver(t)
    BY <2>15, DeliversTypes DEF HandsOver
  <2>16. CASE TurnOver(t)
    BY <1>t, <2>16, MsgsRange, TurnsAreTypes DEF SlotTypes, TurnOver
  <2>17. CASE FindsBusy(t)
    BY <2>17, MeetsBusyTypes DEF FindsBusy
  <2> QED
    BY <2>1, <2>2, <2>3, <2>4, <2>5, <2>6, <2>7, <2>8, <2>9, <2>10, <2>11, <2>12, <2>13, <2>14,
       <2>15, <2>16, <2>17 DEF TurnStep
<1>10. CASE UNCHANGED vars
  BY <1>t, <1>10 DEF TurnTypes, vars, queue, running, turn
<1>11. CASE CommandStarts
  BY <1>11, CommandStartsTypes
<1>12. CASE LateFollowUp
  BY <1>12, LateFollowUpTypes
<1>13. CASE RelayStep
  BY <1>13, RelayTypes
<1> QED
  BY <1>1, <1>2, <1>3, <1>4, <1>5, <1>6, <1>7, <1>8, <1>9, <1>10,
     <1>11, <1>12, <1>13 DEF Next, Environment

\* The steps keep the types of the slot.
LEMMA SlotTypesStep == TypeOK /\ TakingInv /\ [Next]_vars => SlotTypes'
<1> SUFFICES ASSUME TypeOK, TakingInv, [Next]_vars PROVE SlotTypes'
  OBVIOUS
<1>t. QueueTypes /\ TurnTypes /\ SlotTypes
  BY TypeParts
<1>1. CASE TurnStarts
  <2>1. New \in 0 .. MaxMsgs /\ 0 \in 0 .. MaxMsgs
    BY <1>t, <1>1, AppendTypes, MsgsRange DEF TurnStarts, Fates
  <2>2. gen \in Nat /\ gen + 1 \in Nat
    BY <1>t DEF SlotTypes
  <2>3. /\ holder' \in {holder, New} /\ guard' \in {guard, New, 0} /\ gen' \in {gen, gen + 1}
        /\ agentIn' \in {agentIn, FALSE}
    BY <1>1 DEF TurnStarts, Claim, running
  <2>4. upset' \subseteq Upsets /\ UNCHANGED <<draining, stops>>
    BY <1>t, <1>1 DEF TurnStarts, SlotTypes, Upsets
  <2>5. New \in 0 .. Relay /\ 0 \in 0 .. Relay
    BY <2>1, MsgsRange
  <2> QED
    BY <1>t, <2>1, <2>2, <2>3, <2>4, <2>5 DEF SlotTypes
<1>2. CASE FollowUp
  BY <1>t, <1>2, MsgsRange DEF SlotTypes, Upsets, FollowUp, Interrupts, Interruptible, queue,
     running, turn
<1>3. CASE FollowUpRefused
  BY <1>t, <1>3, MsgsRange DEF SlotTypes, Upsets, FollowUpRefused, queue, running, turn
<1>4. CASE QueueCommand
  BY <1>t, <1>4, MsgsRange DEF SlotTypes, Upsets, QueueCommand, Task, Passed, queue, running, turn
<1>5. CASE SteerTooEarly
  BY <1>t, <1>5, MsgsRange DEF SlotTypes, Upsets, SteerTooEarly, Task, Passed, queue, running, turn
<1>6. CASE Stop
  <2>1. upset' \subseteq Upsets
    BY <1>t, <1>6 DEF SlotTypes, Upsets, Stop
  <2>2. gen' \in Nat /\ stops' \in Nat
    BY <1>t, <1>6 DEF SlotTypes, Stop
  <2>3. holder' = 0 /\ agentIn' = FALSE /\ guard' \in {guard, 0} /\ draining' = draining
    BY <1>6 DEF Stop
  <2> QED
    BY <1>t, <2>1, <2>2, <2>3, MsgsRange DEF SlotTypes
<1>7. CASE Evict
  <2>1. upset' \subseteq Upsets
    BY <1>t, <1>7 DEF SlotTypes, Upsets, Evict
  <2>2. gen' \in Nat /\ stops' \in Nat
    BY <1>t, <1>7 DEF SlotTypes, Evict
  <2>3. holder' = 0 /\ agentIn' = FALSE /\ guard' \in {guard, Relay} /\ draining' = draining
    BY <1>7 DEF Evict, Task
  <2> QED
    BY <1>t, <2>1, <2>2, <2>3, MsgsRange DEF SlotTypes
<1>8. CASE BeginDrain
  BY <1>t, <1>8, MsgsRange DEF SlotTypes, Upsets, BeginDrain, queue, running, turn
<1>9. CASE \E t \in Msgs : TurnStep(t)
  <2> SUFFICES ASSUME NEW t \in Msgs, TurnStep(t) PROVE SlotTypes'
    BY <1>9
  <2>1. CASE Setup(t)
    BY <1>t, <2>1, MsgsRange DEF SlotTypes, Upsets, Setup, At, Goes, queue, running, turn
  <2>2. CASE SetupEnds(t)
    BY <1>t, <2>2, MsgsRange DEF SlotTypes, Upsets, SetupEnds, At, Goes, queue, running, turn
  <2>3. CASE Promote(t)
    BY <1>t, <2>3, MsgsRange DEF SlotTypes, Upsets, Promote, At, Goes, Current, queue, running, turn
  <2>4. CASE AgentEnds(t)
    BY <1>t, <2>4, MsgsRange DEF SlotTypes, Upsets, AgentEnds, At, Goes, queue, running, turn
  <2>5. CASE AgentTimesOut(t)
    BY <1>t, <2>5, MsgsRange DEF SlotTypes, Upsets, AgentTimesOut, At, Goes, queue, running, turn
  <2>6. CASE TakesNext(t)
    BY <1>t, <2>6, MsgsRange DEF SlotTypes, Upsets, TakesNext, Dequeue, Stolen, At, Goes, Current,
       queue, running, turn
  <2>7. CASE TakesInterruptText(t)
    BY <1>t, <2>7, MsgsRange DEF SlotTypes, Upsets, TakesInterruptText, At, Goes, queue, running, turn
  <2>8. CASE PutsBack(t)
    BY <1>t, <2>8, MsgsRange DEF SlotTypes, Upsets, PutsBack, Stolen, At, Goes, Current, queue,
       running, turn
  <2>9. CASE DiscardsNext(t)
    BY <1>t, <2>9, MsgsRange DEF SlotTypes, Upsets, DiscardsNext, Dequeue, At, Goes, queue,
       running, turn
  <2>10. CASE NothingNext(t)
    BY <1>t, <2>10, MsgsRange DEF SlotTypes, Upsets, NothingNext, At, Goes, queue, running, turn
  <2>11. CASE RunsNext(t)
    BY <1>t, <2>11, MsgsRange DEF SlotTypes, Upsets, RunsNext, At, Goes, queue, running, turn
  <2>12. CASE NextUnusable(t)
    BY <1>t, <2>12, MsgsRange DEF SlotTypes, Upsets, NextUnusable, At, Goes, queue, running, turn
  <2>13. CASE Unwind(t)
    BY <1>t, <2>13, MsgsRange DEF SlotTypes, Upsets, Unwind, At, Goes, Current, queue, running, turn
  <2>14. CASE Closes(t)
    BY <1>t, <2>14, MsgsRange DEF SlotTypes, Upsets, Closes, Release, GoalContinues, At, Goes,
       Current, queue, running, turn
  <2>15. CASE HandsOver(t)
    BY <2>15, DeliversTypes DEF HandsOver
  <2>16. CASE TurnOver(t)
    BY <1>t, <2>16, MsgsRange DEF SlotTypes, Upsets, TurnOver, At, Goes, queue, running, turn
  <2>17. CASE FindsBusy(t)
    BY <2>17, MeetsBusyTypes DEF FindsBusy
  <2> QED
    BY <2>1, <2>2, <2>3, <2>4, <2>5, <2>6, <2>7, <2>8, <2>9, <2>10, <2>11, <2>12, <2>13, <2>14,
       <2>15, <2>16, <2>17 DEF TurnStep
<1>10. CASE UNCHANGED vars
  BY <1>t, <1>10 DEF SlotTypes, vars, queue, running, turn
<1>11. CASE CommandStarts
  BY <1>11, CommandStartsTypes
<1>12. CASE LateFollowUp
  BY <1>12, LateFollowUpTypes
<1>13. CASE RelayStep
  BY <1>13, RelayTypes
<1> QED
  BY <1>1, <1>2, <1>3, <1>4, <1>5, <1>6, <1>7, <1>8, <1>9, <1>10,
     <1>11, <1>12, <1>13 DEF Next, Environment

\* What a turn has taken stays a message until it runs.
LEMMA TakingStep == TypeOK /\ TakingInv /\ [Next]_vars => TakingInv'
<1> SUFFICES ASSUME TypeOK, TakingInv, [Next]_vars PROVE TakingInv'
  OBVIOUS
<1>t. QueueTypes /\ TurnTypes
  BY TypeParts
<1>1. CASE TurnStarts
  BY <1>t, <1>1 DEF TakingInv, TurnTypes, TurnStarts, Claim, TurnsAre, After, New, Arrives, queue,
     running, turn
<1>2. CASE FollowUp
  BY <1>t, <1>2 DEF TakingInv, TurnTypes, FollowUp, New, Arrives, Interrupts, Interruptible, queue,
     running, turn
<1>3. CASE FollowUpRefused
  BY <1>t, <1>3 DEF TakingInv, TurnTypes, FollowUpRefused, New, Arrives, queue, running, turn
<1>4. CASE QueueCommand
  BY <1>t, <1>4 DEF TakingInv, TurnTypes, QueueCommand, New, Arrives, queue, running, turn
<1>5. CASE SteerTooEarly
  BY <1>t, <1>5 DEF TakingInv, TurnTypes, SteerTooEarly, New, Arrives, queue, running, turn
<1>6. CASE Stop
  BY <1>t, <1>6 DEF TakingInv, TurnTypes, Stop, Interrupts, Interruptible, queue, running, turn
<1>7. CASE Evict
  BY <1>t, <1>7 DEF TakingInv, TurnTypes, Evict, queue, running, turn
<1>8. CASE BeginDrain
  BY <1>t, <1>8 DEF TakingInv, TurnTypes, BeginDrain, queue, running, turn
<1>9. CASE \E t \in Msgs : TurnStep(t)
  <2> SUFFICES ASSUME NEW t \in Msgs, TurnStep(t) PROVE TakingInv'
    BY <1>9
  <2>1. CASE Setup(t)
    BY <1>t, <2>1 DEF TakingInv, TurnTypes, Setup, At, Goes, queue, running, turn
  <2>2. CASE SetupEnds(t)
    BY <1>t, <2>2 DEF TakingInv, TurnTypes, SetupEnds, At, Goes, queue, running, turn
  <2>3. CASE Promote(t)
    BY <1>t, <2>3 DEF TakingInv, TurnTypes, Promote, At, Goes, Current, queue, running, turn
  <2>4. CASE AgentEnds(t)
    BY <1>t, <2>4 DEF TakingInv, TurnTypes, AgentEnds, At, Goes, queue, running, turn
  <2>5. CASE AgentTimesOut(t)
    BY <1>t, <2>5 DEF TakingInv, TurnTypes, AgentTimesOut, At, Goes, queue, running, turn
  <2>6. CASE TakesNext(t)
    BY <1>t, <2>6, NextTypes, MsgsRange DEF TakingInv, TurnTypes, TakesNext, Dequeue, Stolen, At,
       Goes, Current, queue, running, turn
  <2>7. CASE TakesInterruptText(t)
    BY <1>t, <2>7 DEF TakingInv, TurnTypes, TakesInterruptText, At, Goes, queue, running, turn
  <2>8. CASE PutsBack(t)
    BY <1>t, <2>8 DEF TakingInv, TurnTypes, PutsBack, Stolen, At, Goes, Current, queue, running, turn
  <2>9. CASE DiscardsNext(t)
    BY <1>t, <2>9 DEF TakingInv, TurnTypes, DiscardsNext, Dequeue, At, Goes, queue, running, turn
  <2>10. CASE NothingNext(t)
    BY <1>t, <2>10 DEF TakingInv, TurnTypes, NothingNext, At, Goes, queue, running, turn
  <2>11. CASE RunsNext(t)
    BY <1>t, <2>11 DEF TakingInv, TurnTypes, RunsNext, At, Goes, queue, running, turn
  <2>12. CASE NextUnusable(t)
    BY <1>t, <2>12 DEF TakingInv, TurnTypes, NextUnusable, At, Goes, queue, running, turn
  <2>13. CASE Unwind(t)
    BY <1>t, <2>13 DEF TakingInv, TurnTypes, Unwind, At, Goes, Current, queue, running, turn
  <2>14. CASE Closes(t)
    BY <1>t, <2>14 DEF TakingInv, TurnTypes, Closes, Release, GoalContinues, New, Arrives, At,
       Goes, Current, queue, running, turn
  <2>15. CASE HandsOver(t)
    <3>1. TurnsAre(t, slotPend) \/ TurnsAre(t, 0)
      BY <2>15 DEF HandsOver, Delivers
    <3>2. \A u \in Msgs : pc'[u] = "taking" =>
              pc[u] = "taking" /\ cur'[u] = cur[u] /\ depth'[u] = depth[u]
      BY <3>1 DEF TurnsAre, After
    <3> QED
      BY <3>2 DEF TakingInv
  <2>16. CASE TurnOver(t)
    BY <1>t, <2>16 DEF TakingInv, TurnTypes, TurnOver, TurnsAre, After, At, Goes, queue, running, turn
  <2>17. CASE FindsBusy(t)
    BY <2>17 DEF TakingInv, FindsBusy, MeetsBusy
  <2> QED
    BY <2>1, <2>2, <2>3, <2>4, <2>5, <2>6, <2>7, <2>8, <2>9, <2>10, <2>11, <2>12, <2>13, <2>14,
       <2>15, <2>16, <2>17 DEF TurnStep
<1>10. CASE UNCHANGED vars
  BY <1>10 DEF TakingInv, vars, turn
<1>11. CASE CommandStarts
  <2>1. TurnsAre(0, New) \/ UNCHANGED turn
    BY <1>11 DEF CommandStarts
  <2>2. \A u \in Msgs : pc'[u] = "taking" =>
            pc[u] = "taking" /\ cur'[u] = cur[u] /\ depth'[u] = depth[u]
    BY <2>1 DEF TurnsAre, After, turn
  <2> QED
    BY <2>2 DEF TakingInv
<1>12. CASE LateFollowUp
  BY <1>12 DEF TakingInv, LateFollowUp
<1>13. CASE RelayStep
  <2>1. \/ TurnsAre(Relay, slotPend) \/ TurnsAre(Relay, 0)
        \/ UNCHANGED <<pc, cur, depth>>
    BY <1>13 DEF RelayStep, Delivers, MeetsBusy, RelayOver, turn
  <2>2. \A u \in Msgs : pc'[u] = "taking" =>
            pc[u] = "taking" /\ cur'[u] = cur[u] /\ depth'[u] = depth[u]
    BY <2>1 DEF TurnsAre, After
  <2> QED
    BY <2>2 DEF TakingInv
<1> QED
  BY <1>1, <1>2, <1>3, <1>4, <1>5, <1>6, <1>7, <1>8, <1>9, <1>10,
     <1>11, <1>12, <1>13 DEF Next, Environment

\* Every variable stays within its type.
THEOREM TypeCorrect == Spec => []TypeOK
<1>1. TypeOK /\ TakingInv /\ [Next]_vars => TypeOK' /\ TakingInv'
  <2> SUFFICES ASSUME TypeOK, TakingInv, [Next]_vars PROVE QueueTypes' /\ TurnTypes' /\ SlotTypes' /\ TakingInv'
    BY DEF TypeOK, QueueTypes, TurnTypes, SlotTypes
  <2> QED
    BY QueueTypesStep, TurnTypesStep, SlotTypesStep, TakingStep
<1>2. Init => TakingInv
  BY DEF Init, TakingInv
<1> QED
  BY TypeInit, <1>1, <1>2, PTL DEF Spec

-----------------------------------------------------------------------------
\* A turn ends, and the next, if there is one, claims the session.
LEMMA SlotTurnsAre ==
  ASSUME TypeOK, SlotInv, NEW t, NEW m \in 0 .. MaxMsgs, TurnsAre(t, m), upset \subseteq upset',
         t \in Msgs => pc[t] = "replying",
         \/ m # 0 /\ holder' = m /\ gen' = gen + 1
         \/ m = 0 /\ holder' = holder /\ gen' = gen
  PROVE  SlotInv'
<1>t. TurnTypes /\ SlotTypes
  BY TypeParts
<1>0. \A u \in Msgs : u # 0
  BY DEF Msgs
<1>1. \A u \in Msgs :
          /\ pc'[u] = IF u = m THEN "setup" ELSE IF u = t THEN "over" ELSE pc[u]
          /\ genOf'[u] = IF u = m THEN gen + 1 ELSE IF u = t THEN 0 ELSE genOf[u]
  BY TurnsAreFacts
<1>2. gen \in Nat /\ \A u \in Msgs : genOf[u] \in Nat
  BY <1>t DEF TurnTypes, SlotTypes
<1>3. CASE m # 0 /\ holder' = m /\ gen' = gen + 1
  <2>1. GenerationsInv'
    BY <1>1, <1>2, <1>3 DEF SlotInv, GenerationsInv, Alive
  <2>2. WorkerHoldsSlot'
    BY <1>1, <1>2, <1>3 DEF SlotInv, GenerationsInv, WorkerHoldsSlot, Without, Current
  <2> QED
    BY <2>1, <2>2 DEF SlotInv
<1>4. CASE m = 0 /\ holder' = holder /\ gen' = gen
  <2>1. GenerationsInv'
    BY <1>0, <1>1, <1>2, <1>4 DEF SlotInv, GenerationsInv, Alive
  <2>2. WorkerHoldsSlot'
    BY <1>0, <1>1, <1>2, <1>4 DEF SlotInv, WorkerHoldsSlot, Without, Current
  <2> QED
    BY <2>1, <2>2 DEF SlotInv
<1> QED
  BY <1>3, <1>4

\* The slot is handed over, by a turn or by a task of the adapter without one.
LEMMA SlotDelivers ==
  ASSUME TypeOK, SlotInv, NEW t, Delivers(t), t \in Msgs => pc[t] = "replying"
  PROVE  SlotInv'
<1>1. slotPend \in 0 .. MaxMsgs /\ slotPend # 0 /\ 0 \in 0 .. MaxMsgs
  BY TypeParts, MsgsRange DEF QueueTypes, Delivers
<1>2. upset \subseteq upset'
  BY DEF Delivers
<1>3. CASE Claim(slotPend) /\ TurnsAre(t, slotPend)
  BY <1>1, <1>2, <1>3, SlotTurnsAre DEF Claim
<1>4. CASE UNCHANGED <<running, gen>> /\ TurnsAre(t, 0)
  <2>1. holder' = holder /\ gen' = gen
    BY <1>4 DEF running
  <2> QED
    BY <1>1, <1>2, <1>4, <2>1, SlotTurnsAre
<1> QED
  BY <1>3, <1>4 DEF Delivers

\* Generations, places and the slot stay as they are.
LEMMA SlotStays ==
  ASSUME SlotInv, UNCHANGED <<pc, genOf, gen, holder>>, upset \subseteq upset'
  PROVE  SlotInv'
  BY DEF SlotInv, GenerationsInv, WorkerHoldsSlot, Without, Alive, Current

\* The steps keep generations apart and the slot with the turn at work.
LEMMA SlotStep == TypeOK /\ SlotInv /\ [Next]_vars => SlotInv'
<1> SUFFICES ASSUME TypeOK, SlotInv, [Next]_vars PROVE SlotInv'
  OBVIOUS
<1>t. TurnTypes /\ SlotTypes /\ QueueTypes
  BY TypeParts
<1> USE TurnsAssumption
<1>1. CASE TurnStarts
  <2>1. CASE Claim(New) /\ TurnsAre(0, New)
    <3>1. New \in 0 .. MaxMsgs /\ New # 0 /\ 0 \notin Msgs
      BY <1>t, <1>1, AppendTypes, MsgsRange DEF TurnStarts, Fates, Msgs
    <3>2. upset' = upset /\ holder' = New /\ gen' = gen + 1
      BY <1>1, <2>1 DEF TurnStarts, Claim
    <3> QED
      BY <2>1, <3>1, <3>2, SlotTurnsAre
  <2>2. CASE UNCHANGED <<running, gen, turn, upset>>
    BY <2>2, SlotStays DEF running, turn
  <2> QED
    BY <1>1, <2>1, <2>2 DEF TurnStarts
<1>2. CASE FollowUp
  BY <1>t, <1>2 DEF SlotInv, GenerationsInv, WorkerHoldsSlot, Without, Alive, Current, TurnTypes,
     SlotTypes, FollowUp, New, Arrives, Interrupts, Interruptible, queue, running, turn
<1>3. CASE FollowUpRefused
  BY <1>t, <1>3 DEF SlotInv, GenerationsInv, WorkerHoldsSlot, Without, Alive, Current, TurnTypes,
     SlotTypes, FollowUpRefused, New, Arrives, queue, running, turn
<1>4. CASE QueueCommand
  BY <1>t, <1>4 DEF SlotInv, GenerationsInv, WorkerHoldsSlot, Without, Alive, Current, TurnTypes,
     SlotTypes, QueueCommand, New, Arrives, queue, running, turn
<1>5. CASE SteerTooEarly
  BY <1>t, <1>5 DEF SlotInv, GenerationsInv, WorkerHoldsSlot, Without, Alive, Current, TurnTypes,
     SlotTypes, SteerTooEarly, New, Arrives, queue, running, turn
<1>6. CASE Stop
  BY <1>t, <1>6 DEF SlotInv, GenerationsInv, WorkerHoldsSlot, Without, Alive, Current, TurnTypes,
     SlotTypes, Stop, Interrupts, Interruptible, queue, running, turn
<1>7. CASE Evict
  BY <1>t, <1>7 DEF SlotInv, GenerationsInv, WorkerHoldsSlot, Without, Alive, Current, TurnTypes,
     SlotTypes, Evict, queue, running, turn
<1>8. CASE BeginDrain
  BY <1>t, <1>8 DEF SlotInv, GenerationsInv, WorkerHoldsSlot, Without, Alive, Current, TurnTypes,
     SlotTypes, BeginDrain, queue, running, turn
<1>9. CASE \E t \in Msgs : TurnStep(t)
  <2> SUFFICES ASSUME NEW t \in Msgs, TurnStep(t) PROVE SlotInv'
    BY <1>9
  <2>1. CASE Setup(t)
    BY <1>t, <2>1 DEF SlotInv, GenerationsInv, WorkerHoldsSlot, Without, Alive, Current, TurnTypes,
       SlotTypes, Setup, At, Goes, queue, running, turn
  <2>2. CASE SetupEnds(t)
    BY <1>t, <2>2 DEF SlotInv, GenerationsInv, WorkerHoldsSlot, Without, Alive, Current, TurnTypes,
       SlotTypes, SetupEnds, At, Goes, queue, running, turn
  <2>3. CASE Promote(t)
    BY <1>t, <2>3 DEF SlotInv, GenerationsInv, WorkerHoldsSlot, Without, Alive, Current, TurnTypes,
       SlotTypes, Promote, At, Goes, Current, queue, running, turn
  <2>4. CASE AgentEnds(t)
    BY <1>t, <2>4 DEF SlotInv, GenerationsInv, WorkerHoldsSlot, Without, Alive, Current, TurnTypes,
       SlotTypes, AgentEnds, At, Goes, queue, running, turn
  <2>5. CASE AgentTimesOut(t)
    BY <1>t, <2>5 DEF SlotInv, GenerationsInv, WorkerHoldsSlot, Without, Alive, Current, TurnTypes,
       SlotTypes, AgentTimesOut, At, Goes, queue, running, turn
  <2>6. CASE TakesNext(t)
    BY <1>t, <2>6 DEF SlotInv, GenerationsInv, WorkerHoldsSlot, Without, Alive, Current, TurnTypes,
       SlotTypes, TakesNext, Dequeue, Stolen, At, Goes, Current, queue, running, turn
  <2>7. CASE TakesInterruptText(t)
    BY <1>t, <2>7 DEF SlotInv, GenerationsInv, WorkerHoldsSlot, Without, Alive, Current, TurnTypes,
       SlotTypes, TakesInterruptText, At, Goes, queue, running, turn
  <2>8. CASE PutsBack(t)
    BY <1>t, <2>8 DEF SlotInv, GenerationsInv, WorkerHoldsSlot, Without, Alive, Current, TurnTypes,
       SlotTypes, PutsBack, Stolen, At, Goes, Current, queue, running, turn
  <2>9. CASE DiscardsNext(t)
    BY <1>t, <2>9 DEF SlotInv, GenerationsInv, WorkerHoldsSlot, Without, Alive, Current, TurnTypes,
       SlotTypes, DiscardsNext, Dequeue, At, Goes, queue, running, turn
  <2>10. CASE NothingNext(t)
    BY <1>t, <2>10 DEF SlotInv, GenerationsInv, WorkerHoldsSlot, Without, Alive, Current,
       TurnTypes, SlotTypes, NothingNext, At, Goes, queue, running, turn
  <2>11. CASE RunsNext(t)
    BY <1>t, <2>11 DEF SlotInv, GenerationsInv, WorkerHoldsSlot, Without, Alive, Current,
       TurnTypes, SlotTypes, RunsNext, At, Goes, queue, running, turn
  <2>12. CASE NextUnusable(t)
    BY <1>t, <2>12 DEF SlotInv, GenerationsInv, WorkerHoldsSlot, Without, Alive, Current,
       TurnTypes, SlotTypes, NextUnusable, At, Goes, queue, running, turn
  <2>13. CASE Unwind(t)
    BY <1>t, <2>13 DEF SlotInv, GenerationsInv, WorkerHoldsSlot, Without, Alive, Current,
       TurnTypes, SlotTypes, Unwind, At, Goes, Current, queue, running, turn
  <2>14. CASE Closes(t)
    BY <1>t, <2>14 DEF SlotInv, GenerationsInv, WorkerHoldsSlot, Without, Alive, Current,
       TurnTypes, SlotTypes, Closes, Release, GoalContinues, New, Arrives, At, Goes, Current,
       queue, running, turn
  <2>15. CASE HandsOver(t)
    BY <2>15, SlotDelivers DEF HandsOver, At
  <2>16. CASE TurnOver(t)
    <3>1. TurnsAre(t, 0) /\ 0 \in 0 .. MaxMsgs /\ pc[t] = "replying"
      BY <2>16, MsgsRange DEF TurnOver, At
    <3>2. upset' = upset /\ holder' = holder /\ gen' = gen
      BY <2>16 DEF TurnOver, running
    <3> QED
      BY <3>1, <3>2, SlotTurnsAre
  <2>17. CASE FindsBusy(t)
    BY <2>17, SlotStays DEF FindsBusy, MeetsBusy, running
  <2> QED
    BY <2>1, <2>2, <2>3, <2>4, <2>5, <2>6, <2>7, <2>8, <2>9, <2>10, <2>11, <2>12, <2>13, <2>14,
       <2>15, <2>16, <2>17 DEF TurnStep
<1>10. CASE UNCHANGED vars
  BY <1>10 DEF SlotInv, GenerationsInv, WorkerHoldsSlot, Without, Alive, Current, TurnTypes,
     SlotTypes, vars, queue, running, turn
<1>11. CASE CommandStarts
  <2>1. CASE Claim(New) /\ TurnsAre(0, New)
    <3>1. New \in 0 .. MaxMsgs /\ New # 0 /\ 0 \notin Msgs
      BY <1>t, <1>11, AppendTypes, MsgsRange DEF CommandStarts, Fates, Msgs
    <3>2. upset \subseteq upset' /\ holder' = New /\ gen' = gen + 1
      BY <1>11, <2>1 DEF CommandStarts, Claim
    <3> QED
      BY <2>1, <3>1, <3>2, SlotTurnsAre
  <2>2. CASE UNCHANGED <<running, gen, turn, upset>>
    BY <2>2, SlotStays DEF running, turn
  <2> QED
    BY <1>11, <2>1, <2>2 DEF CommandStarts
<1>12. CASE LateFollowUp
  BY <1>12, SlotStays DEF LateFollowUp, running
<1>13. CASE RelayStep
  <2>1. CASE Delivers(Relay)
    BY <2>1, SlotDelivers, MsgsRange
  <2>2. CASE MeetsBusy(Relay)
    BY <2>2, SlotStays DEF MeetsBusy, running
  <2>3. CASE RelayOver
    BY <2>3, SlotStays DEF RelayOver, running, turn
  <2> QED
    BY <1>13, <2>1, <2>2, <2>3 DEF RelayStep
<1> QED
  BY <1>1, <1>2, <1>3, <1>4, <1>5, <1>6, <1>7, <1>8, <1>9, <1>10,
     <1>11, <1>12, <1>13 DEF Next, Environment

\* A turn of the current generation that is at work holds the slot of its
\* session (until an old turn's unconditional release takes it away).
THEOREM WorkerKeepsSlot == Spec => []WorkerHoldsSlot
<1>1. Init => SlotInv
  BY DEF Init, SlotInv, GenerationsInv, WorkerHoldsSlot, Alive, Without
<1>2. SlotInv => WorkerHoldsSlot
  BY DEF SlotInv
<1> QED
  BY <1>1, <1>2, SlotStep, TypeCorrect, PTL DEF Spec

-----------------------------------------------------------------------------
(* Every message is accounted for, and messages run in the order they arrived.

   The queue is spoken of as a set: Queued is what the slot and the overflow
   hold, Behind what the overflow holds, Done what ran.  The inductive invariant
   AccountInv has a part for each place a message can be in (the queue, a turn,
   the history), one for what holds while no message was stolen, one for what
   holds while the session was not stopped and no command passed by, and one for
   the order. *)

\* What waits in the overflow, what waits at all, the turns that hold a message
\* no agent has got yet, and what ran.
Behind == {overflow[i] : i \in DOMAIN overflow}
Queued == Behind \union ({slotPend} \ {0})
Holds(t) == pc[t] \in {"setup", "taking"}
Done == {ran[i] : i \in DOMAIN ran}
\* No message ran twice; what ran is in the order of arrival.
RanOnce == \A i, j \in DOMAIN ran : ran[i] = ran[j] => i = j
RanInOrder == \A i, j \in DOMAIN ran : i < j => ran[i] < ran[j]

\* No message waits in two places.
Distinct ==
    /\ slotPend \notin Behind
    /\ \A i, j \in DOMAIN overflow : overflow[i] = overflow[j] => i = j

\* The domains of the sequences.
LEMMA FateIs ==
  ASSUME QueueTypes
  PROVE  /\ DOMAIN fate = 1 .. Len(fate) /\ DOMAIN fate \subseteq Msgs
         /\ \A m \in DOMAIN fate : fate[m] \in Fates
         /\ DOMAIN overflow = 1 .. Len(overflow) /\ Behind \subseteq Msgs
         /\ DOMAIN ran = 1 .. Len(ran)
<1>1. DOMAIN fate = 1 .. Len(fate) /\ DOMAIN fate \subseteq Msgs
  BY TurnsAssumption DEF QueueTypes, Msgs
<1>2. \A m \in DOMAIN fate : fate[m] \in Fates
  BY DEF QueueTypes
<1>3. DOMAIN overflow = 1 .. Len(overflow) /\ DOMAIN ran = 1 .. Len(ran)
  BY DEF QueueTypes
<1>4. Behind \subseteq Msgs
  BY DEF QueueTypes, Behind
<1> QED
  BY <1>1, <1>2, <1>3, <1>4

\* The message that arrives is younger than all others.
LEMMA Arrival ==
  ASSUME QueueTypes, Arrives, NEW x, NEW f \in Seq(Fates), Len(f) = Len(fate)
  PROVE  /\ DOMAIN Append(f, x) = DOMAIN fate \union {New}
         /\ New \in Msgs \ DOMAIN fate /\ New # 0
         /\ \A m \in DOMAIN fate : m < New /\ Append(f, x)[m] = f[m]
         /\ Append(f, x)[New] = x
<1>1. Len(fate) \in Nat /\ Len(Append(f, x)) = Len(fate) + 1
  BY DEF QueueTypes
<1>2. DOMAIN Append(f, x) = 1 .. Len(fate) + 1 /\ DOMAIN fate = 1 .. Len(fate)
  BY <1>1 DEF QueueTypes
<1>3. \A m \in DOMAIN fate : Append(f, x)[m] = f[m]
  BY <1>1, <1>2
<1> QED
  BY <1>1, <1>2, <1>3, TurnsAssumption DEF QueueTypes, Arrives, New, Msgs

\* The same, where nothing else changes.
LEMMA Arrived ==
  ASSUME QueueTypes, Arrives, NEW x, fate' = Append(fate, x)
  PROVE  /\ New \in Msgs \ DOMAIN fate /\ DOMAIN fate' = DOMAIN fate \union {New}
         /\ \A m \in DOMAIN fate : m < New /\ fate'[m] = fate[m]
         /\ fate'[New] = x
<1>1. fate \in Seq(Fates) /\ Len(fate) = Len(fate)
  BY DEF QueueTypes
<1> QED
  BY <1>1, Arrival

\* A message that joins the queue is the only new one in it.
LEMMA Joins ==
  ASSUME QueueTypes, Distinct, NEW m \in Msgs \ Queued, EnqueueFifo(m)
  PROVE  Queued' = Queued \union {m} /\ Distinct'
<1>1. m # 0
  BY DEF Msgs
<1>2. CASE slotPend = 0 /\ slotPend' = m /\ UNCHANGED overflow
  BY <1>1, <1>2 DEF Queued, Behind, Distinct
<1>3. CASE slotPend # 0 /\ overflow' = Append(overflow, m) /\ UNCHANGED slotPend
  <2>1. /\ DOMAIN overflow' = DOMAIN overflow \union {Len(overflow) + 1}
        /\ Len(overflow) + 1 \notin DOMAIN overflow
        /\ overflow'[Len(overflow) + 1] = m
        /\ \A i \in DOMAIN overflow : overflow'[i] = overflow[i]
    BY <1>3 DEF QueueTypes
  <2> HIDE <1>3
  <2>2. Behind' = Behind \union {m} /\ slotPend' = slotPend
    BY <1>3, <2>1 DEF Behind
  <2>3. Distinct'
    BY <2>1, <2>2, <1>3 DEF Distinct, Queued, Behind
  <2> QED
    BY <2>2, <2>3, <1>3 DEF Queued
<1> QED
  BY <1>2, <1>3 DEF EnqueueFifo

\* What the tail of the overflow holds.
LEMMA TailFacts ==
  ASSUME QueueTypes, Distinct, overflow # <<>>
  PROVE  /\ DOMAIN Tail(overflow) = 1 .. Len(overflow) - 1
         /\ \A i \in DOMAIN Tail(overflow) : i + 1 \in DOMAIN overflow /\ Tail(overflow)[i] = overflow[i + 1]
         /\ Head(overflow) = overflow[1] /\ 1 \in DOMAIN overflow
         /\ {Tail(overflow)[i] : i \in DOMAIN Tail(overflow)} = Behind \ {Head(overflow)}
         /\ \A i, j \in DOMAIN Tail(overflow) : Tail(overflow)[i] = Tail(overflow)[j] => i = j
         /\ Head(overflow) \in Msgs
<1>1. /\ DOMAIN Tail(overflow) = 1 .. Len(overflow) - 1
      /\ Head(overflow) = overflow[1] /\ 1 \in DOMAIN overflow
      /\ DOMAIN overflow = 1 .. Len(overflow) /\ Len(overflow) \in Nat
      /\ Head(overflow) \in Msgs
  BY DEF QueueTypes
<1>2. \A i \in DOMAIN Tail(overflow) : i + 1 \in DOMAIN overflow /\ Tail(overflow)[i] = overflow[i + 1]
  BY <1>1 DEF QueueTypes
<1>3. ASSUME NEW i \in DOMAIN overflow, overflow[i] # Head(overflow)
      PROVE  i - 1 \in DOMAIN Tail(overflow) /\ Tail(overflow)[i - 1] = overflow[i]
  BY <1>1, <1>2, <1>3
<1>4. \A i \in DOMAIN Tail(overflow) : Tail(overflow)[i] # Head(overflow)
  BY <1>1, <1>2 DEF Distinct
<1>5. \A i, j \in DOMAIN Tail(overflow) : Tail(overflow)[i] = Tail(overflow)[j] => i = j
  BY <1>1, <1>2 DEF Distinct
<1>6. {Tail(overflow)[i] : i \in DOMAIN Tail(overflow)} = Behind \ {Head(overflow)}
  BY <1>1, <1>2, <1>3, <1>4 DEF Behind
<1> QED
  BY <1>1, <1>2, <1>5, <1>6

\* The head of the queue is in it; taken, it is out of it, and nothing else is.
LEMMA Taken ==
  ASSUME QueueTypes, Distinct, NextUp # 0
  PROVE  /\ NextUp \in Queued /\ Staged \in Queued \union {0}
         /\ Dequeue => Queued' = Queued \ {NextUp} /\ Distinct'
         /\ slotPend' = NextUp /\ overflow' = Rest =>
              Queued' = Queued \ {Staged} /\ Distinct'
<1>1. CASE slotPend # 0 /\ overflow = <<>>
  <2>1. NextUp = slotPend /\ Rest = <<>> /\ Staged = 0 /\ Behind = {}
    BY <1>1 DEF NextUp, Rest, Staged, Behind
  <2> QED
    BY <1>1, <2>1 DEF Dequeue, Queued, Behind, Distinct
<1>2. CASE overflow # <<>>
  <2> DEFINE tail == {Tail(overflow)[i] : i \in DOMAIN Tail(overflow)}
  <2>1. /\ tail = Behind \ {Head(overflow)} /\ Head(overflow) \in Msgs /\ Head(overflow) \in Behind
        /\ \A i, j \in DOMAIN Tail(overflow) : Tail(overflow)[i] = Tail(overflow)[j] => i = j
    BY <1>2, TailFacts DEF Behind
  <2>2. Rest = Tail(overflow) /\ Head(overflow) # 0
    BY <1>2, <2>1 DEF Rest, Msgs
  <2>3. overflow' = Rest => Behind' = tail
    BY <2>2 DEF Behind
  <2> HIDE DEF tail
  <2>4. CASE slotPend = 0
    <3>1. NextUp = Head(overflow) /\ Staged = 0
      BY <1>2, <2>4 DEF NextUp, Staged
    <3> QED
      BY <2>1, <2>2, <2>3, <2>4, <3>1 DEF Dequeue, Queued, Distinct
  <2>5. CASE slotPend # 0
    <3>1. NextUp = slotPend /\ Staged = Head(overflow)
      BY <1>2, <2>5 DEF NextUp, Staged
    <3> QED
      BY <2>1, <2>2, <2>3, <2>5, <3>1 DEF Dequeue, Queued, Distinct
  <2> QED
    BY <2>4, <2>5
<1> QED
  BY <1>1, <1>2 DEF NextUp

\* Nothing is up next when nothing waits.
LEMMA EmptyQueue ==
  ASSUME QueueTypes, Distinct
  PROVE  NextUp = 0 <=> Queued = {}
<1>1. CASE overflow = <<>>
  <2>1. Behind = {}
    BY <1>1 DEF Behind
  <2> QED
    BY <1>1, <2>1 DEF NextUp, Queued
<1>2. CASE overflow # <<>>
  <2>1. Head(overflow) \in Behind /\ Head(overflow) # 0
    BY <1>2, TailFacts DEF Behind, Msgs
  <2> QED
    BY <1>2, <2>1 DEF NextUp, Queued
<1> QED
  BY <1>1, <1>2

\* Another message, or none, in the slot.
LEMMA SlotSet ==
  ASSUME QueueTypes, Distinct, NEW m \in 0 .. MaxMsgs, m \notin Queued, 0 \notin Behind,
         slotPend' = m, overflow' = overflow
  PROVE  Queued' = (Queued \ {slotPend}) \union ({m} \ {0}) /\ Distinct'
  BY DEF Queued, Behind, Distinct

\* A run is appended to the history.
LEMMA Runs ==
  ASSUME QueueTypes, NEW m, ran' = Append(ran, m)
  PROVE  /\ Done' = Done \union {m}
         /\ RanOnce /\ m \notin Done => RanOnce'
         /\ RanInOrder /\ (\A d \in Done : d < m) => RanInOrder'
<1>1. /\ DOMAIN ran' = DOMAIN ran \union {Len(ran) + 1}
      /\ Len(ran) + 1 \notin DOMAIN ran /\ \A i \in DOMAIN ran : i < Len(ran) + 1
      /\ ran'[Len(ran) + 1] = m /\ \A i \in DOMAIN ran : ran'[i] = ran[i]
      /\ DOMAIN ran = 1 .. Len(ran) /\ Len(ran) \in Nat
  BY DEF QueueTypes
<1>2. \A i \in DOMAIN ran : ran[i] \in Done
  BY DEF Done
<1>3. Done' = Done \union {m}
  BY <1>1 DEF Done
<1>4. RanOnce /\ m \notin Done => RanOnce'
  BY <1>1, <1>2 DEF RanOnce
<1>5. RanInOrder /\ (\A d \in Done : d < m) => RanInOrder'
  BY <1>1, <1>2 DEF RanInOrder
<1> QED
  BY <1>3, <1>4, <1>5

\* Whoever is told that the queue is full finds something in it.
LEMMA FullQueue ==
  ASSUME QueueTypes, slotPend # 0 \/ QueueDepth >= Cap
  PROVE  Queued # {}
<1>1. CASE slotPend # 0
  BY <1>1 DEF Queued
<1>2. CASE slotPend = 0
  <2>1. Len(overflow) \in Nat \ {0}
    BY <1>2, TurnsAssumption DEF QueueDepth, QueueTypes
  <2>2. overflow[1] \in Behind
    BY <2>1 DEF Behind, QueueTypes
  <2>3. overflow[1] # 0
    BY <2>2, FateIs DEF Msgs
  <2> QED
    BY <2>2, <2>3 DEF Queued
<1> QED
  BY <1>1, <1>2

\* The variables of the turns where turn t ends and message m opens one.
LEMMA TurnsAreAll ==
  ASSUME NEW t, NEW m, TurnsAre(t, m), NEW u \in Msgs
  PROVE  /\ u = m => pc'[u] = "setup" /\ genOf'[u] = gen + 1 /\ cur'[u] = m /\ asked'[u] = 0
         /\ u # m /\ u = t => pc'[u] = "over" /\ genOf'[u] = 0 /\ cur'[u] = 0 /\ asked'[u] = 0
         /\ u # m /\ u # t => /\ pc'[u] = pc[u] /\ genOf'[u] = genOf[u]
                             /\ cur'[u] = cur[u] /\ asked'[u] = asked[u]
  BY DEF TurnsAre, After

-----------------------------------------------------------------------------
\* A message waits when its fate says so, and only then.
QueueInv == Distinct /\ Queued = {m \in DOMAIN fate : fate[m] = "held"}

\* What turns hold are messages that arrived and do not wait.
HolderInv ==
    /\ \A t \in Msgs : pc[t] # "none" => t \in DOMAIN fate
    /\ \A t \in Msgs : asked[t] \in Msgs => asked[t] \in DOMAIN fate
    /\ \A t \in Msgs : pc[t] = "setup" => cur[t] = t
    /\ \A t \in Msgs : Holds(t) => cur[t] \in DOMAIN fate /\ fate[cur[t]] # "held"
    /\ \A m \in Queued : pc[m] = "none"

\* A message that was taken is held by a turn or ran.
TakenInv ==
    /\ \A m \in DOMAIN fate : fate[m] = "taken" => \E t \in Msgs : Holds(t) /\ cur[t] = m
    /\ Done \subseteq DOMAIN fate
    /\ \A m \in DOMAIN fate : fate[m] = "ran" => m \in Done

\* Unless a message was stolen, one turn holds it, and it runs once.
UniqueInv == Without({"stolen"}) =>
    /\ \A t, u \in Msgs : Holds(t) /\ Holds(u) /\ cur[t] = cur[u] => t = u
    /\ \A t \in Msgs : Holds(t) => fate[cur[t]] = "taken"
    /\ \A m \in Done : fate[m] = "ran"
    /\ RanOnce

\* Without a stop or a command that passed by there is one turn at a time, the
\* adapter's guard is its own, and whoever interrupted its agent left something
\* in the queue.
OneTurnInv == Without({"stop", "overtaken"}) =>
    /\ Without({"stolen"})
    /\ guard # Relay
    /\ \A t \in Msgs : Alive(t) => guard = t /\ Current(t)
    /\ \A t \in Msgs : pc[t] \in {"setup", "working", "ended"} /\ asked[t] \in Msgs => Queued # {}

\* What waits is in the order of arrival, and the slot is the oldest.
QueueOrdered ==
    /\ slotPend = 0 => overflow = <<>>
    /\ \A m \in Behind : slotPend < m
    /\ \A i, j \in DOMAIN overflow : i < j => overflow[i] < overflow[j]

\* What ran, what is held and what waits, from old to young.
OrderInv == Without({"stop", "overtaken", "overwritten", "handover"}) =>
    /\ QueueOrdered
    /\ guard = 0 => slotPend = 0
    /\ RanInOrder
    /\ \A d \in Done, m \in Queued : d < m
    /\ \A t \in Msgs : Holds(t) =>
          (\A d \in Done : d < cur[t]) /\ (\A m \in Queued : cur[t] < m)

\* The inductive invariant of the queue.
AccountInv == QueueInv /\ HolderInv /\ TakenInv /\ UniqueInv /\ OneTurnInv /\ OrderInv

\* A message younger than all that wait joins at the end.
LEMMA JoinsInOrder ==
  ASSUME QueueTypes, QueueOrdered, NEW m \in Msgs, \A q \in Queued : q < m, EnqueueFifo(m)
  PROVE  QueueOrdered'
<1>1. CASE slotPend = 0 /\ slotPend' = m /\ UNCHANGED overflow
  BY <1>1 DEF QueueOrdered, Behind, Msgs
<1>2. CASE slotPend # 0 /\ overflow' = Append(overflow, m) /\ UNCHANGED slotPend
  <2>1. /\ DOMAIN overflow' = DOMAIN overflow \union {Len(overflow) + 1}
        /\ \A i \in DOMAIN overflow : i < Len(overflow) + 1
        /\ overflow'[Len(overflow) + 1] = m
        /\ \A i \in DOMAIN overflow : overflow'[i] = overflow[i]
    BY <1>2 DEF QueueTypes
  <2>2. slotPend' = slotPend /\ slotPend \in Queued /\ slotPend # 0
    BY <1>2 DEF Queued
  <2>3. \A i \in DOMAIN overflow : overflow[i] \in Queued /\ overflow[i] \in Behind
    BY DEF Queued, Behind
  <2>4. DOMAIN overflow = 1 .. Len(overflow) /\ Len(overflow) \in Nat
    BY DEF QueueTypes
  <2>5. \A i, j \in DOMAIN overflow' : i < j => overflow'[i] < overflow'[j]
    BY <2>1, <2>3, <2>4 DEF QueueOrdered
  <2>6. \A q \in Behind' : slotPend' < q
    BY <2>1, <2>2, <2>3 DEF QueueOrdered, Behind
  <2> QED
    BY <2>2, <2>5, <2>6 DEF QueueOrdered
<1> QED
  BY <1>1, <1>2 DEF EnqueueFifo

\* The head of an ordered queue is its oldest message.
LEMMA TakenInOrder ==
  ASSUME QueueTypes, Distinct, QueueOrdered, NextUp # 0
  PROVE  /\ \A q \in Queued \ {NextUp} : NextUp < q
         /\ Dequeue => QueueOrdered'
         /\ Staged = 0 /\ slotPend' = NextUp /\ overflow' = Rest => QueueOrdered'
<1>1. slotPend # 0 /\ NextUp = slotPend
  BY DEF NextUp, QueueOrdered
<1>2. \A q \in Queued \ {NextUp} : NextUp < q
  BY <1>1 DEF Queued, QueueOrdered
<1>3. CASE overflow = <<>>
  <2>1. Rest = <<>> /\ Staged = 0 /\ Behind = {}
    BY <1>3 DEF Rest, Staged, Behind
  <2> QED
    BY <1>1, <1>2, <1>3, <2>1 DEF QueueOrdered, Dequeue, Behind
<1>4. CASE overflow # <<>>
  <2> DEFINE tail == Tail(overflow)
  <2>1. /\ DOMAIN tail = 1 .. Len(overflow) - 1
        /\ DOMAIN overflow = 1 .. Len(overflow) /\ Len(overflow) \in Nat
        /\ \A i \in DOMAIN tail : i + 1 \in DOMAIN overflow /\ tail[i] = overflow[i + 1]
        /\ Head(overflow) = overflow[1] /\ 1 \in DOMAIN overflow /\ Head(overflow) \in Msgs
    BY <1>4, TailFacts DEF QueueTypes
  <2>2. Rest = tail /\ Staged = Head(overflow) /\ Staged # 0
    BY <1>1, <1>4, <2>1 DEF Rest, Staged, Msgs
  <2> HIDE DEF tail
  <2>3. \A i, j \in DOMAIN tail : i < j => tail[i] < tail[j]
    BY <2>1 DEF QueueOrdered
  <2>4. \A i \in DOMAIN tail : Head(overflow) < tail[i]
    BY <2>1 DEF QueueOrdered
  <2> QED
    BY <1>2, <2>2, <2>3, <2>4 DEF QueueOrdered, Dequeue, Behind
<1> QED
  BY <1>3, <1>4

\* An eviction only moves the generation on.
LEMMA AccountEvict ==
  ASSUME TypeOK, AccountInv, Evict
  PROVE  AccountInv'
<1>t. TurnTypes /\ QueueTypes /\ SlotTypes
  BY TypeParts
<1>a. QueueInv /\ HolderInv /\ TakenInv /\ UniqueInv /\ OneTurnInv /\ OrderInv
  BY DEF AccountInv
<1>d. DOMAIN fate \subseteq Msgs /\ 0 \notin Msgs /\ Behind \subseteq Msgs /\ Queued \subseteq DOMAIN fate
  BY <1>t, <1>a, FateIs DEF Msgs, QueueInv
<1>q. UNCHANGED <<fate, cur, asked, Done, RanOnce, RanInOrder, Queued, Distinct, QueueOrdered, NextUp>>
  BY DEF Evict, queue, turn, Queued, Distinct, QueueOrdered, Behind, NextUp, Done, RanOnce, RanInOrder
<1>11. QueueInv'
  BY <1>t, <1>a, <1>d, <1>q DEF QueueInv, HolderInv, Holds, Evict, Goes, At, queue, running, turn
<1>12. HolderInv'
  BY <1>t, <1>a, <1>d, <1>q DEF HolderInv, QueueInv, Holds, TurnTypes, Evict, Goes, At, queue,
     running, turn
<1>13. TakenInv'
  BY <1>t, <1>a, <1>d, <1>q DEF TakenInv, HolderInv, QueueInv, Holds, TurnTypes, Evict, Goes, At,
     queue, running, turn
<1>14. UniqueInv'
  BY <1>t, <1>a, <1>d, <1>q DEF UniqueInv, TakenInv, HolderInv, QueueInv, Holds, Without,
     TurnTypes, Evict, Goes, At, queue, running, turn
<1>15. OneTurnInv'
  BY <1>t, <1>a, <1>d, <1>q DEF OneTurnInv, UniqueInv, HolderInv, Without, Alive, Current,
     TurnTypes, SlotTypes, Evict, Goes, At, queue, running, turn
<1>16. OrderInv'
  BY <1>t, <1>a, <1>d, <1>q DEF OrderInv, OneTurnInv, HolderInv, TakenInv, QueueInv, Without,
     Alive, Holds, TurnTypes, Evict, Goes, At, queue, running, turn
<1> QED
  BY <1>11, <1>12, <1>13, <1>14, <1>15, <1>16 DEF AccountInv

\* The drain begins.
LEMMA AccountBeginDrain ==
  ASSUME TypeOK, AccountInv, BeginDrain
  PROVE  AccountInv'
<1>t. TurnTypes /\ QueueTypes /\ SlotTypes
  BY TypeParts
<1>a. QueueInv /\ HolderInv /\ TakenInv /\ UniqueInv /\ OneTurnInv /\ OrderInv
  BY DEF AccountInv
<1>d. DOMAIN fate \subseteq Msgs /\ 0 \notin Msgs /\ Behind \subseteq Msgs /\ Queued \subseteq DOMAIN fate
  BY <1>t, <1>a, FateIs DEF Msgs, QueueInv
<1>q. UNCHANGED <<fate, cur, asked, Done, RanOnce, RanInOrder, Queued, Distinct, QueueOrdered, NextUp>>
  BY DEF BeginDrain, queue, turn, Queued, Distinct, QueueOrdered, Behind, NextUp, Done, RanOnce,
     RanInOrder
<1>11. QueueInv'
  BY <1>t, <1>a, <1>d, <1>q DEF QueueInv, HolderInv, Holds, BeginDrain, Goes, At, queue, running, turn
<1>12. HolderInv'
  BY <1>t, <1>a, <1>d, <1>q DEF HolderInv, QueueInv, Holds, TurnTypes, BeginDrain, Goes, At, queue,
     running, turn
<1>13. TakenInv'
  BY <1>t, <1>a, <1>d, <1>q DEF TakenInv, HolderInv, QueueInv, Holds, TurnTypes, BeginDrain, Goes,
     At, queue, running, turn
<1>14. UniqueInv'
  BY <1>t, <1>a, <1>d, <1>q DEF UniqueInv, TakenInv, HolderInv, QueueInv, Holds, Without,
     TurnTypes, BeginDrain, Goes, At, queue, running, turn
<1>15. OneTurnInv'
  BY <1>t, <1>a, <1>d, <1>q DEF OneTurnInv, UniqueInv, HolderInv, Without, Alive, Current,
     TurnTypes, SlotTypes, BeginDrain, Goes, At, queue, running, turn
<1>16. OrderInv'
  BY <1>t, <1>a, <1>d, <1>q DEF OrderInv, OneTurnInv, HolderInv, TakenInv, QueueInv, Without,
     Alive, Holds, TurnTypes, BeginDrain, Goes, At, queue, running, turn
<1> QED
  BY <1>11, <1>12, <1>13, <1>14, <1>15, <1>16 DEF AccountInv

\* The slot is filled.
LEMMA AccountPromote ==
  ASSUME TypeOK, AccountInv, NEW t \in Msgs, Promote(t)
  PROVE  AccountInv'
<1>t. TurnTypes /\ QueueTypes /\ SlotTypes
  BY TypeParts
<1>a. QueueInv /\ HolderInv /\ TakenInv /\ UniqueInv /\ OneTurnInv /\ OrderInv
  BY DEF AccountInv
<1>d. DOMAIN fate \subseteq Msgs /\ 0 \notin Msgs /\ Behind \subseteq Msgs /\ Queued \subseteq DOMAIN fate
  BY <1>t, <1>a, FateIs DEF Msgs, QueueInv
<1>q. UNCHANGED <<fate, cur, asked, Done, RanOnce, RanInOrder, Queued, Distinct, QueueOrdered, NextUp>>
  BY DEF Promote, queue, turn, Queued, Distinct, QueueOrdered, Behind, NextUp, Done, RanOnce, RanInOrder
<1>11. QueueInv'
  BY <1>t, <1>a, <1>d, <1>q DEF QueueInv, HolderInv, Holds, Promote, Goes, At, queue, running, turn
<1>12. HolderInv'
  BY <1>t, <1>a, <1>d, <1>q DEF HolderInv, QueueInv, Holds, TurnTypes, Promote, Goes, At, queue,
     running, turn
<1>13. TakenInv'
  BY <1>t, <1>a, <1>d, <1>q DEF TakenInv, HolderInv, QueueInv, Holds, TurnTypes, Promote, Goes, At,
     queue, running, turn
<1>14. UniqueInv'
  BY <1>t, <1>a, <1>d, <1>q DEF UniqueInv, TakenInv, HolderInv, QueueInv, Holds, Without,
     TurnTypes, Promote, Goes, At, queue, running, turn
<1>15. OneTurnInv'
  BY <1>t, <1>a, <1>d, <1>q DEF OneTurnInv, UniqueInv, HolderInv, Without, Alive, Current,
     TurnTypes, SlotTypes, Promote, Goes, At, queue, running, turn
<1>16. OrderInv'
  BY <1>t, <1>a, <1>d, <1>q DEF OrderInv, OneTurnInv, HolderInv, TakenInv, QueueInv, Without,
     Alive, Holds, TurnTypes, Promote, Goes, At, queue, running, turn
<1> QED
  BY <1>11, <1>12, <1>13, <1>14, <1>15, <1>16 DEF AccountInv

\* An agent ends.
LEMMA AccountAgentEnds ==
  ASSUME TypeOK, AccountInv, NEW t \in Msgs, AgentEnds(t)
  PROVE  AccountInv'
<1>t. TurnTypes /\ QueueTypes /\ SlotTypes
  BY TypeParts
<1>a. QueueInv /\ HolderInv /\ TakenInv /\ UniqueInv /\ OneTurnInv /\ OrderInv
  BY DEF AccountInv
<1>d. DOMAIN fate \subseteq Msgs /\ 0 \notin Msgs /\ Behind \subseteq Msgs /\ Queued \subseteq DOMAIN fate
  BY <1>t, <1>a, FateIs DEF Msgs, QueueInv
<1>q. UNCHANGED <<fate, cur, asked, Done, RanOnce, RanInOrder, Queued, Distinct, QueueOrdered, NextUp>>
  BY DEF AgentEnds, queue, turn, Queued, Distinct, QueueOrdered, Behind, NextUp, Done, RanOnce,
     RanInOrder
<1>11. QueueInv'
  BY <1>t, <1>a, <1>d, <1>q DEF QueueInv, HolderInv, Holds, AgentEnds, Goes, At, queue, running, turn
<1>12. HolderInv'
  BY <1>t, <1>a, <1>d, <1>q DEF HolderInv, QueueInv, Holds, TurnTypes, AgentEnds, Goes, At, queue,
     running, turn
<1>13. TakenInv'
  BY <1>t, <1>a, <1>d, <1>q DEF TakenInv, HolderInv, QueueInv, Holds, TurnTypes, AgentEnds, Goes,
     At, queue, running, turn
<1>14. UniqueInv'
  BY <1>t, <1>a, <1>d, <1>q DEF UniqueInv, TakenInv, HolderInv, QueueInv, Holds, Without,
     TurnTypes, AgentEnds, Goes, At, queue, running, turn
<1>15. OneTurnInv'
  BY <1>t, <1>a, <1>d, <1>q DEF OneTurnInv, UniqueInv, HolderInv, Without, Alive, Current,
     TurnTypes, SlotTypes, AgentEnds, Goes, At, queue, running, turn
<1>16. OrderInv'
  BY <1>t, <1>a, <1>d, <1>q DEF OrderInv, OneTurnInv, HolderInv, TakenInv, QueueInv, Without,
     Alive, Holds, TurnTypes, AgentEnds, Goes, At, queue, running, turn
<1> QED
  BY <1>11, <1>12, <1>13, <1>14, <1>15, <1>16 DEF AccountInv

\* An agent times out.
LEMMA AccountAgentTimesOut ==
  ASSUME TypeOK, AccountInv, NEW t \in Msgs, AgentTimesOut(t)
  PROVE  AccountInv'
<1>t. TurnTypes /\ QueueTypes /\ SlotTypes
  BY TypeParts
<1>a. QueueInv /\ HolderInv /\ TakenInv /\ UniqueInv /\ OneTurnInv /\ OrderInv
  BY DEF AccountInv
<1>d. DOMAIN fate \subseteq Msgs /\ 0 \notin Msgs /\ Behind \subseteq Msgs /\ Queued \subseteq DOMAIN fate
  BY <1>t, <1>a, FateIs DEF Msgs, QueueInv
<1>q. UNCHANGED <<fate, cur, asked, Done, RanOnce, RanInOrder, Queued, Distinct, QueueOrdered, NextUp>>
  BY DEF AgentTimesOut, queue, turn, Queued, Distinct, QueueOrdered, Behind, NextUp, Done, RanOnce,
     RanInOrder
<1>11. QueueInv'
  BY <1>t, <1>a, <1>d, <1>q DEF QueueInv, HolderInv, Holds, AgentTimesOut, Goes, At, queue,
     running, turn
<1>12. HolderInv'
  BY <1>t, <1>a, <1>d, <1>q DEF HolderInv, QueueInv, Holds, TurnTypes, AgentTimesOut, Goes, At,
     queue, running, turn
<1>13. TakenInv'
  BY <1>t, <1>a, <1>d, <1>q DEF TakenInv, HolderInv, QueueInv, Holds, TurnTypes, AgentTimesOut,
     Goes, At, queue, running, turn
<1>14. UniqueInv'
  BY <1>t, <1>a, <1>d, <1>q DEF UniqueInv, TakenInv, HolderInv, QueueInv, Holds, Without,
     TurnTypes, AgentTimesOut, Goes, At, queue, running, turn
<1>15. OneTurnInv'
  BY <1>t, <1>a, <1>d, <1>q DEF OneTurnInv, UniqueInv, HolderInv, Without, Alive, Current,
     TurnTypes, SlotTypes, AgentTimesOut, Goes, At, queue, running, turn
<1>16. OrderInv'
  BY <1>t, <1>a, <1>d, <1>q DEF OrderInv, OneTurnInv, HolderInv, TakenInv, QueueInv, Without,
     Alive, Holds, TurnTypes, AgentTimesOut, Goes, At, queue, running, turn
<1> QED
  BY <1>11, <1>12, <1>13, <1>14, <1>15, <1>16 DEF AccountInv

\* A turn ends with nothing to take.
LEMMA AccountNothingNext ==
  ASSUME TypeOK, AccountInv, NEW t \in Msgs, NothingNext(t)
  PROVE  AccountInv'
<1>t. TurnTypes /\ QueueTypes /\ SlotTypes
  BY TypeParts
<1>a. QueueInv /\ HolderInv /\ TakenInv /\ UniqueInv /\ OneTurnInv /\ OrderInv
  BY DEF AccountInv
<1>d. DOMAIN fate \subseteq Msgs /\ 0 \notin Msgs /\ Behind \subseteq Msgs /\ Queued \subseteq DOMAIN fate
  BY <1>t, <1>a, FateIs DEF Msgs, QueueInv
<1>q. UNCHANGED <<fate, cur, asked, Done, RanOnce, RanInOrder, Queued, Distinct, QueueOrdered, NextUp>>
  BY DEF NothingNext, queue, turn, Queued, Distinct, QueueOrdered, Behind, NextUp, Done, RanOnce,
     RanInOrder
<1>11. QueueInv'
  BY <1>t, <1>a, <1>d, <1>q DEF QueueInv, HolderInv, Holds, NothingNext, Goes, At, queue, running, turn
<1>12. HolderInv'
  BY <1>t, <1>a, <1>d, <1>q DEF HolderInv, QueueInv, Holds, TurnTypes, NothingNext, Goes, At,
     queue, running, turn
<1>13. TakenInv'
  BY <1>t, <1>a, <1>d, <1>q DEF TakenInv, HolderInv, QueueInv, Holds, TurnTypes, NothingNext, Goes,
     At, queue, running, turn
<1>14. UniqueInv'
  BY <1>t, <1>a, <1>d, <1>q DEF UniqueInv, TakenInv, HolderInv, QueueInv, Holds, Without,
     TurnTypes, NothingNext, Goes, At, queue, running, turn
<1>15. OneTurnInv'
  BY <1>t, <1>a, <1>d, <1>q DEF OneTurnInv, UniqueInv, HolderInv, Without, Alive, Current,
     TurnTypes, SlotTypes, NothingNext, Goes, At, queue, running, turn
<1>16. OrderInv'
  BY <1>t, <1>a, <1>d, <1>q DEF OrderInv, OneTurnInv, HolderInv, TakenInv, QueueInv, Without,
     Alive, Holds, TurnTypes, NothingNext, Goes, At, queue, running, turn
<1> QED
  BY <1>11, <1>12, <1>13, <1>14, <1>15, <1>16 DEF AccountInv

\* A turn unwinds.
LEMMA AccountUnwind ==
  ASSUME TypeOK, AccountInv, NEW t \in Msgs, Unwind(t)
  PROVE  AccountInv'
<1>t. TurnTypes /\ QueueTypes /\ SlotTypes
  BY TypeParts
<1>a. QueueInv /\ HolderInv /\ TakenInv /\ UniqueInv /\ OneTurnInv /\ OrderInv
  BY DEF AccountInv
<1>d. DOMAIN fate \subseteq Msgs /\ 0 \notin Msgs /\ Behind \subseteq Msgs /\ Queued \subseteq DOMAIN fate
  BY <1>t, <1>a, FateIs DEF Msgs, QueueInv
<1>q. UNCHANGED <<fate, cur, asked, Done, RanOnce, RanInOrder, Queued, Distinct, QueueOrdered, NextUp>>
  BY DEF Unwind, queue, turn, Queued, Distinct, QueueOrdered, Behind, NextUp, Done, RanOnce, RanInOrder
<1>11. QueueInv'
  BY <1>t, <1>a, <1>d, <1>q DEF QueueInv, HolderInv, Holds, Unwind, Goes, At, queue, running, turn
<1>12. HolderInv'
  BY <1>t, <1>a, <1>d, <1>q DEF HolderInv, QueueInv, Holds, TurnTypes, Unwind, Goes, At, queue,
     running, turn
<1>13. TakenInv'
  BY <1>t, <1>a, <1>d, <1>q DEF TakenInv, HolderInv, QueueInv, Holds, TurnTypes, Unwind, Goes, At,
     queue, running, turn
<1>14. UniqueInv'
  BY <1>t, <1>a, <1>d, <1>q DEF UniqueInv, TakenInv, HolderInv, QueueInv, Holds, Without,
     TurnTypes, Unwind, Goes, At, queue, running, turn
<1>15. OneTurnInv'
  BY <1>t, <1>a, <1>d, <1>q DEF OneTurnInv, UniqueInv, HolderInv, Without, Alive, Current,
     TurnTypes, SlotTypes, Unwind, Goes, At, queue, running, turn
<1>16. OrderInv'
  BY <1>t, <1>a, <1>d, <1>q DEF OrderInv, OneTurnInv, HolderInv, TakenInv, QueueInv, Without,
     Alive, Holds, TurnTypes, Unwind, Goes, At, queue, running, turn
<1> QED
  BY <1>11, <1>12, <1>13, <1>14, <1>15, <1>16 DEF AccountInv

\* The agent of a new turn gets its message.
LEMMA AccountSetup ==
  ASSUME TypeOK, AccountInv, NEW t \in Msgs, Setup(t)
  PROVE  AccountInv'
<1>t. TurnTypes /\ QueueTypes /\ SlotTypes
  BY TypeParts
<1>a. QueueInv /\ HolderInv /\ TakenInv /\ UniqueInv /\ OneTurnInv /\ OrderInv
  BY DEF AccountInv
<1>d. DOMAIN fate \subseteq Msgs /\ 0 \notin Msgs /\ Behind \subseteq Msgs /\ Queued \subseteq DOMAIN fate
  BY <1>t, <1>a, FateIs DEF Msgs, QueueInv
<1>q. UNCHANGED <<Queued, Distinct, QueueOrdered, NextUp>>
  BY DEF Setup, queue, Queued, Distinct, QueueOrdered, Behind, NextUp
<1>f. /\ DOMAIN fate' = DOMAIN fate
      /\ \A m \in DOMAIN fate : fate'[m] = IF m = t THEN "ran" ELSE fate[m]
  BY DEF Setup
<1>r. /\ Done' = Done \union {t}
      /\ RanOnce /\ t \notin Done => RanOnce'
      /\ RanInOrder /\ (\A d \in Done : d < t) => RanInOrder'
  BY <1>t, Runs DEF Setup
<1>p. /\ pc[t] = "setup" /\ \A u \in Msgs : pc'[u] = IF u = t THEN "working" ELSE pc[u]
      /\ UNCHANGED <<cur, guard, gen, genOf, upset>>
      /\ \A u \in Msgs : asked'[u] = asked[u]
  BY <1>t DEF Setup, TurnTypes, Goes, At, turn
<1>11. QueueInv'
  BY <1>t, <1>a, <1>d, <1>q, <1>f, <1>r, <1>p DEF QueueInv, HolderInv, Holds
<1>12. HolderInv'
  BY <1>t, <1>a, <1>d, <1>q, <1>f, <1>r, <1>p DEF HolderInv, QueueInv, Holds, TurnTypes
<1>13. TakenInv'
  BY <1>t, <1>a, <1>d, <1>q, <1>f, <1>r, <1>p DEF TakenInv, HolderInv, QueueInv, Holds, TurnTypes
<1>14. UniqueInv'
  BY <1>t, <1>a, <1>d, <1>q, <1>f, <1>r, <1>p DEF UniqueInv, TakenInv, HolderInv, QueueInv, Holds,
     Without, TurnTypes
<1>15. OneTurnInv'
  BY <1>t, <1>a, <1>d, <1>q, <1>f, <1>r, <1>p DEF OneTurnInv, UniqueInv, HolderInv, Without, Alive,
     Current, TurnTypes, SlotTypes
<1>16. OrderInv'
  BY <1>t, <1>a, <1>d, <1>q, <1>f, <1>r, <1>p DEF OrderInv, OneTurnInv, HolderInv, TakenInv,
     QueueInv, Without, Alive, Holds, TurnTypes
<1> QED
  BY <1>11, <1>12, <1>13, <1>14, <1>15, <1>16 DEF AccountInv

\* A turn ends before it has an agent.
LEMMA AccountSetupEnds ==
  ASSUME TypeOK, AccountInv, NEW t \in Msgs, SetupEnds(t)
  PROVE  AccountInv'
<1>t. TurnTypes /\ QueueTypes /\ SlotTypes
  BY TypeParts
<1>a. QueueInv /\ HolderInv /\ TakenInv /\ UniqueInv /\ OneTurnInv /\ OrderInv
  BY DEF AccountInv
<1>d. DOMAIN fate \subseteq Msgs /\ 0 \notin Msgs /\ Behind \subseteq Msgs /\ Queued \subseteq DOMAIN fate
  BY <1>t, <1>a, FateIs DEF Msgs, QueueInv
<1>q. UNCHANGED <<Queued, Distinct, QueueOrdered, NextUp>>
  BY DEF SetupEnds, queue, Queued, Distinct, QueueOrdered, Behind, NextUp
<1>f. /\ DOMAIN fate' = DOMAIN fate
      /\ \A m \in DOMAIN fate : fate'[m] = IF m = t THEN "gone" ELSE fate[m]
  BY DEF SetupEnds
<1>r. UNCHANGED <<Done, RanOnce, RanInOrder>>
  BY DEF SetupEnds, Done, RanOnce, RanInOrder
<1>11. QueueInv'
  BY <1>t, <1>a, <1>d, <1>r, <1>q, <1>f DEF QueueInv, HolderInv, Holds, SetupEnds, Goes, At, queue,
     running, turn
<1>12. HolderInv'
  BY <1>t, <1>a, <1>d, <1>r, <1>q, <1>f DEF HolderInv, QueueInv, Holds, TurnTypes, SetupEnds, Goes,
     At, queue, running, turn
<1>13. TakenInv'
  BY <1>t, <1>a, <1>d, <1>r, <1>q, <1>f DEF TakenInv, HolderInv, QueueInv, Holds, TurnTypes,
     SetupEnds, Goes, At, queue, running, turn
<1>14. UniqueInv'
  BY <1>t, <1>a, <1>d, <1>r, <1>q, <1>f DEF UniqueInv, TakenInv, HolderInv, QueueInv, Holds,
     Without, TurnTypes, SetupEnds, Goes, At, queue, running, turn
<1>15. OneTurnInv'
  BY <1>t, <1>a, <1>d, <1>r, <1>q, <1>f DEF OneTurnInv, UniqueInv, HolderInv, Without, Alive,
     Current, TurnTypes, SlotTypes, SetupEnds, Goes, At, queue, running, turn
<1>16. OrderInv'
  BY <1>t, <1>a, <1>d, <1>r, <1>q, <1>f DEF OrderInv, OneTurnInv, HolderInv, TakenInv, QueueInv,
     Without, Alive, Holds, TurnTypes, SetupEnds, Goes, At, queue, running, turn
<1> QED
  BY <1>11, <1>12, <1>13, <1>14, <1>15, <1>16 DEF AccountInv

\* The next run starts.
LEMMA AccountRunsNext ==
  ASSUME TypeOK, AccountInv, NEW t \in Msgs, RunsNext(t)
  PROVE  AccountInv'
<1>t. TurnTypes /\ QueueTypes /\ SlotTypes
  BY TypeParts
<1>a. QueueInv /\ HolderInv /\ TakenInv /\ UniqueInv /\ OneTurnInv /\ OrderInv
  BY DEF AccountInv
<1>d. DOMAIN fate \subseteq Msgs /\ 0 \notin Msgs /\ Behind \subseteq Msgs /\ Queued \subseteq DOMAIN fate
  BY <1>t, <1>a, FateIs DEF Msgs, QueueInv
<1>q. UNCHANGED <<Queued, Distinct, QueueOrdered, NextUp>>
  BY DEF RunsNext, queue, Queued, Distinct, QueueOrdered, Behind, NextUp
<1>f. /\ DOMAIN fate' = DOMAIN fate
      /\ \A m \in DOMAIN fate : fate'[m] = IF m = cur[t] THEN "ran" ELSE fate[m]
  BY DEF RunsNext
<1>r. /\ Done' = Done \union {cur[t]}
      /\ RanOnce /\ cur[t] \notin Done => RanOnce'
      /\ RanInOrder /\ (\A d \in Done : d < cur[t]) => RanInOrder'
  BY <1>t, Runs DEF RunsNext
<1>p. /\ pc[t] = "taking" /\ \A u \in Msgs : pc'[u] = IF u = t THEN "working" ELSE pc[u]
      /\ UNCHANGED <<cur, guard, gen, genOf, upset>>
      /\ \A u \in Msgs : asked'[u] = IF u = t THEN 0 ELSE asked[u]
  BY <1>t DEF RunsNext, TurnTypes, Goes, At, turn
<1>11. QueueInv'
  BY <1>t, <1>a, <1>d, <1>q, <1>f, <1>r, <1>p DEF QueueInv, HolderInv, Holds
<1>12. HolderInv'
  BY <1>t, <1>a, <1>d, <1>q, <1>f, <1>r, <1>p DEF HolderInv, QueueInv, Holds, TurnTypes
<1>13. TakenInv'
  BY <1>t, <1>a, <1>d, <1>q, <1>f, <1>r, <1>p DEF TakenInv, HolderInv, QueueInv, Holds, TurnTypes
<1>14. UniqueInv'
  BY <1>t, <1>a, <1>d, <1>q, <1>f, <1>r, <1>p DEF UniqueInv, TakenInv, HolderInv, QueueInv, Holds,
     Without, TurnTypes
<1>15. OneTurnInv'
  BY <1>t, <1>a, <1>d, <1>q, <1>f, <1>r, <1>p DEF OneTurnInv, UniqueInv, HolderInv, Without, Alive,
     Current, TurnTypes, SlotTypes
<1>16. OrderInv'
  BY <1>t, <1>a, <1>d, <1>q, <1>f, <1>r, <1>p DEF OrderInv, OneTurnInv, HolderInv, TakenInv,
     QueueInv, Without, Alive, Holds, TurnTypes
<1> QED
  BY <1>11, <1>12, <1>13, <1>14, <1>15, <1>16 DEF AccountInv

\* The message taken cannot be run.
LEMMA AccountNextUnusable ==
  ASSUME TypeOK, AccountInv, NEW t \in Msgs, NextUnusable(t)
  PROVE  AccountInv'
<1>t. TurnTypes /\ QueueTypes /\ SlotTypes
  BY TypeParts
<1>a. QueueInv /\ HolderInv /\ TakenInv /\ UniqueInv /\ OneTurnInv /\ OrderInv
  BY DEF AccountInv
<1>d. DOMAIN fate \subseteq Msgs /\ 0 \notin Msgs /\ Behind \subseteq Msgs /\ Queued \subseteq DOMAIN fate
  BY <1>t, <1>a, FateIs DEF Msgs, QueueInv
<1>q. UNCHANGED <<Queued, Distinct, QueueOrdered, NextUp>>
  BY DEF NextUnusable, queue, Queued, Distinct, QueueOrdered, Behind, NextUp
<1>f. /\ DOMAIN fate' = DOMAIN fate
      /\ \A m \in DOMAIN fate : fate'[m] = IF m = cur[t] THEN "gone" ELSE fate[m]
  BY DEF NextUnusable
<1>r. UNCHANGED <<Done, RanOnce, RanInOrder>>
  BY DEF NextUnusable, Done, RanOnce, RanInOrder
<1>11. QueueInv'
  BY <1>t, <1>a, <1>d, <1>r, <1>q, <1>f DEF QueueInv, HolderInv, Holds, NextUnusable, Goes, At,
     queue, running, turn
<1>12. HolderInv'
  BY <1>t, <1>a, <1>d, <1>r, <1>q, <1>f DEF HolderInv, QueueInv, Holds, TurnTypes, NextUnusable,
     Goes, At, queue, running, turn
<1>13. TakenInv'
  BY <1>t, <1>a, <1>d, <1>r, <1>q, <1>f DEF TakenInv, HolderInv, QueueInv, Holds, TurnTypes,
     NextUnusable, Goes, At, queue, running, turn
<1>14. UniqueInv'
  BY <1>t, <1>a, <1>d, <1>r, <1>q, <1>f DEF UniqueInv, TakenInv, HolderInv, QueueInv, Holds,
     Without, TurnTypes, NextUnusable, Goes, At, queue, running, turn
<1>15. OneTurnInv'
  BY <1>t, <1>a, <1>d, <1>r, <1>q, <1>f DEF OneTurnInv, UniqueInv, HolderInv, Without, Alive,
     Current, TurnTypes, SlotTypes, NextUnusable, Goes, At, queue, running, turn
<1>16. OrderInv'
  BY <1>t, <1>a, <1>d, <1>r, <1>q, <1>f DEF OrderInv, OneTurnInv, HolderInv, TakenInv, QueueInv,
     Without, Alive, Holds, TurnTypes, NextUnusable, Goes, At, queue, running, turn
<1> QED
  BY <1>11, <1>12, <1>13, <1>14, <1>15, <1>16 DEF AccountInv

\* The text of an interrupt is run.
LEMMA AccountTakesInterruptText ==
  ASSUME TypeOK, AccountInv, NEW t \in Msgs, TakesInterruptText(t)
  PROVE  AccountInv'
<1>t. TurnTypes /\ QueueTypes /\ SlotTypes
  BY TypeParts
<1>a. QueueInv /\ HolderInv /\ TakenInv /\ UniqueInv /\ OneTurnInv /\ OrderInv
  BY DEF AccountInv
<1>d. DOMAIN fate \subseteq Msgs /\ 0 \notin Msgs /\ Behind \subseteq Msgs /\ Queued \subseteq DOMAIN fate
  BY <1>t, <1>a, FateIs DEF Msgs, QueueInv
<1>q. UNCHANGED <<Queued, Distinct, QueueOrdered, NextUp>>
  BY DEF TakesInterruptText, queue, Queued, Distinct, QueueOrdered, Behind, NextUp
<1>f. /\ DOMAIN fate' = DOMAIN fate
      /\ \A m \in DOMAIN fate : fate'[m] = IF m = asked[t] THEN "taken" ELSE fate[m]
  BY DEF TakesInterruptText
<1>e. Queued = {}
  BY <1>t, <1>a, EmptyQueue DEF TakesInterruptText, QueueInv
<1>r. UNCHANGED <<Done, RanOnce, RanInOrder>>
  BY DEF TakesInterruptText, Done, RanOnce, RanInOrder
<1>11. QueueInv'
  BY <1>t, <1>a, <1>d, <1>r, <1>q, <1>f, <1>e DEF QueueInv, HolderInv, Holds, TakesInterruptText,
     Goes, At, queue, running, turn
<1>12. HolderInv'
  BY <1>t, <1>a, <1>d, <1>r, <1>q, <1>f, <1>e DEF HolderInv, QueueInv, Holds, TurnTypes,
     TakesInterruptText, Goes, At, queue, running, turn
<1>13. TakenInv'
  BY <1>t, <1>a, <1>d, <1>r, <1>q, <1>f, <1>e DEF TakenInv, HolderInv, QueueInv, Holds, TurnTypes,
     TakesInterruptText, Goes, At, queue, running, turn
<1>14. UniqueInv'
  BY <1>t, <1>a, <1>d, <1>r, <1>q, <1>f, <1>e DEF UniqueInv, TakenInv, HolderInv, QueueInv, Holds,
     Without, TurnTypes, TakesInterruptText, Goes, At, queue, running, turn
<1>15. OneTurnInv'
  BY <1>t, <1>a, <1>d, <1>r, <1>q, <1>f, <1>e DEF OneTurnInv, UniqueInv, HolderInv, Without, Alive,
     Current, TurnTypes, SlotTypes, TakesInterruptText, Goes, At, queue, running, turn
<1>16. OrderInv'
  BY <1>t, <1>a, <1>d, <1>r, <1>q, <1>f, <1>e DEF OrderInv, OneTurnInv, HolderInv, TakenInv,
     QueueInv, Without, Alive, Holds, TurnTypes, TakesInterruptText, Goes, At, queue, running, turn
<1> QED
  BY <1>11, <1>12, <1>13, <1>14, <1>15, <1>16 DEF AccountInv

\* The head of the queue is taken for the next run.
LEMMA AccountTakesNext ==
  ASSUME TypeOK, AccountInv, NEW t \in Msgs, TakesNext(t)
  PROVE  AccountInv'
<1>t. TurnTypes /\ QueueTypes /\ SlotTypes
  BY TypeParts
<1>a. QueueInv /\ HolderInv /\ TakenInv /\ UniqueInv /\ OneTurnInv /\ OrderInv
  BY DEF AccountInv
<1>d. DOMAIN fate \subseteq Msgs /\ 0 \notin Msgs /\ Behind \subseteq Msgs /\ Queued \subseteq DOMAIN fate
  BY <1>t, <1>a, FateIs DEF Msgs, QueueInv
<1>q. NextUp \in Queued /\ Queued' = Queued \ {NextUp} /\ Distinct'
  BY <1>t, <1>a, Taken DEF TakesNext, QueueInv
<1>o. QueueOrdered => QueueOrdered' /\ \A q \in Queued \ {NextUp} : NextUp < q
  BY <1>t, <1>a, TakenInOrder DEF TakesNext, QueueInv
<1>f. /\ DOMAIN fate' = DOMAIN fate
      /\ \A m \in DOMAIN fate : fate'[m] = IF m = NextUp THEN "taken" ELSE fate[m]
  BY DEF TakesNext
<1>u. /\ upset \subseteq upset' /\ upset' \subseteq upset \union {"stolen"}
      /\ "stolen" \in upset' => "stolen" \in upset \/ ~Current(t)
  BY DEF TakesNext, Stolen
<1>r. UNCHANGED <<Done, RanOnce, RanInOrder>>
  BY DEF TakesNext, Done, RanOnce, RanInOrder
<1>11. QueueInv'
  BY <1>t, <1>a, <1>d, <1>r, <1>q, <1>o, <1>f, <1>u DEF QueueInv, HolderInv, Holds, TakesNext,
     Goes, At, queue, running, turn
<1>12. HolderInv'
  BY <1>t, <1>a, <1>d, <1>r, <1>q, <1>o, <1>f, <1>u DEF HolderInv, QueueInv, Holds, TurnTypes,
     TakesNext, Goes, At, queue, running, turn
<1>13. TakenInv'
  BY <1>t, <1>a, <1>d, <1>r, <1>q, <1>o, <1>f, <1>u DEF TakenInv, HolderInv, QueueInv, Holds,
     TurnTypes, TakesNext, Goes, At, queue, running, turn
<1>14. UniqueInv'
  BY <1>t, <1>a, <1>d, <1>r, <1>q, <1>o, <1>f, <1>u DEF UniqueInv, TakenInv, HolderInv, QueueInv,
     Holds, Without, TurnTypes, TakesNext, Goes, At, queue, running, turn
<1>15. OneTurnInv'
  BY <1>t, <1>a, <1>d, <1>r, <1>q, <1>o, <1>f, <1>u DEF OneTurnInv, UniqueInv, HolderInv, Without,
     Alive, Current, TurnTypes, SlotTypes, TakesNext, Goes, At, queue, running, turn
<1>16. OrderInv'
  BY <1>t, <1>a, <1>d, <1>r, <1>q, <1>o, <1>f, <1>u DEF OrderInv, OneTurnInv, HolderInv, TakenInv,
     QueueInv, Without, Alive, Holds, TurnTypes, TakesNext, Goes, At, queue, running, turn
<1> QED
  BY <1>11, <1>12, <1>13, <1>14, <1>15, <1>16 DEF AccountInv

\* A draining gateway discards the head.
LEMMA AccountDiscardsNext ==
  ASSUME TypeOK, AccountInv, NEW t \in Msgs, DiscardsNext(t)
  PROVE  AccountInv'
<1>t. TurnTypes /\ QueueTypes /\ SlotTypes
  BY TypeParts
<1>a. QueueInv /\ HolderInv /\ TakenInv /\ UniqueInv /\ OneTurnInv /\ OrderInv
  BY DEF AccountInv
<1>d. DOMAIN fate \subseteq Msgs /\ 0 \notin Msgs /\ Behind \subseteq Msgs /\ Queued \subseteq DOMAIN fate
  BY <1>t, <1>a, FateIs DEF Msgs, QueueInv
<1>q. NextUp \in Queued /\ Queued' = Queued \ {NextUp} /\ Distinct'
  BY <1>t, <1>a, Taken DEF DiscardsNext, QueueInv
<1>o. QueueOrdered => QueueOrdered' /\ \A q \in Queued \ {NextUp} : NextUp < q
  BY <1>t, <1>a, TakenInOrder DEF DiscardsNext, QueueInv
<1>f. /\ DOMAIN fate' = DOMAIN fate
      /\ \A m \in DOMAIN fate : fate'[m] = IF m = NextUp THEN "gone" ELSE fate[m]
  BY DEF DiscardsNext
<1>r. UNCHANGED <<Done, RanOnce, RanInOrder>>
  BY DEF DiscardsNext, Done, RanOnce, RanInOrder
<1>11. QueueInv'
  BY <1>t, <1>a, <1>d, <1>r, <1>q, <1>o, <1>f DEF QueueInv, HolderInv, Holds, DiscardsNext, Goes,
     At, queue, running, turn
<1>12. HolderInv'
  BY <1>t, <1>a, <1>d, <1>r, <1>q, <1>o, <1>f DEF HolderInv, QueueInv, Holds, TurnTypes,
     DiscardsNext, Goes, At, queue, running, turn
<1>13. TakenInv'
  BY <1>t, <1>a, <1>d, <1>r, <1>q, <1>o, <1>f DEF TakenInv, HolderInv, QueueInv, Holds, TurnTypes,
     DiscardsNext, Goes, At, queue, running, turn
<1>14. UniqueInv'
  BY <1>t, <1>a, <1>d, <1>r, <1>q, <1>o, <1>f DEF UniqueInv, TakenInv, HolderInv, QueueInv, Holds,
     Without, TurnTypes, DiscardsNext, Goes, At, queue, running, turn
<1>15. OneTurnInv'
  BY <1>t, <1>a, <1>d, <1>r, <1>q, <1>o, <1>f DEF OneTurnInv, UniqueInv, HolderInv, Without, Alive,
     Current, TurnTypes, SlotTypes, DiscardsNext, Goes, At, queue, running, turn
<1>16. OrderInv'
  BY <1>t, <1>a, <1>d, <1>r, <1>q, <1>o, <1>f DEF OrderInv, OneTurnInv, HolderInv, TakenInv,
     QueueInv, Without, Alive, Holds, TurnTypes, DiscardsNext, Goes, At, queue, running, turn
<1> QED
  BY <1>11, <1>12, <1>13, <1>14, <1>15, <1>16 DEF AccountInv

\* At the recursion limit the head returns to the slot.
LEMMA AccountPutsBack ==
  ASSUME TypeOK, AccountInv, NEW t \in Msgs, PutsBack(t)
  PROVE  AccountInv'
<1>t. TurnTypes /\ QueueTypes /\ SlotTypes
  BY TypeParts
<1>a. QueueInv /\ HolderInv /\ TakenInv /\ UniqueInv /\ OneTurnInv /\ OrderInv
  BY DEF AccountInv
<1>d. DOMAIN fate \subseteq Msgs /\ 0 \notin Msgs /\ Behind \subseteq Msgs /\ Queued \subseteq DOMAIN fate
  BY <1>t, <1>a, FateIs DEF Msgs, QueueInv
<1>q. NextUp \in Queued /\ Staged \in Queued \union {0} /\ Queued' = Queued \ {Staged} /\ Distinct'
  BY <1>t, <1>a, Taken DEF PutsBack, QueueInv
<1>o. QueueOrdered /\ Staged = 0 => QueueOrdered'
  BY <1>t, <1>a, TakenInOrder DEF PutsBack, QueueInv
<1>f. /\ DOMAIN fate' = DOMAIN fate
      /\ \A m \in DOMAIN fate : fate'[m] = IF m = Staged THEN "overwritten" ELSE fate[m]
  BY DEF PutsBack
<1>u. /\ upset \subseteq upset' /\ upset' \subseteq upset \union {"stolen", "overwritten"}
      /\ "stolen" \in upset' => "stolen" \in upset \/ ~Current(t)
      /\ Staged # 0 => "overwritten" \in upset'
  BY DEF PutsBack, Stolen
<1>r. UNCHANGED <<Done, RanOnce, RanInOrder>>
  BY DEF PutsBack, Done, RanOnce, RanInOrder
<1>p. /\ pc[t] = "ended" /\ \A u \in Msgs : pc'[u] = IF u = t THEN "unwinding" ELSE pc[u]
      /\ UNCHANGED <<cur, guard, gen, genOf>>
      /\ \A u \in Msgs : asked'[u] = asked[u]
  BY <1>t DEF PutsBack, TurnTypes, Goes, At, turn
<1>11. QueueInv'
  BY <1>t, <1>a, <1>d, <1>r, <1>q, <1>o, <1>f, <1>u, <1>p DEF QueueInv, HolderInv, Holds
<1>12. HolderInv'
  BY <1>t, <1>a, <1>d, <1>r, <1>q, <1>o, <1>f, <1>u, <1>p DEF HolderInv, QueueInv, Holds, TurnTypes
<1>13. TakenInv'
  BY <1>t, <1>a, <1>d, <1>r, <1>q, <1>o, <1>f, <1>u, <1>p DEF TakenInv, HolderInv, QueueInv, Holds,
     TurnTypes
<1>14. UniqueInv'
  BY <1>t, <1>a, <1>d, <1>r, <1>q, <1>o, <1>f, <1>u, <1>p DEF UniqueInv, TakenInv, HolderInv,
     QueueInv, Holds, Without, TurnTypes
<1>15. OneTurnInv'
  BY <1>t, <1>a, <1>d, <1>r, <1>q, <1>o, <1>f, <1>u, <1>p DEF OneTurnInv, UniqueInv, HolderInv,
     Without, Alive, Current, TurnTypes, SlotTypes
<1>16. OrderInv'
  BY <1>t, <1>a, <1>d, <1>r, <1>q, <1>o, <1>f, <1>u, <1>p DEF OrderInv, OneTurnInv, HolderInv,
     TakenInv, QueueInv, Without, Alive, Holds, TurnTypes
<1> QED
  BY <1>11, <1>12, <1>13, <1>14, <1>15, <1>16 DEF AccountInv

\* A message that is refused, dropped or merged leaves everything else alone.
LEMMA AccountRefusal ==
  ASSUME TypeOK, AccountInv, Arrives, fate' = Append(fate, "gone"),
         UNCHANGED <<queue, gen, guard, turn, ran, upset>>
  PROVE  AccountInv'
<1>t. TurnTypes /\ QueueTypes /\ SlotTypes
  BY TypeParts
<1>a. QueueInv /\ HolderInv /\ TakenInv /\ UniqueInv /\ OneTurnInv /\ OrderInv
  BY DEF AccountInv
<1>d. DOMAIN fate \subseteq Msgs /\ 0 \notin Msgs /\ Behind \subseteq Msgs /\ Queued \subseteq DOMAIN fate
  BY <1>t, <1>a, FateIs DEF Msgs, QueueInv
<1>f. /\ New \in Msgs \ DOMAIN fate /\ DOMAIN fate' = DOMAIN fate \union {New}
      /\ \A m \in DOMAIN fate : m < New /\ fate'[m] = fate[m]
      /\ fate'[New] = "gone"
  BY <1>t, Arrived
<1>q. UNCHANGED <<slotPend, Queued, Distinct, QueueOrdered>>
  BY DEF queue, Queued, Distinct, QueueOrdered, Behind
<1>r. UNCHANGED <<Done, RanOnce, RanInOrder>>
  BY DEF Done, RanOnce, RanInOrder
<1>p. UNCHANGED <<pc, genOf, cur, asked, guard, gen, upset>>
  BY DEF turn
<1>h. \A t \in Msgs : pc[t] \in {"setup", "taking"} =>
        cur[t] \in DOMAIN fate /\ fate'[cur[t]] = fate[cur[t]] /\ fate[cur[t]] # "held" /\ cur[t] < New
  BY <1>a, <1>f DEF Holds, HolderInv
<1>11. QueueInv'
  BY <1>t, <1>a, <1>d, <1>f, <1>q, <1>r, <1>p, <1>h DEF QueueInv, HolderInv, Holds
<1>12. HolderInv'
  BY <1>t, <1>a, <1>d, <1>f, <1>q, <1>r, <1>p, <1>h DEF HolderInv, QueueInv, Holds
<1>13. TakenInv'
  BY <1>t, <1>a, <1>d, <1>f, <1>q, <1>r, <1>p, <1>h DEF TakenInv, HolderInv, QueueInv, Holds
<1>14. UniqueInv'
  BY <1>t, <1>a, <1>d, <1>f, <1>q, <1>r, <1>p, <1>h DEF UniqueInv, TakenInv, Without, Holds
<1>15. OneTurnInv'
  BY <1>t, <1>a, <1>d, <1>f, <1>q, <1>r, <1>p, <1>h DEF OneTurnInv, UniqueInv, HolderInv, Without,
     Alive, Current, TurnTypes, SlotTypes
<1>16. OrderInv'
  BY <1>a, <1>q, <1>r, <1>p DEF OrderInv, Without, Holds
<1> QED
  BY <1>11, <1>12, <1>13, <1>14, <1>15, <1>16 DEF AccountInv

\* A message joins the queue, and at most its sender's turn moves on to its reply.
JoinsQueue ==
    /\ Arrives /\ fate' = Append(fate, "held") /\ EnqueueFifo(New)
    /\ {"stop", "overtaken"} \cap upset' = {} => guard # 0 /\ guard' = guard
    /\ gen' = gen /\ genOf' = genOf /\ cur' = cur /\ ran' = ran
    /\ \A t \in Msgs : pc'[t] = pc[t] \/ (pc[t] = "closing" /\ pc'[t] = "replying")
    /\ \A t \in Msgs : asked'[t] \in {asked[t], New}
    /\ upset \subseteq upset' /\ ("stolen" \in upset' => "stolen" \in upset)

\* What joins the queue is younger than all others.
LEMMA AccountArrival ==
  ASSUME TypeOK, AccountInv, JoinsQueue
  PROVE  AccountInv'
<1>t. TurnTypes /\ QueueTypes /\ SlotTypes
  BY TypeParts
<1>a. QueueInv /\ HolderInv /\ TakenInv /\ UniqueInv /\ OneTurnInv /\ OrderInv
  BY DEF AccountInv
<1>d. DOMAIN fate \subseteq Msgs /\ 0 \notin Msgs /\ Behind \subseteq Msgs /\ Queued \subseteq DOMAIN fate
  BY <1>t, <1>a, FateIs DEF Msgs, QueueInv
<1>j. Arrives /\ fate' = Append(fate, "held") /\ EnqueueFifo(New) /\ UNCHANGED <<gen, genOf, cur, ran>>
  BY DEF JoinsQueue
<1>f. /\ New \in Msgs \ DOMAIN fate /\ DOMAIN fate' = DOMAIN fate \union {New}
      /\ \A m \in DOMAIN fate : m < New /\ fate'[m] = fate[m]
      /\ fate'[New] = "held"
  BY <1>t, <1>j, Arrived
<1>w. /\ {"stop", "overtaken"} \cap upset' = {} => guard # 0 /\ guard' = guard
      /\ upset \subseteq upset' /\ ("stolen" \in upset' => "stolen" \in upset)
  BY DEF JoinsQueue
<1>q. Queued' = Queued \union {New} /\ Distinct'
  BY <1>t, <1>a, <1>d, <1>f, <1>j, Joins DEF QueueInv
<1>o. QueueOrdered => QueueOrdered'
  BY <1>t, <1>d, <1>f, <1>j, JoinsInOrder
<1>p. /\ UNCHANGED <<genOf, cur, gen>>
      /\ \A t \in Msgs : pc'[t] = pc[t] \/ (pc[t] = "closing" /\ pc'[t] = "replying")
      /\ \A t \in Msgs : asked'[t] \in {asked[t], New}
  BY <1>t DEF TurnTypes, JoinsQueue
<1>r. UNCHANGED <<Done, RanOnce, RanInOrder>>
  BY DEF JoinsQueue, Done, RanOnce, RanInOrder
<1>h. \A t \in Msgs : pc[t] \in {"setup", "taking"} =>
        cur[t] \in DOMAIN fate /\ fate'[cur[t]] = fate[cur[t]] /\ fate[cur[t]] # "held" /\ cur[t] < New
  BY <1>a, <1>f DEF Holds, HolderInv
<1>11. QueueInv'
  BY <1>t, <1>a, <1>d, <1>f, <1>q, <1>o, <1>r, <1>p, <1>w, <1>h DEF QueueInv, HolderInv, Holds
<1>12. HolderInv'
  BY <1>t, <1>a, <1>d, <1>f, <1>q, <1>o, <1>r, <1>p, <1>w, <1>h DEF HolderInv, QueueInv, Holds
<1>13. TakenInv'
  BY <1>t, <1>a, <1>d, <1>f, <1>q, <1>o, <1>r, <1>p, <1>w, <1>h DEF TakenInv, HolderInv, QueueInv, Holds
<1>14. UniqueInv'
  BY <1>t, <1>a, <1>d, <1>f, <1>q, <1>o, <1>r, <1>p, <1>w, <1>h DEF UniqueInv, TakenInv, Without, Holds
<1>15. OneTurnInv'
  BY <1>t, <1>a, <1>d, <1>f, <1>q, <1>o, <1>r, <1>p, <1>w, <1>h DEF OneTurnInv, UniqueInv,
     HolderInv, Without, Alive, Current, TurnTypes, SlotTypes
<1>16. OrderInv'
  BY <1>t, <1>a, <1>d, <1>f, <1>q, <1>o, <1>r, <1>p, <1>w, <1>h DEF OrderInv, OneTurnInv,
     HolderInv, TakenInv, QueueInv, Without, Holds, Alive
<1> QED
  BY <1>11, <1>12, <1>13, <1>14, <1>15, <1>16 DEF AccountInv

\* A message that is dropped may have interrupted the agent; the queue is not
\* empty, or a command passed by.
LEMMA AccountDropped ==
  ASSUME TypeOK, AccountInv, Arrives, fate' = Append(fate, "gone"),
         UNCHANGED <<queue, gen, pc, genOf, cur, ran>>,
         \/ Queued # {} /\ UNCHANGED <<guard, upset>>
         \/ upset' = upset \union {"overtaken"},
         UNCHANGED asked \/ asked' = [asked EXCEPT ![holder] = New]
  PROVE  AccountInv'
<1>t. TurnTypes /\ QueueTypes /\ SlotTypes
  BY TypeParts
<1>a. QueueInv /\ HolderInv /\ TakenInv /\ UniqueInv /\ OneTurnInv /\ OrderInv
  BY DEF AccountInv
<1>d. DOMAIN fate \subseteq Msgs /\ 0 \notin Msgs /\ Behind \subseteq Msgs /\ Queued \subseteq DOMAIN fate
  BY <1>t, <1>a, FateIs DEF Msgs, QueueInv
<1>f. /\ New \in Msgs \ DOMAIN fate /\ DOMAIN fate' = DOMAIN fate \union {New}
      /\ \A m \in DOMAIN fate : m < New /\ fate'[m] = fate[m]
      /\ fate'[New] = "gone"
  BY <1>t, Arrived
<1>q. UNCHANGED <<slotPend, Queued, Distinct, QueueOrdered>>
  BY DEF queue, Queued, Distinct, QueueOrdered, Behind
<1>r. UNCHANGED <<Done, RanOnce, RanInOrder>>
  BY DEF Done, RanOnce, RanInOrder
<1>p. /\ UNCHANGED <<pc, genOf, cur, gen>>
      /\ \A t \in Msgs : asked'[t] \in {asked[t], New}
      /\ upset \subseteq upset' /\ ("stolen" \in upset' => "stolen" \in upset)
      /\ {"stop", "overtaken"} \cap upset' = {} => Queued # {} /\ guard' = guard
  BY <1>t DEF TurnTypes
<1>h. \A t \in Msgs : pc[t] \in {"setup", "taking"} =>
        cur[t] \in DOMAIN fate /\ fate'[cur[t]] = fate[cur[t]] /\ fate[cur[t]] # "held" /\ cur[t] < New
  BY <1>a, <1>f DEF Holds, HolderInv
<1>11. QueueInv'
  BY <1>t, <1>a, <1>d, <1>f, <1>q, <1>r, <1>p, <1>h DEF QueueInv, HolderInv, Holds
<1>12. HolderInv'
  BY <1>t, <1>a, <1>d, <1>f, <1>q, <1>r, <1>p, <1>h DEF HolderInv, QueueInv, Holds
<1>13. TakenInv'
  BY <1>t, <1>a, <1>d, <1>f, <1>q, <1>r, <1>p, <1>h DEF TakenInv, HolderInv, QueueInv, Holds
<1>14. UniqueInv'
  BY <1>t, <1>a, <1>d, <1>f, <1>q, <1>r, <1>p, <1>h DEF UniqueInv, TakenInv, Without, Holds
<1>15. OneTurnInv'
  BY <1>t, <1>a, <1>d, <1>f, <1>q, <1>r, <1>p, <1>h DEF OneTurnInv, UniqueInv, HolderInv, Without,
     Alive, Current, TurnTypes, SlotTypes
<1>16. OrderInv'
  BY <1>a, <1>q, <1>r, <1>p DEF OrderInv, Without, Holds
<1> QED
  BY <1>11, <1>12, <1>13, <1>14, <1>15, <1>16 DEF AccountInv

\* A follow-up to a running turn.
LEMMA AccountFollowUp == TypeOK /\ AccountInv /\ FollowUp => AccountInv'
<1> SUFFICES ASSUME TypeOK, AccountInv, FollowUp PROVE AccountInv'
  OBVIOUS
<1>t. QueueTypes
  BY TypeParts
<1>1. /\ Arrives /\ guard # 0 /\ UNCHANGED <<gen, guard, pc, genOf, cur, ran, upset>>
      /\ UNCHANGED asked \/ asked' = [asked EXCEPT ![holder] = New]
  BY DEF FollowUp, Interrupts
<1>2. CASE (slotPend # 0 \/ QueueDepth >= Cap) /\ fate' = Append(fate, "gone") /\ UNCHANGED queue
  <2>1. Queued # {}
    BY <1>t, <1>2, FullQueue
  <2> QED
    BY <1>1, <1>2, <2>1, AccountDropped
<1>3. CASE fate' = Append(fate, "held") /\ EnqueueFifo(New)
  <2>1. Arrives /\ fate' = Append(fate, "held") /\ EnqueueFifo(New) /\ guard # 0
    BY <1>1, <1>3
  <2>2. gen' = gen /\ guard' = guard /\ genOf' = genOf /\ cur' = cur /\ ran' = ran
    BY <1>1
  <2>3. \A t \in Msgs : pc'[t] = pc[t] /\ asked'[t] \in {asked[t], New}
    BY <1>1, TypeParts DEF TurnTypes
  <2>4. upset \subseteq upset' /\ ("stolen" \in upset' => "stolen" \in upset)
    BY <1>1
  <2> HIDE <1>1, <1>3
  <2>5. JoinsQueue
    BY <2>1, <2>2, <2>3, <2>4 DEF JoinsQueue
  <2> QED
    BY <2>5, AccountArrival
<1> QED
  BY <1>2, <1>3 DEF FollowUp, QueueOrReplace

\* A queued command, and a follow-up of a draining gateway.
LEMMA AccountQueueCommand == TypeOK /\ AccountInv /\ (QueueCommand \/ FollowUpRefused) => AccountInv'
<1>1. ASSUME TypeOK, AccountInv, QueueCommand PROVE AccountInv'
  <2>1. /\ Arrives /\ fate' = Append(fate, "held") /\ EnqueueFifo(New)
        /\ {"stop", "overtaken"} \cap upset' = {} => guard # 0 /\ guard' = guard
    BY <1>1 DEF QueueCommand, Task, Passed
  <2>2. gen' = gen /\ genOf' = genOf /\ cur' = cur /\ ran' = ran
    BY <1>1 DEF QueueCommand, turn
  <2>3. \A t \in Msgs : pc'[t] = pc[t] /\ asked'[t] \in {asked[t], New}
    BY <1>1 DEF QueueCommand, turn
  <2>4. upset \subseteq upset' /\ ("stolen" \in upset' => "stolen" \in upset)
    BY <1>1 DEF QueueCommand, Passed
  <2>5. JoinsQueue
    BY <2>1, <2>2, <2>3, <2>4 DEF JoinsQueue
  <2> QED
    BY <1>1, <2>5, AccountArrival
<1>2. TypeOK /\ AccountInv /\ FollowUpRefused => AccountInv'
  BY AccountRefusal DEF FollowUpRefused
<1> QED
  BY <1>1, <1>2

\* A follow-up that finds the adapter idle and the session busy.
LEMMA AccountLateFollowUp == TypeOK /\ AccountInv /\ LateFollowUp => AccountInv'
<1> SUFFICES ASSUME TypeOK, AccountInv, LateFollowUp PROVE AccountInv'
  OBVIOUS
<1>1. /\ Arrives /\ UNCHANGED <<gen, pc, genOf, cur, ran>>
      /\ UNCHANGED asked \/ asked' = [asked EXCEPT ![holder] = New]
      /\ upset' = upset \union {"overtaken"}
  BY DEF LateFollowUp, GetsText, Interrupts, Passed
<1>2. CASE fate' = Append(fate, "gone") /\ UNCHANGED queue
  BY <1>1, <1>2, AccountDropped
<1>3. CASE fate' = Append(fate, "held") /\ EnqueueFifo(New)
  <2>1. \A t \in Msgs : pc'[t] = pc[t] /\ asked'[t] \in {asked[t], New}
    BY <1>1, TypeParts DEF TurnTypes
  <2>2. JoinsQueue
    BY <1>1, <1>3, <2>1 DEF JoinsQueue
  <2> QED
    BY <2>2, AccountArrival
<1> QED
  BY <1>2, <1>3 DEF LateFollowUp, QueueOrReplace, EnqueueFifo

\* A /steer that comes too early replaces what is in the slot.
LEMMA AccountSteer ==
  ASSUME TypeOK, AccountInv, SteerTooEarly
  PROVE  AccountInv'
<1>t. TurnTypes /\ QueueTypes /\ SlotTypes
  BY TypeParts
<1>a. QueueInv /\ HolderInv /\ TakenInv /\ UniqueInv /\ OneTurnInv /\ OrderInv
  BY DEF AccountInv
<1>d. DOMAIN fate \subseteq Msgs /\ 0 \notin Msgs /\ Behind \subseteq Msgs /\ Queued \subseteq DOMAIN fate
  BY <1>t, <1>a, FateIs DEF Msgs, QueueInv
<1>s. slotPend \in Queued \union {0} /\ slotPend \in 0 .. MaxMsgs
  BY <1>t DEF Queued, QueueTypes
<1>f. /\ New \in Msgs \ DOMAIN fate /\ DOMAIN fate' = DOMAIN fate \union {New}
      /\ \A m \in DOMAIN fate : m < New /\ fate'[m] = IF m = slotPend THEN "overwritten" ELSE fate[m]
      /\ fate'[New] = "held"
  <2> DEFINE f == [m \in DOMAIN fate |-> IF m = slotPend THEN "overwritten" ELSE fate[m]]
  <2>1. \A i \in DOMAIN fate : f[i] \in Fates
    BY <1>t, FateIs DEF Fates
  <2>2. f \in Seq(Fates) /\ Len(f) = Len(fate)
    BY <1>t, <2>1, UpdateTypes, SMTT(60) DEF QueueTypes
  <2>3. fate' = Append(f, "held") /\ Arrives
    BY DEF SteerTooEarly
  <2>4. \A m \in DOMAIN fate : f[m] = IF m = slotPend THEN "overwritten" ELSE fate[m]
    OBVIOUS
  <2> HIDE DEF f
  <2>5. /\ DOMAIN Append(f, "held") = DOMAIN fate \union {New}
        /\ New \in Msgs \ DOMAIN fate /\ New # 0
        /\ \A m \in DOMAIN fate : m < New /\ Append(f, "held")[m] = f[m]
        /\ Append(f, "held")[New] = "held"
    BY <1>t, <2>2, <2>3, Arrival
  <2> QED
    BY <2>3, <2>4, <2>5
<1>q. Queued' = (Queued \ {slotPend}) \union {New} /\ Distinct' /\ slotPend' = New
  BY <1>t, <1>a, <1>d, <1>f, SlotSet DEF SteerTooEarly, QueueInv, Msgs
<1>o. QueueOrdered /\ slotPend = 0 => QueueOrdered'
  BY <1>t, <1>f, <1>q DEF QueueOrdered, Behind, SteerTooEarly
<1>r. UNCHANGED <<Done, RanOnce, RanInOrder>>
  BY DEF SteerTooEarly, Done, RanOnce, RanInOrder
<1>p. UNCHANGED <<pc, genOf, cur, asked, gen>>
  BY DEF SteerTooEarly, turn
<1>u. /\ upset \subseteq upset' /\ ("stolen" \in upset' => "stolen" \in upset)
      /\ slotPend # 0 => "overwritten" \in upset'
      /\ {"stop", "overtaken"} \cap upset' = {} => guard # 0 /\ guard' = guard
  BY DEF SteerTooEarly, Task, Passed
<1>w. (slotPend # 0 => fate[slotPend] = "held") /\ slotPend # New /\ (slotPend # 0 => slotPend \in DOMAIN fate)
  BY <1>a, <1>d, <1>s, <1>f DEF QueueInv
<1>h. \A t \in Msgs : pc[t] \in {"setup", "taking"} =>
        cur[t] \in DOMAIN fate /\ fate'[cur[t]] = fate[cur[t]] /\ fate[cur[t]] # "held" /\ cur[t] < New
  BY <1>a, <1>s, <1>f, <1>d DEF QueueInv, Holds, HolderInv
<1>11. QueueInv'
  BY <1>t, <1>a, <1>d, <1>f, <1>q, <1>r, <1>p, <1>s, <1>o, <1>u, <1>w, <1>h DEF QueueInv,
     HolderInv, Holds
<1>12. HolderInv'
  BY <1>t, <1>a, <1>d, <1>f, <1>q, <1>r, <1>p, <1>s, <1>o, <1>u, <1>w, <1>h DEF HolderInv,
     QueueInv, Holds
<1>13. TakenInv'
  BY <1>t, <1>a, <1>d, <1>f, <1>q, <1>r, <1>p, <1>s, <1>o, <1>u, <1>w, <1>h DEF TakenInv,
     HolderInv, QueueInv, Holds
<1>14. UniqueInv'
  BY <1>t, <1>a, <1>d, <1>f, <1>q, <1>r, <1>p, <1>s, <1>o, <1>u, <1>w, <1>h DEF UniqueInv,
     TakenInv, Without, Holds
<1>15. OneTurnInv'
  BY <1>t, <1>a, <1>d, <1>f, <1>q, <1>r, <1>p, <1>s, <1>o, <1>u, <1>w, <1>h DEF OneTurnInv,
     UniqueInv, HolderInv, Without, Alive, Current, TurnTypes, SlotTypes
<1>16. OrderInv'
  BY <1>t, <1>a, <1>d, <1>f, <1>q, <1>r, <1>p, <1>s, <1>o, <1>u, <1>w, <1>h DEF OrderInv,
     OneTurnInv, HolderInv, TakenInv, QueueInv, Without, Holds, Alive
<1> QED
  BY <1>11, <1>12, <1>13, <1>14, <1>15, <1>16 DEF AccountInv

\* A stop empties the slot.
LEMMA AccountStop ==
  ASSUME TypeOK, AccountInv, Stop
  PROVE  AccountInv'
<1>t. TurnTypes /\ QueueTypes /\ SlotTypes
  BY TypeParts
<1>a. QueueInv /\ HolderInv /\ TakenInv /\ UniqueInv /\ OneTurnInv /\ OrderInv
  BY DEF AccountInv
<1>d. DOMAIN fate \subseteq Msgs /\ 0 \notin Msgs /\ Behind \subseteq Msgs /\ Queued \subseteq DOMAIN fate
  BY <1>t, <1>a, FateIs DEF Msgs, QueueInv
<1>s. slotPend \in Queued \union {0} /\ slotPend \in 0 .. MaxMsgs
  BY <1>t DEF Queued, QueueTypes
<1>f. DOMAIN fate' = DOMAIN fate /\ \A m \in DOMAIN fate : fate'[m] = IF m = slotPend THEN "gone" ELSE fate[m]
  BY DEF Stop
<1>q. Queued' = Queued \ {slotPend} /\ Distinct'
  BY <1>t, <1>a, <1>d, SlotSet, MsgsRange DEF Stop, QueueInv
<1>r. UNCHANGED <<Done, RanOnce, RanInOrder>>
  BY DEF Stop, Done, RanOnce, RanInOrder
<1>p. /\ UNCHANGED <<pc, genOf, cur>> /\ upset' = upset \union {"stop"}
      /\ \A t \in Msgs : asked'[t] = asked[t] \/ asked'[t] \notin Msgs
  <2>1. Control \notin Msgs
    BY TurnsAssumption DEF Control, Msgs
  <2> QED
    BY <1>t, <2>1 DEF Stop, Interrupts, TurnTypes
<1>11. QueueInv'
  BY <1>t, <1>a, <1>d, <1>f, <1>q, <1>r, <1>p, <1>s DEF QueueInv, HolderInv, Holds
<1>12. HolderInv'
  BY <1>t, <1>a, <1>d, <1>f, <1>q, <1>r, <1>p, <1>s DEF HolderInv, QueueInv, Holds, TurnTypes
<1>13. TakenInv'
  BY <1>t, <1>a, <1>d, <1>f, <1>q, <1>r, <1>p, <1>s DEF TakenInv, HolderInv, QueueInv, Holds, TurnTypes
<1>14. UniqueInv'
  BY <1>t, <1>a, <1>d, <1>f, <1>q, <1>r, <1>p, <1>s DEF UniqueInv, TakenInv, HolderInv, QueueInv,
     Holds, Without, TurnTypes
<1>15. OneTurnInv'
  BY <1>t, <1>a, <1>d, <1>f, <1>q, <1>r, <1>p, <1>s DEF OneTurnInv, UniqueInv, HolderInv, Without,
     Alive, Current, TurnTypes, SlotTypes
<1>16. OrderInv'
  BY <1>t, <1>a, <1>d, <1>f, <1>q, <1>r, <1>p, <1>s DEF OrderInv, OneTurnInv, HolderInv, TakenInv,
     QueueInv, Without, Alive, Holds, TurnTypes
<1> QED
  BY <1>11, <1>12, <1>13, <1>14, <1>15, <1>16 DEF AccountInv

\* A turn is over; nothing waits in the slot if it still had the guard.
LEMMA AccountTurnOver ==
  ASSUME TypeOK, AccountInv, NEW t \in Msgs, TurnOver(t)
  PROVE  AccountInv'
<1>t. TurnTypes /\ QueueTypes /\ SlotTypes
  BY TypeParts
<1>a. QueueInv /\ HolderInv /\ TakenInv /\ UniqueInv /\ OneTurnInv /\ OrderInv
  BY DEF AccountInv
<1>d. DOMAIN fate \subseteq Msgs /\ 0 \notin Msgs /\ Behind \subseteq Msgs /\ Queued \subseteq DOMAIN fate
  BY <1>t, <1>a, FateIs DEF Msgs, QueueInv
<1>q. UNCHANGED <<slotPend, Queued, Distinct, QueueOrdered>>
  BY DEF TurnOver, queue, Queued, Distinct, QueueOrdered, Behind
<1>r. UNCHANGED <<Done, RanOnce, RanInOrder>>
  BY DEF TurnOver, Done, RanOnce, RanInOrder
<1>g. /\ pc[t] = "replying" /\ UNCHANGED <<fate, gen, upset>>
      /\ guard' = IF guard = t THEN 0 ELSE guard
      /\ guard = t => slotPend = 0
      /\ 0 # Relay
  BY MsgsRange DEF TurnOver, At
<1>z. \A u \in Msgs : /\ u = t => pc'[u] = "over" /\ genOf'[u] = 0 /\ cur'[u] = 0 /\ asked'[u] = 0
                      /\ u # t => /\ pc'[u] = pc[u] /\ genOf'[u] = genOf[u]
                                  /\ cur'[u] = cur[u] /\ asked'[u] = asked[u]
  BY <1>d, TurnsAreAll DEF TurnOver
<1>p. /\ \A u \in Msgs : pc'[u] = IF u = t THEN "over" ELSE pc[u]
      /\ \A u \in Msgs : pc'[u] # "over" => cur'[u] = cur[u] /\ genOf'[u] = genOf[u]
      /\ \A u \in Msgs : asked'[u] = IF u = t THEN 0 ELSE asked[u]
  <2>1. \A u \in Msgs : pc'[u] = IF u = t THEN "over" ELSE pc[u]
    BY <1>z
  <2>2. \A u \in Msgs : pc'[u] # "over" => cur'[u] = cur[u] /\ genOf'[u] = genOf[u]
    BY <1>z
  <2>3. \A u \in Msgs : asked'[u] = IF u = t THEN 0 ELSE asked[u]
    BY <1>z
  <2> QED
    BY <2>1, <2>2, <2>3
<1>e. \A u \in Msgs : pc'[u] \in {"setup", "taking"} <=> pc[u] \in {"setup", "taking"}
  BY <1>p, <1>g
<1>11. QueueInv'
  BY <1>a, <1>d, <1>q, <1>r, <1>p, <1>g, <1>e DEF QueueInv, HolderInv, Holds
<1>12. HolderInv'
  BY <1>a, <1>d, <1>q, <1>r, <1>p, <1>g, <1>e DEF HolderInv, QueueInv, Holds
<1>13. TakenInv'
  BY <1>a, <1>d, <1>q, <1>r, <1>p, <1>g, <1>e DEF TakenInv, HolderInv, QueueInv, Holds
<1>14. UniqueInv'
  BY <1>a, <1>d, <1>q, <1>r, <1>p, <1>g, <1>e DEF UniqueInv, TakenInv, Without, Holds
<1>15. OneTurnInv'
  BY <1>a, <1>d, <1>q, <1>r, <1>p, <1>g, <1>e DEF OneTurnInv, UniqueInv, HolderInv, Without, Alive,
     Current
<1>16. OrderInv'
  BY <1>a, <1>d, <1>q, <1>r, <1>p, <1>g, <1>e DEF OrderInv, OneTurnInv, HolderInv, TakenInv,
     QueueInv, Without, Holds, Alive
<1> QED
  BY <1>11, <1>12, <1>13, <1>14, <1>15, <1>16 DEF AccountInv

\* A message opens a turn: on an idle session, or as a command that passes by.
LEMMA AccountOpens ==
  ASSUME TypeOK, AccountInv, Arrives, fate' = Append(fate, "taken"), TurnsAre(0, New),
         gen' = gen + 1, UNCHANGED <<queue, ran>>,
         \/ guard = 0 /\ guard' = New /\ upset' = upset
         \/ upset' = upset \union {"overtaken"}
  PROVE  AccountInv'
<1>t. TurnTypes /\ QueueTypes /\ SlotTypes
  BY TypeParts
<1>a. QueueInv /\ HolderInv /\ TakenInv /\ UniqueInv /\ OneTurnInv /\ OrderInv
  BY DEF AccountInv
<1>d. DOMAIN fate \subseteq Msgs /\ 0 \notin Msgs /\ Behind \subseteq Msgs /\ Queued \subseteq DOMAIN fate
  BY <1>t, <1>a, FateIs DEF Msgs, QueueInv
<1>f. /\ New \in Msgs \ DOMAIN fate /\ DOMAIN fate' = DOMAIN fate \union {New}
      /\ \A m \in DOMAIN fate : m < New /\ fate'[m] = fate[m]
      /\ fate'[New] = "taken"
  BY <1>t, Arrived
<1>q. UNCHANGED <<slotPend, Queued, Distinct, QueueOrdered>>
  BY DEF queue, Queued, Distinct, QueueOrdered, Behind
<1>r. UNCHANGED <<Done, RanOnce, RanInOrder>>
  BY DEF Done, RanOnce, RanInOrder
<1>z. \A u \in Msgs : /\ u = New => pc'[u] = "setup" /\ genOf'[u] = gen' /\ cur'[u] = u /\ asked'[u] = 0
                      /\ u # New => /\ pc'[u] = pc[u] /\ genOf'[u] = genOf[u]
                                    /\ cur'[u] = cur[u] /\ asked'[u] = asked[u]
  BY <1>d, TurnsAreAll
<1>p. /\ \A u \in Msgs : pc'[u] = IF u = New THEN "setup" ELSE pc[u]
      /\ \A u \in Msgs : cur'[u] = IF u = New THEN u ELSE cur[u]
      /\ \A u \in Msgs : asked'[u] = IF u = New THEN 0 ELSE asked[u]
      /\ genOf'[New] = gen'
  <2>1. \A u \in Msgs : pc'[u] = IF u = New THEN "setup" ELSE pc[u]
    BY <1>z
  <2>2. \A u \in Msgs : cur'[u] = IF u = New THEN u ELSE cur[u]
    BY <1>z
  <2>3. \A u \in Msgs : asked'[u] = IF u = New THEN 0 ELSE asked[u]
    BY <1>z
  <2>4. genOf'[New] = gen'
    BY <1>z, <1>f
  <2> QED
    BY <2>1, <2>2, <2>3, <2>4
<1>g. /\ upset \subseteq upset' /\ ("stolen" \in upset' => "stolen" \in upset)
      /\ {"stop", "overtaken"} \cap upset' = {} => guard = 0 /\ guard' = New /\ upset' = upset /\ New # Relay
  BY <1>f, MsgsRange
<1>w. pc[New] = "none" /\ New # 0
  BY <1>t, <1>a, <1>f, <1>d DEF HolderInv
<1>x. {"stop", "overtaken"} \cap upset' = {} => \A u \in Msgs : pc[u] \in {"none", "over"}
  BY <1>a, <1>g, <1>d DEF OneTurnInv, Alive, Without
<1>y. {"stop", "overtaken", "overwritten", "handover"} \cap upset' = {} =>
        Queued = {} /\ slotPend = 0 /\ overflow = <<>>
  BY <1>a, <1>g DEF OrderInv, QueueOrdered, Queued, Behind, Without
<1>h. \A t \in Msgs : pc[t] \in {"setup", "taking"} =>
        cur[t] \in DOMAIN fate /\ fate'[cur[t]] = fate[cur[t]] /\ fate[cur[t]] # "held" /\ cur[t] < New
  BY <1>a, <1>f DEF Holds, HolderInv
<1>11. QueueInv'
  BY <1>a, <1>d, <1>f, <1>q, <1>r, <1>p, <1>g, <1>w, <1>h DEF QueueInv, HolderInv, Holds
<1>12. HolderInv'
  BY <1>a, <1>d, <1>f, <1>q, <1>r, <1>p, <1>g, <1>w, <1>h DEF HolderInv, QueueInv, Holds
<1>13. TakenInv'
  BY <1>a, <1>d, <1>f, <1>q, <1>r, <1>p, <1>g, <1>w, <1>h DEF TakenInv, HolderInv, QueueInv, Holds
<1>14. UniqueInv'
  BY <1>a, <1>d, <1>f, <1>q, <1>r, <1>p, <1>g, <1>w, <1>h DEF UniqueInv, TakenInv, Without, Holds
<1>15. OneTurnInv'
  BY <1>a, <1>d, <1>f, <1>q, <1>r, <1>p, <1>g, <1>w, <1>x, <1>h DEF OneTurnInv, UniqueInv,
     HolderInv, Without, Alive, Current
<1>16. OrderInv'
  <2> SUFFICES ASSUME {"stop", "overtaken", "overwritten", "handover"} \cap upset' = {}
               PROVE  /\ QueueOrdered' /\ RanInOrder' /\ guard' # 0
                      /\ Queued' = {} /\ \A d \in Done' : d < New
                      /\ \A u \in Msgs : Holds(u)' => cur'[u] = New
    BY DEF OrderInv, Without
  <2>1. /\ QueueOrdered /\ RanInOrder /\ guard' = New
        /\ Queued = {} /\ \A u \in Msgs : pc[u] \in {"none", "over"}
    BY <1>a, <1>g, <1>x, <1>y DEF OrderInv, Without
  <2>2. \A d \in Done : d < New
    BY <1>a, <1>f DEF TakenInv
  <2>3. \A u \in Msgs : Holds(u)' => cur'[u] = New
    BY <1>p, <2>1 DEF Holds
  <2> QED
    BY <1>q, <1>r, <1>w, <2>1, <2>2, <2>3
<1> QED
  BY <1>11, <1>12, <1>13, <1>14, <1>15, <1>16 DEF AccountInv

\* A message starts a turn, or is refused.
LEMMA AccountTurnStarts == TypeOK /\ AccountInv /\ TurnStarts => AccountInv'
<1> SUFFICES ASSUME TypeOK, AccountInv, TurnStarts PROVE AccountInv'
  OBVIOUS
<1>1. CASE fate' = Append(fate, "gone") /\ UNCHANGED <<running, gen, turn, guard>>
  BY <1>1, AccountRefusal DEF TurnStarts
<1>2. CASE fate' = Append(fate, "taken") /\ Claim(New) /\ TurnsAre(0, New) /\ guard' = New
  BY <1>2, AccountOpens DEF TurnStarts, Claim
<1> QED
  BY <1>1, <1>2 DEF TurnStarts

\* A command that passes by starts a turn, or is refused.
LEMMA AccountCommandStarts == TypeOK /\ AccountInv /\ CommandStarts => AccountInv'
<1> SUFFICES ASSUME TypeOK, AccountInv, CommandStarts PROVE AccountInv'
  OBVIOUS
<1>1. CASE fate' = Append(fate, "gone") /\ UNCHANGED <<running, gen, turn, stops, upset>>
  BY <1>1, AccountRefusal DEF CommandStarts
<1>2. CASE /\ fate' = Append(fate, "taken") /\ Claim(New) /\ TurnsAre(0, New)
           /\ upset' = upset \union {"overtaken"}
  BY <1>2, AccountOpens DEF CommandStarts, Claim
<1> QED
  BY <1>1, <1>2 DEF CommandStarts

\* A turn closes; a standing goal may put its continuation into the queue.
LEMMA AccountCloses ==
  ASSUME TypeOK, AccountInv, NEW t \in Msgs, Closes(t)
  PROVE  AccountInv'
<1>t. TurnTypes /\ QueueTypes /\ SlotTypes
  BY TypeParts
<1>a. QueueInv /\ HolderInv /\ TakenInv /\ UniqueInv /\ OneTurnInv /\ OrderInv
  BY DEF AccountInv
<1>d. DOMAIN fate \subseteq Msgs /\ 0 \notin Msgs /\ Behind \subseteq Msgs /\ Queued \subseteq DOMAIN fate
  BY <1>t, <1>a, FateIs DEF Msgs, QueueInv
<1>g. /\ pc[t] = "closing" /\ UNCHANGED <<cur, gen, guard, genOf, asked, ran>>
      /\ \A u \in Msgs : pc'[u] = IF u = t THEN "replying" ELSE pc[u]
      /\ upset \subseteq upset' /\ upset' \subseteq upset \union {"clobbered"}
  BY <1>t DEF Closes, Release, Goes, At, TurnTypes
<1>1. CASE UNCHANGED <<fate, queue>>
  <2>q. UNCHANGED <<fate, slotPend, Queued, Distinct, QueueOrdered, Done, RanOnce, RanInOrder>>
    BY <1>1 DEF Closes, queue, Queued, Distinct, QueueOrdered, Behind, Done, RanOnce, RanInOrder
  <2>11. QueueInv'
    BY <1>a, <1>d, <2>q, <1>g DEF QueueInv, HolderInv, Holds
  <2>12. HolderInv'
    BY <1>a, <1>d, <2>q, <1>g DEF HolderInv, QueueInv, Holds
  <2>13. TakenInv'
    BY <1>a, <1>d, <2>q, <1>g DEF TakenInv, HolderInv, QueueInv, Holds
  <2>14. UniqueInv'
    BY <1>a, <1>d, <2>q, <1>g DEF UniqueInv, TakenInv, HolderInv, Without, Holds
  <2>15. OneTurnInv'
    BY <1>a, <1>d, <2>q, <1>g DEF OneTurnInv, UniqueInv, HolderInv, Without, Alive, Current
  <2>16. OrderInv'
    BY <1>a, <1>d, <2>q, <1>g DEF OrderInv, OneTurnInv, HolderInv, TakenInv, QueueInv, Without,
       Holds, Alive
  <2> QED
    BY <2>11, <2>12, <2>13, <2>14, <2>15, <2>16 DEF AccountInv
<1>2. CASE Current(t) /\ fate[t] = "ran" /\ GoalContinues
  <2>1. Arrives /\ fate' = Append(fate, "held") /\ EnqueueFifo(New)
    BY <1>2 DEF GoalContinues
  <2>2. {"stop", "overtaken"} \cap upset' = {} => guard # 0 /\ guard' = guard
    BY <1>a, <1>g, <1>d DEF OneTurnInv, Alive, Without
  <2>3. \A u \in Msgs : /\ pc'[u] = pc[u] \/ (pc[u] = "closing" /\ pc'[u] = "replying")
                       /\ asked'[u] \in {asked[u], New}
    BY <1>g
  <2>4. "stolen" \in upset' => "stolen" \in upset
    BY <1>g
  <2>5. JoinsQueue
    BY <1>g, <2>1, <2>2, <2>3, <2>4 DEF JoinsQueue
  <2> QED
    BY <2>5, AccountArrival
<1> QED
  BY <1>1, <1>2 DEF Closes

\* The slot is handed to a new turn, or what it held is refused.
LEMMA AccountDelivers ==
  ASSUME TypeOK, AccountInv, NEW t \in Msgs \union {Relay}, Delivers(t), t \in Msgs => pc[t] = "replying"
  PROVE  AccountInv'
<1>t. TurnTypes /\ QueueTypes /\ SlotTypes
  BY TypeParts
<1>a. QueueInv /\ HolderInv /\ TakenInv /\ UniqueInv /\ OneTurnInv /\ OrderInv
  BY DEF AccountInv
<1>d. DOMAIN fate \subseteq Msgs /\ 0 \notin Msgs /\ Behind \subseteq Msgs /\ Queued \subseteq DOMAIN fate
  BY <1>t, <1>a, FateIs DEF Msgs, QueueInv
<1>g. /\ guard = t /\ slotPend # 0 /\ slotPend' = 0 /\ UNCHANGED <<overflow, ran>>
      /\ \A u \in Msgs : u = t => pc[u] = "replying"
  BY DEF Delivers
<1>s. slotPend \in Queued /\ slotPend \in DOMAIN fate /\ slotPend \in Msgs /\ fate[slotPend] = "held" /\ pc[slotPend] = "none"
  BY <1>g, <1>a, <1>d DEF Queued, QueueInv, HolderInv
<1>q. Queued' = Queued \ {slotPend} /\ Distinct'
  BY <1>t, <1>a, <1>d, <1>g, SlotSet, MsgsRange DEF QueueInv
<1>o. overflow = <<>> => QueueOrdered' /\ Queued' = {}
  BY <1>g DEF QueueOrdered, Queued, Behind
<1>x. Without({"stop", "overtaken"}) => \A u \in Msgs : u # t => pc[u] \in {"none", "over"}
  BY <1>a, <1>g, <1>d DEF OneTurnInv, Alive, Without
<1>r. UNCHANGED <<Done, RanOnce, RanInOrder>>
  BY DEF Delivers, Done, RanOnce, RanInOrder
<1>2. CASE /\ draining = "no"
           /\ fate' = [fate EXCEPT ![slotPend] = "taken"]
           /\ upset' = IF overflow = <<>> THEN upset ELSE upset \union {"handover"}
           /\ Claim(slotPend) /\ TurnsAre(t, slotPend)
           /\ guard' = slotPend
  <2>f. DOMAIN fate' = DOMAIN fate /\ \A m \in DOMAIN fate : fate'[m] = IF m = slotPend THEN "taken" ELSE fate[m]
    BY <1>2
  <2>z. \A u \in Msgs :
          /\ u = slotPend => pc'[u] = "setup" /\ genOf'[u] = gen' /\ cur'[u] = u /\ asked'[u] = 0
          /\ u # slotPend /\ u = t => pc'[u] = "over" /\ genOf'[u] = 0 /\ cur'[u] = 0 /\ asked'[u] = 0
          /\ u # slotPend /\ u # t =>
               pc'[u] = pc[u] /\ genOf'[u] = genOf[u] /\ cur'[u] = cur[u] /\ asked'[u] = asked[u]
    BY <1>2, TurnsAreAll DEF Claim
  <2>p. \A u \in Msgs : pc'[u] = IF u = slotPend THEN "setup" ELSE IF u = t THEN "over" ELSE pc[u]
    BY <2>z
  <2>y. \A u \in Msgs : pc'[u] # "over" => cur'[u] = IF u = slotPend THEN u ELSE cur[u]
    BY <2>z
  <2>x. \A u \in Msgs : asked'[u] \in Msgs => asked'[u] = asked[u] /\ u # slotPend
    BY <2>z, <1>d
  <2>w. genOf'[slotPend] = gen'
    BY <2>z, <1>s
  <2>g. guard' = slotPend /\ slotPend # Relay
    BY <1>2, <1>s, MsgsRange
  <2>u. upset' = IF overflow = <<>> THEN upset ELSE upset \union {"handover"}
    BY <1>2
  <2>11. QueueInv'
    BY <1>a, <1>d, <1>g, <1>s, <1>q, <1>o, <1>x, <1>r, <2>f, <2>p, <2>y, <2>x, <2>w, <2>g, <2>u
       DEF QueueInv, HolderInv, Holds
  <2>12. HolderInv'
    BY <1>a, <1>d, <1>g, <1>s, <1>q, <1>o, <1>x, <1>r, <2>f, <2>p, <2>y, <2>x, <2>w, <2>g, <2>u
       DEF HolderInv, QueueInv, Holds
  <2>13. TakenInv'
    BY <1>a, <1>d, <1>g, <1>s, <1>q, <1>o, <1>x, <1>r, <2>f, <2>p, <2>y, <2>x, <2>w, <2>g, <2>u
       DEF TakenInv, HolderInv, QueueInv, Holds
  <2>14. UniqueInv'
    BY <1>a, <1>d, <1>g, <1>s, <1>q, <1>o, <1>x, <1>r, <2>f, <2>p, <2>y, <2>x, <2>w, <2>g, <2>u
       DEF UniqueInv, TakenInv, HolderInv, Without, Holds
  <2>15. OneTurnInv'
    BY <1>a, <1>d, <1>g, <1>s, <1>q, <1>o, <1>x, <1>r, <2>f, <2>p, <2>y, <2>x, <2>w, <2>g, <2>u
       DEF OneTurnInv, UniqueInv, HolderInv, Without, Alive, Current
  <2>16. OrderInv'
    BY <1>a, <1>d, <1>g, <1>s, <1>q, <1>o, <1>x, <1>r, <2>f, <2>p, <2>y, <2>x, <2>w, <2>g, <2>u
       DEF OrderInv, OneTurnInv, HolderInv, TakenInv, QueueInv, Without, Holds, Alive
  <2> QED
    BY <2>11, <2>12, <2>13, <2>14, <2>15, <2>16 DEF AccountInv
<1>3. CASE /\ fate' = [fate EXCEPT ![slotPend] = "gone"]
           /\ upset' = IF overflow = <<>> THEN upset ELSE upset \union {"handover", "undrained"}
           /\ guard' = 0 /\ TurnsAre(t, 0)
           /\ UNCHANGED <<running, gen>>
  <2>f. DOMAIN fate' = DOMAIN fate /\ \A m \in DOMAIN fate : fate'[m] = IF m = slotPend THEN "gone" ELSE fate[m]
    BY <1>3
  <2>z. \A u \in Msgs :
          /\ u = t => pc'[u] = "over" /\ genOf'[u] = 0 /\ cur'[u] = 0 /\ asked'[u] = 0
          /\ u # t => pc'[u] = pc[u] /\ genOf'[u] = genOf[u] /\ cur'[u] = cur[u] /\ asked'[u] = asked[u]
    BY <1>3, <1>d, TurnsAreAll
  <2>p. \A u \in Msgs : pc'[u] = IF u = t THEN "over" ELSE pc[u]
    BY <2>z
  <2>y. \A u \in Msgs : pc'[u] # "over" => cur'[u] = cur[u] /\ genOf'[u] = genOf[u]
    BY <2>z
  <2>x. \A u \in Msgs : asked'[u] \in Msgs => asked'[u] = asked[u]
    BY <2>z, <1>d
  <2>g. guard' = 0 /\ 0 # Relay
    BY <1>3, MsgsRange
  <2>u. upset' = IF overflow = <<>> THEN upset ELSE upset \union {"handover", "undrained"}
    BY <1>3
  <2>11. QueueInv'
    BY <1>a, <1>d, <1>g, <1>s, <1>q, <1>o, <1>x, <1>r, <2>f, <2>p, <2>y, <2>x, <2>g, <2>u
       DEF QueueInv, HolderInv, Holds
  <2>12. HolderInv'
    BY <1>a, <1>d, <1>g, <1>s, <1>q, <1>o, <1>x, <1>r, <2>f, <2>p, <2>y, <2>x, <2>g, <2>u
       DEF HolderInv, QueueInv, Holds
  <2>13. TakenInv'
    BY <1>a, <1>d, <1>g, <1>s, <1>q, <1>o, <1>x, <1>r, <2>f, <2>p, <2>y, <2>x, <2>g, <2>u
       DEF TakenInv, HolderInv, QueueInv, Holds
  <2>14. UniqueInv'
    BY <1>a, <1>d, <1>g, <1>s, <1>q, <1>o, <1>x, <1>r, <2>f, <2>p, <2>y, <2>x, <2>g, <2>u
       DEF UniqueInv, TakenInv, HolderInv, Without, Holds
  <2>15. OneTurnInv'
    BY <1>a, <1>d, <1>g, <1>s, <1>q, <1>o, <1>x, <1>r, <2>f, <2>p, <2>y, <2>x, <2>g, <2>u
       DEF OneTurnInv, UniqueInv, HolderInv, Without, Alive, Current
  <2>16. OrderInv'
    BY <1>a, <1>d, <1>g, <1>s, <1>q, <1>o, <1>x, <1>r, <2>f, <2>p, <2>y, <2>x, <2>g, <2>u
       DEF OrderInv, OneTurnInv, HolderInv, TakenInv, QueueInv, Without, Holds, Alive
  <2> QED
    BY <2>11, <2>12, <2>13, <2>14, <2>15, <2>16 DEF AccountInv
<1> QED
  BY <1>2, <1>3 DEF Delivers

\* The same where the session is busy with a turn that passed by.
LEMMA AccountMeetsBusy ==
  ASSUME TypeOK, AccountInv, NEW t, MeetsBusy(t)
  PROVE  AccountInv'
<1>t. TurnTypes /\ QueueTypes /\ SlotTypes
  BY TypeParts
<1>a. QueueInv /\ HolderInv /\ TakenInv /\ UniqueInv /\ OneTurnInv /\ OrderInv
  BY DEF AccountInv
<1>d. DOMAIN fate \subseteq Msgs /\ 0 \notin Msgs /\ Behind \subseteq Msgs /\ Queued \subseteq DOMAIN fate
  BY <1>t, <1>a, FateIs DEF Msgs, QueueInv
<1>g. slotPend # 0 /\ slotPend' = 0 /\ UNCHANGED <<overflow, pc, genOf, cur, ran>>
  BY DEF MeetsBusy
<1>s. slotPend \in Queued /\ slotPend \in DOMAIN fate /\ fate[slotPend] = "held"
  BY <1>g, <1>a DEF Queued, QueueInv
<1>f. DOMAIN fate' = DOMAIN fate /\ \A m \in DOMAIN fate : fate'[m] = IF m = slotPend THEN "gone" ELSE fate[m]
  BY DEF MeetsBusy
<1>q. Queued' = Queued \ {slotPend} /\ Distinct'
  BY <1>t, <1>a, <1>d, <1>g, SlotSet, MsgsRange DEF QueueInv
<1>r. UNCHANGED <<Done, RanOnce, RanInOrder>>
  BY <1>g DEF Done, RanOnce, RanInOrder
<1>p. \A u \in Msgs : asked'[u] \in {asked[u], slotPend}
  BY <1>t DEF MeetsBusy, GetsText, Interrupts, TurnTypes
<1>u. upset' = upset \union {"overtaken"}
  BY DEF MeetsBusy
<1>11. QueueInv'
  BY <1>a, <1>f, <1>q, <1>s DEF QueueInv
<1>12. HolderInv'
  BY <1>a, <1>d, <1>f, <1>q, <1>g, <1>p, <1>s DEF HolderInv, QueueInv, Holds
<1>13. TakenInv'
  BY <1>a, <1>d, <1>f, <1>q, <1>g, <1>r, <1>s DEF TakenInv, HolderInv, QueueInv, Holds
<1>14. UniqueInv'
  BY <1>a, <1>d, <1>f, <1>q, <1>g, <1>r, <1>s, <1>u DEF UniqueInv, TakenInv, HolderInv, Without, Holds
<1>15. OneTurnInv' /\ OrderInv'
  BY <1>u DEF OneTurnInv, OrderInv, Without
<1> QED
  BY <1>11, <1>12, <1>13, <1>14, <1>15 DEF AccountInv

\* The hand-over by a turn.
LEMMA AccountHandsOver ==
  ASSUME TypeOK, AccountInv, NEW t \in Msgs, HandsOver(t) \/ FindsBusy(t)
  PROVE  AccountInv'
<1>1. CASE HandsOver(t)
  BY <1>1, AccountDelivers DEF HandsOver, At
<1>2. CASE FindsBusy(t)
  BY <1>2, AccountMeetsBusy DEF FindsBusy
<1> QED
  BY <1>1, <1>2

\* The hand-over by a task of the adapter that has no turn.
LEMMA AccountRelay == TypeOK /\ AccountInv /\ RelayStep => AccountInv'
<1> SUFFICES ASSUME TypeOK, AccountInv, RelayStep PROVE AccountInv'
  OBVIOUS
<1>1. CASE Delivers(Relay)
  BY <1>1, AccountDelivers, MsgsRange
<1>2. CASE MeetsBusy(Relay)
  BY <1>2, AccountMeetsBusy
<1>3. CASE RelayOver
  <2>1. UNCHANGED <<fate, slotPend, overflow, gen, pc, genOf, cur, asked, ran, upset>>
    BY <1>3 DEF RelayOver, queue, turn
  <2>2. UNCHANGED <<Queued, Behind, Done, Distinct, QueueOrdered, RanOnce, RanInOrder>>
    BY <2>1 DEF Queued, Behind, Done, Distinct, QueueOrdered, RanOnce, RanInOrder
  <2>3. QueueInv' /\ HolderInv' /\ TakenInv' /\ UniqueInv'
    BY <2>1, <2>2 DEF AccountInv, QueueInv, HolderInv, TakenInv, UniqueInv, Holds, Without
  <2>4. guard = Relay /\ guard' = 0 /\ slotPend = 0
    BY <1>3 DEF RelayOver
  <2>5. ~Without({"stop", "overtaken"})
    BY <2>4 DEF AccountInv, OneTurnInv
  <2>6. OneTurnInv' /\ OrderInv'
    BY <2>1, <2>5 DEF OneTurnInv, OrderInv, Without
  <2> QED
    BY <2>3, <2>6 DEF AccountInv
<1> QED
  BY <1>1, <1>2, <1>3 DEF RelayStep

\* Initially nothing has arrived.
LEMMA AccountInit == Init => AccountInv
<1> SUFFICES ASSUME Init PROVE AccountInv
  OBVIOUS
<1>1. /\ DOMAIN fate = {} /\ DOMAIN overflow = {} /\ DOMAIN ran = {} /\ slotPend = 0 /\ upset = {}
      /\ \A t \in Msgs : pc[t] = "none" /\ asked[t] = 0
  BY DEF Init
<1>2. Queued = {} /\ Behind = {} /\ Done = {} /\ 0 \notin Msgs
  BY <1>1 DEF Queued, Behind, Done, Msgs
<1>3. overflow = <<>> /\ guard = 0 /\ 0 # Relay
  BY MsgsRange DEF Init
<1> QED
  BY <1>1, <1>2, <1>3 DEF AccountInv, QueueInv, HolderInv, TakenInv, UniqueInv, OneTurnInv, OrderInv,
      Distinct, QueueOrdered, RanOnce, RanInOrder, Holds, Alive, Without

\* Every step preserves the invariant.
LEMMA AccountStep == TypeOK /\ AccountInv /\ [Next]_vars => AccountInv'
<1> SUFFICES ASSUME TypeOK, AccountInv, [Next]_vars PROVE AccountInv'
  OBVIOUS
<1>1. CASE Environment
  BY <1>1, AccountTurnStarts, AccountFollowUp, AccountQueueCommand, AccountSteer, AccountStop,
     AccountEvict, AccountBeginDrain, AccountCommandStarts, AccountLateFollowUp DEF Environment
<1>2. CASE \E t \in Msgs : TurnStep(t)
  <2>1. PICK t \in Msgs : TurnStep(t)
    BY <1>2
  <2> QED
    BY <2>1, AccountSetup, AccountSetupEnds, AccountPromote, AccountAgentEnds, AccountAgentTimesOut,
       AccountTakesNext, AccountTakesInterruptText, AccountPutsBack, AccountDiscardsNext,
       AccountNothingNext, AccountRunsNext, AccountNextUnusable, AccountUnwind, AccountCloses,
       AccountHandsOver, AccountTurnOver DEF TurnStep
<1>4. CASE RelayStep
  BY <1>4, AccountRelay
<1>3. CASE UNCHANGED vars
  <2>1. UNCHANGED <<fate, slotPend, overflow, gen, guard, pc, genOf, cur, asked, ran, upset>>
    BY <1>3 DEF vars, queue, turn
  <2>2. UNCHANGED <<Queued, Behind, Done, Distinct, QueueOrdered, RanOnce, RanInOrder>>
    BY <2>1 DEF Queued, Behind, Done, Distinct, QueueOrdered, RanOnce, RanInOrder
  <2>3. QueueInv' /\ HolderInv' /\ TakenInv' /\ UniqueInv'
    BY <2>1, <2>2 DEF AccountInv, QueueInv, HolderInv, TakenInv, UniqueInv, Holds, Without
  <2>4. OneTurnInv' /\ OrderInv'
    BY <2>1, <2>2 DEF AccountInv, OneTurnInv, OrderInv, Holds, Alive, Current, Without
  <2> QED
    BY <2>3, <2>4 DEF AccountInv
<1> QED
  BY <1>1, <1>2, <1>3, <1>4 DEF Next

\* What waits, as a sequence: the slot, then the overflow.
LEMMA WaitingIs ==
  ASSUME QueueTypes, Distinct
  PROVE  /\ Waiting \in Seq(Msgs)
         /\ {Waiting[i] : i \in DOMAIN Waiting} = Queued
         /\ \A i, j \in DOMAIN Waiting : Waiting[i] = Waiting[j] => i = j
         /\ QueueOrdered => \A i, j \in DOMAIN Waiting : i < j => Waiting[i] < Waiting[j]
<1>o. overflow \in Seq(Msgs) /\ Len(overflow) \in Nat /\ DOMAIN overflow = 1 .. Len(overflow)
  BY DEF QueueTypes
<1>1. CASE slotPend = 0
  <2>1. Waiting = overflow
    BY <1>o, <1>1 DEF Waiting
  <2>2. Queued = Behind
    BY <1>1 DEF Queued
  <2> QED
    BY <1>o, <2>1, <2>2 DEF Behind, Distinct, QueueOrdered
<1>2. CASE slotPend # 0
  <2>1. Waiting = <<slotPend>> \o overflow /\ slotPend \in Msgs
    BY <1>2 DEF Waiting, QueueTypes, Msgs
  <2>2. /\ Waiting \in Seq(Msgs) /\ DOMAIN Waiting = 1 .. Len(overflow) + 1 /\ Waiting[1] = slotPend
        /\ \A i \in DOMAIN overflow : i + 1 \in DOMAIN Waiting /\ Waiting[i + 1] = overflow[i]
        /\ \A i \in DOMAIN Waiting : i # 1 => i - 1 \in DOMAIN overflow /\ Waiting[i] = overflow[i - 1]
    BY <1>o, <2>1
  <2>3. \A i \in DOMAIN overflow : overflow[i] \in Behind
    BY DEF Behind
  <2>4. {Waiting[i] : i \in DOMAIN Waiting} = Behind \union {slotPend}
    BY <1>o, <2>2 DEF Behind
  <2>5. \A i, j \in DOMAIN Waiting : Waiting[i] = Waiting[j] => i = j
    BY <1>o, <2>2, <2>3 DEF Distinct
  <2>6. ASSUME QueueOrdered, NEW i \in DOMAIN Waiting, NEW j \in DOMAIN Waiting, i < j
        PROVE  Waiting[i] < Waiting[j]
    <3>1. j # 1 /\ j - 1 \in DOMAIN overflow /\ Waiting[j] = overflow[j - 1]
      BY <1>o, <2>2, <2>6
    <3>2. CASE i = 1
      BY <3>1, <3>2, <2>2, <2>3, <2>6 DEF QueueOrdered
    <3>3. CASE i # 1
      <4>1. i - 1 \in DOMAIN overflow /\ Waiting[i] = overflow[i - 1] /\ i - 1 < j - 1
        BY <1>o, <2>2, <2>6, <3>3
      <4> QED
        BY <3>1, <4>1, <2>6 DEF QueueOrdered
    <3> QED
      BY <3>2, <3>3
  <2> QED
    BY <1>2, <2>2, <2>4, <2>5, <2>6 DEF Queued
<1> QED
  BY <1>1, <1>2

\* What the invariant says of the queue as a sequence.
LEMMA AccountImplies == TypeOK /\ AccountInv => Accounted /\ OrderKept
<1> SUFFICES ASSUME TypeOK, AccountInv PROVE Accounted /\ OrderKept
  OBVIOUS
<1>t. QueueTypes
  BY TypeParts
<1>a. QueueInv /\ HolderInv /\ TakenInv /\ UniqueInv /\ OneTurnInv /\ OrderInv
  BY DEF AccountInv
<1>w. /\ Waiting \in Seq(Msgs)
      /\ {Waiting[i] : i \in DOMAIN Waiting} = Queued
      /\ \A i, j \in DOMAIN Waiting : Waiting[i] = Waiting[j] => i = j
      /\ QueueOrdered => \A i, j \in DOMAIN Waiting : i < j => Waiting[i] < Waiting[j]
  BY <1>t, <1>a, WaitingIs DEF QueueInv
<1>1. "stolen" \in upset => ~Without({"stop", "overtaken"})
  BY <1>a DEF OneTurnInv, Without
<1>2. ASSUME NEW m \in DOMAIN fate
      PROVE  /\ (fate[m] = "held") = (PlacesOf(m) # {})
             /\ \A i, j \in PlacesOf(m) : i = j
  <2>1. m \in Queued <=> fate[m] = "held"
    BY <1>a DEF QueueInv
  <2>2. m \in Queued <=> PlacesOf(m) # {}
    BY <1>w DEF PlacesOf
  <2> QED
    BY <2>1, <2>2, <1>w DEF PlacesOf
<1>3. ASSUME NEW m \in DOMAIN fate
      PROVE  /\ fate[m] = "taken" => \E t \in Msgs : cur[t] = m /\ pc[t] \in {"setup", "taking"}
             /\ fate[m] = "ran" => \E i \in DOMAIN ran : ran[i] = m
             /\ Without({"stolen"}) => \A i, j \in DOMAIN ran : ran[i] = m /\ ran[j] = m => i = j
  BY <1>a DEF TakenInv, UniqueInv, Holds, Done, RanOnce
<1>4. Accounted
  BY <1>1, <1>2, <1>3 DEF Accounted
<1>5. ASSUME Without({"stop", "overtaken", "overwritten", "handover"})
      PROVE  Increasing(ran \o Waiting)
  <2>1. /\ QueueOrdered /\ RanInOrder /\ \A d \in Done, m \in Queued : d < m
    BY <1>a, <1>5 DEF OrderInv
  <2>2. /\ ran \in Seq(Msgs) /\ Len(ran) \in Nat /\ Len(Waiting) \in Nat
        /\ DOMAIN ran = 1 .. Len(ran) /\ DOMAIN Waiting = 1 .. Len(Waiting)
    BY <1>t, <1>w DEF QueueTypes
  <2> DEFINE s == ran \o Waiting
  <2>3. /\ DOMAIN s = 1 .. Len(ran) + Len(Waiting)
        /\ \A i \in DOMAIN s : i <= Len(ran) => i \in DOMAIN ran /\ s[i] = ran[i]
        /\ \A i \in DOMAIN s : i > Len(ran) => i - Len(ran) \in DOMAIN Waiting /\ s[i] = Waiting[i - Len(ran)]
    BY <1>w, <2>2
  <2> HIDE DEF s
  <2>4. \A i \in DOMAIN ran : ran[i] \in Done
    BY DEF Done
  <2>5. \A i \in DOMAIN Waiting : Waiting[i] \in Queued
    BY <1>w
  <2>6. ASSUME NEW i \in DOMAIN s, NEW j \in DOMAIN s, i < j
        PROVE  s[i] < s[j]
    <3>1. CASE j <= Len(ran)
      BY <2>1, <2>2, <2>3, <2>6, <3>1 DEF RanInOrder
    <3>2. CASE i <= Len(ran) /\ j > Len(ran)
      BY <2>1, <2>2, <2>3, <2>4, <2>5, <2>6, <3>2
    <3>3. CASE i > Len(ran)
      <4>1. /\ i - Len(ran) \in DOMAIN Waiting /\ s[i] = Waiting[i - Len(ran)]
            /\ j - Len(ran) \in DOMAIN Waiting /\ s[j] = Waiting[j - Len(ran)]
            /\ i - Len(ran) < j - Len(ran)
        BY <2>2, <2>3, <2>6, <3>3
      <4> QED
        BY <1>w, <2>1, <4>1
    <3> QED
      BY <2>2, <2>3, <3>1, <3>2, <3>3
  <2> QED
    BY <2>6 DEF s, Increasing
<1> QED
  BY <1>4, <1>5 DEF OrderKept

\* The invariant of the queue holds in every state.
THEOREM AccountCorrect == Spec => []AccountInv
<1>1. Init => AccountInv
  BY AccountInit
<1>2. TypeOK /\ AccountInv /\ [Next]_vars => AccountInv'
  BY AccountStep
<1>3. Spec => []TypeOK
  BY TypeCorrect
<1> QED
  BY <1>1, <1>2, <1>3, PTL DEF Spec

\* Every message that arrived waits in one place, is held by a turn, has run once
\* or has one of the other fates: no hand-over, put-back or promotion duplicates a
\* message or forgets it.
THEOREM AccountedCorrect == Spec => []Accounted
<1>1. TypeOK /\ AccountInv => Accounted
  BY AccountImplies
<1> QED
  BY <1>1, TypeCorrect, AccountCorrect, PTL

\* Messages run in the order they arrived, and what waits is younger than what
\* ran, unless there was a stop, an overwritten slot, an uneven hand-over or a
\* command that passed by between the release of the slot and the hand-over.
THEOREM OrderCorrect == Spec => []OrderKept
<1>1. TypeOK /\ AccountInv => OrderKept
  BY AccountImplies
<1> QED
  BY <1>1, TypeCorrect, AccountCorrect, PTL
=============================================================================
