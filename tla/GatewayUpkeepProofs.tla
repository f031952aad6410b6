------------------------ MODULE GatewayUpkeepProofs -------------------------
(* Proofs about what a gateway keeps up beside its turns: the conversations and
   their agents (AgentCache), and the notices of stops, restarts and updates
   (GatewayNotices).

   AgentCache: cached agents are usable, running ones are spared, conversations
   of two keys stay apart and foreign writes are noticed, for any number of
   keys, turns and sessions, any cap, and any number of unusual events.
   GatewayNotices: the result of an update is kept, answers are taken as answers
   only, chats are told once and the right ones, for any number of chats,
   processes and events. *)
EXTENDS AgentCache, GatewayNotices, FiniteSetTheorems, TLAPS

-----------------------------------------------------------------------------
(* AgentCache: the types. *)

\* The types, part by part.
EntryTypes ==
    /\ entry \in [Keys -> Sids] /\ sidOf \in [Sids -> Sids]
    /\ due \in [Keys -> BOOLEAN] /\ final \in [Keys -> BOOLEAN]
    /\ nsid \in Sids
RowTypes == rows \in [Sids -> Nat]
CacheTypes ==
    /\ cached \in [Keys -> 0 .. MaxTurns] /\ count \in [Keys -> Nat]
    /\ older \subseteq Keys \X Keys
AgentTypes ==
    born \in [0 .. MaxTurns -> Sids] /\ live \subseteq Turns /\ exposed \subseteq Turns
SlotTypes == running \in [Keys -> 0 .. Sentinel] /\ gen \in [Keys -> Nat]
TurnTypes ==
    /\ pc \in [Turns -> Places] /\ key \in [Turns -> Keys]
    /\ genOf \in [Turns -> Nat]
    /\ obj \in [Turns -> Sids] /\ sid \in [Turns -> Sids]
    /\ agent \in [Turns -> 0 .. MaxTurns] /\ blank \in [Turns -> BOOLEAN]
OtherTypes ==
    /\ closing \subseteq Keys
    /\ handoff \in Handoffs /\ handed \in Sids \X (0 .. MaxTurns)
    /\ events \in Nat
    /\ missed \subseteq Turns \X Sids

\* TypeOK is the conjunction of the seven parts.
LEMMA AgentTypeParts ==
  TypeOK <=> /\ EntryTypes /\ RowTypes /\ CacheTypes /\ AgentTypes /\ SlotTypes /\ TurnTypes
             /\ OtherTypes
BY DEF TypeOK, EntryTypes, RowTypes, CacheTypes, AgentTypes, SlotTypes, TurnTypes, OtherTypes

\* What the assumption says of the constants and the ranges made of them.
LEMMA Numbers ==
  /\ Cap \in Nat /\ MaxTurns \in Nat /\ MaxSids \in Nat /\ Home \in Keys
  /\ 0 \in Sids /\ Turns \subseteq 0 .. MaxTurns /\ 0 \in 0 .. MaxTurns
  /\ 0 .. MaxTurns \subseteq 0 .. Sentinel /\ Sentinel \in 0 .. Sentinel /\ Sentinel \notin Turns
BY CacheAssumption DEF Sids, Turns, Sentinel

\* While there are sessions left, the next one is a session.
LEMMA NextSid == ASSUME EntryTypes, SidLeft PROVE Fresh \in Sids \ {0}
BY Numbers DEF EntryTypes, Fresh, Sids, SidLeft

\* The types of what a turn refers to.
LEMMA TurnFacts ==
  ASSUME TypeOK, NEW t \in Turns
  PROVE  /\ pc[t] \in Places /\ key[t] \in Keys /\ genOf[t] \in Nat
         /\ obj[t] \in Sids /\ sid[t] \in Sids /\ sidOf[obj[t]] \in Sids
         /\ agent[t] \in 0 .. MaxTurns /\ born[agent[t]] \in Sids
         /\ rows[sid[t]] \in Nat /\ rows[sidOf[obj[t]]] \in Nat /\ rows[born[agent[t]]] \in Nat
         /\ cached[key[t]] \in 0 .. MaxTurns
BY DEF TypeOK

\* The types of what a key refers to.
LEMMA KeyFacts ==
  ASSUME TypeOK, NEW k \in Keys
  PROVE  /\ entry[k] \in Sids /\ sidOf[entry[k]] \in Sids /\ rows[sidOf[entry[k]]] \in Nat
         /\ cached[k] \in 0 .. MaxTurns /\ born[cached[k]] \in Sids /\ count[k] \in Nat
         /\ running[k] \in 0 .. Sentinel /\ gen[k] \in Nat
BY DEF TypeOK

\* Every step keeps the types of the entries.
LEMMA EntryTypesKept ==
  ASSUME TypeOK, [Next]_vars
  PROVE  EntryTypes'
<1> USE AgentTypeParts, Numbers, NextSid, TurnFacts, KeyFacts
<1>1. CASE \E k \in Keys : TimePasses(k)
  BY <1>1
  DEF TimePasses, EntryTypes, store, base, cache, agents, slots, turns, handover
<1>2. CASE \E k \in Keys : NewConversation(k)
  BY <1>2
  DEF NewConversation, NewEntry, EntryTypes, store, base, cache, agents, slots, turns,
      handover
<1>3. CASE \E k \in Keys : ExpiryMarks(k)
  BY <1>3
  DEF ExpiryMarks, EntryTypes, store, base, cache, agents, slots, turns, handover
<1>4. CASE \E t \in Turns, k \in Keys : Open(t, k)
  <2> PICK t \in Turns, k \in Keys : Open(t, k)
    BY <1>4
  <2>1. CASE NewEntry(k) /\ SidLeft
    BY <2>1 DEF NewEntry, EntryTypes
  <2>2. CASE due' = [due EXCEPT ![k] = FALSE] /\ UNCHANGED <<entry, sidOf, final, nsid>>
    BY <2>2 DEF EntryTypes
  <2> QED
    BY <2>1, <2>2 DEF Open, GetOrCreate
<1>5. CASE \E t \in Turns : Hygiene(t)
  <2> PICK t \in Turns : Hygiene(t)
    BY <1>5
  <2>1. CASE SidLeft /\ nsid' = Fresh /\ sidOf' = [sidOf EXCEPT ![obj[t]] = Fresh]
    BY <2>1 DEF Hygiene, EntryTypes
  <2>2. CASE sidOf' = [sidOf EXCEPT ![obj[t]] = sid[t]] /\ UNCHANGED nsid
    BY <2>2 DEF Hygiene, EntryTypes
  <2>3. CASE UNCHANGED <<sidOf, nsid>>
    BY <2>3 DEF Hygiene, EntryTypes
  <2> QED
    BY <2>1, <2>2, <2>3 DEF Hygiene, base
<1>6. CASE \E t \in Turns : Rotate(t)
  BY <1>6
  DEF Rotate, EntryTypes, store, base, cache, agents, slots, turns, handover
<1>7. CASE \E t \in Turns : Finish(t)
  BY <1>7
  DEF Finish, EntryTypes, store, base, cache, agents, slots, turns, handover
<1>8. CASE \E t \in Turns : Settle(t)
  BY <1>8
  DEF Settle, EntryTypes, store, base, cache, agents, slots, turns, handover
<1>9. CASE \E t \in Turns : Exhausted(t)
  BY <1>9
  DEF Exhausted, NewEntry, EntryTypes, store, base, cache, agents, slots, turns, handover
<1>10. CASE Request
  BY <1>10
  DEF Request, EntryTypes, store, base, cache, agents, slots, turns, handover
<1>11. CASE Bind
  <2>1. CliSession \in Sids
    BY DEF CliSession, OtherTypes
  <2> QED
    BY <1>11, <2>1 DEF Bind, HandoffOnly, base, EntryTypes
<1>12. CASE UNCHANGED <<entry, sidOf, due, final, nsid>>
  BY <1>12 DEF EntryTypes
<1>13. ASSUME \/ UNCHANGED vars \/ (\E k \in Keys : Stop(k))
              \/ (\E k \in Keys : ForeignWrite(k)) \/ (\E k \in Keys : SweepIdle(k))
              \/ (\E k \in Keys : ExpiryCloses(k)) \/ (\E t \in Turns : Fetch(t))
              \/ (\E t \in Turns : FailsEarly(t)) \/ (\E t \in Turns : Promote(t))
              \/ (\E t \in Turns : CompactInPlace(t)) \/ (\E t \in Turns : EndRun(t))
              \/ (\E t \in Turns : Discard(t)) \/ Claim \/ Refuse \/ Overtaken \/ Report
       PROVE  UNCHANGED <<entry, sidOf, due, final, nsid>>
  BY <1>13
  DEF Stop, ForeignWrite, SweepIdle, ExpiryCloses, Fetch, FailsEarly, Promote,
      CompactInPlace, EndRun, Discard, Claim, Refuse, Overtaken, Report, HandoffIs,
      HandoffOnly, vars, EntryTypes, store, base, cache, agents, slots, turns, handover
<1> QED
  BY <1>1, <1>2, <1>3, <1>4, <1>5, <1>6, <1>7, <1>8, <1>9, <1>10, <1>11, <1>12, <1>13
  DEF Next, KeyStep, TurnStep, AgentStep, HandoffStep, UserTurn, Synthetic

\* Every step keeps the types of the transcripts.
LEMMA RowTypesKept ==
  ASSUME TypeOK, [Next]_vars
  PROVE  RowTypes'
<1> USE AgentTypeParts, Numbers, NextSid, TurnFacts, KeyFacts
<1>1. CASE \E k \in Keys : ForeignWrite(k)
  BY <1>1
  DEF ForeignWrite, RowTypes, store, base, cache, agents, slots, turns, handover
<1>2. CASE \E t \in Turns : Hygiene(t)
  BY <1>2
  DEF Hygiene, RowTypes, store, base, cache, agents, slots, turns, handover
<1>3. CASE \E t \in Turns : FailsEarly(t)
  BY <1>3
  DEF FailsEarly, RowTypes, store, base, cache, agents, slots, turns, handover
<1>4. CASE \E t \in Turns : Rotate(t)
  BY <1>4
  DEF Rotate, RowTypes, store, base, cache, agents, slots, turns, handover
<1>5. CASE \E t \in Turns : CompactInPlace(t)
  BY <1>5
  DEF CompactInPlace, RowTypes, store, base, cache, agents, slots, turns, handover
<1>6. CASE \E t \in Turns : Finish(t)
  BY <1>6
  DEF Finish, RowTypes, store, base, cache, agents, slots, turns, handover
<1>7. CASE \E t \in Turns : Settle(t)
  BY <1>7
  DEF Settle, Written, RowTypes, store, base, cache, agents, slots, turns, handover
<1>8. CASE Request
  BY <1>8
  DEF Request, RowTypes, store, base, cache, agents, slots, turns, handover
<1>9. CASE UNCHANGED <<rows>>
  BY <1>9 DEF RowTypes
<1>10. ASSUME \/ UNCHANGED vars \/ (\E k \in Keys : TimePasses(k))
              \/ (\E k \in Keys : Stop(k)) \/ (\E k \in Keys : NewConversation(k))
              \/ (\E k \in Keys : SweepIdle(k)) \/ (\E k \in Keys : ExpiryCloses(k))
              \/ (\E k \in Keys : ExpiryMarks(k))
              \/ (\E t \in Turns, k \in Keys : Open(t, k)) \/ (\E t \in Turns : Fetch(t))
              \/ (\E t \in Turns : Promote(t)) \/ (\E t \in Turns : EndRun(t))
              \/ (\E t \in Turns : Discard(t)) \/ (\E t \in Turns : Exhausted(t)) \/ Claim
              \/ Refuse \/ Bind \/ Overtaken \/ Report
       PROVE  UNCHANGED <<rows>>
  BY <1>10
  DEF TimePasses, Stop, NewConversation, SweepIdle, ExpiryCloses, ExpiryMarks, Open,
      Fetch, Promote, EndRun, Discard, Exhausted, Claim, Refuse, Bind, Overtaken, Report,
      HandoffIs, HandoffOnly, vars, RowTypes, store, base, cache, agents, slots, turns,
      handover
<1> QED
  BY <1>1, <1>2, <1>3, <1>4, <1>5, <1>6, <1>7, <1>8, <1>9, <1>10
  DEF Next, KeyStep, TurnStep, AgentStep, HandoffStep, UserTurn, Synthetic

\* Every step keeps the types of the cache.
LEMMA CacheTypesKept ==
  ASSUME TypeOK, [Next]_vars
  PROVE  CacheTypes'
<1> USE AgentTypeParts, Numbers, NextSid, TurnFacts, KeyFacts
<1>1. CASE \E k \in Keys : NewConversation(k)
  BY <1>1
  DEF NewConversation, Out, CacheTypes, store, base, cache, agents, slots, turns, handover
<1>2. CASE \E k \in Keys : SweepIdle(k)
  BY <1>2
  DEF SweepIdle, Out, CacheTypes, store, base, cache, agents, slots, turns, handover
<1>3. CASE \E k \in Keys : ExpiryMarks(k)
  BY <1>3
  DEF ExpiryMarks, Evict, Out, CacheTypes, store, base, cache, agents, slots, turns,
      handover
<1>4. CASE \E t \in Turns : Hygiene(t)
  BY <1>4
  DEF Hygiene, Evict, Out, CacheTypes, store, base, cache, agents, slots, turns, handover
<1>5. CASE \E t \in Turns : Fetch(t)
  <2> PICK t \in Turns : Fetch(t)
    BY <1>5
  <2> DEFINE k == key[t]
             s == sidOf[obj[t]]
  <2>1. CASE Reuse(t, k, s)
    BY <2>1 DEF Reuse, Touched, CacheTypes
  <2>2. ASSUME NEW order, order \subseteq Keys \X Keys, NEW gone, Enter(t, k, s, order, gone)
        PROVE  CacheTypes'
    BY <2>2 DEF Enter, CacheTypes
  <2>3. Touched(k) \subseteq Keys \X Keys /\ older \subseteq Keys \X Keys
    BY DEF Touched, CacheTypes
  <2> QED
    BY <2>1, <2>2, <2>3 DEF Fetch, BuildFirst, Rebuild, Overwrite
<1>6. CASE \E t \in Turns : EndRun(t)
  BY <1>6
  DEF EndRun, EvictedOrNot, Evict, Out, CacheTypes, store, base, cache, agents, slots,
      turns, handover
<1>7. CASE \E t \in Turns : Discard(t)
  BY <1>7
  DEF Discard, EvictedOrNot, Evict, Out, CacheTypes, store, base, cache, agents, slots,
      turns, handover
<1>8. CASE \E t \in Turns : Settle(t)
  <2> PICK t \in Turns : Settle(t)
    BY <1>8
  <2>1. CASE count' = Baseline(t) /\ UNCHANGED <<cached, older>>
    BY <2>1 DEF Baseline, CacheTypes
  <2>2. CASE Evict(key[t])
    BY <2>2 DEF Evict, Out, CacheTypes
  <2> QED
    BY <2>1, <2>2 DEF Settle
<1>9. CASE \E t \in Turns : Exhausted(t)
  BY <1>9
  DEF Exhausted, Evict, Out, CacheTypes, store, base, cache, agents, slots, turns,
      handover
<1>10. CASE Bind
  BY <1>10
  DEF HandoffIs, HandoffOnly, Bind, Evict, Out, CacheTypes, store, base, cache, agents,
      slots, turns, handover
<1>11. CASE UNCHANGED <<cached, count, older>>
  BY <1>11 DEF CacheTypes
<1>12. ASSUME \/ UNCHANGED vars \/ (\E k \in Keys : TimePasses(k))
              \/ (\E k \in Keys : Stop(k)) \/ (\E k \in Keys : ForeignWrite(k))
              \/ (\E k \in Keys : ExpiryCloses(k))
              \/ (\E t \in Turns, k \in Keys : Open(t, k))
              \/ (\E t \in Turns : FailsEarly(t)) \/ (\E t \in Turns : Promote(t))
              \/ (\E t \in Turns : Rotate(t)) \/ (\E t \in Turns : CompactInPlace(t))
              \/ (\E t \in Turns : Finish(t)) \/ Request \/ Claim \/ Refuse \/ Overtaken
              \/ Report
       PROVE  UNCHANGED <<cached, count, older>>
  BY <1>12
  DEF TimePasses, Stop, ForeignWrite, ExpiryCloses, Open, FailsEarly, Promote, Rotate,
      CompactInPlace, Finish, Request, Claim, Refuse, Overtaken, Report, HandoffIs,
      HandoffOnly, vars, CacheTypes, store, base, cache, agents, slots, turns, handover
<1> QED
  BY <1>1, <1>2, <1>3, <1>4, <1>5, <1>6, <1>7, <1>8, <1>9, <1>10, <1>11, <1>12
  DEF Next, KeyStep, TurnStep, AgentStep, HandoffStep, UserTurn, Synthetic

\* Every step keeps the types of the agents.
LEMMA AgentTypesKept ==
  ASSUME TypeOK, [Next]_vars
  PROVE  AgentTypes'
<1> USE AgentTypeParts, Numbers, NextSid, TurnFacts, KeyFacts
<1>1. CASE \E k \in Keys : NewConversation(k)
  BY <1>1
  DEF NewConversation, Release, AgentTypes, store, base, cache, agents, slots, turns,
      handover
<1>2. CASE \E k \in Keys : SweepIdle(k)
  BY <1>2
  DEF SweepIdle, Release, AgentTypes, store, base, cache, agents, slots, turns, handover
<1>3. CASE \E k \in Keys : ExpiryCloses(k)
  BY <1>3
  DEF ExpiryCloses, ReleaseAnyway, AgentTypes, store, base, cache, agents, slots, turns,
      handover
<1>4. CASE \E k \in Keys : ExpiryMarks(k)
  BY <1>4
  DEF ExpiryMarks, Evict, Release, AgentTypes, store, base, cache, agents, slots, turns,
      handover
<1>5. CASE \E t \in Turns : Hygiene(t)
  BY <1>5
  DEF Hygiene, Evict, Release, AgentTypes, store, base, cache, agents, slots, turns,
      handover
<1>6. CASE \E t \in Turns : Fetch(t)
  <2> PICK t \in Turns : Fetch(t)
    BY <1>6
  <2> DEFINE k == key[t]
             s == sidOf[obj[t]]
  <2>1. CASE Reuse(t, k, s)
    BY <2>1 DEF Reuse, agents, AgentTypes
  <2>2. ASSUME NEW order, NEW gone, Enter(t, k, s, order, gone)
        PROVE  AgentTypes'
    BY <2>2 DEF Enter, AgentTypes
  <2> QED
    BY <2>1, <2>2 DEF Fetch, BuildFirst, Rebuild, Overwrite
<1>7. CASE \E t \in Turns : Rotate(t)
  BY <1>7
  DEF Rotate, AgentTypes, store, base, cache, agents, slots, turns, handover
<1>8. CASE \E t \in Turns : EndRun(t)
  BY <1>8
  DEF EndRun, EvictedOrNot, Evict, Release, AgentTypes, store, base, cache, agents, slots,
      turns, handover
<1>9. CASE \E t \in Turns : Discard(t)
  BY <1>9
  DEF Discard, EvictedOrNot, Evict, Release, AgentTypes, store, base, cache, agents,
      slots, turns, handover
<1>10. CASE \E t \in Turns : Settle(t)
  BY <1>10
  DEF Settle, Evict, Release, AgentTypes, store, base, cache, agents, slots, turns,
      handover
<1>11. CASE \E t \in Turns : Exhausted(t)
  BY <1>11
  DEF Exhausted, Evict, Release, AgentTypes, store, base, cache, agents, slots, turns,
      handover
<1>12. CASE Bind
  BY <1>12
  DEF HandoffIs, HandoffOnly, Bind, Evict, Release, AgentTypes, store, base, cache,
      agents, slots, turns, handover
<1>13. CASE UNCHANGED <<born, live, exposed>>
  BY <1>13 DEF AgentTypes
<1>14. ASSUME \/ UNCHANGED vars \/ (\E k \in Keys : TimePasses(k))
              \/ (\E k \in Keys : Stop(k)) \/ (\E k \in Keys : ForeignWrite(k))
              \/ (\E t \in Turns, k \in Keys : Open(t, k))
              \/ (\E t \in Turns : FailsEarly(t)) \/ (\E t \in Turns : Promote(t))
              \/ (\E t \in Turns : CompactInPlace(t)) \/ (\E t \in Turns : Finish(t))
              \/ Request \/ Claim \/ Refuse \/ Overtaken \/ Report
       PROVE  UNCHANGED <<born, live, exposed>>
  BY <1>14
  DEF TimePasses, Stop, ForeignWrite, Open, FailsEarly, Promote, CompactInPlace, Finish,
      Request, Claim, Refuse, Overtaken, Report, HandoffIs, HandoffOnly, vars, AgentTypes,
      store, base, cache, agents, slots, turns, handover
<1> QED
  BY <1>1, <1>2, <1>3, <1>4, <1>5, <1>6, <1>7, <1>8, <1>9, <1>10, <1>11, <1>12, <1>13, <1>14
  DEF Next, KeyStep, TurnStep, AgentStep, HandoffStep, UserTurn, Synthetic

\* Every step keeps the types of the slots.
LEMMA SlotTypesKept ==
  ASSUME TypeOK, [Next]_vars
  PROVE  SlotTypes'
<1> USE AgentTypeParts, Numbers, NextSid, TurnFacts, KeyFacts
<1>1. CASE \E k \in Keys : Stop(k)
  BY <1>1
  DEF Stop, NextGen, SlotTypes, store, base, cache, agents, slots, turns, handover
<1>2. CASE \E k \in Keys : NewConversation(k)
  BY <1>2
  DEF NewConversation, NextGen, SlotTypes, store, base, cache, agents, slots, turns,
      handover
<1>3. CASE \E t \in Turns, k \in Keys : Open(t, k)
  BY <1>3
  DEF Open, NextGen, SlotTypes, store, base, cache, agents, slots, turns, handover
<1>4. CASE \E t \in Turns : FailsEarly(t)
  <2> PICK t \in Turns : FailsEarly(t)
    BY <1>4
  <2>1. running' = [running EXCEPT ![key[t]] = 0] /\ UNCHANGED gen
    BY DEF FailsEarly
  <2> QED
    BY <2>1 DEF SlotTypes
<1>5. CASE \E t \in Turns : Promote(t)
  BY <1>5
  DEF Promote, SlotTypes, store, base, cache, agents, slots, turns, handover
<1>6. CASE \E t \in Turns : EndRun(t)
  <2> PICK t \in Turns : EndRun(t)
    BY <1>6
  <2>1. running' \in {running, [running EXCEPT ![key[t]] = 0]} /\ UNCHANGED gen
    BY DEF EndRun, slots
  <2> QED
    BY <2>1 DEF SlotTypes
<1>7. CASE \E t \in Turns : Discard(t)
  BY <1>7
  DEF Discard, Released, SlotTypes, store, base, cache, agents, slots, turns, handover
<1>8. CASE \E t \in Turns : Settle(t)
  <2> PICK t \in Turns : Settle(t)
    BY <1>8
  <2>1. running' = [running EXCEPT ![key[t]] = 0] /\ UNCHANGED gen
    BY DEF Settle, Released
  <2> QED
    BY <2>1 DEF SlotTypes
<1>9. CASE \E t \in Turns : Exhausted(t)
  BY <1>9
  DEF Exhausted, Released, SlotTypes, store, base, cache, agents, slots, turns, handover
<1>10. CASE Bind
  BY <1>10
  DEF HandoffIs, HandoffOnly, Bind, SlotTypes, store, base, cache, agents, slots, turns,
      handover
<1>11. CASE UNCHANGED <<running, gen>>
  BY <1>11 DEF SlotTypes
<1>12. ASSUME \/ UNCHANGED vars \/ (\E k \in Keys : TimePasses(k))
              \/ (\E k \in Keys : ForeignWrite(k)) \/ (\E k \in Keys : SweepIdle(k))
              \/ (\E k \in Keys : ExpiryCloses(k)) \/ (\E k \in Keys : ExpiryMarks(k))
              \/ (\E t \in Turns : Hygiene(t)) \/ (\E t \in Turns : Fetch(t))
              \/ (\E t \in Turns : Rotate(t)) \/ (\E t \in Turns : CompactInPlace(t))
              \/ (\E t \in Turns : Finish(t)) \/ Request \/ Claim \/ Refuse \/ Overtaken
              \/ Report
       PROVE  UNCHANGED <<running, gen>>
  BY <1>12
  DEF TimePasses, ForeignWrite, SweepIdle, ExpiryCloses, ExpiryMarks, Hygiene, Fetch,
      Rotate, CompactInPlace, Finish, Request, Claim, Refuse, Overtaken, Report,
      HandoffIs, HandoffOnly, vars, SlotTypes, store, base, cache, agents, slots, turns,
      handover
<1> QED
  BY <1>1, <1>2, <1>3, <1>4, <1>5, <1>6, <1>7, <1>8, <1>9, <1>10, <1>11, <1>12
  DEF Next, KeyStep, TurnStep, AgentStep, HandoffStep, UserTurn, Synthetic

\* Every step keeps the types of the turns.
LEMMA TurnTypesKept ==
  ASSUME TypeOK, [Next]_vars
  PROVE  TurnTypes'
<1> USE AgentTypeParts, Numbers, NextSid, TurnFacts, KeyFacts
<1>1. CASE \E t \in Turns, k \in Keys : Open(t, k)
  <2> PICK t \in Turns, k \in Keys : Open(t, k)
    BY <1>1
  <2>1. entry'[k] \in Sids /\ sidOf'[entry'[k]] \in Sids
    <3>1. CASE NewEntry(k) /\ SidLeft
      BY <3>1 DEF NewEntry, EntryTypes
    <3>2. CASE UNCHANGED <<entry, sidOf>>
      BY <3>2
    <3> QED
      BY <3>1, <3>2 DEF Open, GetOrCreate
  <2>2. (rows[sidOf'[entry'[k]]] = 0) \in BOOLEAN
    OBVIOUS
  <2>3. /\ pc' = [pc EXCEPT ![t] = "opened"] /\ key' = [key EXCEPT ![t] = k]
        /\ genOf' = [genOf EXCEPT ![t] = gen[k] + 1]
        /\ obj' = [obj EXCEPT ![t] = entry'[k]]
        /\ sid' = [sid EXCEPT ![t] = sidOf'[entry'[k]]]
        /\ blank' = [blank EXCEPT ![t] = rows[sidOf'[entry'[k]]] = 0]
        /\ agent' = agent
    BY DEF Open
  <2>4. gen[k] + 1 \in Nat /\ "opened" \in Places
    BY DEF Places
  <2> QED
    BY <2>1, <2>2, <2>3, <2>4 DEF TurnTypes
<1>2. CASE \E t \in Turns : Hygiene(t)
  BY <1>2
  DEF Hygiene, Places, TurnTypes, store, base, cache, agents, slots, turns, handover
<1>3. CASE \E t \in Turns : Fetch(t)
  <2> PICK t \in Turns : Fetch(t)
    BY <1>3
  <2>1. /\ pc' = [pc EXCEPT ![t] = "working"]
        /\ sid' = [sid EXCEPT ![t] = sidOf[obj[t]]]
        /\ UNCHANGED <<key, genOf, obj, blank>>
    BY DEF Fetch
  <2>2. PICK a \in {cached[key[t]], t} : agent' = [agent EXCEPT ![t] = a]
    BY DEF Fetch, Reuse, BuildFirst, Rebuild, Overwrite, Enter
  <2>3. a \in 0 .. MaxTurns /\ sidOf[obj[t]] \in Sids /\ "working" \in Places
    BY DEF Places
  <2> QED
    BY <2>1, <2>2, <2>3 DEF TurnTypes
<1>4. CASE \E t \in Turns : FailsEarly(t)
  BY <1>4
  DEF FailsEarly, Over, Places, TurnTypes, store, base, cache, agents, slots, turns,
      handover
<1>5. CASE \E t \in Turns : Finish(t)
  BY <1>5
  DEF Finish, Places, TurnTypes, store, base, cache, agents, slots, turns, handover
<1>6. CASE \E t \in Turns : EndRun(t)
  BY <1>6
  DEF EndRun, Places, TurnTypes, store, base, cache, agents, slots, turns, handover
<1>7. CASE \E t \in Turns : Discard(t)
  BY <1>7
  DEF Discard, Over, Places, TurnTypes, store, base, cache, agents, slots, turns, handover
<1>8. CASE \E t \in Turns : Settle(t)
  BY <1>8
  DEF Settle, Over, Places, TurnTypes, store, base, cache, agents, slots, turns, handover
<1>9. CASE \E t \in Turns : Exhausted(t)
  BY <1>9
  DEF Exhausted, Over, Places, TurnTypes, store, base, cache, agents, slots, turns,
      handover
<1>10. CASE UNCHANGED <<pc, key, genOf, obj, sid, agent, blank>>
  BY <1>10 DEF TurnTypes
<1>11. ASSUME \/ UNCHANGED vars \/ (\E k \in Keys : TimePasses(k))
              \/ (\E k \in Keys : Stop(k)) \/ (\E k \in Keys : NewConversation(k))
              \/ (\E k \in Keys : ForeignWrite(k)) \/ (\E k \in Keys : SweepIdle(k))
              \/ (\E k \in Keys : ExpiryCloses(k)) \/ (\E k \in Keys : ExpiryMarks(k))
              \/ (\E t \in Turns : Promote(t)) \/ (\E t \in Turns : Rotate(t))
              \/ (\E t \in Turns : CompactInPlace(t)) \/ Request \/ Claim \/ Refuse \/ Bind
              \/ Overtaken \/ Report
       PROVE  UNCHANGED <<pc, key, genOf, obj, sid, agent, blank>>
  BY <1>11
  DEF TimePasses, Stop, NewConversation, ForeignWrite, SweepIdle, ExpiryCloses,
      ExpiryMarks, Promote, Rotate, CompactInPlace, Request, Claim, Refuse, Bind,
      Overtaken, Report, HandoffIs, HandoffOnly, vars, TurnTypes, store, base, cache,
      agents, slots, turns, handover
<1> QED
  BY <1>1, <1>2, <1>3, <1>4, <1>5, <1>6, <1>7, <1>8, <1>9, <1>10, <1>11
  DEF Next, KeyStep, TurnStep, AgentStep, HandoffStep, UserTurn, Synthetic

\* Every step keeps the types of the watcher, the hand-over and the bounds.
LEMMA OtherTypesKept ==
  ASSUME TypeOK, [Next]_vars
  PROVE  OtherTypes'
<1> USE AgentTypeParts, Numbers, NextSid, TurnFacts, KeyFacts
<1>1. CASE \E k \in Keys : TimePasses(k)
  BY <1>1
  DEF Event, TimePasses, Handoffs, OtherTypes, store, base, cache, agents, slots, turns,
      handover
<1>2. CASE \E k \in Keys : Stop(k)
  BY <1>2
  DEF Event, Stop, Handoffs, OtherTypes, store, base, cache, agents, slots, turns,
      handover
<1>3. CASE \E k \in Keys : NewConversation(k)
  BY <1>3
  DEF Event, NewConversation, Handoffs, OtherTypes, store, base, cache, agents, slots,
      turns, handover
<1>4. CASE \E k \in Keys : ForeignWrite(k)
  <2> PICK k \in Keys : ForeignWrite(k)
    BY <1>4
  <2>1. InStep(k) => cached[k] \in Turns
    BY DEF InStep, Turns
  <2>2. missed' \subseteq Turns \X Sids
    BY <2>1 DEF ForeignWrite, OtherTypes
  <2> QED
    BY <2>2 DEF ForeignWrite, Event, handover, OtherTypes
<1>5. CASE \E k \in Keys : SweepIdle(k)
  BY <1>5
  DEF Event, SweepIdle, Handoffs, OtherTypes, store, base, cache, agents, slots, turns,
      handover
<1>6. CASE \E k \in Keys : ExpiryCloses(k)
  BY <1>6
  DEF Event, ExpiryCloses, Handoffs, OtherTypes, store, base, cache, agents, slots, turns,
      handover
<1>7. CASE \E k \in Keys : ExpiryMarks(k)
  BY <1>7
  DEF Event, ExpiryMarks, Handoffs, OtherTypes, store, base, cache, agents, slots, turns,
      handover
<1>8. CASE \E t \in Turns, k \in Keys : UserTurn(t, k) \/ Synthetic(t)
  <2>1. PICK t \in Turns, k \in Keys : UserTurn(t, k) \/ Synthetic(t)
    BY <1>8, Numbers
  <2>2. UNCHANGED <<closing, events, missed>>
    BY <2>1 DEF UserTurn, Synthetic, Open
  <2>3. CliSession \in Sids
    BY DEF CliSession, OtherTypes
  <2>4. CASE UserTurn(t, k)
    BY <2>2, <2>4 DEF UserTurn, handover, OtherTypes
  <2>5. CASE Synthetic(t)
    <3>1. handoff' = "turn" /\ handed' = <<CliSession, t>> /\ t \in 0 .. MaxTurns
      BY <2>5 DEF Synthetic
    <3> QED
      BY <2>2, <2>3, <3>1 DEF OtherTypes, Handoffs
  <2> QED
    BY <2>1, <2>4, <2>5
<1>9. CASE \E t \in Turns : Hygiene(t)
  BY <1>9
  DEF Event, Hygiene, Handoffs, OtherTypes, store, base, cache, agents, slots, turns,
      handover
<1>10. CASE \E t \in Turns : Fetch(t)
  BY <1>10
  DEF Event, Fetch, Handoffs, OtherTypes, store, base, cache, agents, slots, turns,
      handover
<1>11. CASE \E t \in Turns : FailsEarly(t)
  BY <1>11
  DEF Event, FailsEarly, Handoffs, OtherTypes, store, base, cache, agents, slots, turns,
      handover
<1>12. CASE \E t \in Turns : Rotate(t)
  BY <1>12
  DEF Event, Rotate, Handoffs, OtherTypes, store, base, cache, agents, slots, turns,
      handover
<1>13. CASE \E t \in Turns : CompactInPlace(t)
  BY <1>13
  DEF Event, CompactInPlace, Handoffs, OtherTypes, store, base, cache, agents, slots,
      turns, handover
<1>14. CASE \E t \in Turns : EndRun(t)
  BY <1>14
  DEF Event, EndRun, EvictedOrNot, Handoffs, OtherTypes, store, base, cache, agents,
      slots, turns, handover
<1>15. CASE \E t \in Turns : Discard(t)
  BY <1>15
  DEF Event, Discard, EvictedOrNot, Handoffs, OtherTypes, store, base, cache, agents,
      slots, turns, handover
<1>16. CASE \E t \in Turns : Settle(t)
  BY <1>16
  DEF Event, Settle, Handoffs, OtherTypes, store, base, cache, agents, slots, turns,
      handover
<1>17. CASE \E t \in Turns : Exhausted(t)
  BY <1>17
  DEF Event, Exhausted, Handoffs, OtherTypes, store, base, cache, agents, slots, turns,
      handover
<1>18. CASE Request
  BY <1>18
  DEF Event, Request, Handoffs, OtherTypes, store, base, cache, agents, slots, turns,
      handover
<1>19. CASE Claim
  BY <1>19
  DEF Event, HandoffIs, HandoffOnly, Claim, Handoffs, OtherTypes, store, base, cache,
      agents, slots, turns, handover
<1>20. CASE Refuse
  BY <1>20
  DEF Event, HandoffIs, HandoffOnly, Refuse, Failure, Handoffs, OtherTypes, store, base,
      cache, agents, slots, turns, handover
<1>21. CASE Bind
  BY <1>21
  DEF Event, HandoffIs, HandoffOnly, Bind, Handoffs, OtherTypes, store, base, cache,
      agents, slots, turns, handover
<1>22. CASE Overtaken
  BY <1>22
  DEF Event, HandoffIs, HandoffOnly, Overtaken, Failure, Handoffs, OtherTypes, store,
      base, cache, agents, slots, turns, handover
<1>23. CASE Report
  BY <1>23
  DEF Event, HandoffIs, HandoffOnly, Report, Failure, Handoffs, OtherTypes, store, base,
      cache, agents, slots, turns, handover
<1>24. CASE UNCHANGED <<closing, handoff, handed, events, missed>>
  BY <1>24 DEF OtherTypes
<1>25. ASSUME \/ UNCHANGED vars \/ (\E t \in Turns : Promote(t))
              \/ (\E t \in Turns : Finish(t))
       PROVE  UNCHANGED <<closing, handoff, handed, events, missed>>
  BY <1>25
  DEF Promote, Finish, HandoffIs, HandoffOnly, vars, OtherTypes, store, base, cache,
      agents, slots, turns, handover
<1> QED
  BY <1>1, <1>2, <1>3, <1>4, <1>5, <1>6, <1>7, <1>8, <1>9, <1>10, <1>11, <1>12, <1>13,
     <1>14, <1>15, <1>16, <1>17, <1>18, <1>19, <1>20, <1>21, <1>22, <1>23, <1>24, <1>25
  DEF Next, KeyStep, TurnStep, AgentStep, HandoffStep, UserTurn, Synthetic

-----------------------------------------------------------------------------
(* AgentCache: the invariant. *)

\* A turn that has fetched its agent.
Fetching == {"working", "back", "ended", "over"}
Past(t) == pc[t] \in Fetching

\* Turns open in their order, and each claim has a generation of its own.
\* (_begin_session_run_generation)
ClaimInv ==
    /\ \A t, u \in Turns : t < u /\ pc[u] # "none" => pc[t] # "none"
    /\ \A t \in AtWork : genOf[t] <= gen[key[t]]
    /\ \A t, u \in AtWork : key[t] = key[u] /\ genOf[t] = genOf[u] => t = u

\* An agent is in the cache, in a slot and in the hands of turns under one key
\* only.  (_agent_cache, _running_agents)
AgentInv ==
    /\ \A j, k \in Keys : cached[j] # 0 /\ cached[j] = cached[k] => j = k
    /\ \A j, k \in Keys : cached[j] # 0 /\ cached[j] = running[k] => j = k
    /\ \A t \in Turns, k \in Keys : Holding(t) /\ cached[k] = agent[t] => k = key[t]
    /\ \A t, u \in Turns : Holding(t) /\ Holding(u) /\ agent[t] = agent[u] => key[t] = key[u]

\* It was built by a turn that has fetched its agent.  (_run_agent_inner)
BuiltInv ==
    /\ \A k \in Keys : cached[k] # 0 => Past(cached[k])
    /\ \A k \in Keys : running[k] \in Turns => Past(running[k])
    /\ \A t \in Turns : Holding(t) => agent[t] # 0 /\ Past(agent[t])
    /\ \A x \in missed : Past(x[1])

\* A current turn that has not fetched its agent finds none in its slot.
\* (_AGENT_PENDING_SENTINEL)
SlotInv ==
    \A t \in Turns :
        pc[t] \in {"opened", "ready"} /\ Current(t) => running[key[t]] \notin Turns

\* The cache holds usable agents, but for the one entry that is being finalized.
UsableInv ==
    /\ CachedIsLive
    /\ \A j, k \in closing : j = k

\* What is reached was created.  (get_or_create_session)
CreatedInv ==
    /\ \A k \in Keys, e \in Sids \ {0} : Enters(k, e) => sidOf[e] # 0 /\ e <= nsid
    /\ \A t \in AtWork : obj[t] # 0 /\ sid[t] # 0
    /\ \A t \in Turns : Holding(t) => born[agent[t]] # 0
    /\ \A k \in Keys : cached[k] # 0 => born[cached[k]] # 0
    /\ \A k \in Keys, s \in Sids : Reaches(k, s) => s <= nsid
    /\ handed[1] <= nsid /\ sidOf[0] = 0
    /\ Unbound => CliSession # 0

\* A write that an agent has missed keeps its snapshot behind the transcript, as
\* no turn of its key has fetched an agent since.  (message_count)
MissedInv ==
    \A k \in Keys, s \in Sids : <<cached[k], s>> \in missed =>
        /\ s # 0 /\ count[k] < rows[s]
        /\ \A t \in AtWork : key[t] = k => pc[t] \in {"opened", "ready"}

-----------------------------------------------------------------------------
\* What a step does to the turns: one opens, one ends, one goes on; or a claim is
\* made void; or nothing.
Moved(t) ==
    /\ t \in AtWork
    /\ \E p \in {"ready", "working", "back", "ended"} :
          /\ pc' = [pc EXCEPT ![t] = p]
          /\ p = "ready" => pc[t] = "opened"
          /\ p = "working" => pc[t] \in {"opened", "ready"}
    /\ UNCHANGED <<key, genOf, obj, gen>>

LEMMA TurnMoves ==
  ASSUME TypeOK, [Next]_vars
  PROVE  \/ \E t \in Turns, k \in Keys : Open(t, k)
         \/ \E t \in AtWork : Over(t) /\ UNCHANGED gen
         \/ \E t \in Turns : Moved(t)
         \/ UNCHANGED turns /\ \E k \in Keys : NextGen(k)
         \/ UNCHANGED <<turns, gen>>
<1> DEFINE Goal == \/ \E t \in Turns, k \in Keys : Open(t, k)
                   \/ \E t \in AtWork : Over(t) /\ UNCHANGED gen
                   \/ \E t \in Turns : Moved(t)
                   \/ UNCHANGED turns /\ \E k \in Keys : NextGen(k)
                   \/ UNCHANGED <<turns, gen>>
<1> SUFFICES Goal
  OBVIOUS
<1>1. ASSUME NEW t \in Turns, Hygiene(t) \/ Fetch(t) \/ Finish(t) \/ EndRun(t) PROVE Goal
  <2>1. Moved(t)
    BY <1>1 DEF Hygiene, TooLarge, Fetch, Finish, EndRun, Moved, AtWork, slots, turns
  <2> QED
    BY <2>1
<1>2. ASSUME NEW t \in Turns, FailsEarly(t) \/ Discard(t) \/ Settle(t) \/ Exhausted(t) PROVE Goal
  <2>1. t \in AtWork /\ Over(t) /\ UNCHANGED gen
    BY <1>2 DEF FailsEarly, Discard, Settle, Exhausted, Released, AtWork, slots
  <2> QED
    BY <2>1
<1>3. ASSUME NEW t \in Turns, NEW k \in Keys, Open(t, k) PROVE Goal
  BY <1>3
<1>4. ASSUME NEW k \in Keys, Stop(k) \/ NewConversation(k) PROVE Goal
  BY <1>4 DEF Stop, NewConversation, turns
<1>5. ASSUME NEW k \in Keys, TimePasses(k) \/ ForeignWrite(k) \/ SweepIdle(k) \/ ExpiryCloses(k)
             \/ ExpiryMarks(k)
      PROVE  UNCHANGED <<turns, gen>>
  BY <1>5 DEF TimePasses, ForeignWrite, SweepIdle, ExpiryCloses, ExpiryMarks, slots
<1>6. ASSUME NEW t \in Turns, Promote(t) \/ Rotate(t) \/ CompactInPlace(t)
      PROVE  UNCHANGED <<turns, gen>>
  BY <1>6 DEF Promote, Rotate, CompactInPlace, slots
<1>7. ASSUME Request \/ Claim \/ Refuse \/ Bind \/ Overtaken \/ Report \/ UNCHANGED vars
      PROVE  UNCHANGED <<turns, gen>>
  BY <1>7 DEF Request, Claim, Refuse, Bind, Overtaken, Report, HandoffOnly, slots, vars
<1>8. ASSUME NEW k \in Keys, KeyStep(k) PROVE Goal
  <2> HIDE DEF Goal
  <2> QED
    BY <1>3, <1>4, <1>5, <1>8 DEF KeyStep, UserTurn, Goal
<1>9. ASSUME NEW t \in Turns, TurnStep(t) \/ AgentStep(t) PROVE Goal
  <2>1. \/ Hygiene(t) \/ Fetch(t) \/ Finish(t) \/ EndRun(t)
        \/ FailsEarly(t) \/ Discard(t) \/ Settle(t) \/ Exhausted(t)
        \/ Promote(t) \/ Rotate(t) \/ CompactInPlace(t)
    BY <1>9 DEF TurnStep, AgentStep
  <2>2. UNCHANGED <<turns, gen>> => Goal
    OBVIOUS
  <2> HIDE DEF Goal
  <2> QED
    BY <2>1, <2>2, <1>1, <1>2, <1>6
<1>10. ASSUME Request \/ HandoffStep \/ UNCHANGED vars PROVE Goal
  <2>1. UNCHANGED <<turns, gen>> \/ \E t \in Turns : Open(t, Home)
    BY <1>7, <1>10 DEF HandoffStep, Synthetic
  <2> QED
    BY <2>1, <1>3, Numbers
<1> HIDE DEF Goal
<1> QED
  BY <1>8, <1>9, <1>10 DEF Next

\* A turn that opens is new.
LEMMA OpensANewOne ==
  ASSUME TypeOK, ClaimInv, NEW t \in Turns, NEW k \in Keys, Open(t, k)
  PROVE  pc[t] = "none" /\ \A u \in Turns : u < t => pc[u] # "none"
<1> DEFINE S == {u \in Turns : pc[u] # "none"}
<1>1. t = Cardinality(S) + 1 /\ MaxTurns \in Nat
  BY Numbers DEF Open, Opened
<1>2. IsFiniteSet(Turns) /\ IsFiniteSet(S)
  <2>1. IsFiniteSet(Turns) /\ Cardinality(Turns) = MaxTurns
    BY <1>1, FS_Interval DEF Turns
  <2> QED
    BY <2>1, FS_Subset
<1>3. ASSUME NEW n \in Nat, 1 .. n \subseteq S PROVE n <= Cardinality(S)
  <2>1. IsFiniteSet(1 .. n) /\ Cardinality(1 .. n) = n
    BY FS_Interval
  <2> QED
    BY <2>1, <1>2, <1>3, FS_Subset
<1>4. pc[t] = "none"
  <2> SUFFICES ASSUME pc[t] # "none" PROVE FALSE
    OBVIOUS
  <2>1. \A u, v \in Turns : u < v /\ pc[v] # "none" => pc[u] # "none"
    BY DEF ClaimInv
  <2>2. 1 .. t \subseteq S
    BY <2>1, <1>1 DEF Turns
  <2>3. t <= Cardinality(S) /\ Cardinality(S) \in Nat
    BY <2>2, <1>2, <1>3, FS_CardinalityType DEF Turns
  <2> QED
    BY <2>3, <1>1
<1>5. ASSUME NEW u \in Turns, u < t, pc[u] = "none" PROVE FALSE
  <2>1. S \subseteq 1 .. (u - 1)
    BY <1>5 DEF ClaimInv, Turns
  <2>2. u - 1 \in Nat /\ IsFiniteSet(1 .. (u - 1)) /\ Cardinality(1 .. (u - 1)) = u - 1
    BY FS_Interval DEF Turns
  <2>3. Cardinality(S) <= u - 1
    BY <2>1, <2>2, FS_Subset
  <2> QED
    BY <2>2, <2>3, <1>1, <1>5, FS_CardinalityType, <1>2 DEF Turns
<1> QED
  BY <1>4, <1>5

\* Claims keep their order and their generations.
LEMMA ClaimKept ==
  ASSUME TypeOK, ClaimInv, [Next]_vars
  PROVE  ClaimInv'
<1> USE DEF ClaimInv, AtWork
<1>1. ASSUME NEW t \in Turns, NEW k \in Keys, Open(t, k) PROVE ClaimInv'
  <2>1. /\ pc' = [pc EXCEPT ![t] = "opened"] /\ key' = [key EXCEPT ![t] = k]
        /\ genOf' = [genOf EXCEPT ![t] = gen[k] + 1] /\ gen' = [gen EXCEPT ![k] = @ + 1]
        /\ pc[t] = "none" /\ \A u \in Turns : u < t => pc[u] # "none"
    BY <1>1, OpensANewOne DEF Open, NextGen
  <2>2. /\ gen \in [Keys -> Nat] /\ genOf \in [Turns -> Nat] /\ key \in [Turns -> Keys]
        /\ pc \in [Turns -> Places] /\ Turns \subseteq Nat
    BY DEF TypeOK, Turns
  <2>3. \A a, b \in Turns : a < b /\ pc'[b] # "none" => pc'[a] # "none"
    BY <2>1, <2>2
  <2>4. /\ \A u \in AtWork' : genOf'[u] <= gen'[key'[u]]
        /\ \A u, v \in AtWork' : key'[u] = key'[v] /\ genOf'[u] = genOf'[v] => u = v
    BY <2>1, <2>2
  <2> QED
    BY <2>3, <2>4
<1>2. ASSUME NEW t \in AtWork, Over(t), UNCHANGED gen PROVE ClaimInv'
  BY <1>2 DEF Over, TypeOK
<1>3. ASSUME NEW t \in Turns, Moved(t) PROVE ClaimInv'
  <2>1. PICK p \in {"ready", "working", "back", "ended"} : pc' = [pc EXCEPT ![t] = p]
    BY <1>3 DEF Moved
  <2>2. /\ pc[t] \in {"opened", "ready", "working", "back", "ended"}
        /\ UNCHANGED <<key, genOf, gen>>
    BY <1>3 DEF Moved
  <2>3. \A u \in Turns : /\ (pc'[u] = "none") = (pc[u] = "none")
                         /\ u \in AtWork' <=> u \in AtWork
    BY <2>1, <2>2 DEF TypeOK
  <2> QED
    BY <2>2, <2>3
<1>4. ASSUME UNCHANGED turns, NEW k \in Keys, NextGen(k) PROVE ClaimInv'
  <2>1. \A j \in Keys : gen[j] <= gen'[j] /\ gen'[j] \in Nat /\ gen[j] \in Nat
    <3>1. gen' = [gen EXCEPT ![k] = gen[k] + 1] /\ gen \in [Keys -> Nat]
      BY <1>4 DEF NextGen, TypeOK
    <3> QED
      BY <3>1
  <2>2. UNCHANGED <<pc, key, genOf>>
    BY <1>4 DEF turns
  <2>3. \A u \in Turns : key[u] \in Keys /\ genOf[u] \in Nat
    BY DEF TypeOK
  <2> QED
    BY <2>1, <2>2, <2>3
<1>5. ASSUME UNCHANGED <<turns, gen>> PROVE ClaimInv'
  BY <1>5 DEF turns
<1> QED
  BY TurnMoves, <1>1, <1>2, <1>3, <1>4, <1>5

\* All steps but two only take agents away: from the cache, from slots, from turns.
Lessens ==
    /\ \A k \in Keys : cached'[k] \in {cached[k], 0}
    /\ \A k \in Keys : running'[k] \in {running[k], 0, Sentinel}
    /\ \A t \in Turns : Holding(t)' =>
          Holding(t) /\ agent'[t] = agent[t] /\ key'[t] = key[t]
    /\ \A t \in Turns : Past(t) => Past(t)'
    /\ \A x \in missed' : x \in missed \/ \E k \in Keys : cached[k] # 0 /\ x[1] = cached[k]

\* What is evicted goes, the rest stays.
LEMMA OutTakes ==
  ASSUME CacheTypes, NEW K \in SUBSET Keys, Out(K)
  PROVE  \A k \in Keys : cached'[k] = IF k \in K THEN 0 ELSE cached[k]
BY DEF Out, CacheTypes

\* A turn that opens takes no agent from anyone.
LEMMA OpenLessens ==
  ASSUME TypeOK, ClaimInv, NEW t \in Turns, NEW k \in Keys, Open(t, k)
  PROVE  Lessens
<1>1. /\ pc[t] = "none" /\ pc' = [pc EXCEPT ![t] = "opened"]
      /\ key' = [key EXCEPT ![t] = k] /\ agent' = agent
      /\ running' = [running EXCEPT ![k] = Sentinel]
      /\ UNCHANGED <<cached, missed>>
  BY OpensANewOne DEF Open, cache
<1>2. /\ \A u \in Turns : Holding(u)' =>
            Holding(u) /\ agent'[u] = agent[u] /\ key'[u] = key[u]
      /\ \A u \in Turns : Past(u) => Past(u)'
  BY <1>1 DEF Holding, Past, Fetching, TypeOK
<1>3. \A j \in Keys : running'[j] \in {running[j], 0, Sentinel}
  BY <1>1 DEF TypeOK
<1> QED
  BY <1>1, <1>2, <1>3 DEF Lessens

\* Only Fetch and Promote give an agent to somebody.
LEMMA LessensSteps ==
  ASSUME TypeOK, ClaimInv, [Next]_vars
  PROVE  Lessens \/ \E t \in Turns : Fetch(t) \/ Promote(t)
<1> DEFINE CacheLess == \A k \in Keys : cached'[k] \in {cached[k], 0}
           SlotLess == \A k \in Keys : running'[k] \in {running[k], 0, Sentinel}
           TurnLess == /\ \A t \in Turns : Holding(t)' =>
                            Holding(t) /\ agent'[t] = agent[t] /\ key'[t] = key[t]
                       /\ \A t \in Turns : Past(t) => Past(t)'
           MissedLess == \A x \in missed' :
               x \in missed \/ \E k \in Keys : cached[k] # 0 /\ x[1] = cached[k]
<1> HIDE DEF CacheLess, SlotLess, TurnLess, MissedLess
<1> USE DEF HandoffOnly, HandoffIs
<1>1. ASSUME NEW k \in Keys, Evict(k) PROVE CacheLess
  BY <1>1, OutTakes, AgentTypeParts DEF Evict, CacheLess
<1>2. ASSUME NEW k \in Keys, EvictedOrNot(k) PROVE CacheLess
  BY <1>1, <1>2 DEF EvictedOrNot, cache, CacheLess
<1>3. UNCHANGED cached => CacheLess
  BY DEF CacheLess
<1>4. UNCHANGED running => SlotLess
  BY DEF SlotLess
<1>5. ASSUME NEW k \in Keys, running' = [running EXCEPT ![k] = 0] PROVE SlotLess
  BY <1>5 DEF SlotLess, TypeOK
<1>6. UNCHANGED turns => TurnLess
  BY DEF TurnLess, turns, Holding, Past, Fetching
<1>7. ASSUME NEW t \in AtWork, Over(t) PROVE TurnLess
  BY <1>7 DEF TurnLess, Over, Holding, Past, Fetching, AtWork, TypeOK
<1>8. UNCHANGED missed => MissedLess
  BY DEF MissedLess
<1>9. CacheLess /\ SlotLess /\ TurnLess /\ MissedLess => Lessens
  BY DEF CacheLess, SlotLess, TurnLess, MissedLess, Lessens
<1>10. ASSUME NEW k \in Keys, TimePasses(k) PROVE Lessens
  BY <1>10, <1>3, <1>4, <1>6, <1>8, <1>9 DEF TimePasses, cache, slots
<1>11. ASSUME NEW k \in Keys, Stop(k) PROVE Lessens
  BY <1>11, <1>3, <1>5, <1>6, <1>8, <1>9 DEF Stop, cache
<1>12. ASSUME NEW k \in Keys, NewConversation(k) PROVE Lessens
  <2>1. CacheLess
    BY <1>12, OutTakes, AgentTypeParts DEF NewConversation, CacheLess
  <2> QED
    BY <1>12, <2>1, <1>5, <1>6, <1>8, <1>9 DEF NewConversation
<1>13. ASSUME NEW k \in Keys, ForeignWrite(k) PROVE Lessens
  <2>1. MissedLess
    BY <1>13 DEF ForeignWrite, InStep, MissedLess
  <2> QED
    BY <1>13, <2>1, <1>3, <1>4, <1>6, <1>9 DEF ForeignWrite, cache, slots
<1>14. ASSUME NEW k \in Keys, SweepIdle(k) PROVE Lessens
  <2>1. CacheLess
    BY <1>14, OutTakes, AgentTypeParts DEF SweepIdle, CacheLess
  <2> QED
    BY <1>14, <2>1, <1>4, <1>6, <1>8, <1>9 DEF SweepIdle, slots
<1>15. ASSUME NEW k \in Keys, ExpiryCloses(k) PROVE Lessens
  BY <1>15, <1>3, <1>4, <1>6, <1>8, <1>9 DEF ExpiryCloses, cache, slots
<1>16. ASSUME NEW k \in Keys, ExpiryMarks(k) PROVE Lessens
  BY <1>16, <1>1, <1>4, <1>6, <1>8, <1>9 DEF ExpiryMarks, slots
<1>17. ASSUME NEW t \in Turns, NEW k \in Keys, Open(t, k) PROVE Lessens
  BY <1>17, OpenLessens
<1>18. ASSUME NEW t \in Turns, NEW p \in {"ready", "back", "ended"},
              pc' = [pc EXCEPT ![t] = p], UNCHANGED <<key, agent>>,
              p # "ready" => Holding(t), p = "ready" => pc[t] = "opened"
       PROVE  TurnLess
  BY <1>18 DEF TurnLess, Holding, Past, Fetching, TypeOK
<1>19. ASSUME NEW t \in Turns, Hygiene(t) PROVE Lessens
  <2>1. key[t] \in Keys /\ Evict(key[t]) /\ UNCHANGED <<running, missed>>
    BY <1>19 DEF Hygiene, slots, TypeOK
  <2>2. TurnLess
    BY <1>18, <1>19 DEF Hygiene, TooLarge
  <2> QED
    BY <2>1, <2>2, <1>1, <1>4, <1>8, <1>9
<1>20. ASSUME NEW t \in Turns, FailsEarly(t) PROVE Lessens
  <2>1. t \in AtWork /\ key[t] \in Keys
    BY <1>20 DEF FailsEarly, AtWork, TypeOK
  <2> QED
    BY <1>20, <2>1, <1>3, <1>5, <1>7, <1>8, <1>9 DEF FailsEarly, cache
<1>21. ASSUME NEW t \in Turns, Rotate(t) \/ CompactInPlace(t) PROVE Lessens
  BY <1>21, <1>3, <1>4, <1>6, <1>8, <1>9 DEF Rotate, CompactInPlace, cache, slots
<1>22. ASSUME NEW t \in Turns, Finish(t) PROVE Lessens
  <2>1. TurnLess
    BY <1>18, <1>22 DEF Finish, Holding
  <2> QED
    BY <1>22, <2>1, <1>3, <1>4, <1>8, <1>9 DEF Finish, cache, slots
<1>23. ASSUME NEW t \in Turns, EndRun(t) PROVE Lessens
  <2>1. TurnLess
    BY <1>18, <1>23 DEF EndRun, Holding
  <2>2. key[t] \in Keys
    BY DEF TypeOK
  <2> QED
    BY <1>23, <2>1, <2>2, <1>2, <1>4, <1>5, <1>8, <1>9 DEF EndRun
<1>24. ASSUME NEW t \in Turns, Discard(t) \/ Settle(t) \/ Exhausted(t) PROVE Lessens
  <2>1. t \in AtWork /\ key[t] \in Keys
    BY <1>24 DEF Discard, Settle, Exhausted, AtWork, TypeOK
  <2>2. CacheLess
    BY <1>24, <2>1, <1>1, <1>2, <1>3 DEF Discard, Settle, Exhausted
  <2>3. SlotLess /\ TurnLess /\ UNCHANGED missed
    BY <1>24, <2>1, <1>5, <1>7 DEF Discard, Settle, Exhausted, Released
  <2> QED
    BY <2>2, <2>3, <1>8, <1>9
<1>25. ASSUME Request \/ Claim \/ Refuse \/ Overtaken \/ Report \/ UNCHANGED vars PROVE Lessens
  BY <1>25, <1>3, <1>4, <1>6, <1>8, <1>9
  DEF Request, Claim, Refuse, Overtaken, Report, vars, cache, slots
<1>26. ASSUME Bind PROVE Lessens
  BY <1>26, <1>1, <1>5, <1>6, <1>8, <1>9, Numbers DEF Bind
<1>27. ASSUME NEW k \in Keys, KeyStep(k) PROVE Lessens
  BY <1>27, <1>10, <1>11, <1>12, <1>13, <1>14, <1>15, <1>16, <1>17 DEF KeyStep, UserTurn
<1>28. ASSUME NEW t \in Turns, TurnStep(t) \/ AgentStep(t), ~Fetch(t), ~Promote(t) PROVE Lessens
  BY <1>28, <1>19, <1>20, <1>21, <1>22, <1>23, <1>24 DEF TurnStep, AgentStep
<1>29. ASSUME HandoffStep PROVE Lessens
  BY <1>29, <1>17, <1>25, <1>26, Numbers DEF HandoffStep, Synthetic
<1> QED
  BY <1>25, <1>27, <1>28, <1>29 DEF Next

-----------------------------------------------------------------------------
(* AgentCache: agents. *)

\* A turn takes the cached agent of its key, or builds one of its own.
Reuses(t) ==
    /\ cached[key[t]] # 0 /\ count[key[t]] = rows[sidOf[obj[t]]]
    /\ agent' = [agent EXCEPT ![t] = cached[key[t]]]
    /\ UNCHANGED <<cached, count, born, live>>

Builds(t) ==
    /\ agent' = [agent EXCEPT ![t] = t]
    /\ born' = [born EXCEPT ![t] = sidOf[obj[t]]]
    /\ \A j \in Keys : \/ cached'[j] = 0
                       \/ j = key[t] /\ cached'[j] = t
                       \/ j # key[t] /\ cached'[j] = cached[j] /\ count'[j] = count[j]

\* What Fetch does apart from that, in either case.
LEMMA FetchCases ==
  ASSUME TypeOK, NEW t \in Turns, Fetch(t)
  PROVE  /\ pc[t] \in {"opened", "ready"} /\ pc' = [pc EXCEPT ![t] = "working"]
         /\ sid' = [sid EXCEPT ![t] = sidOf[obj[t]]]
         /\ missed' = {p \in missed : p[1] # agent'[t]}
         /\ UNCHANGED <<store, base, slots, key, genOf, obj, blank, closing, handover, events>>
         /\ Reuses(t) \/ Builds(t)
<1>1. ASSUME NEW order, NEW gone, Enter(t, key[t], sidOf[obj[t]], order, gone) PROVE Builds(t)
  BY <1>1, TurnFacts DEF Enter, Builds, TypeOK
<1>2. Reuse(t, key[t], sidOf[obj[t]]) => Reuses(t)
  BY DEF Reuse, Reuses, Unchanged, agents
<1> QED
  BY <1>1, <1>2 DEF Fetch, BuildFirst, Rebuild, Overwrite

\* The agent of a slot, of a turn, of the cache is built, and no step undoes it.
LEMMA BuiltKept ==
  ASSUME TypeOK, ClaimInv, BuiltInv, [Next]_vars
  PROVE  BuiltInv'
<1>1. ASSUME Lessens PROVE BuiltInv'
  <2>1. \A t \in Turns : Past(t) => pc'[t] \in Fetching
    BY <1>1 DEF Lessens, Past
  <2>2. \A k \in Keys : cached'[k] # 0 =>
            cached[k] # 0 /\ cached'[k] = cached[k] /\ cached[k] \in Turns
    BY <1>1, KeyFacts DEF Lessens, Turns
  <2>3. \A k \in Keys : cached'[k] # 0 => pc'[cached'[k]] \in Fetching
    BY <2>1, <2>2 DEF BuiltInv, Past
  <2>4. \A k \in Keys : running'[k] \in Turns => pc'[running'[k]] \in Fetching
    BY <1>1, <2>1, Numbers DEF Lessens, BuiltInv, Past, Turns
  <2>5. \A t \in Turns : Holding(t)' => agent'[t] # 0 /\ pc'[agent'[t]] \in Fetching
    BY <1>1, <2>1, TurnFacts DEF Lessens, BuiltInv, Past, Turns
  <2>6. \A x \in missed' : pc'[x[1]] \in Fetching
    <3> SUFFICES ASSUME NEW x \in missed' PROVE pc'[x[1]] \in Fetching
      OBVIOUS
    <3>1. x \in missed \/ \E k \in Keys : cached[k] # 0 /\ x[1] = cached[k]
      BY <1>1 DEF Lessens
    <3>2. Past(x[1])
      BY <3>1 DEF BuiltInv
    <3>3. x[1] \in Turns
      <4>1. x \in missed => x[1] \in Turns
        BY DEF TypeOK
      <4> QED
        BY <3>1, <4>1, <2>2, KeyFacts DEF Turns
    <3> QED
      BY <2>1, <3>2, <3>3
  <2> QED
    BY <2>3, <2>4, <2>5, <2>6 DEF BuiltInv, Past
<1>2. ASSUME NEW t \in Turns, Fetch(t) PROVE BuiltInv'
  <2>1. /\ pc' = [pc EXCEPT ![t] = "working"] /\ pc[t] \in {"opened", "ready"}
        /\ missed' \subseteq missed /\ running' = running
        /\ Reuses(t) \/ Builds(t)
    BY <1>2, FetchCases DEF slots
  <2>2. pc'[t] \in Fetching /\ \A u \in Turns : Past(u) => pc'[u] \in Fetching
    BY <2>1 DEF Past, Fetching, TypeOK
  <2>3. \A u \in Turns : Holding(u)' => u = t \/ Holding(u)
    BY <2>1 DEF Holding, TypeOK
  <2>4. \A j \in Keys : cached'[j] \in {0, t, cached[j]}
    BY <2>1 DEF Reuses, Builds
  <2>5. /\ agent'[t] \in {t, cached[key[t]]} /\ agent'[t] # 0
        /\ \A u \in Turns : u # t => agent'[u] = agent[u]
    <3>1. \/ agent' = [agent EXCEPT ![t] = t]
          \/ /\ cached[key[t]] # 0
             /\ agent' = [agent EXCEPT ![t] = cached[key[t]]]
      <4>1. Reuses(t) => cached[key[t]] # 0 /\ agent' = [agent EXCEPT ![t] = cached[key[t]]]
        BY DEF Reuses
      <4>2. Builds(t) => agent' = [agent EXCEPT ![t] = t]
        BY DEF Builds
      <4> QED
        BY <2>1, <4>1, <4>2
    <3>2. agent \in [Turns -> 0 .. MaxTurns] /\ t # 0
      BY DEF TypeOK, Turns
    <3> QED
      BY <3>1, <3>2
  <2>6. \A j \in Keys : cached'[j] # 0 => pc'[cached'[j]] \in Fetching
    BY <2>2, <2>4, KeyFacts DEF BuiltInv, Past, Turns
  <2>7. \A k \in Keys : running'[k] \in Turns => pc'[running'[k]] \in Fetching
    BY <2>1, <2>2 DEF BuiltInv, Past
  <2>8. \A u \in Turns : Holding(u)' => agent'[u] # 0 /\ pc'[agent'[u]] \in Fetching
    BY <2>2, <2>3, <2>5, TurnFacts, KeyFacts DEF BuiltInv, Past, Turns
  <2>9. \A x \in missed' : pc'[x[1]] \in Fetching
    BY <2>1, <2>2 DEF BuiltInv, Past, TypeOK
  <2> QED
    BY <2>6, <2>7, <2>8, <2>9 DEF BuiltInv, Past
<1>3. ASSUME NEW t \in Turns, Promote(t) PROVE BuiltInv'
  <2>1. /\ running' = [running EXCEPT ![key[t]] = agent[t]] /\ pc[t] = "working"
        /\ UNCHANGED <<cached, pc, agent, missed>>
    BY <1>3 DEF Promote, cache, turns
  <2>2. \A k \in Keys : running'[k] \in {running[k], agent[t]}
    BY <2>1 DEF TypeOK
  <2>3. Past(agent[t]) /\ \A u : (pc'[u] \in Fetching) <=> Past(u)
    BY <2>1 DEF BuiltInv, Past, Holding
  <2> QED
    BY <2>1, <2>2, <2>3 DEF BuiltInv, Past, Holding
<1> QED
  BY LessensSteps, <1>1, <1>2, <1>3

\* Agents stay under one key.
LEMMA AgentKept ==
  ASSUME TypeOK, ClaimInv, BuiltInv, AgentInv, [Next]_vars
  PROVE  AgentInv'
<1>1. ASSUME Lessens PROVE AgentInv'
  <2>1. \A k \in Keys : cached'[k] # 0 => cached'[k] = cached[k] /\ cached[k] \in Turns
    BY <1>1, KeyFacts DEF Lessens, Turns
  <2>2. \A k \in Keys : running'[k] \in Turns => running'[k] = running[k]
    BY <1>1, Numbers DEF Lessens, Turns
  <2>3. \A t \in Turns : Holding(t)' => Holding(t) /\ agent'[t] = agent[t] /\ key'[t] = key[t]
                                        /\ agent[t] # 0
    BY <1>1 DEF Lessens, BuiltInv
  <2> QED
    BY <2>1, <2>2, <2>3 DEF AgentInv
<1>2. ASSUME NEW t \in Turns, Fetch(t) PROVE AgentInv'
  <2>1. /\ pc' = [pc EXCEPT ![t] = "working"] /\ pc[t] \in {"opened", "ready"}
        /\ running' = running /\ key' = key /\ key[t] \in Keys
        /\ Reuses(t) \/ Builds(t)
    BY <1>2, FetchCases DEF slots, TypeOK
  <2>2. \A u \in Turns : Holding(u)' => u = t \/ Holding(u)
    BY <2>1 DEF Holding, TypeOK
  <2>3. CASE Reuses(t)
    <3>1. /\ agent'[t] = cached[key[t]] /\ cached[key[t]] # 0 /\ cached' = cached
          /\ \A u \in Turns : u # t => agent'[u] = agent[u]
      BY <2>3 DEF Reuses, TypeOK
    <3> QED
      BY <2>1, <2>2, <3>1 DEF AgentInv
  <2>4. CASE Builds(t)
    <3>1. /\ agent'[t] = t /\ \A u \in Turns : u # t => agent'[u] = agent[u]
          /\ \A j \in Keys :
               cached'[j] = 0 \/ (j = key[t] /\ cached'[j] = t) \/ cached'[j] = cached[j]
      BY <2>4 DEF Builds, TypeOK
    <3>2. t # 0 /\ ~Past(t)
      BY <2>1 DEF Past, Fetching, Turns
    <3>3. /\ \A j \in Keys : cached[j] # t /\ running[j] # t
          /\ \A u \in Turns : Holding(u) => agent[u] # t /\ agent[u] # 0
      BY <3>2, KeyFacts DEF BuiltInv, Turns
    <3> QED
      BY <2>1, <2>2, <3>1, <3>2, <3>3 DEF AgentInv
  <2> QED
    BY <2>1, <2>3, <2>4
<1>3. ASSUME NEW t \in Turns, Promote(t) PROVE AgentInv'
  <2>1. /\ running' = [running EXCEPT ![key[t]] = agent[t]] /\ Holding(t) /\ key[t] \in Keys
        /\ UNCHANGED <<cached, pc, agent, key>>
    BY <1>3 DEF Promote, cache, turns, Holding, TypeOK
  <2>2. \A k \in Keys : running'[k] = IF k = key[t] THEN agent[t] ELSE running[k]
    BY <2>1 DEF TypeOK
  <2> QED
    BY <2>1, <2>2 DEF AgentInv, Holding
<1> QED
  BY LessensSteps, <1>1, <1>2, <1>3

\* A turn that has not fetched its agent and is current was so before, unless it
\* claims its slot now.
LEMMA WaitingBefore ==
  ASSUME TypeOK, ClaimInv, [Next]_vars, NEW t \in Turns,
         pc'[t] \in {"opened", "ready"}, Current(t)'
  PROVE  \/ /\ pc[t] \in {"opened", "ready"} /\ Current(t) /\ key'[t] = key[t]
         \/ running'[key'[t]] = Sentinel
<1> DEFINE Before == /\ pc[t] \in {"opened", "ready"} /\ Current(t) /\ key'[t] = key[t]
           Claims == running'[key'[t]] = Sentinel
<1> HIDE DEF Before, Claims
<1>1. ASSUME NEW u \in Turns, NEW k \in Keys, Open(u, k) PROVE Before \/ Claims
  <2>1. /\ pc' = [pc EXCEPT ![u] = "opened"] /\ key' = [key EXCEPT ![u] = k]
        /\ genOf' = [genOf EXCEPT ![u] = gen[k] + 1] /\ gen' = [gen EXCEPT ![k] = gen[k] + 1]
        /\ running' = [running EXCEPT ![k] = Sentinel]
    BY <1>1 DEF Open, NextGen
  <2>2. CASE t = u
    BY <2>1, <2>2 DEF Claims, TypeOK
  <2>3. CASE t # u
    <3>1. /\ pc[t] \in {"opened", "ready"} /\ key'[t] = key[t] /\ genOf'[t] = genOf[t]
      BY <2>1, <2>3 DEF TypeOK
    <3>2. genOf[t] <= gen[key[t]] /\ genOf[t] \in Nat /\ gen[key[t]] \in Nat /\ key[t] \in Keys
      BY <3>1 DEF ClaimInv, AtWork, TypeOK
    <3>3. gen'[key[t]] = genOf[t]
      BY <3>1 DEF Current
    <3>4. key[t] # k
      BY <2>1, <3>2, <3>3 DEF TypeOK
    <3>5. gen'[key[t]] = gen[key[t]]
      BY <2>1, <3>2, <3>4 DEF TypeOK
    <3> QED
      BY <3>1, <3>3, <3>5 DEF Before, Current
  <2> QED
    BY <2>2, <2>3
<1>2. ASSUME NEW u \in AtWork, Over(u), UNCHANGED gen PROVE Before
  BY <1>2 DEF Over, TypeOK, Before, Current, AtWork
<1>3. ASSUME NEW u \in Turns, Moved(u), ~Before PROVE FALSE
  <2>1. PICK p \in {"ready", "working", "back", "ended"} :
           pc' = [pc EXCEPT ![u] = p] /\ (p = "ready" => pc[u] = "opened")
    BY <1>3 DEF Moved
  <2>2. UNCHANGED <<key, genOf, gen>>
    BY <1>3 DEF Moved
  <2>3. pc[t] \notin {"opened", "ready"}
    BY <2>2, <1>3 DEF Before, Current
  <2>4. t = u /\ p = "ready"
    BY <2>1, <2>3 DEF TypeOK
  <2> QED
    BY <2>1, <2>3, <2>4
<1>4. ASSUME UNCHANGED turns, NEW k \in Keys, NextGen(k) PROVE Before
  <2>1. gen' = [gen EXCEPT ![k] = gen[k] + 1] /\ UNCHANGED <<pc, key, genOf>>
    BY <1>4 DEF NextGen, turns
  <2>2. genOf[t] <= gen[key[t]] /\ genOf[t] \in Nat /\ gen[key[t]] \in Nat /\ key[t] \in Keys
    BY <2>1 DEF ClaimInv, AtWork, TypeOK
  <2>3. gen'[key[t]] = genOf[t]
    BY <2>1 DEF Current
  <2>4. key[t] # k
    BY <2>1, <2>2, <2>3 DEF TypeOK
  <2>5. gen'[key[t]] = gen[key[t]]
    BY <2>1, <2>2, <2>4 DEF TypeOK
  <2> QED
    BY <2>1, <2>3, <2>5 DEF Before, Current
<1>5. ASSUME UNCHANGED <<turns, gen>> PROVE Before
  BY <1>5 DEF turns, Before, Current
<1> QED
  BY TurnMoves, <1>1, <1>2, <1>3, <1>4, <1>5 DEF Before, Claims
\* A current turn that waits for its agent finds no other in its slot.
LEMMA SlotKept ==
  ASSUME TypeOK, ClaimInv, SlotInv, [Next]_vars
  PROVE  SlotInv'
<1> SUFFICES ASSUME NEW t \in Turns, pc'[t] \in {"opened", "ready"}, Current(t)'
             PROVE  running'[key'[t]] \notin Turns
  BY DEF SlotInv
<1>1. CASE running'[key'[t]] = Sentinel
  BY <1>1, Numbers
<1>2. CASE /\ pc[t] \in {"opened", "ready"} /\ Current(t) /\ key'[t] = key[t]
  <2>1. key[t] \in Keys /\ running[key[t]] \notin Turns
    BY <1>2 DEF SlotInv, TypeOK
  <2>2. ASSUME Lessens PROVE running'[key[t]] \notin Turns
    <3>1. running'[key[t]] \in {running[key[t]], 0, Sentinel}
      BY <2>1, <2>2 DEF Lessens
    <3> QED
      BY <3>1, <2>1, Numbers DEF Turns
  <2>3. ASSUME NEW u \in Turns, Fetch(u) PROVE running' = running
    BY <2>3 DEF Fetch, slots
  <2>4. ASSUME NEW u \in Turns, Promote(u) PROVE running'[key[t]] = running[key[t]]
    <3>1. /\ pc[u] = "working" /\ Current(u)
          /\ running' = [running EXCEPT ![key[u]] = agent[u]]
      BY <2>4 DEF Promote
    <3>2. u # t /\ u \in AtWork /\ t \in AtWork
      BY <3>1, <1>2 DEF AtWork
    <3>3. key[u] # key[t]
      BY <3>1, <3>2, <1>2 DEF ClaimInv, Current
    <3> QED
      BY <3>1, <3>3, <2>1 DEF TypeOK
  <2> QED
    BY LessensSteps, <1>2, <2>1, <2>2, <2>3, <2>4
<1> QED
  BY WaitingBefore, <1>1, <1>2

\* The slot of a key is freed, and no turn of the key is current any more.
Freed(k) == running' = [running EXCEPT ![k] = 0] /\ NextGen(k) /\ UNCHANGED turns

\* The agent of one key leaves the cache.  It is released only if it is in no
\* slot, or if the slot of its key is freed by the same step; it is exposed if a
\* current turn has fetched it.
OneOut(k) ==
    /\ cached'[k] = 0 /\ \A j \in Keys \ {k} : cached'[j] = cached[j]
    /\ exposed \subseteq exposed'
    /\ \/ live' = live
       \/ /\ live' = live \ {cached[k]}
          /\ cached[k] \in Turns /\ Fetched(cached[k]) => cached[k] \in exposed'
          /\ cached[k] \notin InSlots \/ Freed(k)
    /\ \/ closing' = closing
       \/ closing' = {} /\ k \in closing

\* _evict_cached_agent is such a step.
LEMMA EvictsOne ==
  ASSUME TypeOK, NEW k \in Keys, Evict(k), \/ closing' = closing
                                           \/ closing' = {} /\ k \in closing
  PROVE  OneOut(k)
<1>1. cached'[k] = 0 /\ \A j \in Keys \ {k} : cached'[j] = cached[j]
  BY OutTakes, AgentTypeParts DEF Evict
<1>2. /\ live' = live \ ({cached[k]} \ InSlots) /\ exposed \subseteq exposed'
      /\ cached[k] \in Turns \ InSlots /\ Fetched(cached[k]) => cached[k] \in exposed'
  BY DEF Evict, Release, Idle
<1> QED
  BY <1>1, <1>2 DEF OneOut

\* These are the steps that change the cache or what is released.
LEMMA LiveMoves ==
  ASSUME TypeOK, [Next]_vars
  PROVE  \/ \E t \in Turns : Fetch(t)
         \/ \E k \in Keys : ExpiryCloses(k)
         \/ \E k \in Keys : OneOut(k)
         \/ UNCHANGED <<cached, live, exposed, closing>>
<1> DEFINE Same == UNCHANGED <<cached, live, exposed, closing>>
           One == \E k \in Keys : OneOut(k)
<1> USE DEF HandoffOnly, HandoffIs, cache, agents
<1>1. ASSUME NEW k \in Keys, Out({k}), Release({cached[k]}), UNCHANGED closing,
             cached[k] \notin InSlots \/ Freed(k)
      PROVE  One
  <2>1. cached'[k] = 0 /\ \A j \in Keys \ {k} : cached'[j] = cached[j]
    BY <1>1, OutTakes, AgentTypeParts
  <2>2. OneOut(k)
    BY <1>1, <2>1 DEF OneOut, Release
  <2> QED
    BY <2>2
<1>2. ASSUME NEW k \in Keys, Evict(k), UNCHANGED closing PROVE One
  BY <1>2, EvictsOne
<1>3. ASSUME NEW k \in Keys, EvictedOrNot(k), UNCHANGED closing PROVE One \/ Same
  BY <1>2, <1>3 DEF EvictedOrNot
<1> HIDE DEF Same, One
<1>4. ASSUME NEW k \in Keys, KeyStep(k) PROVE One \/ Same \/ ExpiryCloses(k)
  <2>1. ASSUME NewConversation(k) PROVE One
    <3>1. Freed(k)
      BY <2>1 DEF NewConversation, Freed
    <3> QED
      BY <2>1, <3>1, <1>1 DEF NewConversation
  <2>2. SweepIdle(k) => One
    BY <1>1 DEF SweepIdle, Swept
  <2>3. ExpiryMarks(k) => One
    BY EvictsOne DEF ExpiryMarks, One
  <2>4. TimePasses(k) \/ Stop(k) \/ ForeignWrite(k) => Same
    BY DEF TimePasses, Stop, ForeignWrite, Same
  <2>5. \A t \in Turns : UserTurn(t, k) => Same
    BY DEF UserTurn, Open, Same
  <2> QED
    BY <1>4, <2>1, <2>2, <2>3, <2>4, <2>5 DEF KeyStep
<1>5. ASSUME NEW t \in Turns, TurnStep(t) \/ AgentStep(t), ~Fetch(t) PROVE One \/ Same
  <2>1. key[t] \in Keys
    BY DEF TypeOK
  <2>2. FailsEarly(t) \/ Finish(t) \/ Promote(t) \/ Rotate(t) \/ CompactInPlace(t) => Same
    BY DEF FailsEarly, Finish, Promote, Rotate, CompactInPlace, Same
  <2>3. EndRun(t) \/ Discard(t) => One \/ Same
    BY <2>1, <1>3 DEF EndRun, Discard
  <2>4. Hygiene(t) \/ Exhausted(t) => One
    BY <2>1, <1>2 DEF Hygiene, Exhausted
  <2>5. Settle(t) => One \/ Same
    BY <2>1, <1>2 DEF Settle, Same
  <2> QED
    BY <1>5, <2>2, <2>3, <2>4, <2>5 DEF TurnStep, AgentStep
<1>6. ASSUME Request \/ HandoffStep PROVE One \/ Same
  <2>1. Bind => One
    BY <1>2, Numbers DEF Bind
  <2>2. Request \/ Claim \/ Refuse \/ Overtaken \/ Report => Same
    BY DEF Request, Claim, Refuse, Overtaken, Report, Same
  <2>3. \A t \in Turns : Synthetic(t) => Same
    BY DEF Synthetic, Open, Same
  <2> QED
    BY <1>6, <2>1, <2>2, <2>3 DEF HandoffStep
<1>7. UNCHANGED vars => Same
  BY DEF vars, Same
<1> QED
  BY <1>4, <1>5, <1>6, <1>7 DEF Next, One, Same

\* What a new agent does to the cache: `out` leaves, and `gone`, and no other
\* agent is released; none of `out` is in a slot.
LEMMA EnterTakes ==
  ASSUME TypeOK, NEW t \in Turns, NEW order, NEW gone,
         Enter(t, key[t], sidOf[obj[t]], order, gone), closing' = closing,
         \A j \in Keys : cached[j] # t, \A j \in Keys : running[j] # t,
         \A i, j \in Keys : cached[i] # 0 /\ cached[i] = cached[j] => i = j,
         gone \in {0, cached[key[t]]}
  PROVE  /\ \A j \in Keys : cached'[j] # 0 =>
               \/ cached'[j] \in live'
               \/ j # key[t] /\ cached'[j] = cached[j] /\ cached[j] \notin live
         /\ \A a \in live \ live' : a \in InSlots => a = gone
<1> DEFINE k == key[t]
           built == [cached EXCEPT ![k] = t]
           out == Surplus(built, order)
<1>1. /\ \A x \in Keys : cached'[x] = IF x \in out THEN 0 ELSE built[x]
      /\ live' = (live \cup {t}) \ ({built[x] : x \in out} \cup {gone})
  BY DEF Enter
<1>2. /\ k \in Keys /\ t # 0 /\ cached \in [Keys -> 0 .. MaxTurns] /\ live \subseteq Turns
      /\ \A x \in Keys : built[x] = IF x = k THEN t ELSE cached[x]
  <2>1. k \in Keys /\ t # 0 /\ cached \in [Keys -> 0 .. MaxTurns] /\ live \subseteq Turns
    BY TurnFacts, AgentTypeParts DEF CacheTypes, AgentTypes, Turns, k
  <2> HIDE DEF k
  <2> QED
    BY <2>1
<1>3. out \subseteq Keys /\ \A x \in out : built[x] # 0 /\ built[x] \notin InSlots
  BY DEF Surplus
<1> HIDE DEF k, built, out
<1>4. ASSUME NEW j \in Keys, cached'[j] # 0
      PROVE  cached'[j] \in live' \/ (j # k /\ cached'[j] = cached[j] /\ cached[j] \notin live)
  <2>1. j \notin out /\ cached'[j] = built[j]
    BY <1>1, <1>4
  <2>2. CASE j = k
    <3>1. built[j] = t /\ \A x \in out : built[x] # t
      BY <2>1, <2>2, <1>2, <1>3
    <3>2. t # gone
      BY <1>2 DEF k
    <3> QED
      BY <3>1, <3>2, <2>1, <1>1
  <2>3. CASE j # k
    <3>1. built[j] = cached[j] /\ cached[j] # 0 /\ cached[j] # t
      BY <2>1, <2>3, <1>2, <1>4
    <3>2. \A x \in out : built[x] # cached[j]
      BY <3>1, <2>1, <1>2, <1>3
    <3>3. gone # cached[j]
      BY <3>1, <2>3, <1>2 DEF k
    <3> QED
      BY <3>1, <3>2, <3>3, <2>1, <2>3, <1>1
  <2> QED
    BY <2>2, <2>3
<1>5. ASSUME NEW a \in live \ live', a \in InSlots PROVE a = gone
  BY <1>5, <1>1, <1>3
<1> QED
  BY <1>4, <1>5 DEF k

\* Who has the new agent, or had another, finds it live or exposed.
LEMMA EnterExposes ==
  ASSUME TypeOK, NEW t \in Turns, NEW order, NEW gone,
         Enter(t, key[t], sidOf[obj[t]], order, gone)
  PROVE  /\ exposed \subseteq exposed' /\ t \in live' \cup exposed'
         /\ \A a \in Turns : Fetched(a) /\ a \in live \ live' => a \in exposed'
         /\ gone \in live \ live' /\ ~Current(t) => gone \in exposed'
<1>1. PICK taken :
         /\ live' = (live \cup {t}) \ taken
         /\ exposed' = exposed \cup {a \in taken \cap Turns :
                a = t \/ Fetched(a) \/ (a = gone /\ ~Current(t))}
  BY DEF Enter
<1>2. live \subseteq Turns
  BY DEF TypeOK
<1> QED
  BY <1>1, <1>2

\* The cached agents are live, but for the one that is being finalized.
LEMMA UsableKept ==
  ASSUME TypeOK, ClaimInv, BuiltInv, AgentInv, UsableInv, [Next]_vars
  PROVE  UsableInv'
<1> USE DEF UsableInv, CachedIsLive
<1>1. ASSUME NEW t \in Turns, Fetch(t) PROVE UsableInv'
  <2>1. pc[t] \in {"opened", "ready"} /\ closing' = closing
    BY <1>1 DEF Fetch
  <2>2. t # 0 /\ ~Past(t)
    BY <2>1 DEF Past, Fetching, Turns
  <2>3. (\A j \in Keys : cached[j] # t) /\ (\A j \in Keys : running[j] # t)
    BY <2>2 DEF BuiltInv
  <2>4. \A i, j \in Keys : cached[i] # 0 /\ cached[i] = cached[j] => i = j
    BY DEF AgentInv
  <2>5. ASSUME NEW order, NEW gone \in {0, cached[key[t]]},
               Enter(t, key[t], sidOf[obj[t]], order, gone)
        PROVE  UsableInv'
    BY <2>1, <2>3, <2>4, <2>5, EnterTakes
  <2>6. Reuse(t, key[t], sidOf[obj[t]]) => UsableInv'
    BY <2>1 DEF Reuse, agents
  <2> QED
    BY <1>1, <2>5, <2>6 DEF Fetch, BuildFirst, Rebuild, Overwrite
<1>2. ASSUME NEW k \in Keys, ExpiryCloses(k) PROVE UsableInv'
  <2>1. /\ closing = {} /\ closing' = {k} /\ cached' = cached /\ running' = running
        /\ live' = live \ {Finalized(k)}
    BY <1>2 DEF ExpiryCloses, Loop, ReleaseAnyway, cache, slots
  <2>2. \A j \in Keys \ {k} : cached[j] # 0 => cached[j] # Finalized(k)
    BY DEF AgentInv, Finalized
  <2> QED
    BY <2>1, <2>2
<1>3. ASSUME NEW k \in Keys, OneOut(k) PROVE UsableInv'
  <2>1. \A j \in Keys \ {k} : cached[j] # 0 => cached[j] # cached[k]
    BY DEF AgentInv
  <2> QED
    BY <2>1, <1>3 DEF OneOut
<1> QED
  BY LiveMoves, <1>1, <1>2, <1>3

\* An agent that is in a slot, or that a current turn will put there.
InHand(a) == a \in InSlots \/ Fetched(a)

\* Only Fetch gives an agent to a turn.
LEMMA InHandBefore ==
  ASSUME TypeOK, ClaimInv, [Next]_vars, \A t \in Turns : ~Fetch(t), NEW a \in Turns, InHand(a)'
  PROVE  InHand(a)
<1>1. CASE a \in InSlots'
  <2>1. PICK k \in Keys : running'[k] = a
    BY <1>1 DEF InSlots
  <2>2. CASE Lessens
    <3>1. running'[k] \in {running[k], 0, Sentinel}
      BY <2>2 DEF Lessens
    <3> QED
      BY <2>1, <3>1, Numbers DEF InSlots, InHand, Turns
  <2>3. ASSUME NEW t \in Turns, Promote(t) PROVE InHand(a)
    <3>1. pc[t] = "working" /\ Current(t) /\ running[key[t]] # agent[t]
      BY <2>3 DEF Promote
    <3>2. running'[k] \in {running[k], agent[t]}
      BY <2>3 DEF Promote, TypeOK
    <3> QED
      BY <2>1, <3>1, <3>2 DEF InSlots, InHand, Fetched
  <2> QED
    BY <2>2, <2>3, LessensSteps
<1>2. ASSUME NEW t \in Turns, pc'[t] = "working", agent'[t] = a, Current(t)'
      PROVE  InHand(a)
  <2>1. Holding(t) /\ agent[t] = a /\ key'[t] = key[t] /\ key[t] \in Keys
    <3>1. CASE Lessens
      BY <1>2, <3>1 DEF Lessens, Holding, TypeOK
    <3>2. ASSUME NEW u \in Turns, Promote(u)
          PROVE  Holding(t) /\ agent[t] = a /\ key'[t] = key[t] /\ key[t] \in Keys
      BY <1>2, <3>2 DEF Promote, turns, Holding, TypeOK
    <3> QED
      BY <3>1, <3>2, LessensSteps
  <2>2. ASSUME pc[t] = "working", Current(t) PROVE InHand(a)
    BY <2>1, <2>2 DEF InHand, Fetched, InSlots
  <2>3. t \in AtWork /\ genOf[t] <= gen[key[t]] /\ genOf[t] \in Nat /\ gen[key[t]] \in Nat
    BY <2>1 DEF Holding, AtWork, ClaimInv, TypeOK
  <2>4. ASSUME NEW u \in Turns, NEW k \in Keys, Open(u, k) PROVE InHand(a)
    <3>1. /\ pc' = [pc EXCEPT ![u] = "opened"] /\ gen' = [gen EXCEPT ![k] = gen[k] + 1]
          /\ genOf' = [genOf EXCEPT ![u] = gen[k] + 1]
      BY <2>4 DEF Open, NextGen
    <3>2. t # u /\ pc[t] = "working" /\ genOf'[t] = genOf[t]
      BY <3>1, <1>2 DEF TypeOK
    <3>3. gen'[key[t]] = genOf[t]
      BY <3>2, <2>1, <1>2 DEF Current
    <3>4. key[t] # k
      BY <3>1, <3>3, <2>3 DEF TypeOK
    <3>5. Current(t)
      BY <3>1, <3>3, <3>4, <2>1 DEF TypeOK, Current
    <3> QED
      BY <2>2, <3>2, <3>5
  <2>5. ASSUME NEW u \in AtWork, Over(u), UNCHANGED gen PROVE InHand(a)
    <3>1. t # u
      BY <2>5, <1>2 DEF Over, TypeOK, AtWork
    <3>2. pc[t] = "working" /\ Current(t)
      BY <2>5, <3>1, <1>2 DEF Over, TypeOK, AtWork, Current
    <3> QED
      BY <2>2, <3>2
  <2>6. ASSUME NEW u \in Turns, Moved(u) PROVE InHand(a)
    <3>1. PICK p \in {"ready", "working", "back", "ended"} :
             /\ pc' = [pc EXCEPT ![u] = p]
             /\ p = "working" => pc[u] \in {"opened", "ready"}
      BY <2>6 DEF Moved
    <3>2. UNCHANGED <<key, genOf, gen>>
      BY <2>6 DEF Moved
    <3>3. t # u
      BY <3>1, <2>1, <1>2 DEF Holding, TypeOK
    <3>4. pc[t] = "working" /\ Current(t)
      BY <3>1, <3>2, <3>3, <1>2 DEF TypeOK, Current
    <3> QED
      BY <2>2, <3>4
  <2>7. ASSUME UNCHANGED turns, NEW k \in Keys, NextGen(k) PROVE InHand(a)
    <3>1. gen' = [gen EXCEPT ![k] = gen[k] + 1] /\ UNCHANGED <<pc, genOf>>
      BY <2>7 DEF NextGen, turns
    <3>2. gen'[key[t]] = genOf[t]
      BY <3>1, <2>1, <1>2 DEF Current
    <3>3. key[t] # k
      BY <3>1, <3>2, <2>3 DEF TypeOK
    <3>4. pc[t] = "working" /\ Current(t)
      BY <3>1, <3>2, <3>3, <2>1, <1>2 DEF TypeOK, Current
    <3> QED
      BY <2>2, <3>4
  <2>8. ASSUME UNCHANGED <<turns, gen>> PROVE InHand(a)
    BY <2>8, <2>2, <1>2 DEF turns, Current
  <2> QED
    BY TurnMoves, <2>4, <2>5, <2>6, <2>7, <2>8
<1>3. CASE Fetched(a)'
  <2>1. PICK t \in Turns : pc'[t] = "working" /\ agent'[t] = a /\ Current(t)'
    BY <1>3 DEF Fetched
  <2> QED
    BY <2>1, <1>2
<1> QED
  BY <1>1, <1>3 DEF InHand

\* What is cached, in a slot or on its way there is live or exposed.
\* (_enforce_agent_cache_cap, _sweep_idle_cached_agents, _evict_cached_agent)
SparedInv ==
    /\ \A a \in Turns : InHand(a) => a \in live \cup exposed
    /\ \A k \in Keys : cached[k] # 0 => cached[k] \in live \cup exposed

\* A turn that gets an agent finds it live or exposed.
LEMMA FetchSpares ==
  ASSUME TypeOK, ClaimInv, BuiltInv, AgentInv, SlotInv, SparedInv, NEW t \in Turns, Fetch(t)
  PROVE  SparedInv'
<1>0. closing' = closing
  BY FetchCases
<1>1. /\ pc[t] \in {"opened", "ready"} /\ pc' = [pc EXCEPT ![t] = "working"]
      /\ UNCHANGED <<running, gen, key, genOf>>
  BY FetchCases DEF slots
<1>2. t # 0 /\ ~Past(t)
  BY <1>1 DEF Past, Fetching, Turns
<1>3. (\A j \in Keys : cached[j] # t) /\ (\A j \in Keys : running[j] # t)
  BY <1>2 DEF BuiltInv
<1>4. \A i, j \in Keys : cached[i] # 0 /\ cached[i] = cached[j] => i = j
  BY DEF AgentInv
<1>5. ASSUME agent'[t] \in live' \cup exposed',
             \A u \in Turns \ {t} : agent'[u] = agent[u],
             \A a \in Turns : InHand(a) => a \in live' \cup exposed'
      PROVE  \A a \in Turns : InHand(a)' => a \in live' \cup exposed'
  <2> SUFFICES ASSUME NEW a \in Turns, InHand(a)', a # agent'[t] PROVE InHand(a)
    BY <1>5
  <2>1. a \in InSlots' => a \in InSlots
    BY <1>1 DEF InSlots
  <2>2. Fetched(a)' => Fetched(a)
    <3>1. \A u \in Turns \ {t} : pc'[u] = pc[u]
      BY <1>1 DEF TypeOK
    <3>2. \A u : Current(u)' <=> Current(u)
      BY <1>1 DEF Current
    <3> QED
      BY <3>1, <3>2, <1>1, <1>5 DEF Fetched
  <2> QED
    BY <2>1, <2>2 DEF InHand
<1>6. CASE Reuse(t, key[t], sidOf[obj[t]])
  <2>1. /\ agent' = [agent EXCEPT ![t] = cached[key[t]]] /\ cached[key[t]] # 0
        /\ UNCHANGED <<cached, live, exposed>> /\ key[t] \in Keys
    BY <1>6 DEF Reuse, agents, TypeOK
  <2>2. agent'[t] = cached[key[t]] /\ \A u \in Turns \ {t} : agent'[u] = agent[u]
    BY <2>1 DEF TypeOK
  <2>3. agent'[t] \in live' \cup exposed'
    BY <2>1, <2>2 DEF SparedInv
  <2>4. \A a \in Turns : InHand(a) => a \in live' \cup exposed'
    BY <2>1 DEF SparedInv
  <2>5. \A k \in Keys : cached'[k] # 0 => cached'[k] \in live' \cup exposed'
    BY <2>1 DEF SparedInv
  <2> QED
    BY <2>2, <2>3, <2>4, <2>5, <1>5 DEF SparedInv
<1>7. ASSUME NEW order, NEW gone \in {0, cached[key[t]]},
             Enter(t, key[t], sidOf[obj[t]], order, gone)
      PROVE  SparedInv'
  <2>1. agent'[t] = t /\ \A u \in Turns \ {t} : agent'[u] = agent[u]
    BY <1>7 DEF Enter, TypeOK
  <2>2. /\ exposed \subseteq exposed' /\ t \in live' \cup exposed'
        /\ \A a \in Turns : Fetched(a) /\ a \in live \ live' => a \in exposed'
        /\ gone \in live \ live' /\ ~Current(t) => gone \in exposed'
    BY <1>7, EnterExposes
  <2>3. /\ \A j \in Keys : cached'[j] # 0 =>
              \/ cached'[j] \in live'
              \/ j # key[t] /\ cached'[j] = cached[j] /\ cached[j] \notin live
        /\ \A a \in live \ live' : a \in InSlots => a = gone
    BY <1>0, <1>3, <1>4, <1>7, EnterTakes
  <2>4. \A j \in Keys : cached'[j] # 0 => cached'[j] \in live' \cup exposed'
    BY <2>2, <2>3 DEF SparedInv
  <2>5. ASSUME NEW a \in Turns, a \in InSlots, a \in live \ live' PROVE a \in exposed'
    <3>1. a = gone /\ a # 0
      BY <2>3, <2>5 DEF Turns
    <3>2. PICK k \in Keys : running[k] = a
      BY <2>5 DEF InSlots
    <3>3. key[t] \in Keys /\ a = cached[key[t]]
      BY <3>1, <1>7 DEF TypeOK
    <3>4. k = key[t]
      BY <3>1, <3>2, <3>3 DEF AgentInv
    <3>5. ~Current(t)
      BY <1>1, <3>2, <3>4 DEF SlotInv
    <3> QED
      BY <2>2, <2>5, <3>1, <3>5
  <2>6. \A a \in Turns : InHand(a) => a \in live' \cup exposed'
    BY <2>2, <2>5 DEF SparedInv, InHand
  <2> QED
    BY <2>1, <2>2, <2>4, <2>6, <1>5 DEF SparedInv
<1> QED
  BY <1>6, <1>7 DEF Fetch, BuildFirst, Rebuild, Overwrite

\* So do those who take an agent out of the cache.
LEMMA OneOutSpares ==
  ASSUME TypeOK, ClaimInv, AgentInv, SparedInv, [Next]_vars, \A t \in Turns : ~Fetch(t),
         NEW k \in Keys, OneOut(k)
  PROVE  SparedInv'
<1>1. /\ cached'[k] = 0 /\ \A j \in Keys \ {k} : cached'[j] = cached[j]
      /\ exposed \subseteq exposed' /\ live \ {cached[k]} \subseteq live'
  BY DEF OneOut
<1>2. \A j \in Keys : cached'[j] # 0 => cached'[j] \in live' \cup exposed'
  <2>1. \A j \in Keys \ {k} : cached[j] # 0 => cached[j] # cached[k]
    BY DEF AgentInv
  <2> QED
    BY <1>1, <2>1 DEF SparedInv
<1>3. ASSUME NEW a \in Turns, InHand(a)' PROVE a \in live' \cup exposed'
  <2>1. InHand(a) /\ a \in live \cup exposed /\ a # 0
    BY <1>3, InHandBefore DEF SparedInv, Turns
  <2>2. ASSUME a = cached[k], live' # live, ~Fetched(a) PROVE FALSE
    <3>1. a \in InSlots /\ Freed(k)
      BY <2>1, <2>2 DEF OneOut, InHand
    <3>2. /\ running' = [running EXCEPT ![k] = 0] /\ gen' = [gen EXCEPT ![k] = gen[k] + 1]
          /\ UNCHANGED <<pc, key, genOf, agent>>
      BY <3>1 DEF Freed, NextGen, turns
    <3>3. a \notin InSlots'
      <4> SUFFICES ASSUME NEW j \in Keys, running'[j] = a PROVE FALSE
        BY DEF InSlots
      <4>1. j # k /\ running[j] = a
        BY <3>2, <2>1 DEF TypeOK
      <4> QED
        BY <4>1, <2>1, <2>2 DEF AgentInv
    <3>4. ~Fetched(a)'
      <4> SUFFICES ASSUME NEW u \in Turns, pc'[u] = "working", agent'[u] = a, Current(u)' PROVE FALSE
        BY DEF Fetched
      <4>1. Holding(u) /\ cached[k] = agent[u] /\ u \in AtWork
        BY <3>2, <2>2 DEF Holding, AtWork
      <4>2. key[u] = k
        BY <4>1 DEF AgentInv
      <4>3. genOf[u] <= gen[k] /\ genOf[u] \in Nat /\ gen[k] \in Nat
        BY <4>1, <4>2 DEF ClaimInv, TypeOK
      <4>4. gen'[k] = genOf[u]
        BY <3>2, <4>2 DEF Current
      <4>5. gen'[k] = gen[k] + 1
        BY <3>2 DEF TypeOK
      <4> QED
        BY <4>3, <4>4, <4>5
    <3> QED
      BY <1>3, <3>3, <3>4 DEF InHand
  <2>3. a = cached[k] /\ live' # live /\ Fetched(a) => a \in exposed'
    BY DEF OneOut
  <2> QED
    BY <1>1, <2>1, <2>2, <2>3
<1> QED
  BY <1>2, <1>3 DEF SparedInv

\* Every step keeps it.
LEMMA SparedKept ==
  ASSUME TypeOK, ClaimInv, BuiltInv, AgentInv, SlotInv, SparedInv, [Next]_vars
  PROVE  SparedInv'
<1>1. CASE \E t \in Turns : Fetch(t)
  BY <1>1, FetchSpares
<1>2. CASE \A t \in Turns : ~Fetch(t)
  <2>1. ASSUME live \cup exposed \subseteq live' \cup exposed', UNCHANGED cached
        PROVE  SparedInv'
    BY <1>2, <2>1, InHandBefore DEF SparedInv
  <2>2. ASSUME NEW k \in Keys, ExpiryCloses(k) PROVE SparedInv'
    BY <2>1, <2>2 DEF ExpiryCloses, ReleaseAnyway, cache, TypeOK
  <2>3. ASSUME NEW k \in Keys, OneOut(k) PROVE SparedInv'
    BY <1>2, <2>3, OneOutSpares
  <2>4. ASSUME UNCHANGED <<cached, live, exposed>> PROVE SparedInv'
    BY <2>1, <2>4
  <2> QED
    BY <1>2, <2>2, <2>3, <2>4, LiveMoves
<1> QED
  BY <1>1, <1>2

-----------------------------------------------------------------------------
(* AgentCache: sessions. *)

\* What a step may add to what a key reaches: the session that it creates, and
\* the CLI's, which a hand-over binds.
Grown(m, k, s) ==
    \/ k = m /\ s = Fresh /\ nsid' = Fresh
    \/ Bind /\ k = Home /\ s = CliSession

EntriesFollow(m) == \A k \in Keys, e \in Sids \ {0} :
    Enters(k, e)' => (Enters(k, e) \/ Grown(m, k, e)) /\ sidOf'[e] # 0
EntriesLead(m) == \A k \in Keys, e \in Sids \ {0} :
    Enters(k, e)' => Reaches(k, sidOf'[e]) \/ Grown(m, k, sidOf'[e])
SessionsFollow(m) == \A k \in Keys, s \in Sids \ {0} :
    Reaches(k, s)' => Reaches(k, s) \/ Grown(m, k, s)

TurnsStay == \A t \in AtWork' :
    \/ t \in AtWork /\ key'[t] = key[t] /\ obj'[t] = obj[t] /\ sid'[t] = sid[t]
    \/ obj'[t] \in Sids /\ obj'[t] = entry'[key'[t]] /\ sid'[t] = sidOf'[obj'[t]]

\* What the definitions of Enters and Reaches say at once.
LEMMA Reaching ==
  ASSUME TypeOK
  PROVE  /\ \A k \in Keys : Enters(k, entry[k])
         /\ \A t \in AtWork : Enters(key[t], obj[t]) /\ Reaches(key[t], sid[t])
         /\ \A k \in Keys : \A e \in Sids : Enters(k, e) => Reaches(k, sidOf[e])
         /\ \A k \in Keys : cached[k] # 0 => Reaches(k, born[cached[k]])
         /\ \A t \in Turns : Holding(t) => Reaches(key[t], born[agent[t]])
         /\ \A t \in AtWork : Reaches(key[t], sidOf[obj[t]])
<1>1. \A k \in Keys : Enters(k, entry[k])
  BY DEF Enters
<1>2. \A t \in AtWork : Enters(key[t], obj[t]) /\ Reaches(key[t], sid[t])
  BY DEF Enters, Reaches
<1>3. \A k \in Keys : \A e \in Sids : Enters(k, e) => Reaches(k, sidOf[e])
  BY DEF Reaches
<1>4. \A k \in Keys : cached[k] # 0 => Reaches(k, born[cached[k]])
  BY DEF Reaches
<1>5. \A t \in Turns : Holding(t) => Reaches(key[t], born[agent[t]])
  BY DEF Reaches
<1>6. \A t \in AtWork : key[t] \in Keys /\ obj[t] \in Sids
  BY TurnFacts DEF AtWork
<1> QED
  BY <1>1, <1>2, <1>3, <1>4, <1>5, <1>6

\* A step that gives no agent and moves no turn, but for one that opens, changes
\* what is reached by the entries only.
LEMMA StayFollows ==
  ASSUME TypeOK, NEW m, Lessens, TurnsStay, UNCHANGED <<born, missed>>,
         EntriesLead(m), sidOf'[0] = 0
  PROVE  SessionsFollow(m)
<1> SUFFICES ASSUME NEW k \in Keys, NEW s \in Sids \ {0}, Reaches(k, s)', ~Grown(m, k, s)
             PROVE  Reaches(k, s)
  BY DEF SessionsFollow
<1>1. CASE \E e \in Sids : Enters(k, e)' /\ s = sidOf'[e]
  <2>1. PICK e \in Sids : Enters(k, e)' /\ s = sidOf'[e]
    BY <1>1
  <2>2. e # 0
    BY <2>1
  <2> QED
    BY <2>1, <2>2 DEF EntriesLead
<1>2. CASE cached'[k] # 0 /\ (s = born'[cached'[k]] \/ <<cached'[k], s>> \in missed')
  <2>1. cached'[k] = cached[k]
    BY <1>2 DEF Lessens
  <2> QED
    BY <1>2, <2>1 DEF Reaches
<1>3. CASE \E t \in AtWork' : key'[t] = k /\ s = sid'[t]
  <2>1. PICK t \in AtWork' : key'[t] = k /\ s = sid'[t]
    BY <1>3
  <2>2. CASE t \in AtWork /\ key'[t] = key[t] /\ sid'[t] = sid[t]
    BY <2>1, <2>2 DEF Reaches
  <2>3. CASE obj'[t] \in Sids /\ sid'[t] = sidOf'[obj'[t]]
    <3>1. PICK e \in Sids : e = obj'[t]
      BY <2>3
    <3>2. Enters(k, e)'
      BY <2>1, <3>1 DEF Enters
    <3> QED
      BY <3>1, <3>2, <2>1, <2>3, <1>1
  <2> QED
    BY <2>2, <2>3 DEF TurnsStay
<1>4. CASE \E t \in Turns : Holding(t)' /\ key'[t] = k /\ s = born'[agent'[t]]
  BY <1>4 DEF Lessens, Reaches
<1> QED
  BY <1>1, <1>2, <1>3, <1>4 DEF Reaches

\* No entry is touched.
LEMMA CalmFollows ==
  ASSUME TypeOK, CreatedInv, NEW m, Lessens, TurnsStay,
         UNCHANGED <<entry, sidOf, born, missed>>
  PROVE  EntriesFollow(m) /\ SessionsFollow(m)
<1>1. \A k \in Keys, e \in Sids : Enters(k, e)' => Enters(k, e)
  BY DEF Enters, TurnsStay
<1>2. EntriesLead(m)
  BY <1>1, Reaching DEF EntriesLead
<1>3. sidOf'[0] = 0
  BY DEF CreatedInv
<1> QED
  BY <1>1, <1>2, <1>3, StayFollows DEF EntriesFollow, CreatedInv

\* Another conversation begins under the key `m`.
LEMMA NewEntryFollows ==
  ASSUME TypeOK, CreatedInv, NEW m \in Keys, Lessens, TurnsStay, UNCHANGED <<born, missed>>,
         NewEntry(m), SidLeft
  PROVE  EntriesFollow(m) /\ SessionsFollow(m) /\ sidOf'[0] = 0
<1>1. /\ entry' = [entry EXCEPT ![m] = Fresh] /\ sidOf' = [sidOf EXCEPT ![Fresh] = Fresh]
      /\ nsid' = Fresh /\ Fresh \in Sids \ {0} /\ nsid \in Nat /\ sidOf[0] = 0
  BY NextSid, AgentTypeParts DEF NewEntry, EntryTypes, Sids, CreatedInv
<1>2. \A k \in Keys, e \in Sids \ {0} : Enters(k, e)' => Enters(k, e) \/ (k = m /\ e = Fresh)
  BY <1>1, AgentTypeParts DEF Enters, TurnsStay, EntryTypes
<1>3. \A k \in Keys : ~Enters(k, Fresh)
  BY <1>1 DEF CreatedInv, Fresh
<1>4. EntriesFollow(m)
  <2>1. \A k \in Keys, e \in Sids \ {0} : Enters(k, e)' => sidOf'[e] # 0
    BY <1>1, <1>2, AgentTypeParts DEF EntryTypes, CreatedInv
  <2> QED
    BY <1>1, <1>2, <2>1 DEF EntriesFollow, Grown
<1>5. ASSUME NEW k \in Keys, NEW e \in Sids \ {0}, Enters(k, e)'
      PROVE  Reaches(k, sidOf'[e]) \/ Grown(m, k, sidOf'[e])
  <2>1. CASE k = m /\ e = Fresh
    BY <1>1, <2>1, AgentTypeParts DEF Grown, EntryTypes
  <2>2. CASE Enters(k, e)
    <3>1. sidOf'[e] = sidOf[e]
      BY <1>1, <1>3, <2>2
    <3> QED
      BY <2>2, <3>1, Reaching
  <2> QED
    BY <1>2, <1>5, <2>1, <2>2
<1>6. sidOf'[0] = 0
  BY <1>1
<1> QED
  BY <1>4, <1>5, <1>6, StayFollows DEF EntriesLead

\* The entry of a turn takes another session.
LEMMA MoveFollows ==
  ASSUME TypeOK, ConversationsApart, CreatedInv, NEW t \in AtWork, NEW s, Lessens, TurnsStay,
         UNCHANGED <<entry, born, missed>>,
         sidOf' = [sidOf EXCEPT ![obj[t]] = s],
         s = sid[t] \/ (s = Fresh /\ nsid' = Fresh)
  PROVE  EntriesFollow(key[t]) /\ SessionsFollow(key[t]) /\ sidOf'[0] = 0
<1>1. /\ key[t] \in Keys /\ obj[t] \in Sids \ {0} /\ sidOf \in [Sids -> Sids]
      /\ sidOf[0] = 0 /\ t \in Turns
  BY TurnFacts, AgentTypeParts DEF CreatedInv, AtWork, EntryTypes
<1>2. \A k \in Keys, e \in Sids : Enters(k, e)' => Enters(k, e)
  BY DEF Enters, TurnsStay
<1>3. ASSUME NEW k \in Keys, NEW e \in Sids \ {0}, Enters(k, e)'
      PROVE  Reaches(k, sidOf'[e]) \/ Grown(key[t], k, sidOf'[e])
  <2>1. CASE e = obj[t]
    <3>1. k = key[t]
      BY <1>1, <1>2, <1>3, <2>1, Reaching DEF ConversationsApart
    <3>2. sidOf'[e] = s
      BY <1>1, <2>1
    <3> QED
      BY <3>1, <3>2, Reaching DEF Grown
  <2>2. CASE e # obj[t]
    <3>1. sidOf'[e] = sidOf[e]
      BY <1>1, <2>2
    <3> QED
      BY <3>1, <1>2, <1>3, Reaching
  <2> QED
    BY <2>1, <2>2
<1>4. EntriesFollow(key[t])
  <2>1. s # 0
    BY Numbers, AgentTypeParts DEF CreatedInv, Fresh, EntryTypes, Sids
  <2>2. \A k \in Keys, e \in Sids \ {0} : Enters(k, e)' => sidOf'[e] # 0
    BY <1>1, <1>2, <2>1 DEF CreatedInv
  <2> QED
    BY <1>2, <2>2 DEF EntriesFollow
<1>5. sidOf'[0] = 0
  BY <1>1
<1> QED
  BY <1>3, <1>4, <1>5, StayFollows DEF EntriesLead

\* A hand-over binds the CLI's session to the home channel.
LEMMA BindFollows ==
  ASSUME TypeOK, ConversationsApart, CreatedInv, Lessens, Bind
  PROVE  EntriesFollow(Home) /\ SessionsFollow(Home) /\ sidOf'[0] = 0
<1>1. /\ entry' = [entry EXCEPT ![Home] = CliSession]
      /\ sidOf' = [sidOf EXCEPT ![CliSession] = CliSession]
      /\ UNCHANGED <<born, missed, turns>> /\ Unbound
  BY DEF Bind, Evict, HandoffOnly, Unbound
<1>2. /\ CliSession \in Sids \ {0} /\ Home \in Keys /\ sidOf \in [Sids -> Sids]
      /\ entry \in [Keys -> Sids] /\ sidOf[0] = 0
  BY <1>1, Numbers, AgentTypeParts DEF CreatedInv, EntryTypes, OtherTypes, CliSession
<1>3. TurnsStay
  BY <1>1 DEF TurnsStay, AtWork, turns
<1>4. \A k \in Keys : ~Enters(k, CliSession)
  BY <1>1 DEF ConversationsApart
<1>5. \A k \in Keys, e \in Sids : Enters(k, e)' => Enters(k, e) \/ (k = Home /\ e = CliSession)
  BY <1>1, <1>2, <1>3 DEF Enters, TurnsStay
<1>6. ASSUME NEW k \in Keys, NEW e \in Sids \ {0}, Enters(k, e)'
      PROVE  Reaches(k, sidOf'[e]) \/ Grown(Home, k, sidOf'[e])
  <2>1. CASE k = Home /\ e = CliSession
    BY <1>1, <1>2, <2>1 DEF Grown
  <2>2. CASE Enters(k, e)
    <3>1. sidOf'[e] = sidOf[e]
      BY <1>1, <1>2, <1>4, <2>2
    <3> QED
      BY <2>2, <3>1, Reaching
  <2> QED
    BY <1>5, <1>6, <2>1, <2>2
<1>7. EntriesFollow(Home)
  <2>1. \A k \in Keys, e \in Sids \ {0} : Enters(k, e)' => sidOf'[e] # 0
    BY <1>1, <1>2, <1>5 DEF CreatedInv
  <2> QED
    BY <1>5, <2>1 DEF EntriesFollow, Grown
<1>8. sidOf'[0] = 0
  BY <1>1, <1>2
<1> QED
  BY <1>1, <1>3, <1>6, <1>7, <1>8, StayFollows DEF EntriesLead

\* A turn opens: in the entry of its key, or in a new one.
LEMMA OpenFollows ==
  ASSUME TypeOK, ClaimInv, CreatedInv, NEW t \in Turns, NEW k \in Keys, Open(t, k)
  PROVE  EntriesFollow(k) /\ SessionsFollow(k) /\ sidOf'[0] = 0
<1>1. /\ pc' = [pc EXCEPT ![t] = "opened"] /\ key' = [key EXCEPT ![t] = k]
      /\ obj' = [obj EXCEPT ![t] = entry'[k]]
      /\ sid' = [sid EXCEPT ![t] = sidOf'[entry'[k]]]
      /\ UNCHANGED <<born, missed>> /\ GetOrCreate(k)
  BY DEF Open, agents
<1>2. entry'[k] \in Sids
  BY <1>1, NextSid, AgentTypeParts DEF GetOrCreate, NewEntry, EntryTypes
<1>3. TurnsStay
  BY <1>1, <1>2, AgentTypeParts DEF TurnsStay, AtWork, TurnTypes
<1>4. Lessens
  BY OpenLessens
<1>5. CASE NewEntry(k) /\ SidLeft
  BY <1>1, <1>3, <1>4, <1>5, NewEntryFollows
<1>6. CASE UNCHANGED <<entry, sidOf>>
  BY <1>1, <1>3, <1>4, <1>6, CalmFollows DEF CreatedInv
<1> QED
  BY <1>1, <1>5, <1>6 DEF GetOrCreate

\* The agent of a turn moves to another session.
LEMMA RotateFollows ==
  ASSUME TypeOK, AgentInv, BuiltInv, CreatedInv, NEW t \in Turns, Rotate(t)
  PROVE  EntriesFollow(key[t]) /\ SessionsFollow(key[t])
<1>1. /\ Holding(t) /\ nsid' = Fresh /\ born' = [born EXCEPT ![agent[t]] = Fresh]
      /\ UNCHANGED <<entry, sidOf, cached, missed, turns>>
  BY DEF Rotate, Holding, store, cache
<1>2. /\ AtWork' = AtWork /\ key' = key /\ obj' = obj /\ sid' = sid /\ agent' = agent
      /\ \A u : Holding(u)' <=> Holding(u)
  BY <1>1 DEF AtWork, Holding, turns
<1>3. \A a \in 0 .. MaxTurns : born'[a] = IF a = agent[t] THEN Fresh ELSE born[a]
  BY <1>1, AgentTypeParts DEF AgentTypes
<1>4. ASSUME NEW k \in Keys, cached[k] # 0, born'[cached[k]] # born[cached[k]]
      PROVE  k = key[t] /\ born'[cached[k]] = Fresh
  BY <1>1, <1>3, <1>4, KeyFacts DEF AgentInv
<1>5. ASSUME NEW u \in Turns, Holding(u), born'[agent[u]] # born[agent[u]]
      PROVE  key[u] = key[t] /\ born'[agent[u]] = Fresh
  BY <1>1, <1>3, <1>5, TurnFacts DEF AgentInv
<1>6. ASSUME NEW k \in Keys, NEW s \in Sids \ {0}, Reaches(k, s)'
      PROVE  Reaches(k, s) \/ (k = key[t] /\ s = Fresh)
  <2>1. CASE \E e \in Sids : Enters(k, e)' /\ s = sidOf'[e]
    BY <1>1, <1>2, <2>1 DEF Reaches, Enters
  <2>2. CASE cached'[k] # 0 /\ (s = born'[cached'[k]] \/ <<cached'[k], s>> \in missed')
    BY <1>1, <1>4, <2>2 DEF Reaches
  <2>3. CASE \E u \in AtWork' : key'[u] = k /\ s = sid'[u]
    BY <1>2, <2>3 DEF Reaches
  <2>4. CASE \E u \in Turns : Holding(u)' /\ key'[u] = k /\ s = born'[agent'[u]]
    BY <1>2, <1>5, <2>4 DEF Reaches
  <2> QED
    BY <1>6, <2>1, <2>2, <2>3, <2>4 DEF Reaches
<1>7. EntriesFollow(key[t])
  BY <1>1, <1>2 DEF EntriesFollow, Enters, CreatedInv
<1> QED
  BY <1>1, <1>6, <1>7 DEF SessionsFollow, Grown

\* A run returns: the turn, and the entry of its key, are where its agent is.
LEMMA FinishFollows ==
  ASSUME TypeOK, ConversationsApart, CreatedInv, NEW t \in Turns, Finish(t), NEW m
  PROVE  EntriesFollow(m) /\ SessionsFollow(m) /\ sidOf'[0] = 0
<1> DEFINE k == key[t]
           r == born[agent[t]]
<1>1. /\ Holding(t) /\ pc' = [pc EXCEPT ![t] = "back"] /\ sid' = [sid EXCEPT ![t] = r]
      /\ sidOf' = sidOf \/ (entry[k] # 0 /\ sidOf' = [sidOf EXCEPT ![entry[k]] = r])
      /\ UNCHANGED <<entry, cached, born, missed, key, obj, agent>>
  BY DEF Finish, Holding, cache, agents
<1>2. /\ AtWork' = AtWork /\ \A u \in Turns : Holding(u)' <=> Holding(u)
  BY <1>1, AgentTypeParts DEF AtWork, Holding, TurnTypes
<1>3. Reaches(k, r) /\ k \in Keys /\ t \in AtWork
  BY <1>1, Reaching, TurnFacts DEF Holding, AtWork
<1> HIDE DEF k, r
<1>4. \A j \in Keys, e \in Sids : Enters(j, e)' <=> Enters(j, e)
  BY <1>1, <1>2 DEF Enters
<1>5. ASSUME NEW j \in Keys, NEW e \in Sids \ {0}, Enters(j, e) PROVE Reaches(j, sidOf'[e])
  <2>1. CASE sidOf'[e] = sidOf[e]
    BY <2>1, <1>5, Reaching
  <2>2. CASE sidOf'[e] # sidOf[e]
    <3>1. e = entry[k] /\ sidOf'[e] = r
      BY <1>1, <2>2, AgentTypeParts DEF EntryTypes
    <3>2. j = k
      BY <3>1, <1>3, <1>5, Reaching DEF ConversationsApart
    <3> QED
      BY <3>1, <3>2, <1>3
  <2> QED
    BY <2>1, <2>2
<1>6. sidOf'[0] = 0
  <2>1. sidOf[0] = 0 /\ sidOf \in [Sids -> Sids] /\ 0 \in Sids
    BY Numbers, AgentTypeParts DEF EntryTypes, CreatedInv
  <2> QED
    BY <1>1, <2>1
<1>7. ASSUME NEW j \in Keys, NEW s \in Sids \ {0}, Reaches(j, s)' PROVE Reaches(j, s)
  <2>1. CASE \E e \in Sids : Enters(j, e)' /\ s = sidOf'[e]
    BY <1>4, <1>5, <1>6, <2>1
  <2>2. CASE cached'[j] # 0 /\ (s = born'[cached'[j]] \/ <<cached'[j], s>> \in missed')
    BY <1>1, <2>2 DEF Reaches
  <2>3. CASE \E u \in AtWork' : key'[u] = j /\ s = sid'[u]
    <3>1. PICK u \in AtWork : key[u] = j /\ s = sid'[u]
      BY <1>1, <1>2, <2>3
    <3>2. sid'[u] = sid[u] \/ (u = t /\ sid'[u] = r)
      BY <1>1, AgentTypeParts DEF TurnTypes, AtWork
    <3> QED
      BY <3>1, <3>2, <1>3 DEF Reaches, k
  <2>4. CASE \E u \in Turns : Holding(u)' /\ key'[u] = j /\ s = born'[agent'[u]]
    BY <1>1, <1>2, <2>4 DEF Reaches
  <2> QED
    BY <1>7, <2>1, <2>2, <2>3, <2>4 DEF Reaches
<1>8. ASSUME NEW j \in Keys, NEW e \in Sids \ {0}, Enters(j, e) PROVE sidOf'[e] # 0
  <2>1. sidOf[e] # 0 /\ r # 0 /\ sidOf \in [Sids -> Sids]
    BY <1>1, <1>8, AgentTypeParts DEF CreatedInv, EntryTypes, r
  <2> QED
    BY <1>1, <2>1
<1> QED
  BY <1>4, <1>6, <1>7, <1>8 DEF EntriesFollow, SessionsFollow

\* A turn fetches its agent.
LEMMA FetchFollows ==
  ASSUME TypeOK, BuiltInv, CreatedInv, NEW t \in Turns, Fetch(t), NEW m
  PROVE  EntriesFollow(m) /\ SessionsFollow(m)
<1>1. /\ pc[t] \in {"opened", "ready"} /\ pc' = [pc EXCEPT ![t] = "working"]
      /\ sid' = [sid EXCEPT ![t] = sidOf[obj[t]]]
      /\ missed' = {p \in missed : p[1] # agent'[t]}
      /\ UNCHANGED <<entry, sidOf, key, obj>>
  BY FetchCases DEF store
<1>2. /\ AtWork' = AtWork /\ t \in AtWork
      /\ \A u \in Turns : Holding(u)' => u = t \/ Holding(u)
  BY <1>1, AgentTypeParts DEF AtWork, Holding, TurnTypes
<1>3. Reaches(key[t], sidOf[obj[t]])
  BY <1>2, Reaching
<1>4. /\ t # 0 /\ \A k \in Keys : cached[k] # t
      /\ \A u \in Turns : Holding(u) => agent[u] # t
  BY <1>1 DEF BuiltInv, Past, Fetching, Turns
<1>5. \A j \in Keys, e \in Sids : Enters(j, e)' <=> Enters(j, e)
  BY <1>1, <1>2 DEF Enters
<1>6. \/ /\ agent' = [agent EXCEPT ![t] = cached[key[t]]] /\ cached[key[t]] # 0
         /\ UNCHANGED <<cached, born>>
      \/ /\ agent' = [agent EXCEPT ![t] = t] /\ born' = [born EXCEPT ![t] = sidOf[obj[t]]]
         /\ \A j \in Keys : cached'[j] \in {0, cached[j]} \/ (j = key[t] /\ cached'[j] = t)
  <2>1. Reuses(t) => /\ agent' = [agent EXCEPT ![t] = cached[key[t]]] /\ cached[key[t]] # 0
                     /\ UNCHANGED <<cached, born>>
    BY DEF Reuses
  <2>2. Builds(t) => /\ agent' = [agent EXCEPT ![t] = t]
                     /\ born' = [born EXCEPT ![t] = sidOf[obj[t]]]
                     /\ \A j \in Keys : cached'[j] \in {0, cached[j]}
                                        \/ (j = key[t] /\ cached'[j] = t)
    BY DEF Builds
  <2> QED
    BY <2>1, <2>2, FetchCases
<1>7. /\ \A u \in Turns : u # t => agent'[u] = agent[u]
      /\ \/ agent'[t] = cached[key[t]] /\ cached[key[t]] # 0 /\ UNCHANGED <<cached, born>>
         \/ agent'[t] = t /\ born'[t] = sidOf[obj[t]]
      /\ \A a \in 0 .. MaxTurns : a # t => born'[a] = born[a]
      /\ \A j \in Keys : cached'[j] \in {0, cached[j]} \/ (j = key[t] /\ cached'[j] = t)
  BY <1>6, TurnFacts, AgentTypeParts, Numbers DEF TurnTypes, AgentTypes
<1>8. ASSUME NEW j \in Keys, NEW s \in Sids \ {0}, Reaches(j, s)' PROVE Reaches(j, s)
  <2>1. CASE \E e \in Sids : Enters(j, e)' /\ s = sidOf'[e]
    BY <1>1, <1>5, <2>1 DEF Reaches
  <2>2. CASE cached'[j] # 0 /\ s = born'[cached'[j]]
    <3>1. CASE cached'[j] = cached[j]
      BY <3>1, <2>2, <1>4, <1>7, KeyFacts DEF Reaches
    <3>2. CASE j = key[t] /\ cached'[j] = t
      BY <3>2, <2>2, <1>3, <1>4, <1>7
    <3> QED
      BY <2>2, <3>1, <3>2, <1>7
  <2>3. CASE cached'[j] # 0 /\ <<cached'[j], s>> \in missed'
    <3>1. <<cached'[j], s>> \in missed
      BY <1>1, <2>3
    <3>2. Past(cached'[j])
      BY <3>1 DEF BuiltInv
    <3>3. cached'[j] = cached[j]
      BY <3>2, <2>3, <1>1, <1>7 DEF Past, Fetching
    <3> QED
      BY <3>1, <3>3, <2>3 DEF Reaches
  <2>4. CASE \E u \in AtWork' : key'[u] = j /\ s = sid'[u]
    <3>1. PICK u \in AtWork : key[u] = j /\ s = sid'[u]
      BY <1>1, <1>2, <2>4
    <3>2. sid'[u] = sid[u] \/ (u = t /\ sid'[u] = sidOf[obj[t]])
      BY <1>1, AgentTypeParts DEF TurnTypes, AtWork
    <3> QED
      BY <3>1, <3>2, <1>3 DEF Reaches
  <2>5. CASE \E u \in Turns : Holding(u)' /\ key'[u] = j /\ s = born'[agent'[u]]
    <3>1. PICK u \in Turns : Holding(u)' /\ key[u] = j /\ s = born'[agent'[u]]
      BY <1>1, <2>5
    <3>2. CASE u # t
      <4>1. Holding(u) /\ agent'[u] = agent[u] /\ agent[u] # t
        BY <3>1, <3>2, <1>2, <1>4, <1>7
      <4> QED
        BY <4>1, <3>1, <1>7, TurnFacts DEF Reaches
    <3>3. CASE u = t
      BY <3>1, <3>3, <1>3, <1>7 DEF Reaches
    <3> QED
      BY <3>2, <3>3
  <2> QED
    BY <1>8, <2>1, <2>2, <2>3, <2>4, <2>5 DEF Reaches
<1> QED
  BY <1>1, <1>5, <1>8 DEF EntriesFollow, SessionsFollow, CreatedInv

\* Another process writes to the session of an entry.
LEMMA WriteFollows ==
  ASSUME TypeOK, AgentInv, CreatedInv, NEW i \in Keys, ForeignWrite(i), NEW m
  PROVE  EntriesFollow(m) /\ SessionsFollow(m)
<1>1. /\ UNCHANGED <<entry, sidOf, cached, born, turns>>
      /\ \A x \in missed' : x \in missed \/ (cached[i] # 0 /\ x = <<cached[i], sidOf[entry[i]]>>)
  BY DEF ForeignWrite, InStep, store, cache, agents
<1>2. /\ AtWork' = AtWork /\ key' = key /\ obj' = obj /\ sid' = sid /\ agent' = agent
      /\ \A u : Holding(u)' <=> Holding(u)
  BY <1>1 DEF AtWork, Holding, turns
<1>3. \A j \in Keys, e \in Sids : Enters(j, e)' <=> Enters(j, e)
  BY <1>1, <1>2 DEF Enters
<1>4. ASSUME NEW j \in Keys, NEW s \in Sids \ {0}, Reaches(j, s)' PROVE Reaches(j, s)
  <2>1. CASE cached'[j] # 0 /\ <<cached'[j], s>> \in missed'
    <3>1. <<cached[j], s>> \in missed \/ (cached[i] = cached[j] /\ s = sidOf[entry[i]])
      BY <1>1, <2>1
    <3>2. cached[i] = cached[j] => i = j
      BY <1>1, <2>1 DEF AgentInv
    <3>3. Reaches(i, sidOf[entry[i]])
      BY Reaching, KeyFacts
    <3> QED
      BY <3>1, <3>2, <3>3, <2>1, <1>1 DEF Reaches
  <2> QED
    BY <1>1, <1>2, <1>3, <1>4, <2>1 DEF Reaches
<1> QED
  BY <1>1, <1>3, <1>4 DEF EntriesFollow, SessionsFollow, CreatedInv

\* A step adds to what one key reaches only, and at most one session.
LEMMA SessionMoves ==
  ASSUME TypeOK, ClaimInv, BuiltInv, AgentInv, ConversationsApart, CreatedInv, [Next]_vars
  PROVE  sidOf'[0] = 0 /\ \E m \in Keys : EntriesFollow(m) /\ SessionsFollow(m)
<1> DEFINE Follows == sidOf'[0] = 0 /\ \E m \in Keys : EntriesFollow(m) /\ SessionsFollow(m)
<1> USE DEF HandoffOnly, HandoffIs
<1>1. ASSUME TurnsStay, Lessens, UNCHANGED <<entry, sidOf, born, missed>> PROVE Follows
  BY <1>1, CalmFollows, Numbers DEF CreatedInv
<1>2. UNCHANGED turns => TurnsStay
  BY DEF turns, TurnsStay, AtWork
<1>3. ASSUME NEW t \in AtWork, Over(t) PROVE TurnsStay
  BY <1>3, AgentTypeParts DEF Over, TurnsStay, AtWork, TurnTypes
<1>4. ASSUME NEW t \in AtWork, NEW p \in {"ready", "ended"}, pc' = [pc EXCEPT ![t] = p],
             UNCHANGED <<key, obj, sid>>
      PROVE  TurnsStay
  BY <1>4, AgentTypeParts DEF TurnsStay, AtWork, TurnTypes
<1>5. ASSUME NEW m \in Keys, EntriesFollow(m), SessionsFollow(m), sidOf'[0] = 0 PROVE Follows
  BY <1>5
<1> HIDE DEF Follows
<1>6. ASSUME NEW t \in Turns, Fetch(t) PROVE Follows
  <2>1. sidOf'[0] = 0
    BY <1>6, FetchCases DEF CreatedInv, store
  <2> QED
    BY <1>5, <1>6, <2>1, FetchFollows, Numbers
<1>7. ASSUME NEW t \in Turns, Promote(t) PROVE Follows
  <2>1. UNCHANGED <<entry, sidOf, cached, born, missed, turns>>
    BY <1>7 DEF Promote, store, cache, agents
  <2>2. AtWork' = AtWork /\ key' = key /\ obj' = obj /\ sid' = sid /\ agent' = agent
        /\ \A u : Holding(u)' <=> Holding(u)
    BY <2>1 DEF AtWork, Holding, turns
  <2>3. \A j \in Keys, e \in Sids : Enters(j, e)' <=> Enters(j, e)
    BY <2>1, <2>2 DEF Enters
  <2>4. \A j \in Keys, s \in Sids : Reaches(j, s)' => Reaches(j, s)
    BY <2>1, <2>2, <2>3 DEF Reaches
  <2>5. EntriesFollow(Home) /\ SessionsFollow(Home) /\ sidOf'[0] = 0
    BY <2>1, <2>3, <2>4 DEF EntriesFollow, SessionsFollow, CreatedInv
  <2> QED
    BY <1>5, <2>5, Numbers
<1>8. ASSUME Lessens, NEW k \in Keys, KeyStep(k) PROVE Follows
  <2>1. TimePasses(k) \/ Stop(k) \/ SweepIdle(k) \/ ExpiryCloses(k) => Follows
    BY <1>1, <1>2, <1>8 DEF TimePasses, Stop, SweepIdle, ExpiryCloses, store, agents
  <2>2. ExpiryMarks(k) => Follows
    BY <1>1, <1>2, <1>8 DEF ExpiryMarks, Evict, agents
  <2>3. NewConversation(k) => Follows
    BY <1>2, <1>5, <1>8, NewEntryFollows DEF NewConversation, agents
  <2>4. ASSUME ForeignWrite(k) PROVE Follows
    <3>1. sidOf'[0] = 0
      BY <2>4 DEF ForeignWrite, CreatedInv, store
    <3> QED
      BY <1>5, <2>4, <3>1, WriteFollows
  <2>5. \A t \in Turns : UserTurn(t, k) => Follows
    BY <1>5, OpenFollows DEF UserTurn
  <2> QED
    BY <1>8, <2>1, <2>2, <2>3, <2>4, <2>5 DEF KeyStep
<1>9. ASSUME Lessens, NEW t \in Turns, TurnStep(t) \/ AgentStep(t), ~Fetch(t), ~Promote(t)
      PROVE  Follows
  <2>1. key[t] \in Keys /\ obj[t] \in Sids /\ (t \in AtWork => obj[t] # 0 /\ sid[t] # 0)
    BY TurnFacts DEF CreatedInv
  <2>2. FailsEarly(t) => Follows
    BY <1>1, <1>3, <1>9 DEF FailsEarly, store, agents, AtWork
  <2>3. CompactInPlace(t) => Follows
    BY <1>1, <1>2, <1>9 DEF CompactInPlace, store, agents
  <2>4. ASSUME Finish(t) PROVE Follows
    BY <1>5, <2>1, <2>4, FinishFollows
  <2>5. ASSUME Rotate(t) PROVE Follows
    <3>1. sidOf'[0] = 0
      BY <2>5 DEF Rotate, CreatedInv, store
    <3> QED
      BY <1>5, <2>1, <2>5, <3>1, RotateFollows
  <2>6. \A k \in Keys : Evict(k) \/ EvictedOrNot(k) => UNCHANGED born
    BY DEF Evict, EvictedOrNot, agents
  <2>7. ASSUME EndRun(t) PROVE Follows
    <3>1. t \in AtWork /\ UNCHANGED <<entry, sidOf, born, missed>>
      BY <2>1, <2>6, <2>7 DEF EndRun, store, AtWork
    <3>2. TurnsStay
      BY <1>4, <2>7, <3>1 DEF EndRun
    <3> QED
      BY <1>1, <1>9, <3>1, <3>2
  <2>8. ASSUME Discard(t) PROVE Follows
    <3>1. t \in AtWork /\ UNCHANGED <<entry, sidOf, born, missed>>
      BY <2>1, <2>6, <2>8 DEF Discard, store, AtWork
    <3>2. TurnsStay
      BY <1>3, <2>8, <3>1 DEF Discard
    <3> QED
      BY <1>1, <1>9, <3>1, <3>2
  <2>9. ASSUME Exhausted(t) PROVE Follows
    <3>1. t \in AtWork /\ UNCHANGED <<born, missed>> /\ NewEntry(key[t]) /\ SidLeft
      BY <2>1, <2>6, <2>9 DEF Exhausted, AtWork
    <3>2. TurnsStay
      BY <1>3, <2>9, <3>1 DEF Exhausted
    <3> QED
      BY <1>5, <1>9, <2>1, <3>1, <3>2, NewEntryFollows
  <2>10. ASSUME Settle(t) PROVE Follows
    <3>1. t \in AtWork /\ UNCHANGED <<entry, born, missed>>
          /\ sidOf' = [sidOf EXCEPT ![obj[t]] = sid[t]]
      BY <2>1, <2>6, <2>10 DEF Settle, AtWork, agents
    <3>2. TurnsStay
      BY <1>3, <2>10, <3>1 DEF Settle
    <3> QED
      BY <1>5, <1>9, <2>1, <3>1, <3>2, MoveFollows
  <2>11. ASSUME Hygiene(t) PROVE Follows
    <3>1. /\ t \in AtWork /\ UNCHANGED <<entry, born, missed>>
          /\ \/ nsid' = Fresh /\ sidOf' = [sidOf EXCEPT ![obj[t]] = Fresh]
             \/ sidOf' = [sidOf EXCEPT ![obj[t]] = sid[t]]
             \/ sidOf' = sidOf
      BY <2>1, <2>6, <2>11 DEF Hygiene, TooLarge, AtWork
    <3>2. TurnsStay
      BY <1>4, <2>11, <3>1 DEF Hygiene
    <3>3. CASE sidOf' = sidOf
      BY <1>1, <1>9, <3>1, <3>2, <3>3
    <3>4. CASE sidOf' # sidOf
      <4>1. PICK s : /\ sidOf' = [sidOf EXCEPT ![obj[t]] = s]
                     /\ s = sid[t] \/ (s = Fresh /\ nsid' = Fresh)
        BY <3>1, <3>4
      <4> QED
        BY <1>5, <1>9, <2>1, <3>1, <3>2, <4>1, MoveFollows
    <3> QED
      BY <3>3, <3>4
  <2> QED
    BY <1>9, <2>2, <2>3, <2>4, <2>5, <2>7, <2>8, <2>9, <2>10, <2>11 DEF TurnStep, AgentStep
<1>10. ASSUME Lessens, Request \/ HandoffStep PROVE Follows
  <2>1. Request \/ Claim \/ Refuse \/ Overtaken \/ Report => Follows
    BY <1>1, <1>2, <1>10 DEF Request, Claim, Refuse, Overtaken, Report, store, agents
  <2>2. Bind => Follows
    BY <1>5, <1>10, BindFollows, Numbers
  <2>3. \A t \in Turns : Synthetic(t) => Follows
    BY <1>5, OpenFollows, Numbers DEF Synthetic
  <2> QED
    BY <1>10, <2>1, <2>2, <2>3 DEF HandoffStep
<1>11. ASSUME Lessens, UNCHANGED vars PROVE Follows
  BY <1>1, <1>2, <1>11 DEF vars, store, agents
<1>12. Follows
  BY LessensSteps, <1>6, <1>7, <1>8, <1>9, <1>10, <1>11 DEF Next
<1> QED
  BY <1>12 DEF Follows

\* Sessions are numbered one by one; only a request names another one for the
\* hand-over.
LEMMA NumberMoves ==
  ASSUME TypeOK, [Next]_vars
  PROVE  /\ nsid' \in {nsid, Fresh} /\ nsid \in Nat /\ nsid <= nsid'
         /\ Request \/ (CliSession' = CliSession /\ (Unbound' => Unbound))
         /\ Bind => nsid' = nsid /\ ~Unbound' /\ Unbound
<1> DEFINE Num == nsid' \in {nsid, Fresh}
           Cli == Request \/ (CliSession' = CliSession /\ (Unbound' => Unbound))
<1> HIDE DEF Num, Cli
<1>1. UNCHANGED nsid => Num
  BY DEF Num
<1>2. nsid' = Fresh => Num
  BY DEF Num
<1>3. UNCHANGED handover => Cli
  BY DEF Cli, handover, CliSession, Unbound
<1>4. ASSUME NEW k \in Keys, KeyStep(k) PROVE Num /\ Cli
  <2>1. TimePasses(k) \/ Stop(k) \/ ForeignWrite(k) \/ SweepIdle(k) \/ ExpiryCloses(k)
        \/ ExpiryMarks(k) => Num /\ Cli
    BY <1>1, <1>3 DEF TimePasses, Stop, ForeignWrite, SweepIdle, ExpiryCloses, ExpiryMarks, base
  <2>2. NewConversation(k) => Num /\ Cli
    BY <1>2, <1>3 DEF NewConversation, NewEntry
  <2>3. \A t \in Turns : UserTurn(t, k) => Num /\ Cli
    BY <1>1, <1>2, <1>3 DEF UserTurn, Open, GetOrCreate, NewEntry
  <2> QED
    BY <1>4, <2>1, <2>2, <2>3 DEF KeyStep
<1>5. ASSUME NEW t \in Turns, TurnStep(t) \/ AgentStep(t) PROVE Num /\ Cli
  <2>1. Fetch(t) \/ FailsEarly(t) \/ Finish(t) \/ EndRun(t) \/ Discard(t) \/ Settle(t)
        => Num /\ Cli
    BY <1>1, <1>3 DEF Fetch, FailsEarly, Finish, EndRun, Discard, Settle, base
  <2>2. Hygiene(t) \/ Promote(t) \/ Rotate(t) \/ CompactInPlace(t) \/ Exhausted(t)
        => Num /\ Cli
    BY <1>1, <1>2, <1>3 DEF Hygiene, Promote, Rotate, CompactInPlace, Exhausted, NewEntry, base
  <2> QED
    BY <1>5, <2>1, <2>2 DEF TurnStep, AgentStep
<1>6. ASSUME HandoffStep PROVE Num /\ Cli
  <2>1. Claim \/ Refuse \/ Bind \/ Overtaken \/ Report => Num /\ Cli
    BY <1>1 DEF Claim, Refuse, Bind, Overtaken, Report, HandoffOnly, HandoffIs, Failure, base,
                Cli, CliSession, Unbound
  <2>2. \A t \in Turns : Synthetic(t) => Num /\ Cli
    <3> SUFFICES ASSUME NEW t \in Turns, Synthetic(t) PROVE Num /\ Cli
      OBVIOUS
    <3>1. Num
      BY <1>1, <1>2 DEF Synthetic, Open, GetOrCreate, NewEntry
    <3>2. Cli
      BY DEF Synthetic, Cli, CliSession, Unbound
    <3> QED
      BY <3>1, <3>2
  <2> QED
    BY <1>6, <2>1, <2>2 DEF HandoffStep
<1>7. Request => Num /\ Cli
  BY <1>2 DEF Request, Cli
<1>8. UNCHANGED vars => Num /\ Cli
  BY <1>1, <1>3 DEF vars, base
<1>9. nsid \in Nat
  BY Numbers, AgentTypeParts DEF EntryTypes, Sids
<1>10. Bind => nsid' = nsid /\ ~Unbound' /\ Unbound
  BY DEF Bind, HandoffOnly, HandoffIs, base, Unbound
<1> QED
  BY <1>4, <1>5, <1>6, <1>7, <1>8, <1>9, <1>10 DEF Next, Num, Cli, Fresh

\* What a step adds was out of reach of every key.
LEMMA GrownIsNew ==
  ASSUME TypeOK, ConversationsApart, CreatedInv, [Next]_vars, NEW m, NEW k \in Keys,
         NEW j \in Keys,
         NEW s \in Sids \ {0}, Grown(m, k, s)
  PROVE  /\ ~Enters(j, s) /\ ~Reaches(j, s) /\ s <= nsid'
         /\ Grown(m, j, s) => j = k
<1>1. nsid \in Nat /\ CliSession <= nsid /\ CliSession \in Nat
  BY NumberMoves, AgentTypeParts DEF CreatedInv, OtherTypes, CliSession, Sids
<1>2. CASE s = Fresh /\ nsid' = Fresh /\ k = m
  <2>1. ~Enters(j, s) /\ ~Reaches(j, s)
    BY <1>1, <1>2 DEF CreatedInv, Fresh
  <2>2. s # CliSession
    BY <1>1, <1>2 DEF Fresh
  <2> QED
    BY <1>1, <1>2, <2>1, <2>2 DEF Grown, Fresh
<1>3. CASE Bind /\ k = Home /\ s = CliSession
  <2>1. ~Enters(j, s) /\ ~Reaches(j, s)
    BY <1>3, NumberMoves DEF ConversationsApart
  <2>2. s # Fresh /\ s <= nsid'
    BY <1>1, <1>3, NumberMoves DEF Fresh
  <2> QED
    BY <1>3, <2>1, <2>2 DEF Grown
<1> QED
  BY <1>2, <1>3 DEF Grown

\* A request of the CLI adds nothing to what a key reaches.
LEMMA RequestIsApart ==
  ASSUME TypeOK, ClaimInv, CreatedInv, [Next]_vars, Request
  PROVE  \A k \in Keys : ~Enters(k, CliSession)' /\ ~Reaches(k, CliSession)'
<1>1. UNCHANGED <<store, cache, agents, turns, missed>> /\ CliSession' = Fresh /\ ~Bind /\ SidLeft
  BY DEF Request, Bind, CliSession
<1>2. PICK m : m \notin Keys
  BY NoSetContainsEverything
<1>3. Lessens
  <2>1. ~(\E t \in Turns : Fetch(t) \/ Promote(t))
    <3>1. nsid' = Fresh /\ Fresh # nsid
      BY NumberMoves DEF Request, Fresh
    <3> QED
      BY <3>1 DEF Fetch, Promote, base
  <2> QED
    BY <2>1, LessensSteps
<1>4. TurnsStay
  BY <1>1 DEF TurnsStay, turns, AtWork
<1>5. EntriesFollow(m) /\ SessionsFollow(m)
  BY <1>1, <1>3, <1>4, CalmFollows DEF store, agents
<1>6. Fresh \in Sids \ {0} /\ ~(Fresh <= nsid)
  BY <1>1, NextSid, NumberMoves, AgentTypeParts DEF Fresh
<1>7. \A k \in Keys : ~Enters(k, Fresh) /\ ~Reaches(k, Fresh) /\ ~Grown(m, k, Fresh)
  BY <1>1, <1>2, <1>6 DEF CreatedInv, Grown
<1> SUFFICES ASSUME NEW k \in Keys PROVE ~Enters(k, CliSession)' /\ ~Reaches(k, CliSession)'
  OBVIOUS
<1>8. PICK c \in Sids \ {0} : c = Fresh
  BY <1>6
<1>9. ~Enters(k, c)' /\ ~Reaches(k, c)'
  BY <1>5, <1>7, <1>8 DEF EntriesFollow, SessionsFollow
<1> QED
  BY <1>1, <1>8, <1>9 DEF Enters, Reaches

\* The conversations of two keys stay apart.
LEMMA ApartKept ==
  ASSUME TypeOK, ClaimInv, BuiltInv, AgentInv, ConversationsApart, CreatedInv, [Next]_vars
  PROVE  ConversationsApart'
<1>1. PICK m \in Keys : EntriesFollow(m) /\ SessionsFollow(m)
  BY SessionMoves
<1>2. ASSUME NEW j \in Keys, NEW k \in Keys, NEW e \in Sids \ {0}, Enters(j, e)', Enters(k, e)'
      PROVE  j = k
  <2>1. (Enters(j, e) \/ Grown(m, j, e)) /\ (Enters(k, e) \/ Grown(m, k, e))
    BY <1>1, <1>2 DEF EntriesFollow
  <2>2. Enters(j, e) /\ Enters(k, e) => j = k
    BY DEF ConversationsApart
  <2> QED
    BY <2>1, <2>2, GrownIsNew
<1>3. ASSUME NEW j \in Keys, NEW k \in Keys, NEW s \in Sids \ {0}, Reaches(j, s)', Reaches(k, s)'
      PROVE  j = k
  <2>1. (Reaches(j, s) \/ Grown(m, j, s)) /\ (Reaches(k, s) \/ Grown(m, k, s))
    BY <1>1, <1>3 DEF SessionsFollow
  <2>2. Reaches(j, s) /\ Reaches(k, s) => j = k
    BY DEF ConversationsApart
  <2> QED
    BY <2>1, <2>2, GrownIsNew
<1>4. ASSUME Unbound', NEW k \in Keys, ~Request
      PROVE  ~Enters(k, CliSession)' /\ ~Reaches(k, CliSession)'
  <2>1. CliSession' = CliSession /\ Unbound /\ ~Bind
    BY <1>4, NumberMoves
  <2>2. CliSession \in Sids \ {0} /\ ~Enters(k, CliSession) /\ ~Reaches(k, CliSession)
    BY <2>1, AgentTypeParts DEF CreatedInv, ConversationsApart, OtherTypes, CliSession
  <2>3. CliSession # Fresh
    BY <2>2, NumberMoves DEF CreatedInv, Fresh, CliSession, Sids
  <2>4. ~Grown(m, k, CliSession)
    BY <2>1, <2>3 DEF Grown
  <2>5. PICK c \in Sids \ {0} : c = CliSession
    BY <2>2
  <2>6. ~Enters(k, c)' /\ ~Reaches(k, c)'
    BY <1>1, <2>2, <2>4, <2>5 DEF EntriesFollow, SessionsFollow
  <2> QED
    BY <2>1, <2>5, <2>6 DEF Enters, Reaches
<1> QED
  BY <1>2, <1>3, <1>4, RequestIsApart DEF ConversationsApart

\* Where a turn's session changes.
LEMMA SidMoves ==
  ASSUME TypeOK, [Next]_vars
  PROVE  \/ UNCHANGED sid
         \/ \E t \in Turns : Fetch(t) \/ Finish(t)
         \/ \E t \in Turns, k \in Keys : Open(t, k)
         \/ \E t \in AtWork : Over(t)
<1> DEFINE Goal == \/ UNCHANGED sid
                   \/ \E t \in Turns : Fetch(t) \/ Finish(t)
                   \/ \E t \in Turns, k \in Keys : Open(t, k)
                   \/ \E t \in AtWork : Over(t)
<1>1. ASSUME NEW t \in Turns, Hygiene(t) \/ EndRun(t) PROVE UNCHANGED sid
  BY <1>1 DEF Hygiene, EndRun
<1>2. ASSUME NEW t \in Turns, FailsEarly(t) \/ Discard(t) \/ Settle(t) \/ Exhausted(t)
      PROVE  t \in AtWork /\ Over(t)
  BY <1>2 DEF FailsEarly, Discard, Settle, Exhausted, AtWork
<1>3. UNCHANGED turns => UNCHANGED sid
  BY DEF turns
<1>4. ASSUME NEW k \in Keys, KeyStep(k) PROVE Goal
  <2>1. TimePasses(k) \/ Stop(k) \/ ForeignWrite(k) \/ SweepIdle(k) \/ ExpiryCloses(k)
        \/ ExpiryMarks(k) \/ NewConversation(k) => UNCHANGED sid
    BY <1>3 DEF TimePasses, Stop, ForeignWrite, SweepIdle, ExpiryCloses, ExpiryMarks,
                NewConversation
  <2> QED
    BY <1>4, <2>1 DEF KeyStep, UserTurn
<1>5. ASSUME NEW t \in Turns, TurnStep(t) \/ AgentStep(t) PROVE Goal
  <2>1. Promote(t) \/ Rotate(t) \/ CompactInPlace(t) => UNCHANGED sid
    BY <1>3 DEF Promote, Rotate, CompactInPlace
  <2> QED
    BY <1>5, <1>1, <1>2, <2>1 DEF TurnStep, AgentStep
<1>6. ASSUME Request \/ HandoffStep PROVE Goal
  <2>1. Request \/ Claim \/ Refuse \/ Bind \/ Overtaken \/ Report => UNCHANGED sid
    BY <1>3 DEF Request, Claim, Refuse, Bind, Overtaken, Report, HandoffOnly
  <2> QED
    BY <1>6, <2>1, Numbers DEF HandoffStep, Synthetic
<1>7. UNCHANGED vars => UNCHANGED sid
  BY <1>3 DEF vars
<1> QED
  BY <1>4, <1>5, <1>6, <1>7 DEF Next

\* A turn that is at work has an entry and a session.
LEMMA WorkKept ==
  ASSUME TypeOK, ClaimInv, CreatedInv, [Next]_vars
  PROVE  \A t \in AtWork' : obj'[t] # 0 /\ sid'[t] # 0
<1>1. ASSUME NEW t \in Turns, NEW k \in Keys, Open(t, k), NEW u \in AtWork'
      PROVE  obj'[u] # 0 /\ sid'[u] # 0
  <2>1. /\ pc' = [pc EXCEPT ![t] = "opened"]
        /\ obj' = [obj EXCEPT ![t] = entry'[k]]
        /\ sid' = [sid EXCEPT ![t] = sidOf'[entry'[k]]] /\ GetOrCreate(k)
    BY <1>1 DEF Open
  <2>2. CASE u # t
    <3>1. u \in AtWork /\ obj'[u] = obj[u] /\ sid'[u] = sid[u]
      BY <2>1, <2>2, AgentTypeParts DEF AtWork, TurnTypes
    <3> QED
      BY <3>1 DEF CreatedInv
  <2>3. CASE u = t
    <3>1. obj'[t] = entry'[k] /\ sid'[t] = sidOf'[entry'[k]]
      BY <2>1, AgentTypeParts DEF TurnTypes
    <3>2. entry'[k] # 0 /\ sidOf'[entry'[k]] # 0
      <4>1. CASE NewEntry(k) /\ SidLeft
        BY <4>1, NextSid, AgentTypeParts DEF NewEntry, EntryTypes
      <4>2. CASE entry[k] # 0 /\ UNCHANGED <<entry, sidOf>>
        BY <4>2, Reaching, KeyFacts DEF CreatedInv
      <4> QED
        BY <2>1, <4>1, <4>2 DEF GetOrCreate
    <3> QED
      BY <2>3, <3>1, <3>2
  <2> QED
    BY <2>2, <2>3
<1>2. ASSUME NEW t \in AtWork, Over(t), NEW u \in AtWork' PROVE obj'[u] # 0 /\ sid'[u] # 0
  <2>1. u \in AtWork /\ obj'[u] = obj[u] /\ sid'[u] = sid[u]
    BY <1>2, AgentTypeParts DEF Over, AtWork, TurnTypes
  <2> QED
    BY <2>1 DEF CreatedInv
<1>3. ASSUME NEW t \in Turns, Fetch(t) \/ Finish(t), NEW u \in AtWork'
      PROVE  obj'[u] # 0 /\ sid'[u] # 0
  <2>1. t \in AtWork /\ UNCHANGED obj /\ AtWork' = AtWork
    BY <1>3, AgentTypeParts DEF Fetch, Finish, AtWork, TurnTypes
  <2>2. sidOf[obj[t]] # 0
    BY <2>1, Reaching, TurnFacts DEF CreatedInv
  <2>3. PICK s : s # 0 /\ sid' = [sid EXCEPT ![t] = s]
    <3>1. CASE Fetch(t)
      BY <2>2, <3>1 DEF Fetch
    <3>2. CASE Finish(t)
      BY <3>2 DEF Finish, Holding, CreatedInv
    <3> QED
      BY <1>3, <3>1, <3>2
  <2>4. sid'[u] = sid[u] \/ sid'[u] # 0
    BY <2>3, AgentTypeParts DEF TurnTypes
  <2> QED
    BY <2>1, <2>4 DEF CreatedInv
<1>4. ASSUME UNCHANGED sid, NEW u \in AtWork', u \in AtWork, obj'[u] = obj[u]
      PROVE  obj'[u] # 0 /\ sid'[u] # 0
  BY <1>4 DEF CreatedInv
<1>5. ASSUME NEW t \in Turns, Moved(t)
      PROVE  AtWork' = AtWork /\ UNCHANGED obj
  BY <1>5, AgentTypeParts DEF Moved, AtWork, TurnTypes
<1>6. UNCHANGED turns => AtWork' = AtWork /\ UNCHANGED obj
  BY DEF turns, AtWork
<1> QED
  BY TurnMoves, SidMoves, <1>1, <1>2, <1>3, <1>4, <1>5, <1>6

\* An agent is in a session from the day it is built.
LEMMA BornKept ==
  ASSUME TypeOK, BuiltInv, ClaimInv, CreatedInv, [Next]_vars
  PROVE  /\ \A t \in Turns : Holding(t)' => born'[agent'[t]] # 0
         /\ \A k \in Keys : cached'[k] # 0 => born'[cached'[k]] # 0
<1>1. ASSUME NEW t \in Turns, Fetch(t)
      PROVE  /\ \A u \in Turns : Holding(u)' => born'[agent'[u]] # 0
             /\ \A k \in Keys : cached'[k] # 0 => born'[cached'[k]] # 0
  <2>1. /\ pc[t] \in {"opened", "ready"} /\ pc' = [pc EXCEPT ![t] = "working"]
        /\ Reuses(t) \/ Builds(t)
    BY <1>1, FetchCases
  <2>2. t \in AtWork /\ \A u \in Turns : Holding(u)' => u = t \/ Holding(u)
    BY <2>1, AgentTypeParts DEF AtWork, Holding, TurnTypes
  <2>3. sidOf[obj[t]] # 0
    BY <2>2, Reaching, TurnFacts DEF CreatedInv
  <2>4. CASE Reuses(t)
    <3>1. /\ agent'[t] = cached[key[t]] /\ cached[key[t]] # 0 /\ UNCHANGED <<cached, born>>
          /\ \A u \in Turns : u # t => agent'[u] = agent[u]
      BY <2>4, AgentTypeParts, TurnFacts DEF Reuses, TurnTypes
    <3> QED
      BY <2>2, <3>1, TurnFacts DEF CreatedInv
  <2>5. CASE Builds(t)
    <3>1. /\ agent'[t] = t /\ born'[t] = sidOf[obj[t]]
          /\ \A u \in Turns : u # t => agent'[u] = agent[u]
          /\ \A a \in 0 .. MaxTurns : a # t => born'[a] = born[a]
      BY <2>5, AgentTypeParts, Numbers DEF Builds, TurnTypes, AgentTypes
    <3>2. \A k \in Keys : cached'[k] \in {0, t, cached[k]}
      BY <2>5 DEF Builds
    <3> QED
      BY <2>2, <2>3, <3>1, <3>2, TurnFacts, KeyFacts DEF CreatedInv
  <2> QED
    BY <2>1, <2>4, <2>5
<1>2. ASSUME ~(\E t \in Turns : Fetch(t))
      PROVE  \A a \in 0 .. MaxTurns : born'[a] = born[a] \/ born'[a] # 0
  <2>1. UNCHANGED born \/ \E t \in Turns : Rotate(t)
    <3> USE DEF HandoffOnly, agents, Evict, EvictedOrNot
    <3>1. ASSUME NEW k \in Keys, KeyStep(k) PROVE UNCHANGED born
      BY <3>1 DEF KeyStep, TimePasses, Stop, NewConversation, ForeignWrite, SweepIdle,
                  ExpiryCloses, ExpiryMarks, UserTurn, Open
    <3>2. ASSUME NEW t \in Turns, TurnStep(t) \/ AgentStep(t), ~Rotate(t), ~Fetch(t)
          PROVE  UNCHANGED born
      BY <3>2 DEF TurnStep, AgentStep, FailsEarly, Finish, EndRun, Discard, Settle, Hygiene,
                  Promote, CompactInPlace, Exhausted
    <3>3. ASSUME Request \/ HandoffStep \/ UNCHANGED vars PROVE UNCHANGED born
      BY <3>3 DEF Request, HandoffStep, Claim, Refuse, Bind, Overtaken, Report, Synthetic,
                  Open, vars
    <3> QED
      BY <1>2, <3>1, <3>2, <3>3 DEF Next
  <2>2. ASSUME NEW t \in Turns, Rotate(t)
        PROVE  \A a \in 0 .. MaxTurns : born'[a] = born[a] \/ born'[a] # 0
    BY <2>2, NumberMoves, AgentTypeParts DEF Rotate, AgentTypes, Fresh
  <2> QED
    BY <2>1, <2>2
<1>3. ASSUME ~(\E t \in Turns : Fetch(t))
      PROVE  /\ \A k \in Keys : cached'[k] # 0 => cached'[k] = cached[k]
             /\ \A t \in Turns : Holding(t)' => Holding(t) /\ agent'[t] = agent[t]
  BY <1>3, LessensSteps DEF Lessens, Promote, cache, turns, Holding
<1>4. ASSUME ~(\E t \in Turns : Fetch(t))
      PROVE  /\ \A t \in Turns : Holding(t)' => born'[agent'[t]] # 0
             /\ \A k \in Keys : cached'[k] # 0 => born'[cached'[k]] # 0
  BY <1>2, <1>3, <1>4, TurnFacts, KeyFacts DEF CreatedInv
<1> QED
  BY <1>1, <1>4

\* What is reached was created.
LEMMA CreatedKept ==
  ASSUME TypeOK, TypeOK', ClaimInv, BuiltInv, AgentInv, ConversationsApart, CreatedInv,
         [Next]_vars
  PROVE  CreatedInv'
<1>1. PICK m \in Keys : EntriesFollow(m) /\ SessionsFollow(m)
  BY SessionMoves
<1>2. nsid \in Nat /\ nsid' \in Nat /\ nsid <= nsid'
  BY NumberMoves DEF Fresh
<1>3. ASSUME NEW k \in Keys, NEW e \in Sids \ {0}, Enters(k, e)'
      PROVE  sidOf'[e] # 0 /\ e <= nsid'
  <2>1. sidOf'[e] # 0 /\ (Enters(k, e) \/ Grown(m, k, e))
    BY <1>1, <1>3 DEF EntriesFollow
  <2>2. Enters(k, e) => e <= nsid'
    BY <1>2 DEF CreatedInv, Sids
  <2> QED
    BY <2>1, <2>2, GrownIsNew
<1>4. ASSUME NEW k \in Keys, NEW s \in Sids, Reaches(k, s)' PROVE s <= nsid'
  <2>1. CASE s = 0
    BY <1>2, <2>1
  <2>2. CASE s # 0
    <3>1. Reaches(k, s) \/ Grown(m, k, s)
      BY <1>1, <1>4, <2>2 DEF SessionsFollow
    <3>2. Reaches(k, s) => s <= nsid'
      BY <1>2 DEF CreatedInv, Sids
    <3> QED
      BY <2>2, <3>1, <3>2, GrownIsNew
  <2> QED
    BY <2>1, <2>2
<1>5. handed'[1] <= nsid' /\ (Unbound' => CliSession' # 0)
  <2>1. CASE Request
    BY <1>2, <2>1 DEF Request, CliSession, Fresh
  <2>2. CASE ~Request
    <3>1. handed'[1] = handed[1] /\ (Unbound' => Unbound)
      BY <2>2, NumberMoves DEF CliSession
    <3>2. handed[1] \in Nat
      BY AgentTypeParts DEF OtherTypes, Sids
    <3> QED
      BY <1>2, <3>1, <3>2 DEF CreatedInv, CliSession
  <2> QED
    BY <2>1, <2>2
<1> QED
  BY <1>3, <1>4, <1>5, SessionMoves, WorkKept, BornKept DEF CreatedInv

-----------------------------------------------------------------------------
(* AgentCache: missed writes. *)

\* Where a transcript gets shorter, or another number of rows.
LEMMA RowMoves ==
  ASSUME TypeOK, [Next]_vars, NEW s \in Sids
  PROVE  \/ rows[s] <= rows'[s]
         \/ s = Fresh
         \/ \E t \in Turns : Hygiene(t) /\ s = sid[t]
         \/ \E t \in Turns : CompactInPlace(t) /\ s = born[agent[t]]
<1> DEFINE Longer == rows[s] <= rows'[s]
<1>1. rows \in [Sids -> Nat] /\ rows[s] \in Nat
  BY AgentTypeParts DEF RowTypes
<1>2. rows' = rows => Longer
  BY <1>1
<1>3. ASSUME NEW x, rows' = [rows EXCEPT ![x] = @ + 1] PROVE Longer
  <2>1. rows'[s] = rows[s] \/ rows'[s] = rows[s] + 1
    BY <1>1, <1>3
  <2> QED
    BY <1>1, <2>1
<1>4. ASSUME NEW x, NEW r, rows' = [rows EXCEPT ![x] = r] PROVE Longer \/ s = x
  <2>1. s # x => rows'[s] = rows[s]
    BY <1>1, <1>4
  <2> QED
    BY <1>1, <2>1
<1> HIDE DEF Longer
<1>5. ASSUME NEW k \in Keys, KeyStep(k) PROVE Longer
  <2>1. TimePasses(k) \/ Stop(k) \/ SweepIdle(k) \/ ExpiryCloses(k) \/ ExpiryMarks(k)
        \/ NewConversation(k) => Longer
    BY <1>2 DEF TimePasses, Stop, SweepIdle, ExpiryCloses, ExpiryMarks, NewConversation, base
  <2>2. ForeignWrite(k) => Longer
    BY <1>3 DEF ForeignWrite
  <2>3. \A t \in Turns : UserTurn(t, k) => Longer
    BY <1>2 DEF UserTurn, Open
  <2> QED
    BY <1>5, <2>1, <2>2, <2>3 DEF KeyStep
<1>6. ASSUME NEW t \in Turns, TurnStep(t) \/ AgentStep(t)
      PROVE  \/ Longer \/ s = Fresh
             \/ Hygiene(t) /\ s = sid[t]
             \/ CompactInPlace(t) /\ s = born[agent[t]]
  <2>1. Fetch(t) \/ EndRun(t) \/ Discard(t) \/ Promote(t) \/ Exhausted(t) => Longer
    BY <1>2 DEF Fetch, EndRun, Discard, Promote, Exhausted, base
  <2>2. FailsEarly(t) \/ Finish(t) \/ Settle(t) => Longer
    BY <1>2, <1>3 DEF FailsEarly, Finish, Settle, Written
  <2>3. Rotate(t) => Longer \/ s = Fresh
    BY <1>4 DEF Rotate
  <2>4. CompactInPlace(t) => Longer \/ s = born[agent[t]]
    BY <1>4 DEF CompactInPlace
  <2>5. Hygiene(t) => Longer \/ s = Fresh \/ s = sid[t]
    BY <1>2, <1>4 DEF Hygiene, base
  <2> QED
    BY <1>6, <2>1, <2>2, <2>3, <2>4, <2>5 DEF TurnStep, AgentStep
<1>7. ASSUME Request \/ HandoffStep \/ UNCHANGED vars PROVE Longer \/ s = Fresh
  <2>1. Request => Longer \/ s = Fresh
    BY <1>4 DEF Request
  <2>2. Claim \/ Refuse \/ Bind \/ Overtaken \/ Report \/ UNCHANGED vars => Longer
    BY <1>2 DEF Claim, Refuse, Bind, Overtaken, Report, HandoffOnly, base, vars
  <2>3. \A t \in Turns : Synthetic(t) => Longer
    BY <1>2 DEF Synthetic, Open
  <2> QED
    BY <1>7, <2>1, <2>2, <2>3 DEF HandoffStep
<1> QED
  BY <1>5, <1>6, <1>7 DEF Next, Longer

\* Where a snapshot is renewed.
LEMMA CountMoves ==
  ASSUME TypeOK, [Next]_vars, NEW k \in Keys
  PROVE  \/ cached'[k] = 0 \/ count'[k] = count[k]
         \/ \E t \in Turns : Fetch(t)
         \/ \E t \in Turns : Settle(t) /\ key[t] = k
<1> DEFINE Kept == cached'[k] = 0 \/ count'[k] = count[k]
<1> USE DEF cache, HandoffOnly
<1>1. count' = count => Kept
  OBVIOUS
<1>2. ASSUME NEW j \in Keys, Out({j}) PROVE Kept
  BY <1>2, AgentTypeParts DEF Out, CacheTypes
<1> HIDE DEF Kept
<1>3. ASSUME NEW j \in Keys, Evict(j) PROVE Kept
  BY <1>2, <1>3 DEF Evict
<1>4. ASSUME NEW j \in Keys, EvictedOrNot(j) PROVE Kept
  BY <1>1, <1>3, <1>4 DEF EvictedOrNot
<1>5. ASSUME NEW j \in Keys, KeyStep(j) PROVE Kept
  <2>1. TimePasses(j) \/ Stop(j) \/ ForeignWrite(j) \/ ExpiryCloses(j) => Kept
    BY <1>1 DEF TimePasses, Stop, ForeignWrite, ExpiryCloses
  <2>2. NewConversation(j) \/ SweepIdle(j) \/ ExpiryMarks(j) => Kept
    BY <1>2, <1>3 DEF NewConversation, SweepIdle, ExpiryMarks
  <2>3. \A t \in Turns : UserTurn(t, j) => Kept
    BY <1>1 DEF UserTurn, Open
  <2> QED
    BY <1>5, <2>1, <2>2, <2>3 DEF KeyStep
<1>6. ASSUME NEW t \in Turns, TurnStep(t) \/ AgentStep(t), ~Fetch(t), ~(Settle(t) /\ key[t] = k)
      PROVE  Kept
  <2>1. key[t] \in Keys
    BY TurnFacts
  <2>2. FailsEarly(t) \/ Finish(t) \/ Promote(t) \/ Rotate(t) \/ CompactInPlace(t) => Kept
    BY <1>1 DEF FailsEarly, Finish, Promote, Rotate, CompactInPlace
  <2>3. EndRun(t) \/ Discard(t) \/ Hygiene(t) \/ Exhausted(t) => Kept
    BY <1>3, <1>4, <2>1 DEF EndRun, Discard, Hygiene, Exhausted
  <2>4. ASSUME Settle(t) PROVE Kept
    <3>1. CASE Evict(key[t])
      BY <1>3, <2>1, <3>1
    <3>2. CASE count' = Baseline(t)
      <4>1. count'[k] = count[k]
        BY <1>6, <2>4, <3>2, AgentTypeParts DEF Baseline, CacheTypes
      <4> QED
        BY <4>1 DEF Kept
    <3> QED
      BY <2>4, <3>1, <3>2 DEF Settle
  <2> QED
    BY <1>6, <2>2, <2>3, <2>4 DEF TurnStep, AgentStep
<1>7. ASSUME Request \/ HandoffStep \/ UNCHANGED vars PROVE Kept
  <2>1. Request \/ Claim \/ Refuse \/ Overtaken \/ Report \/ UNCHANGED vars => Kept
    BY <1>1 DEF Request, Claim, Refuse, Overtaken, Report, vars
  <2>2. Bind => Kept
    BY <1>3, Numbers DEF Bind
  <2>3. \A t \in Turns : Synthetic(t) => Kept
    BY <1>1 DEF Synthetic, Open
  <2> QED
    BY <1>7, <2>1, <2>2, <2>3 DEF HandoffStep
<1> QED
  BY <1>5, <1>6, <1>7 DEF Next, Kept

\* What is missed changes when somebody writes or an agent is used.
LEMMA MissedMoves ==
  ASSUME TypeOK, [Next]_vars
  PROVE  UNCHANGED missed \/ (\E t \in Turns : Fetch(t)) \/ (\E k \in Keys : ForeignWrite(k))
<1>1. ASSUME NEW k \in Keys, KeyStep(k), ~ForeignWrite(k) PROVE UNCHANGED missed
  BY <1>1 DEF KeyStep, TimePasses, Stop, NewConversation, SweepIdle, ExpiryCloses, ExpiryMarks,
              UserTurn, Open
<1>2. ASSUME NEW t \in Turns, TurnStep(t) \/ AgentStep(t), ~Fetch(t) PROVE UNCHANGED missed
  BY <1>2 DEF TurnStep, AgentStep, FailsEarly, Finish, EndRun, Discard, Settle, Hygiene,
              Promote, Rotate, CompactInPlace, Exhausted
<1>3. ASSUME Request \/ HandoffStep \/ UNCHANGED vars PROVE UNCHANGED missed
  BY <1>3 DEF Request, HandoffStep, Claim, Refuse, Bind, Overtaken, Report, HandoffOnly,
              Synthetic, Open, vars
<1> QED
  BY <1>1, <1>2, <1>3 DEF Next

\* A write stays missed until the agent is used again, or dropped.
LEMMA MissedKept ==
  ASSUME TypeOK, ClaimInv, BuiltInv, AgentInv, ConversationsApart, CreatedInv, MissedInv,
         [Next]_vars
  PROVE  MissedInv'
<1> SUFFICES ASSUME NEW k \in Keys, NEW s \in Sids, <<cached'[k], s>> \in missed'
             PROVE  /\ s # 0 /\ count'[k] < rows'[s]
                    /\ \A t \in AtWork' : key'[t] = k => pc'[t] \in {"opened", "ready"}
  BY DEF MissedInv
<1> DEFINE Goal == /\ s # 0 /\ count'[k] < rows'[s]
                   /\ \A t \in AtWork' : key'[t] = k => pc'[t] \in {"opened", "ready"}
<1>1. ASSUME NEW t \in Turns, Fetch(t) PROVE Goal
  <2>1. /\ pc[t] \in {"opened", "ready"} /\ pc' = [pc EXCEPT ![t] = "working"]
        /\ missed' = {p \in missed : p[1] # agent'[t]}
        /\ UNCHANGED <<rows, key>>
        /\ Reuses(t) \/ Builds(t)
    BY <1>1, FetchCases DEF base
  <2>2. AtWork' = AtWork /\ \A u \in Turns : u # t => pc'[u] = pc[u]
    BY <2>1, AgentTypeParts DEF AtWork, TurnTypes
  <2>3. <<cached'[k], s>> \in missed /\ cached'[k] # agent'[t] /\ Past(cached'[k])
    BY <2>1 DEF BuiltInv
  <2>4. cached'[k] # 0 /\ cached'[k] # t
    BY <2>1, <2>3, AgentTypeParts DEF OtherTypes, Turns, Past, Fetching
  <2>5. k # key[t] /\ cached'[k] = cached[k] /\ count'[k] = count[k]
    <3>1. CASE Reuses(t)
      BY <2>3, <3>1, AgentTypeParts DEF Reuses, TurnTypes
    <3>2. CASE Builds(t)
      BY <2>4, <3>2 DEF Builds
    <3> QED
      BY <2>1, <3>1, <3>2
  <2>6. /\ s # 0 /\ count[k] < rows[s]
        /\ \A u \in AtWork : key[u] = k => pc[u] \in {"opened", "ready"}
    BY <2>3, <2>5 DEF MissedInv
  <2>7. ASSUME NEW u \in AtWork', key'[u] = k PROVE pc'[u] \in {"opened", "ready"}
    <3>1. u \in AtWork /\ key[u] = k /\ u # t /\ u \in Turns
      BY <2>1, <2>2, <2>5, <2>7 DEF AtWork
    <3> QED
      BY <3>1, <2>2, <2>6
  <2>8. count'[k] < rows'[s]
    BY <2>1, <2>5, <2>6
  <2> QED
    BY <2>6, <2>7, <2>8
<1>2. ASSUME NEW t \in Turns, Promote(t) PROVE Goal
  <2>1. UNCHANGED <<cached, count, missed, rows, pc, key, AtWork>>
    BY <1>2 DEF Promote, cache, base, turns, AtWork
  <2> QED
    BY <2>1 DEF MissedInv
<1>3. ASSUME Lessens, ~(\E t \in Turns : Fetch(t)), <<cached'[k], s>> \in missed PROVE Goal
  <2>1. cached'[k] # 0
    BY <1>3, AgentTypeParts DEF OtherTypes, Turns
  <2>2. cached'[k] = cached[k] /\ cached[k] # 0
    BY <1>3, <2>1 DEF Lessens
  <2>3. /\ s # 0 /\ count[k] < rows[s]
        /\ \A t \in AtWork : key[t] = k => pc[t] \in {"opened", "ready"}
    BY <1>3, <2>2 DEF MissedInv
  <2>4. Reaches(k, s)
    BY <1>3, <2>2 DEF Reaches
  <2>5. s # Fresh
    BY <2>4, NumberMoves DEF CreatedInv, Fresh
  <2>6. ASSUME NEW t \in Turns, Hygiene(t), s = sid[t] PROVE FALSE
    <3>1. t \in AtWork /\ Evict(key[t]) /\ key[t] \in Keys
      BY <2>6, TurnFacts DEF Hygiene, TooLarge, AtWork
    <3>2. k = key[t]
      BY <2>3, <2>4, <2>6, <3>1, Reaching DEF ConversationsApart
    <3> QED
      BY <2>1, <3>1, <3>2, OutTakes, AgentTypeParts DEF Evict
  <2>7. ASSUME NEW t \in Turns, CompactInPlace(t), s = born[agent[t]] PROVE FALSE
    <3>1. pc[t] = "working" /\ t \in AtWork /\ Holding(t) /\ key[t] \in Keys
      BY <2>7, TurnFacts DEF CompactInPlace, AtWork, Holding
    <3>2. k = key[t]
      BY <2>3, <2>4, <2>7, <3>1, Reaching DEF ConversationsApart
    <3> QED
      BY <2>3, <3>1, <3>2
  <2>8. rows[s] <= rows'[s]
    BY <2>5, <2>6, <2>7, RowMoves
  <2>9. ASSUME NEW t \in Turns, Settle(t) PROVE key[t] # k
    BY <2>3, <2>9 DEF Settle, AtWork
  <2>10. count'[k] = count[k]
    BY <1>3, <2>1, <2>9, CountMoves
  <2>11. rows[s] \in Nat /\ count[k] \in Nat
    BY AgentTypeParts, KeyFacts DEF RowTypes
  <2>12. count'[k] < rows'[s]
    <3>1. rows'[s] \in Nat
      BY RowTypesKept DEF RowTypes
    <3> QED
      BY <2>3, <2>8, <2>10, <2>11, <3>1
  <2>13. ASSUME NEW t \in AtWork', key'[t] = k PROVE pc'[t] \in {"opened", "ready"}
    <3>1. Holding(t)' => Holding(t) /\ key[t] = k /\ t \in AtWork
      BY <1>3, <2>13 DEF Lessens, AtWork, Holding
    <3>2. ~Holding(t)'
      BY <2>3, <3>1 DEF Holding
    <3> QED
      BY <2>13, <3>2 DEF AtWork, Holding
  <2> QED
    BY <2>3, <2>12, <2>13
<1>4. ASSUME NEW i \in Keys, ForeignWrite(i), <<cached'[k], s>> \notin missed PROVE Goal
  <2>1. /\ InStep(i) /\ cached'[k] = cached[i] /\ s = sidOf[entry[i]] /\ entry[i] # 0
        /\ rows' = [rows EXCEPT ![sidOf[entry[i]]] = @ + 1]
        /\ UNCHANGED <<cached, count, turns>>
    BY <1>4 DEF ForeignWrite, cache
  <2>2. cached[i] # 0 /\ Quiet(i) /\ count[i] <= rows[s]
    BY <2>1 DEF InStep
  <2>3. i = k
    BY <2>1, <2>2 DEF AgentInv
  <2>4. s # 0
    BY <2>1, Reaching, KeyFacts DEF CreatedInv
  <2>5. rows'[s] = rows[s] + 1 /\ rows[s] \in Nat /\ count[k] \in Nat
    BY <2>1, AgentTypeParts, KeyFacts DEF RowTypes
  <2>6. \A t \in AtWork' : key'[t] # k
    BY <2>1, <2>2, <2>3 DEF Quiet, turns, AtWork
  <2> QED
    BY <2>1, <2>2, <2>3, <2>4, <2>5, <2>6
<1> HIDE DEF Goal
<1>5. Goal
  <2>1. CASE \E t \in Turns : Fetch(t)
    BY <1>1, <2>1
  <2>2. CASE ~(\E t \in Turns : Fetch(t)) /\ <<cached'[k], s>> \in missed
    BY <1>2, <1>3, <2>2, LessensSteps
  <2>3. CASE ~(\E t \in Turns : Fetch(t)) /\ <<cached'[k], s>> \notin missed
    BY <1>4, <2>3, MissedMoves
  <2> QED
    BY <2>1, <2>2, <2>3
<1> QED
  BY <1>5 DEF Goal

\* An agent that missed a write is not the next to be used.
LEMMA WritesNoticed ==
  ASSUME TypeOK, ClaimInv, BuiltInv, MissedInv, [Next]_vars,
         NEW t \in Turns, pc[t] \in {"opened", "ready"}, pc'[t] = "working"
  PROVE  <<agent'[t], sid'[t]>> \notin missed
<1>1. Fetch(t)
  <2>1. ~Holding(t) /\ Holding(t)'
    BY DEF Holding
  <2>2. ~Lessens
    BY <2>1 DEF Lessens
  <2>3. ASSUME NEW u \in Turns, Promote(u) PROVE FALSE
    BY <2>3 DEF Promote, turns
  <2>4. ASSUME NEW u \in Turns, Fetch(u) PROVE u = t
    BY <2>4, AgentTypeParts DEF Fetch, TurnTypes
  <2> QED
    BY <2>2, <2>3, <2>4, LessensSteps
<1>2. sid'[t] = sidOf[obj[t]] /\ (Reuses(t) \/ Builds(t))
  BY <1>1, FetchCases, AgentTypeParts DEF TurnTypes
<1>3. CASE Builds(t)
  <2>1. agent'[t] = t
    BY <1>3, AgentTypeParts, Numbers DEF Builds, TurnTypes
  <2>2. ~Past(t)
    BY DEF Past, Fetching
  <2> QED
    BY <2>1, <2>2 DEF BuiltInv
<1>4. CASE Reuses(t)
  <2>1. agent'[t] = cached[key[t]] /\ count[key[t]] = rows[sidOf[obj[t]]]
    BY <1>4, AgentTypeParts DEF Reuses, TurnTypes
  <2>2. key[t] \in Keys /\ sidOf[obj[t]] \in Sids /\ rows[sidOf[obj[t]]] \in Nat
    BY TurnFacts
  <2> QED
    BY <1>2, <2>1, <2>2 DEF MissedInv
<1> QED
  BY <1>2, <1>3, <1>4

-----------------------------------------------------------------------------
(* The theorems about AgentCache. *)

\* All of it together is inductive, given the types.
CacheInv ==
    /\ ClaimInv /\ AgentInv /\ BuiltInv /\ SlotInv /\ UsableInv /\ SparedInv
    /\ ConversationsApart /\ CreatedInv /\ MissedInv

\* The initial state has these types.
LEMMA CacheTypesFirst == Init => TypeOK
<1> SUFFICES ASSUME Init PROVE TypeOK
  OBVIOUS
<1>1. EntryTypes /\ RowTypes
  BY Numbers DEF Init, EntryTypes, RowTypes
<1>2. CacheTypes /\ AgentTypes
  BY Numbers DEF Init, CacheTypes, AgentTypes
<1>3. SlotTypes /\ OtherTypes
  BY Numbers DEF Init, SlotTypes, OtherTypes, Handoffs
<1>4. TurnTypes
  BY Numbers DEF Init, TurnTypes, Places
<1> QED
  BY <1>1, <1>2, <1>3, <1>4, AgentTypeParts

\* Every step keeps them.
LEMMA CacheTypesNext == TypeOK /\ [Next]_vars => TypeOK'
<1> SUFFICES ASSUME TypeOK, [Next]_vars PROVE TypeOK'
  OBVIOUS
<1>1. /\ EntryTypes' /\ RowTypes' /\ CacheTypes' /\ AgentTypes' /\ SlotTypes' /\ TurnTypes'
      /\ OtherTypes'
  BY EntryTypesKept, RowTypesKept, CacheTypesKept, AgentTypesKept, SlotTypesKept, TurnTypesKept,
     OtherTypesKept
<1> QED
  BY <1>1 DEF TypeOK, EntryTypes, RowTypes, CacheTypes, AgentTypes, SlotTypes, TurnTypes,
              OtherTypes

\* Every variable of the cache, the store and the turns has its type.
THEOREM CacheTypeCorrect == Spec => []TypeOK
<1>1. TypeOK /\ UNCHANGED vars => TypeOK'
  BY CacheTypesNext
<1> QED
  BY CacheTypesFirst, CacheTypesNext, <1>1, PTL DEF Spec

\* Nothing is cached, running or written at first.
LEMMA CacheInvFirst == Init => CacheInv
<1> SUFFICES ASSUME Init PROVE CacheInv
  OBVIOUS
<1>1. AtWork = {} /\ (\A t \in Turns : ~Holding(t) /\ pc[t] = "none" /\ t # 0)
  BY DEF Init, AtWork, Holding, Turns
<1>2. \A k \in Keys : entry[k] = 0 /\ cached[k] = 0 /\ running[k] = 0
  BY DEF Init
<1>3. ClaimInv /\ AgentInv /\ SlotInv
  BY <1>1, <1>2 DEF ClaimInv, AgentInv, SlotInv
<1>4. BuiltInv /\ UsableInv /\ MissedInv
  BY <1>1, <1>2 DEF Init, BuiltInv, UsableInv, CachedIsLive, MissedInv, Turns
<1>s. SparedInv
  BY <1>1, <1>2 DEF SparedInv, InHand, InSlots, Fetched
<1>5. \A e \in Sids : sidOf[e] = 0
  BY DEF Init
<1>6. \A k \in Keys, e \in Sids : (Enters(k, e) => e = 0) /\ (Reaches(k, e) => e = 0)
  BY <1>1, <1>2, <1>5 DEF Enters, Reaches
<1>7. nsid = 0 /\ handed[1] = 0 /\ ~Unbound /\ 0 \in Sids
  BY Numbers DEF Init, Unbound
<1>8. ConversationsApart
  BY <1>6, <1>7 DEF ConversationsApart
<1>9. CreatedInv
  BY <1>1, <1>2, <1>5, <1>6, <1>7 DEF CreatedInv
<1> QED
  BY <1>3, <1>4, <1>s, <1>8, <1>9 DEF CacheInv

\* Each part is kept by the lemma of its name.
LEMMA CacheInvNext == TypeOK /\ TypeOK' /\ CacheInv /\ [Next]_vars => CacheInv'
<1> SUFFICES ASSUME TypeOK, TypeOK', CacheInv, [Next]_vars PROVE CacheInv'
  OBVIOUS
<1> USE DEF CacheInv
<1>1. ClaimInv' /\ AgentInv' /\ BuiltInv'
  BY ClaimKept, AgentKept, BuiltKept
<1>2. SlotInv' /\ UsableInv' /\ SparedInv'
  BY SlotKept, UsableKept, SparedKept
<1>3. ConversationsApart' /\ CreatedInv' /\ MissedInv'
  BY ApartKept, CreatedKept, MissedKept
<1> QED
  BY <1>1, <1>2, <1>3

\* Entries, sessions, agents, slots, turns and missed writes fit together in every
\* state: the invariant that the theorems below rest on.  (get_or_create_session,
\* _agent_cache, _running_agents, _begin_session_run_generation)
THEOREM CacheSound == Spec => []CacheInv
<1>1. TypeOK /\ TypeOK' /\ CacheInv /\ UNCHANGED vars => CacheInv'
  BY CacheInvNext
<1> QED
  BY CacheInvFirst, CacheInvNext, CacheTypeCorrect, <1>1, PTL DEF Spec

\* Nobody finds an agent in the cache whose clients were released or whose tools
\* were closed, for any number of keys, turns and sessions, any cap, and any
\* order of evictions, sweeps, expiry and /new.  (_agent_cache)
THEOREM CachedAgentsAreLive == Spec => []CachedIsLive
<1>1. CacheInv => CachedIsLive
  BY DEF CacheInv, UsableInv
<1> QED
  BY <1>1, CacheSound, PTL

\* Two session keys never share an entry of the store or a session of the
\* database, through whichever of entries, cached agents or turns they reach it:
\* no message of one conversation goes to the transcript of another.
\* (switch_session, the entry's session_id after compression)
THEOREM ConversationsStayApart == Spec => []ConversationsApart
<1>1. CacheInv => ConversationsApart
  BY DEF CacheInv
<1> QED
  BY <1>1, CacheSound, PTL

\* An agent in a slot is neither torn down nor in the hands of a thread that is
\* to do so, for any number of keys and turns and any cap; except one that was
\* taken between its fetch and its slot, or by one of the two who do not look at
\* the slots.  (_enforce_agent_cache_cap, _sweep_idle_cached_agents,
\* _evict_cached_agent, track_agent)
THEOREM RunningAgentsAreSpared == Spec => []RunningNotReleased
<1>1. TypeOK /\ CacheInv => RunningNotReleased
  BY DEF CacheInv, SparedInv, InHand, InSlots, RunningNotReleased
<1> QED
  BY <1>1, CacheTypeCorrect, CacheSound, PTL

\* An agent whose transcript another process wrote to, while no turn of its key
\* was at work and its snapshot was not ahead, is not the next to be used there.
\* (the message_count guard of _run_agent_inner)
THEOREM ForeignWritesAreNoticed == Spec => ForeignWritesNoticed
<1>1. ASSUME TypeOK, CacheInv, [Next]_vars
      PROVE  \A t \in Turns :
                pc[t] \in {"opened", "ready"} /\ pc'[t] = "working"
                => <<agent'[t], sid'[t]>> \notin missed
  BY <1>1, WritesNoticed DEF CacheInv
<1> QED
  BY <1>1, CacheTypeCorrect, CacheSound, PTL DEF Spec, ForeignWritesNoticed

-----------------------------------------------------------------------------
(* Notices and updates. *)


\* A report is sent off before the markers of an update are removed.
\* (_send_update_notification, _watch_update_progress)
ResultInv ==
    /\ ResultNotLost
    /\ stage = "reporting" \/ watch \in {"final", "timedOut", "telling"} => told

\* A question that is being forwarded is on disk, and nobody waits for its
\* answer yet.  (_watch_update_progress)
QuestionInv ==
    /\ AnswersAQuestion
    /\ watch = "prompting" => prompt /\ ~flag

\* A chat got the notice of this stop once if it is in the list, and otherwise
\* only by sends that were reported as failed; the one that is being told is not
\* in the list.  (_notify_active_sessions_of_shutdown)
NoticeInv ==
    /\ \A c \in Chats : heard[c] <= (IF c \in notified THEN 1 ELSE 0) + unsure[c]
    /\ sending # NoChat => stage \in {"replying", "homes", "chats", "stopHomes"}
    /\ stage \in {"chats", "stopHomes"} => sending \notin notified

\* While the restart of a chat is under way no marker sends the next start to the
\* home channels, and the stop has none of them left to visit.  (start, stop)
InChatInv ==
    /\ InChatStaysInChat
    /\ asker # NoChat => restart
    /\ stage \in {"chats", "stopHomes"} => asker = askedIn
    /\ stage = "chats" => \A s \in Sessions : s \in left => ChatOf[s] \in busy
    /\ stage = "stopHomes" /\ askedIn # NoChat => left = {}
    /\ notify # NoChat => notify = askedIn
    /\ planned \/ stage = "homes" => askedIn = NoChat
    /\ stage \in {"homes", "aborted", "up"} => notify = NoChat
    /\ stage \in {"up", "chats", "stopHomes"} => ~planned

\* The inductive invariant of the notices.
NoticesInv == ResultInv /\ QuestionInv /\ NoticeInv /\ InChatInv

\* The types, in three parts: the process and its chats, the files and the
\* watcher, what is true or false of them.
ChatTypes ==
    /\ stage \in Stages /\ lives \in Nat
    /\ online \subseteq Platforms /\ crew \subseteq Platforms
    /\ left \subseteq Sessions \cup Platforms
    /\ sending \in Chats \cup {NoChat}
    /\ notified \subseteq Chats /\ heard \in [Chats -> Nat]
    /\ unsure \in [Chats -> Nat] /\ busy \subseteq Chats /\ askedIn \in Chats \cup {NoChat}
    /\ asker \in Chats \cup {NoChat} /\ notify \in Chats \cup {NoChat}
UpdateTypes ==
    /\ update \in {"none", "working", "asking", "done"}
    /\ mark \in {"none", "pending", "claimed"} /\ exit \in {"none", "code", "124"}
    /\ watch \in Watches
TruthTypes ==
    /\ restart \in BOOLEAN /\ planned \in BOOLEAN
    /\ prompt \in BOOLEAN /\ response \in BOOLEAN
    /\ flag \in BOOLEAN /\ told \in BOOLEAN

LEMMA TypeParts == NoticesTypeOK <=> ChatTypes /\ UpdateTypes /\ TruthTypes
BY DEF NoticesTypeOK, ChatTypes, UpdateTypes, TruthTypes

\* A step of the chats leaves the update alone and starts no report, a step of
\* the update or its watcher leaves the chats alone; a process that begins to
\* report or ends touches both.
BesideUpdate ==
    /\ UNCHANGED <<update, mark, exit, prompt, response, flag, watch, told>>
    /\ stage' # "reporting"
BesideChats ==
    UNCHANGED <<stage, lives, online, crew, left, sending, notified, heard, unsure, busy,
                askedIn, restart, asker, notify, planned>>

ChatCases ==
    \/ Connect \/ StartReplies \/ Replied \/ HomeSent \/ HomesDone \/ HomesRaise
    \/ ChatsTold \/ Sent
    \/ \E p \in Platforms : SendHome(p) \/ TellHome(p)
    \/ \E s \in Sessions : TellChat(s)
    \/ \E r \in BOOLEAN, c \in Chats \cup {NoChat} : StopBegins(r, c)

LEMMA ChatCasesBesideUpdate == ASSUME ChatCases PROVE BesideUpdate
BY DEF ChatCases, BesideUpdate, ChatsOnly, files, watcher, Connect, StartReplies, Replied,
   HomeSent, HomesDone, HomesRaise, ChatsTold, Sent, SendHome, TellHome, TellChat, StopBegins,
   loop, stopping, history, markers, life

LEMMA UpdateCasesBesideChats == ASSUME WatchStep \/ UpdateStep PROVE BesideChats
BY DEF BesideChats, life, loop, stopping, history, markers, WatchStep, WatcherStarts, FinalStatus,
   WatcherDone, WatcherTimesOut, Forward, Forwarded, ForwardFails, FallbackReports,
   FallbackDefers, FallbackReported, FallbackTimesOut, Watching, UpdateStep, Update, Ask,
   ReadAnswer, UpdateEnds, Answer, BoundaryClears, Outside

LEMMA NoticesCases ==
  ASSUME [NoticesNext]_noticesVars
  PROVE  \/ ChatCases \/ WatchStep \/ UpdateStep
         \/ StartReports \/ StartReported \/ Crash \/ Stopped
         \/ \E p \in Platforms : AdapterLost(p) \/ AdapterBack(p)
         \/ UNCHANGED noticesVars
BY DEF NoticesNext, StartStep, StopStep, ChatCases

\* The types of the process and its chats are kept.
LEMMA ChatTypesKept ==
  ASSUME ChatTypes, [NoticesNext]_noticesVars
  PROVE  ChatTypes'
<1>1. CASE Connect
  BY <1>1
  DEF ChatTypes, Stages, life, loop, stopping, history, markers, files, watcher, Connect
<1>2. CASE StartReplies \/ Replied
  BY <1>2
  DEF ChatTypes, Stages, life, loop, stopping, history, markers, files, watcher,
      StartReplies, RestartOver, Replied, ChatsOnly
<1>3. CASE HomeSent \/ HomesDone \/ HomesRaise
  BY <1>3
  DEF ChatTypes, Stages, life, loop, stopping, history, markers, files, watcher, HomeSent,
      HomesDone, HomesRaise, RestartOver, ChatsOnly
<1>4. CASE ChatsTold
  BY <1>4
  DEF ChatTypes, Stages, life, loop, stopping, history, markers, files, watcher,
      ChatsTold, ToldAtHome, ChatsOnly
<1>5. CASE Sent
  BY <1>5
  DEF ChatTypes, Stages, life, loop, stopping, history, markers, files, watcher, Sent,
      Got, ChatsOnly
<1>6. CASE \E p \in Platforms : SendHome(p) \/ TellHome(p)
  BY NoticesAssumption, <1>6
  DEF ChatTypes, Stages, life, loop, stopping, history, markers, files, watcher, SendHome,
      TellHome, Tell, ChatsOnly
<1>7. CASE \E s \in Sessions : TellChat(s)
  BY NoticesAssumption, <1>7
  DEF ChatTypes, Stages, life, loop, stopping, history, markers, files, watcher, TellChat,
      Target, Tell, ChatsOnly
<1>8. CASE \E r \in BOOLEAN, c \in Chats \cup {NoChat} : StopBegins(r, c)
  BY NoticesAssumption, <1>8
  DEF ChatTypes, Stages, life, loop, stopping, history, markers, files, watcher,
      StopBegins, Target, ChatsOnly
<1>9. CASE WatchStep \/ UpdateStep
  BY UpdateCasesBesideChats, <1>9
  DEF ChatTypes, Stages, BesideChats
<1>10. CASE StartReports \/ StartReported
  BY <1>10
  DEF ChatTypes, Stages, life, loop, stopping, history, markers, files, watcher,
      StartReports, StartReported
<1>11. CASE Crash \/ Stopped
  BY <1>11
  DEF ChatTypes, Stages, life, loop, stopping, history, markers, files, watcher, Crash,
      Stopped, Dies, PlannedRestart
<1>12. CASE \E p \in Platforms : AdapterLost(p) \/ AdapterBack(p)
  BY <1>12
  DEF ChatTypes, Stages, life, loop, stopping, history, markers, files, watcher,
      AdapterLost, AdapterBack
<1>13. CASE UNCHANGED noticesVars
  BY <1>13
  DEF ChatTypes, Stages, noticesVars, life, loop, stopping, history, markers, files,
      watcher
<1> QED
  BY NoticesCases, <1>1, <1>2, <1>3, <1>4, <1>5, <1>6, <1>7, <1>8, <1>9, <1>10, <1>11,
     <1>12, <1>13 DEF ChatCases

\* The types of the files and the watcher are kept.
LEMMA UpdateTypesKept ==
  ASSUME UpdateTypes, [NoticesNext]_noticesVars
  PROVE  UpdateTypes'
<1>1. CASE ChatCases
  BY ChatCasesBesideUpdate, <1>1
  DEF UpdateTypes, Watches, BesideUpdate
<1>2. CASE WatchStep
  BY <1>2
  DEF UpdateTypes, Watches, life, loop, stopping, history, markers, files, watcher,
      WatchStep, WatcherStarts, FinalStatus, WatcherDone, WatcherTimesOut, Forward,
      Forwarded, ForwardFails, FallbackReports, FallbackDefers, FallbackReported,
      FallbackTimesOut, Watching, Cleanup, Claimed, Deferred, Reported
<1>3. CASE UpdateStep
  BY <1>3
  DEF UpdateTypes, Watches, life, loop, stopping, history, markers, files, watcher,
      UpdateStep, Update, Ask, ReadAnswer, UpdateEnds, Answer, BoundaryClears, Outside
<1>4. CASE StartReports \/ StartReported
  BY <1>4
  DEF UpdateTypes, Watches, life, loop, stopping, history, markers, files, watcher,
      StartReports, StartReported, Claimed, Deferred, Reported, CanReport, Undecided
<1>5. CASE Crash \/ Stopped
  BY <1>5
  DEF UpdateTypes, Watches, life, loop, stopping, history, markers, files, watcher, Crash,
      Stopped, Dies
<1>6. CASE \E p \in Platforms : AdapterLost(p) \/ AdapterBack(p)
  BY <1>6
  DEF UpdateTypes, Watches, life, loop, stopping, history, markers, files, watcher,
      AdapterLost, AdapterBack
<1>7. CASE UNCHANGED noticesVars
  BY <1>7
  DEF UpdateTypes, Watches, noticesVars, life, loop, stopping, history, markers, files,
      watcher
<1> QED
  BY NoticesCases, <1>1, <1>2, <1>3, <1>4, <1>5, <1>6, <1>7

\* What is true or false remains one of both.
LEMMA TruthTypesKept ==
  ASSUME TruthTypes, [NoticesNext]_noticesVars
  PROVE  TruthTypes'
<1>1. CASE Connect
  BY <1>1, Zenon
  DEF TruthTypes, life, loop, stopping, history, markers, files, watcher, Connect
<1>2. CASE StartReplies \/ Replied
  BY <1>2, Zenon
  DEF TruthTypes, life, loop, stopping, history, markers, files, watcher, StartReplies,
      RestartOver, Replied, ChatsOnly
<1>3. CASE HomeSent \/ HomesDone \/ HomesRaise
  BY <1>3, Zenon
  DEF TruthTypes, life, loop, stopping, history, markers, files, watcher, HomeSent,
      HomesDone, HomesRaise, RestartOver, ChatsOnly
<1>4. CASE ChatsTold
  BY <1>4, Zenon
  DEF TruthTypes, life, loop, stopping, history, markers, files, watcher, ChatsTold,
      ToldAtHome, ChatsOnly
<1>5. CASE Sent
  BY <1>5, Zenon
  DEF TruthTypes, life, loop, stopping, history, markers, files, watcher, Sent, Got,
      ChatsOnly
<1>6. CASE \E p \in Platforms : SendHome(p) \/ TellHome(p)
  BY <1>6, Zenon
  DEF TruthTypes, life, loop, stopping, history, markers, files, watcher, SendHome,
      TellHome, Tell, ChatsOnly
<1>7. CASE \E s \in Sessions : TellChat(s)
  BY <1>7, Zenon
  DEF TruthTypes, life, loop, stopping, history, markers, files, watcher, TellChat,
      Target, Tell, ChatsOnly
<1>8. CASE \E r \in BOOLEAN, c \in Chats \cup {NoChat} : StopBegins(r, c)
  BY <1>8, Zenon
  DEF TruthTypes, life, loop, stopping, history, markers, files, watcher, StopBegins,
      Target, ChatsOnly
<1>9. CASE WatchStep
  BY <1>9, Zenon
  DEF TruthTypes, life, loop, stopping, history, markers, files, watcher, WatchStep,
      WatcherStarts, FinalStatus, WatcherDone, WatcherTimesOut, Forward, Forwarded,
      ForwardFails, FallbackReports, FallbackDefers, FallbackReported, FallbackTimesOut,
      Watching, Cleanup, Claimed, Deferred, Reported
<1>10. CASE UpdateStep
  BY <1>10, Zenon
  DEF TruthTypes, life, loop, stopping, history, markers, files, watcher, UpdateStep,
      Update, Ask, ReadAnswer, UpdateEnds, Answer, BoundaryClears, Outside
<1>11. CASE StartReports \/ StartReported
  BY <1>11, Zenon
  DEF TruthTypes, life, loop, stopping, history, markers, files, watcher, StartReports,
      StartReported, Claimed, Deferred, Reported, CanReport, Undecided
<1>12. CASE Crash \/ Stopped
  BY <1>12, Zenon
  DEF TruthTypes, life, loop, stopping, history, markers, files, watcher, Crash, Stopped,
      Dies, PlannedRestart
<1>13. CASE \E p \in Platforms : AdapterLost(p) \/ AdapterBack(p)
  BY <1>13, Zenon
  DEF TruthTypes, life, loop, stopping, history, markers, files, watcher, AdapterLost,
      AdapterBack
<1>14. CASE UNCHANGED noticesVars
  BY <1>14, Zenon
  DEF TruthTypes, noticesVars, life, loop, stopping, history, markers, files, watcher
<1> QED
  BY NoticesCases, <1>1, <1>2, <1>3, <1>4, <1>5, <1>6, <1>7, <1>8, <1>9, <1>10, <1>11,
     <1>12, <1>13, <1>14 DEF ChatCases

\* No step loses a result: markers are only removed by those that have reported.
LEMMA ResultKept ==
  ASSUME ResultInv, [NoticesNext]_noticesVars
  PROVE  ResultInv'
<1>1. CASE ChatCases
  BY ChatCasesBesideUpdate, <1>1
  DEF ResultInv, ResultNotLost, BesideUpdate
<1>2. CASE WatchStep
  BY <1>2
  DEF ResultInv, ResultNotLost, life, loop, stopping, history, markers, files, watcher,
      WatchStep, WatcherStarts, FinalStatus, WatcherDone, WatcherTimesOut, Forward,
      Forwarded, ForwardFails, FallbackReports, FallbackDefers, FallbackReported,
      FallbackTimesOut, Watching, Cleanup, Claimed, Deferred, Reported
<1>3. CASE UpdateStep
  BY <1>3
  DEF ResultInv, ResultNotLost, life, loop, stopping, history, markers, files, watcher,
      UpdateStep, Update, Ask, ReadAnswer, UpdateEnds, Answer, BoundaryClears, Outside
<1>4. CASE StartReports \/ StartReported
  BY <1>4
  DEF ResultInv, ResultNotLost, life, loop, stopping, history, markers, files, watcher,
      StartReports, StartReported, Claimed, Deferred, Reported, CanReport, Undecided
<1>5. CASE Crash \/ Stopped
  BY <1>5
  DEF ResultInv, ResultNotLost, life, loop, stopping, history, markers, files, watcher,
      Crash, Stopped, Dies
<1>6. CASE \E p \in Platforms : AdapterLost(p) \/ AdapterBack(p)
  BY <1>6
  DEF ResultInv, ResultNotLost, life, loop, stopping, history, markers, files, watcher,
      AdapterLost, AdapterBack
<1>7. CASE UNCHANGED noticesVars
  BY <1>7
  DEF ResultInv, ResultNotLost, noticesVars, life, loop, stopping, history, markers,
      files, watcher
<1> QED
  BY NoticesCases, <1>1, <1>2, <1>3, <1>4, <1>5, <1>6, <1>7

\* No step leaves a session waiting for an answer to no question.
LEMMA QuestionKept ==
  ASSUME QuestionInv, [NoticesNext]_noticesVars
  PROVE  QuestionInv'
<1>1. CASE ChatCases
  BY ChatCasesBesideUpdate, <1>1
  DEF QuestionInv, AnswersAQuestion, BesideUpdate
<1>2. CASE WatchStep
  BY <1>2
  DEF QuestionInv, AnswersAQuestion, life, loop, stopping, history, markers, files,
      watcher, WatchStep, WatcherStarts, FinalStatus, WatcherDone, WatcherTimesOut,
      Forward, Forwarded, ForwardFails, FallbackReports, FallbackDefers, FallbackReported,
      FallbackTimesOut, Watching, Cleanup, Claimed, Deferred, Reported
<1>3. CASE UpdateStep
  BY <1>3
  DEF QuestionInv, AnswersAQuestion, life, loop, stopping, history, markers, files,
      watcher, UpdateStep, Update, Ask, ReadAnswer, UpdateEnds, Answer, BoundaryClears,
      Outside
<1>4. CASE StartReports \/ StartReported
  BY <1>4
  DEF QuestionInv, AnswersAQuestion, life, loop, stopping, history, markers, files,
      watcher, StartReports, StartReported, Claimed, Deferred, Reported, CanReport,
      Undecided
<1>5. CASE Crash \/ Stopped
  BY <1>5
  DEF QuestionInv, AnswersAQuestion, life, loop, stopping, history, markers, files,
      watcher, Crash, Stopped, Dies
<1>6. CASE \E p \in Platforms : AdapterLost(p) \/ AdapterBack(p)
  BY <1>6
  DEF QuestionInv, AnswersAQuestion, life, loop, stopping, history, markers, files,
      watcher, AdapterLost, AdapterBack
<1>7. CASE UNCHANGED noticesVars
  BY <1>7
  DEF QuestionInv, AnswersAQuestion, noticesVars, life, loop, stopping, history, markers,
      files, watcher
<1> QED
  BY NoticesCases, <1>1, <1>2, <1>3, <1>4, <1>5, <1>6, <1>7

\* No step tells a chat again that was told.
LEMMA NoticeKept ==
  ASSUME ChatTypes, NoticeInv, [NoticesNext]_noticesVars
  PROVE  NoticeInv'
<1>1. CASE Connect
  BY <1>1
  DEF ChatTypes, NoticeInv, life, loop, stopping, history, markers, files, watcher,
      Connect
<1>2. CASE StartReplies \/ Replied
  BY <1>2
  DEF ChatTypes, NoticeInv, life, loop, stopping, history, markers, files, watcher,
      StartReplies, RestartOver, Replied, ChatsOnly
<1>3. CASE HomeSent \/ HomesDone \/ HomesRaise
  BY <1>3
  DEF ChatTypes, NoticeInv, life, loop, stopping, history, markers, files, watcher,
      HomeSent, HomesDone, HomesRaise, RestartOver, ChatsOnly
<1>4. CASE ChatsTold
  BY <1>4
  DEF ChatTypes, NoticeInv, life, loop, stopping, history, markers, files, watcher,
      ChatsTold, ToldAtHome, ChatsOnly
<1>5. CASE Sent
  <2>1. /\ sending \in Chats /\ sending \notin notified
        /\ sending' = NoChat /\ stage' = stage /\ NoChat \notin notified'
    BY <1>5, NoticesAssumption DEF ChatTypes, NoticeInv, Sent, Got, life
  <2>2. CASE /\ notified' = notified \cup {sending}
             /\ heard' = [heard EXCEPT ![sending] = @ + 1] /\ unsure' = unsure
    BY <2>1, <2>2 DEF ChatTypes, NoticeInv
  <2>3. CASE UNCHANGED <<notified, heard, unsure>>
    BY <2>1, <2>3 DEF NoticeInv
  <2>4. CASE /\ heard' = [heard EXCEPT ![sending] = @ + 1]
             /\ unsure' = [unsure EXCEPT ![sending] = @ + 1] /\ notified' = notified
    BY <2>1, <2>4 DEF ChatTypes, NoticeInv
  <2> QED
    BY <1>5, <2>2, <2>3, <2>4 DEF Sent, Got
<1>6. CASE \E p \in Platforms : SendHome(p) \/ TellHome(p)
  BY NoticesAssumption, <1>6
  DEF ChatTypes, NoticeInv, life, loop, stopping, history, markers, files, watcher,
      SendHome, TellHome, Tell, ChatsOnly
<1>7. CASE \E s \in Sessions : TellChat(s)
  BY NoticesAssumption, <1>7
  DEF ChatTypes, NoticeInv, life, loop, stopping, history, markers, files, watcher,
      TellChat, Target, Tell, ChatsOnly
<1>8. CASE \E r \in BOOLEAN, c \in Chats \cup {NoChat} : StopBegins(r, c)
  BY NoticesAssumption, <1>8
  DEF ChatTypes, NoticeInv, life, loop, stopping, history, markers, files, watcher,
      StopBegins, Target, ChatsOnly
<1>9. CASE WatchStep \/ UpdateStep
  BY UpdateCasesBesideChats, <1>9
  DEF ChatTypes, NoticeInv, BesideChats
<1>10. CASE StartReports \/ StartReported
  BY <1>10
  DEF ChatTypes, NoticeInv, life, loop, stopping, history, markers, files, watcher,
      StartReports, StartReported
<1>11. CASE Crash \/ Stopped
  BY <1>11
  DEF ChatTypes, NoticeInv, life, loop, stopping, history, markers, files, watcher, Crash,
      Stopped, Dies, PlannedRestart
<1>12. CASE \E p \in Platforms : AdapterLost(p) \/ AdapterBack(p)
  BY <1>12
  DEF ChatTypes, NoticeInv, life, loop, stopping, history, markers, files, watcher,
      AdapterLost, AdapterBack
<1>13. CASE UNCHANGED noticesVars
  BY <1>13
  DEF ChatTypes, NoticeInv, noticesVars, life, loop, stopping, history, markers, files,
      watcher
<1> QED
  BY NoticesCases, <1>1, <1>2, <1>3, <1>4, <1>5, <1>6, <1>7, <1>8, <1>9, <1>10, <1>11,
     <1>12, <1>13 DEF ChatCases

\* No step sends a notice of a chat's restart to a home channel that is not at work.
LEMMA InChatKept ==
  ASSUME ChatTypes, NoticeInv, InChatInv, [NoticesNext]_noticesVars
  PROVE  InChatInv'
<1>1. CASE Connect
  BY <1>1
  DEF InChatInv, InChatStaysInChat, life, loop, stopping, history, markers, files,
      watcher, Connect
<1>2. CASE StartReplies \/ Replied
  BY <1>2
  DEF InChatInv, InChatStaysInChat, life, loop, stopping, history, markers, files,
      watcher, StartReplies, RestartOver, Replied, ChatsOnly
<1>3. CASE HomeSent \/ HomesDone \/ HomesRaise
  BY <1>3
  DEF InChatInv, InChatStaysInChat, life, loop, stopping, history, markers, files,
      watcher, HomeSent, HomesDone, HomesRaise, RestartOver, ChatsOnly
<1>4. CASE ChatsTold
  BY <1>4
  DEF InChatInv, InChatStaysInChat, life, loop, stopping, history, markers, files,
      watcher, ChatsTold, ToldAtHome, ChatsOnly
<1>5. CASE Sent
  BY <1>5
  DEF InChatInv, InChatStaysInChat, life, loop, stopping, history, markers, files,
      watcher, Sent, Got, ChatsOnly
<1>6. CASE \E p \in Platforms : SendHome(p) \/ TellHome(p)
  BY <1>6
  DEF InChatInv, InChatStaysInChat, life, loop, stopping, history, markers, files,
      watcher, SendHome, TellHome, Tell, ChatsOnly
<1>7. CASE \E s \in Sessions : TellChat(s)
  BY <1>7
  DEF InChatInv, InChatStaysInChat, life, loop, stopping, history, markers, files,
      watcher, TellChat, Target, Tell, ChatsOnly
<1>8. CASE \E r \in BOOLEAN, c \in Chats \cup {NoChat} : StopBegins(r, c)
  <2> PICK r \in BOOLEAN, c \in Chats \cup {NoChat} : StopBegins(r, c)
    BY <1>8
  <2>1. /\ stage = "up" /\ stage' = "chats" /\ (c # NoChat => r)
        /\ restart' = r /\ asker' = c /\ askedIn' = c /\ sending' = sending
        /\ planned' = planned /\ notify' = IF c = NoChat THEN notify ELSE c
    BY DEF StopBegins
  <2>2. \A s \in Sessions : s \in left' => ChatOf[s] \in busy'
    BY DEF StopBegins, Target
  <2>3. sending' = NoChat /\ notify = NoChat /\ ~planned
    BY <2>1 DEF NoticeInv, InChatInv
  <2> QED
    BY <2>1, <2>2, <2>3 DEF InChatInv, InChatStaysInChat
<1>9. CASE WatchStep \/ UpdateStep
  BY UpdateCasesBesideChats, <1>9
  DEF InChatInv, InChatStaysInChat, BesideChats
<1>10. CASE StartReports \/ StartReported
  BY <1>10
  DEF InChatInv, InChatStaysInChat, life, loop, stopping, history, markers, files,
      watcher, StartReports, StartReported
<1>11. CASE Crash \/ Stopped
  <2>1. /\ stage' = "down" /\ notify' = notify
        /\ sending' = NoChat /\ asker' = NoChat /\ askedIn' = askedIn
        /\ planned' => planned \/ (stage = "stopHomes" /\ asker = NoChat)
    <3>1. CASE Crash
      BY <3>1 DEF Crash, Dies, markers
    <3>2. CASE Stopped
      BY <3>2, Zenon DEF Stopped, Dies, PlannedRestart
    <3> QED
      BY <1>11, <3>1, <3>2
  <2> QED
    BY <2>1 DEF InChatInv, InChatStaysInChat
<1>12. CASE \E p \in Platforms : AdapterLost(p) \/ AdapterBack(p)
  BY <1>12
  DEF InChatInv, InChatStaysInChat, life, loop, stopping, history, markers, files,
      watcher, AdapterLost, AdapterBack
<1>13. CASE UNCHANGED noticesVars
  BY <1>13
  DEF InChatInv, InChatStaysInChat, noticesVars, life, loop, stopping, history, markers,
      files, watcher
<1> QED
  BY NoticesCases, <1>1, <1>2, <1>3, <1>4, <1>5, <1>6, <1>7, <1>8, <1>9, <1>10, <1>11,
     <1>12, <1>13 DEF ChatCases

\* Every variable of the notices keeps its type, for any set of sessions, chats
\* and platforms and any number of processes.
THEOREM NoticesTypeCorrect == NoticesSpec => []NoticesTypeOK
<1>1. NoticesInit => NoticesTypeOK
  <2>1. NoticesInit => ChatTypes /\ UpdateTypes
    BY DEF NoticesInit, ChatTypes, UpdateTypes, Stages, Watches
  <2>2. NoticesInit => TruthTypes
    BY DEF NoticesInit, TruthTypes
  <2> QED
    BY <2>1, <2>2, TypeParts
<1>2. NoticesTypeOK /\ [NoticesNext]_noticesVars => NoticesTypeOK'
  <2> SUFFICES ASSUME NoticesTypeOK, [NoticesNext]_noticesVars
               PROVE  ChatTypes' /\ UpdateTypes' /\ TruthTypes'
    BY DEF NoticesTypeOK, ChatTypes, UpdateTypes, TruthTypes
  <2> QED
    BY TypeParts, ChatTypesKept, UpdateTypesKept, TruthTypesKept
<1> QED
  BY <1>1, <1>2, PTL DEF NoticesSpec

\* The inductive invariant of the notices holds in every reachable state.
THEOREM NoticesSound == NoticesSpec => []NoticesInv
<1>1. NoticesInit => NoticesInv
  BY DEF NoticesInit, NoticesInv, ResultInv, ResultNotLost, QuestionInv, AnswersAQuestion,
     NoticeInv,
      InChatInv, InChatStaysInChat
<1>2. NoticesTypeOK /\ NoticesInv /\ [NoticesNext]_noticesVars => NoticesInv'
  BY TypeParts, ResultKept, QuestionKept, NoticeKept, InChatKept DEF NoticesInv
<1> QED
  BY <1>1, <1>2, NoticesTypeCorrect, PTL DEF NoticesSpec

\* The result of an update is reported before its markers go: a crash, a restart,
\* an absent platform, two reporters or a timeout do not lose it.
\* (_send_update_notification, _watch_update_progress)
THEOREM ResultsAreKept == NoticesSpec => []ResultNotLost
<1>1. NoticesInv => ResultNotLost
  BY DEF NoticesInv, ResultInv
<1> QED
  BY <1>1, NoticesSound, PTL

\* A message is taken as an answer only while a question is on disk.
\* (_watch_update_progress, _handle_message)
THEOREM AnswersHaveQuestions == NoticesSpec => []AnswersAQuestion
<1>1. NoticesInv => AnswersAQuestion
  BY DEF NoticesInv, QuestionInv
<1> QED
  BY <1>1, NoticesSound, PTL

\* A chat is told twice of one stop only after a send that was shown was reported
\* as failed, whatever its sessions and whether it is a home channel too.
\* (_notify_active_sessions_of_shutdown)
THEOREM ChatsAreToldOnce == NoticesSpec => []ToldOnce
<1>1. NoticesTypeOK /\ NoticesInv => ToldOnce
  <2> SUFFICES ASSUME ChatTypes, NoticeInv PROVE ToldOnce
    BY TypeParts DEF NoticesInv
  <2> QED
    BY DEF ChatTypes, NoticeInv, ToldOnce
<1> QED
  BY <1>1, NoticesSound, NoticesTypeCorrect, PTL

\* While a restart that a chat asked for is under way, every notice goes to that
\* chat or to one whose work is interrupted, however often processes die in
\* between.  (_notify_active_sessions_of_shutdown, start, stop)
THEOREM InChatRestartsStay == NoticesSpec => []InChatStaysInChat
<1>1. NoticesInv => InChatStaysInChat
  BY DEF NoticesInv, InChatInv
<1> QED
  BY <1>1, NoticesSound, PTL
=============================================================================
