------------------------- MODULE ReplyDeliveryProofs -------------------------
(* Type correctness of ReplyDelivery, that a saved original is what its card   *)
(* shows, that no card is left open untracked, that send() reports what        *)
(* happened and that a quoted message is found as itself: for any chats,       *)
(* messages, sends and edits, any cache size and any time.                     *)
EXTENDS ReplyDelivery, FiniteSetTheorems, SequenceTheorems, TLAPS

InTypes ==
  /\ conn \in {"up", "closing", "down"} /\ toClose \subseteq Chats
  /\ seen \subseteq Messages
  /\ context \in [Chats -> Messages \union {None}]
  /\ fired \subseteq Chats
  /\ done \in [Messages -> Nat]

HookTypes ==
  /\ webhooks \in Seq(Chats) /\ Len(webhooks) <= WebhookMax
  /\ stale \subseteq Chats

CallTypes ==
  /\ pc \in [Calls -> Places]
  /\ chat \in [Sends -> Chats \union {None}]
  /\ target \in [Edits -> Sends \union {None}]
  /\ final \subseteq Calls

CardTypes ==
  /\ siblings \in [Closers -> [Sends -> Calls \union {None}]]
  /\ streaming \in [Sends -> Calls \union {None}]
  /\ saved \in [Sends -> Calls \union {Blank, NoRow}]
  /\ shown \in [Sends -> Calls \union {Blank, None}]
  /\ open \subseteq Sends
  /\ carded \subseteq Calls
  /\ loose \subseteq Sends /\ raced \subseteq Sends

PostTypes ==
  /\ kept \subseteq Sends
  /\ began \in [Sends -> Times] /\ ended \in [Sends -> Times] /\ stamped \in [Sends -> Int]
  /\ wire \subseteq Sends /\ accepted \subseteq Sends /\ misread \subseteq Sends
  /\ now \in Times

LEMMA TypeParts == TypeOK <=> InTypes /\ HookTypes /\ CallTypes /\ CardTypes /\ PostTypes
  BY DEF TypeOK, InTypes, HookTypes, CallTypes, CardTypes, PostTypes

\* A send that has begun has a chat, and what disconnect is still to close are chats.
ChatInv == \A o \in Sends : pc[o] # "idle" => chat[o] \in Chats

UnderWay(e) == pc[e] \in Updating \union {"editing"}

\* Only cards whose send has returned are edited, one edit at a time.
EditsOfSent == \A e \in Edits : UnderWay(e) => target[e] \in Sends /\ pc[target[e]] = "delivered"
OneEdit == \A d, e \in Edits : UnderWay(d) /\ UnderWay(e) /\ target[d] = target[e] => d = e

\* Until its send returns, a card is neither stored nor tracked, and an update
\* that was carried out is the send's own.
UnsentUntouched ==
  \A c \in Sends : pc[c] # "delivered" => saved[c] = NoRow /\ streaming[c] = None /\ ~BeingClosed(c)
OwnText == \A s \in Sends : pc[s] = "applied" => shown[s] = s

EditInv == EditsOfSent /\ OneEdit /\ UnsentUntouched /\ OwnText

Base == TypeOK /\ ChatInv /\ EditInv

LEMMA CallsAre == Sends \subseteq Calls /\ Edits \subseteq Calls /\ Off \in Closers /\ Sends \subseteq Closers
  BY DEF Calls, Closers

-----------------------------------------------------------------------------
(* The initial states *)

LEMMA InitBase == Init => Base
<1> SUFFICES ASSUME Init PROVE Base
  OBVIOUS
<1>1. InTypes /\ CallTypes
  BY DEF Init, InTypes, CallTypes, Places
<1>2. HookTypes
  BY EmptySeq, DeliveryAssumption DEF Init, HookTypes
<1>3. CardTypes
  BY DEF Init, CardTypes, NoCards
<1>4. 0 \in Times
  BY DeliveryAssumption DEF Times
<1>5. PostTypes
  BY <1>4 DEF Init, PostTypes
<1>6. ChatInv
  BY DEF Init, ChatInv, Calls
<1>7. EditInv
  BY CallsAre DEF Init, EditInv, EditsOfSent, OneEdit, UnsentUntouched, OwnText, NoCards, BeingClosed, UnderWay, Updating
<1> QED
  BY <1>1, <1>2, <1>3, <1>5, <1>6, <1>7, TypeParts DEF Base

-----------------------------------------------------------------------------
(* Every step keeps the types *)

\* Taking one entry out of the cache leaves a cache.
LEMMA PopTypes ==
  ASSUME HookTypes, NEW i \in 1..Len(webhooks)
  PROVE  PopAt(webhooks, i) \in Seq(Chats) /\ Len(PopAt(webhooks, i)) <= WebhookMax
<1> DEFINE before == SubSeq(webhooks, 1, i - 1)
           after == SubSeq(webhooks, i + 1, Len(webhooks))
<1>1. Len(webhooks) \in Nat /\ i \in Nat
  BY LenProperties DEF HookTypes
<1>2. before \in Seq(Chats) /\ Len(before) = i - 1
  BY <1>1, SubSeqProperties DEF HookTypes
<1>3. after \in Seq(Chats) /\ Len(after) = Len(webhooks) - i
  BY <1>1, SubSeqProperties DEF HookTypes
<1>4. PopAt(webhooks, i) = before \o after
  BY DEF PopAt
<1> HIDE DEF before, after
<1>5. before \o after \in Seq(Chats) /\ Len(before \o after) = Len(before) + Len(after)
  BY <1>2, <1>3, ConcatProperties
<1> QED
  BY <1>1, <1>2, <1>3, <1>4, <1>5, DeliveryAssumption DEF HookTypes

\* So does remembering a chat, at the price of the oldest entry.
LEMMA RememberTypes ==
  ASSUME HookTypes, NEW ch \in Chats, Remember(ch)
  PROVE  HookTypes'
<1> DEFINE room == IF Len(webhooks) >= WebhookMax THEN Tail(webhooks) ELSE webhooks
<1>1. room \in Seq(Chats) /\ Len(room) < WebhookMax
  <2>1. CASE Len(webhooks) >= WebhookMax
    <3>1. webhooks # <<>>
      BY <2>1, DeliveryAssumption DEF HookTypes
    <3> QED
      BY <2>1, <3>1, HeadTailProperties, DeliveryAssumption DEF HookTypes
  <2>2. CASE ~(Len(webhooks) >= WebhookMax)
    BY <2>2, DeliveryAssumption DEF HookTypes
  <2> QED
    BY <2>1, <2>2
<1>2. Append(room, ch) \in Seq(Chats) /\ Len(Append(room, ch)) = Len(room) + 1
  BY <1>1, AppendProperties
<1>3. webhooks' \in {room, Append(room, ch)} /\ stale' = stale \ {ch}
  BY DEF Remember
<1> HIDE DEF room
<1>4. webhooks' \in Seq(Chats) /\ Len(webhooks') <= WebhookMax
  <2>1. CASE webhooks' = room
    BY <2>1, <1>1, DeliveryAssumption
  <2>2. CASE webhooks' = Append(room, ch)
    BY <2>2, <1>1, <1>2, DeliveryAssumption
  <2> QED
    BY <1>3, <2>1, <2>2
<1> QED
  BY <1>3, <1>4 DEF HookTypes


\* The reactions and the connection.
LEMMA InTypesKept ==
  ASSUME Base, [Next]_vars
  PROVE  InTypes'
<1>a. InTypes /\ HookTypes /\ CallTypes /\ CardTypes /\ PostTypes
  BY TypeParts DEF Base
<1>b. \A o \in Sends : pc[o] # "idle" => chat[o] \in Chats
  BY DEF Base, ChatInv
<1>c. \A e \in Edits : UnderWay(e) => target[e] \in Sends /\ chat[target[e]] \in Chats
  BY <1>b DEF Base, EditInv, EditsOfSent
<1>d. \A c \in Sends : streaming[c] # None => chat[c] \in Chats
  BY <1>b DEF Base, EditInv, UnsentUntouched
<1>1. ASSUME NEW m \in Messages, NEW hook \in BOOLEAN, Arrive(m, hook) PROVE InTypes'
  BY <1>1, <1>a, DeliveryAssumption DEF InTypes, Arrive, Remember, connVars, hookVars, callVars, rowVars, postVars, cardVars
<1>2. ASSUME NEW m \in Messages, Gated(m) PROVE InTypes'
  BY <1>2, <1>a DEF InTypes, Gated, connVars, hookVars, callVars, rowVars, postVars, cardVars
<1>3. ASSUME NEW ch \in Chats, WebhookExpires(ch) PROVE InTypes'
  BY <1>3, <1>a DEF InTypes, WebhookExpires, connVars, inVars, callVars, rowVars, postVars, cardVars
<1>4. ASSUME NEW o \in Sends, NEW ch \in Chats, NEW f \in BOOLEAN, SendRefused(o, ch, f) PROVE InTypes'
  BY <1>4, <1>a DEF InTypes, SendRefused, Begin, Goto, connVars, inVars, hookVars, rowVars, postVars, cardVars
<1>5. ASSUME NEW o \in Sends, NEW ch \in Chats, NEW f \in BOOLEAN, SendsCard(o, ch, f) PROVE InTypes'
  BY <1>5, <1>a DEF InTypes, SendsCard, Begin, TakeCards, Goto, connVars, inVars, hookVars, rowVars, postVars
<1>6. ASSUME NEW o \in Sends, NEW ch \in Chats, NEW f \in BOOLEAN, SendsPlain(o, ch, f) PROVE InTypes'
  BY <1>6, <1>a DEF InTypes, SendsPlain, Begin, Posts, Goto, connVars, inVars, hookVars, cardVars
<1>7. ASSUME NEW o \in Sends, SiblingsClosed(o) PROVE InTypes'
  BY <1>7, <1>a DEF InTypes, SiblingsClosed, Goto, connVars, inVars, hookVars, callVars, rowVars, postVars, cardVars
<1>8. ASSUME NEW o \in Sends, CardDelivered(o) PROVE InTypes'
  BY <1>8, <1>a DEF InTypes, CardDelivered, Goto, connVars, inVars, hookVars, callVars, rowVars, postVars
<1>9. ASSUME NEW o \in Sends, CardFails(o) PROVE InTypes'
  BY <1>9, <1>a DEF InTypes, CardFails, Posts, Goto, connVars, inVars, hookVars, callVars
<1>10. ASSUME NEW o \in Calls, UpdateApplied(o) PROVE InTypes'
  BY <1>10, <1>a DEF InTypes, UpdateApplied, CardOf, Goto, connVars, inVars, hookVars, callVars, rowVars, postVars
<1>11. ASSUME NEW o \in Sends, CardSent(o) PROVE InTypes'
  BY <1>11, <1>a, <1>b DEF InTypes, CardSent, RememberDelivery, Track, Late, Finish, FireDone, Goto, connVars, inVars, hookVars, callVars, rowVars, postVars
<1>12. ASSUME NEW o \in Sends, CardLost(o) PROVE InTypes'
  BY <1>12, <1>a DEF InTypes, CardLost, Posts, Goto, connVars, inVars, hookVars, callVars
<1>13. ASSUME NEW o \in Sends, Accept(o) PROVE InTypes'
  BY <1>13, <1>a DEF InTypes, Accept, connVars, inVars, hookVars, callVars, cardVars
<1>14. ASSUME NEW o \in Sends, Reject(o) PROVE InTypes'
  BY <1>14, <1>a DEF InTypes, Reject, connVars, inVars, hookVars, callVars, rowVars, cardVars
<1>15. ASSUME NEW o \in Sends, PostDelivered(o) PROVE InTypes'
  BY <1>15, <1>a, <1>b DEF InTypes, PostDelivered, RememberWebhook, Forget, Finish, FireDone, Goto, connVars, inVars, hookVars, callVars, postVars, cardVars
<1>16. ASSUME NEW o \in Sends, PostRejected(o) PROVE InTypes'
  BY <1>16, <1>a DEF InTypes, PostRejected, Forget, Goto, connVars, inVars, hookVars, callVars, rowVars, postVars, cardVars
<1>17. ASSUME NEW o \in Sends, PostMisread(o) PROVE InTypes'
  BY <1>17, <1>a DEF InTypes, PostMisread, Forget, Goto, connVars, inVars, hookVars, callVars, rowVars, cardVars
<1>18. ASSUME NEW o \in Sends, PostUnknown(o) PROVE InTypes'
  BY <1>18, <1>a DEF InTypes, PostUnknown, Forget, Goto, connVars, inVars, hookVars, callVars, rowVars, postVars, cardVars
<1>19. ASSUME NEW e \in Edits, NEW c \in Sends, NEW f \in BOOLEAN, Edit(e, c, f) PROVE InTypes'
  BY <1>19, <1>a DEF InTypes, Edit, Goto, connVars, inVars, hookVars, rowVars, postVars, cardVars
<1>20. ASSUME NEW e \in Edits, EditInvalidates(e) PROVE InTypes'
  BY <1>20, <1>a DEF InTypes, EditInvalidates, InvalidateContent, Goto, connVars, inVars, hookVars, callVars, rowVars, postVars
<1>21. ASSUME NEW e \in Edits, EditRefused(e) PROVE InTypes'
  BY <1>21, <1>a DEF InTypes, EditRefused, Goto, connVars, inVars, hookVars, callVars, rowVars, postVars, cardVars
<1>22. ASSUME NEW e \in Edits, EditDone(e) PROVE InTypes'
  BY <1>22, <1>a, <1>c DEF InTypes, CallTypes, EditDone, UpdateContent, Finish, FireDone, Goto, connVars, inVars, hookVars, callVars, rowVars, postVars, UnderWay, Updating
<1>23. ASSUME NEW e \in Edits, EditLost(e) PROVE InTypes'
  BY <1>23, <1>a DEF InTypes, EditLost, Goto, connVars, inVars, hookVars, callVars, rowVars, postVars
<1>24. ASSUME NEW x \in Closers, NEW c \in Sends, CloseSibling(x, c) PROVE InTypes'
  BY <1>24, <1>a DEF InTypes, CloseSibling, connVars, inVars, hookVars, callVars, rowVars, postVars
<1>25. ASSUME Disconnect PROVE InTypes'
  BY <1>25, <1>a, <1>d DEF InTypes, Disconnect, inVars, hookVars, callVars, rowVars, postVars, cardVars
<1>26. ASSUME Disconnected PROVE InTypes'
  BY <1>26, <1>a DEF InTypes, Disconnected, callVars, rowVars, postVars
<1>27. ASSUME Tick PROVE InTypes'
  BY <1>27, <1>a DEF InTypes, Tick, connVars, inVars, hookVars, callVars, rowVars, postVars, cardVars
<1>28. ASSUME NEW ch \in Chats, DisconnectTakes(ch) PROVE InTypes'
  BY <1>28, <1>a DEF InTypes, DisconnectTakes, TakeCards, inVars, hookVars, callVars, rowVars, postVars
<1>29. CASE UNCHANGED vars
  BY <1>29, <1>a DEF InTypes, vars, connVars, inVars, hookVars, callVars, rowVars, postVars, cardVars
<1> QED
  BY <1>1, <1>2, <1>3, <1>4, <1>5, <1>6, <1>7, <1>8, <1>9, <1>10, <1>11, <1>12, <1>13, <1>14, <1>15, <1>16, <1>17, <1>18, <1>19, <1>20, <1>21, <1>22, <1>23, <1>24, <1>25, <1>26, <1>27, <1>28, <1>29, CallsAre DEF Next, Inbound, StartSend, StepSend, StepEdit

\* The cache of webhooks.
LEMMA HookTypesKept ==
  ASSUME Base, [Next]_vars
  PROVE  HookTypes'
<1>a. InTypes /\ HookTypes /\ CallTypes /\ CardTypes /\ PostTypes
  BY TypeParts DEF Base
<1>1. ASSUME NEW m \in Messages, NEW hook \in BOOLEAN, Arrive(m, hook) PROVE HookTypes'
  BY <1>1, <1>a, RememberTypes, DeliveryAssumption DEF HookTypes, Arrive, hookVars
<1>2. ASSUME NEW m \in Messages, Gated(m) PROVE HookTypes'
  BY <1>2, <1>a DEF HookTypes, Gated, connVars, hookVars, callVars, rowVars, postVars, cardVars
<1>3. ASSUME NEW ch \in Chats, WebhookExpires(ch) PROVE HookTypes'
  BY <1>3, <1>a DEF HookTypes, WebhookExpires, connVars, inVars, callVars, rowVars, postVars, cardVars
<1>4. ASSUME NEW o \in Sends, NEW ch \in Chats, NEW f \in BOOLEAN, SendRefused(o, ch, f) PROVE HookTypes'
  BY <1>4, <1>a, PopTypes DEF HookTypes, SendRefused, hookVars
<1>5. ASSUME NEW o \in Sends, NEW ch \in Chats, NEW f \in BOOLEAN, SendsCard(o, ch, f) PROVE HookTypes'
  BY <1>5, <1>a DEF HookTypes, SendsCard, Begin, TakeCards, Goto, connVars, inVars, hookVars, rowVars, postVars
<1>6. ASSUME NEW o \in Sends, NEW ch \in Chats, NEW f \in BOOLEAN, SendsPlain(o, ch, f) PROVE HookTypes'
  BY <1>6, <1>a DEF HookTypes, SendsPlain, Begin, Posts, Goto, connVars, inVars, hookVars, cardVars
<1>7. ASSUME NEW o \in Sends, SiblingsClosed(o) PROVE HookTypes'
  BY <1>7, <1>a DEF HookTypes, SiblingsClosed, Goto, connVars, inVars, hookVars, callVars, rowVars, postVars, cardVars
<1>8. ASSUME NEW o \in Sends, CardDelivered(o) PROVE HookTypes'
  BY <1>8, <1>a DEF HookTypes, CardDelivered, Goto, connVars, inVars, hookVars, callVars, rowVars, postVars
<1>9. ASSUME NEW o \in Sends, CardFails(o) PROVE HookTypes'
  BY <1>9, <1>a DEF HookTypes, CardFails, Posts, Goto, connVars, inVars, hookVars, callVars
<1>10. ASSUME NEW o \in Calls, UpdateApplied(o) PROVE HookTypes'
  BY <1>10, <1>a DEF HookTypes, UpdateApplied, CardOf, Goto, connVars, inVars, hookVars, callVars, rowVars, postVars
<1>11. ASSUME NEW o \in Sends, CardSent(o) PROVE HookTypes'
  BY <1>11, <1>a DEF HookTypes, CardSent, RememberDelivery, Track, Late, Finish, FireDone, Goto, connVars, inVars, hookVars, callVars, rowVars, postVars
<1>12. ASSUME NEW o \in Sends, CardLost(o) PROVE HookTypes'
  BY <1>12, <1>a DEF HookTypes, CardLost, Posts, Goto, connVars, inVars, hookVars, callVars
<1>13. ASSUME NEW o \in Sends, Accept(o) PROVE HookTypes'
  BY <1>13, <1>a DEF HookTypes, Accept, connVars, inVars, hookVars, callVars, cardVars
<1>14. ASSUME NEW o \in Sends, Reject(o) PROVE HookTypes'
  BY <1>14, <1>a DEF HookTypes, Reject, connVars, inVars, hookVars, callVars, rowVars, cardVars
<1>15. ASSUME NEW o \in Sends, PostDelivered(o) PROVE HookTypes'
  BY <1>15, <1>a DEF HookTypes, PostDelivered, RememberWebhook, Forget, Finish, FireDone, Goto, connVars, inVars, hookVars, callVars, postVars, cardVars
<1>16. ASSUME NEW o \in Sends, PostRejected(o) PROVE HookTypes'
  BY <1>16, <1>a DEF HookTypes, PostRejected, Forget, Goto, connVars, inVars, hookVars, callVars, rowVars, postVars, cardVars
<1>17. ASSUME NEW o \in Sends, PostMisread(o) PROVE HookTypes'
  BY <1>17, <1>a DEF HookTypes, PostMisread, Forget, Goto, connVars, inVars, hookVars, callVars, rowVars, cardVars
<1>18. ASSUME NEW o \in Sends, PostUnknown(o) PROVE HookTypes'
  BY <1>18, <1>a DEF HookTypes, PostUnknown, Forget, Goto, connVars, inVars, hookVars, callVars, rowVars, postVars, cardVars
<1>19. ASSUME NEW e \in Edits, NEW c \in Sends, NEW f \in BOOLEAN, Edit(e, c, f) PROVE HookTypes'
  BY <1>19, <1>a DEF HookTypes, Edit, Goto, connVars, inVars, hookVars, rowVars, postVars, cardVars
<1>20. ASSUME NEW e \in Edits, EditInvalidates(e) PROVE HookTypes'
  BY <1>20, <1>a DEF HookTypes, EditInvalidates, InvalidateContent, Goto, connVars, inVars, hookVars, callVars, rowVars, postVars
<1>21. ASSUME NEW e \in Edits, EditRefused(e) PROVE HookTypes'
  BY <1>21, <1>a DEF HookTypes, EditRefused, Goto, connVars, inVars, hookVars, callVars, rowVars, postVars, cardVars
<1>22. ASSUME NEW e \in Edits, EditDone(e) PROVE HookTypes'
  BY <1>22, <1>a DEF HookTypes, EditDone, UpdateContent, Track, Late, Finish, FireDone, Goto, connVars, inVars, hookVars, callVars, rowVars, postVars
<1>23. ASSUME NEW e \in Edits, EditLost(e) PROVE HookTypes'
  BY <1>23, <1>a DEF HookTypes, EditLost, Goto, connVars, inVars, hookVars, callVars, rowVars, postVars
<1>24. ASSUME NEW x \in Closers, NEW c \in Sends, CloseSibling(x, c) PROVE HookTypes'
  BY <1>24, <1>a DEF HookTypes, CloseSibling, connVars, inVars, hookVars, callVars, rowVars, postVars
<1>25. ASSUME Disconnect PROVE HookTypes'
  BY <1>25, <1>a DEF HookTypes, Disconnect, inVars, hookVars, callVars, rowVars, postVars, cardVars
<1>26. ASSUME Disconnected PROVE HookTypes'
  BY <1>26, <1>a, EmptySeq, DeliveryAssumption DEF HookTypes, Disconnected
<1>27. ASSUME Tick PROVE HookTypes'
  BY <1>27, <1>a DEF HookTypes, Tick, connVars, inVars, hookVars, callVars, rowVars, postVars, cardVars
<1>28. ASSUME NEW ch \in Chats, DisconnectTakes(ch) PROVE HookTypes'
  BY <1>28, <1>a DEF HookTypes, DisconnectTakes, TakeCards, inVars, hookVars, callVars, rowVars, postVars
<1>29. CASE UNCHANGED vars
  BY <1>29, <1>a DEF HookTypes, vars, connVars, inVars, hookVars, callVars, rowVars, postVars, cardVars
<1> QED
  BY <1>1, <1>2, <1>3, <1>4, <1>5, <1>6, <1>7, <1>8, <1>9, <1>10, <1>11, <1>12, <1>13, <1>14, <1>15, <1>16, <1>17, <1>18, <1>19, <1>20, <1>21, <1>22, <1>23, <1>24, <1>25, <1>26, <1>27, <1>28, <1>29, CallsAre DEF Next, Inbound, StartSend, StepSend, StepEdit

\* The calls.
LEMMA CallTypesKept ==
  ASSUME Base, [Next]_vars
  PROVE  CallTypes'
<1>a. InTypes /\ HookTypes /\ CallTypes /\ CardTypes /\ PostTypes
  BY TypeParts DEF Base
<1>1. ASSUME NEW m \in Messages, NEW hook \in BOOLEAN, Arrive(m, hook) PROVE CallTypes'
  BY <1>1, <1>a DEF CallTypes, Arrive, Remember, connVars, hookVars, callVars, rowVars, postVars, cardVars
<1>2. ASSUME NEW m \in Messages, Gated(m) PROVE CallTypes'
  BY <1>2, <1>a DEF CallTypes, Gated, connVars, hookVars, callVars, rowVars, postVars, cardVars
<1>3. ASSUME NEW ch \in Chats, WebhookExpires(ch) PROVE CallTypes'
  BY <1>3, <1>a DEF CallTypes, WebhookExpires, connVars, inVars, callVars, rowVars, postVars, cardVars
<1>4. ASSUME NEW o \in Sends, NEW ch \in Chats, NEW f \in BOOLEAN, SendRefused(o, ch, f) PROVE CallTypes'
  BY <1>4, <1>a, CallsAre DEF CallTypes, SendRefused, Begin, Goto, connVars, inVars, hookVars, rowVars, postVars, cardVars, Places, Updating
<1>5. ASSUME NEW o \in Sends, NEW ch \in Chats, NEW f \in BOOLEAN, SendsCard(o, ch, f) PROVE CallTypes'
  BY <1>5, <1>a, CallsAre DEF CallTypes, SendsCard, Begin, TakeCards, Goto, connVars, inVars, hookVars, rowVars, postVars, Places, Updating
<1>6. ASSUME NEW o \in Sends, NEW ch \in Chats, NEW f \in BOOLEAN, SendsPlain(o, ch, f) PROVE CallTypes'
  BY <1>6, <1>a, CallsAre DEF CallTypes, SendsPlain, Begin, Posts, Goto, connVars, inVars, hookVars, cardVars, Places, Updating
<1>7. ASSUME NEW o \in Sends, SiblingsClosed(o) PROVE CallTypes'
  BY <1>7, <1>a, CallsAre DEF CallTypes, SiblingsClosed, Goto, connVars, inVars, hookVars, callVars, rowVars, postVars, cardVars, Places, Updating
<1>8. ASSUME NEW o \in Sends, CardDelivered(o) PROVE CallTypes'
  BY <1>8, <1>a, CallsAre DEF CallTypes, CardDelivered, Goto, connVars, inVars, hookVars, callVars, rowVars, postVars, Places, Updating
<1>9. ASSUME NEW o \in Sends, CardFails(o) PROVE CallTypes'
  BY <1>9, <1>a, CallsAre DEF CallTypes, CardFails, Posts, Goto, connVars, inVars, hookVars, callVars, Places, Updating
<1>10. ASSUME NEW o \in Calls, UpdateApplied(o) PROVE CallTypes'
  BY <1>10, <1>a, CallsAre DEF CallTypes, UpdateApplied, CardOf, Goto, connVars, inVars, hookVars, callVars, rowVars, postVars, Places, Updating
<1>11. ASSUME NEW o \in Sends, CardSent(o) PROVE CallTypes'
  BY <1>11, <1>a, CallsAre DEF CallTypes, CardSent, RememberDelivery, Track, Late, Finish, FireDone, Goto, connVars, inVars, hookVars, callVars, rowVars, postVars, Places, Updating
<1>12. ASSUME NEW o \in Sends, CardLost(o) PROVE CallTypes'
  BY <1>12, <1>a, CallsAre DEF CallTypes, CardLost, Posts, Goto, connVars, inVars, hookVars, callVars, Places, Updating
<1>13. ASSUME NEW o \in Sends, Accept(o) PROVE CallTypes'
  BY <1>13, <1>a DEF CallTypes, Accept, connVars, inVars, hookVars, callVars, cardVars
<1>14. ASSUME NEW o \in Sends, Reject(o) PROVE CallTypes'
  BY <1>14, <1>a DEF CallTypes, Reject, connVars, inVars, hookVars, callVars, rowVars, cardVars
<1>15. ASSUME NEW o \in Sends, PostDelivered(o) PROVE CallTypes'
  BY <1>15, <1>a, CallsAre DEF CallTypes, PostDelivered, RememberWebhook, Forget, Finish, FireDone, Goto, connVars, inVars, hookVars, callVars, postVars, cardVars, Places, Updating
<1>16. ASSUME NEW o \in Sends, PostRejected(o) PROVE CallTypes'
  BY <1>16, <1>a, CallsAre DEF CallTypes, PostRejected, Forget, Goto, connVars, inVars, hookVars, callVars, rowVars, postVars, cardVars, Places, Updating
<1>17. ASSUME NEW o \in Sends, PostMisread(o) PROVE CallTypes'
  BY <1>17, <1>a, CallsAre DEF CallTypes, PostMisread, Forget, Goto, connVars, inVars, hookVars, callVars, rowVars, cardVars, Places, Updating
<1>18. ASSUME NEW o \in Sends, PostUnknown(o) PROVE CallTypes'
  BY <1>18, <1>a, CallsAre DEF CallTypes, PostUnknown, Forget, Goto, connVars, inVars, hookVars, callVars, rowVars, postVars, cardVars, Places, Updating
<1>19. ASSUME NEW e \in Edits, NEW c \in Sends, NEW f \in BOOLEAN, Edit(e, c, f) PROVE CallTypes'
  BY <1>19, <1>a, CallsAre DEF CallTypes, Edit, Goto, connVars, inVars, hookVars, rowVars, postVars, cardVars, Places, Updating
<1>20. ASSUME NEW e \in Edits, EditInvalidates(e) PROVE CallTypes'
  BY <1>20, <1>a, CallsAre DEF CallTypes, EditInvalidates, InvalidateContent, Goto, connVars, inVars, hookVars, callVars, rowVars, postVars, Places, Updating
<1>21. ASSUME NEW e \in Edits, EditRefused(e) PROVE CallTypes'
  BY <1>21, <1>a, CallsAre DEF CallTypes, EditRefused, Goto, connVars, inVars, hookVars, callVars, rowVars, postVars, cardVars, Places, Updating
<1>22. ASSUME NEW e \in Edits, EditDone(e) PROVE CallTypes'
  BY <1>22, <1>a, CallsAre DEF CallTypes, EditDone, UpdateContent, Track, Late, Finish, FireDone, Goto, connVars, inVars, hookVars, callVars, rowVars, postVars, Places, Updating
<1>23. ASSUME NEW e \in Edits, EditLost(e) PROVE CallTypes'
  BY <1>23, <1>a, CallsAre DEF CallTypes, EditLost, Goto, connVars, inVars, hookVars, callVars, rowVars, postVars, Places, Updating
<1>24. ASSUME NEW x \in Closers, NEW c \in Sends, CloseSibling(x, c) PROVE CallTypes'
  BY <1>24, <1>a DEF CallTypes, CloseSibling, connVars, inVars, hookVars, callVars, rowVars, postVars
<1>25. ASSUME Disconnect PROVE CallTypes'
  BY <1>25, <1>a DEF CallTypes, Disconnect, inVars, hookVars, callVars, rowVars, postVars, cardVars
<1>26. ASSUME Disconnected PROVE CallTypes'
  BY <1>26, <1>a DEF CallTypes, Disconnected, callVars, rowVars, postVars
<1>27. ASSUME Tick PROVE CallTypes'
  BY <1>27, <1>a DEF CallTypes, Tick, connVars, inVars, hookVars, callVars, rowVars, postVars, cardVars
<1>28. ASSUME NEW ch \in Chats, DisconnectTakes(ch) PROVE CallTypes'
  BY <1>28, <1>a DEF CallTypes, DisconnectTakes, TakeCards, inVars, hookVars, callVars, rowVars, postVars
<1>29. CASE UNCHANGED vars
  BY <1>29, <1>a DEF CallTypes, vars, connVars, inVars, hookVars, callVars, rowVars, postVars, cardVars
<1> QED
  BY <1>1, <1>2, <1>3, <1>4, <1>5, <1>6, <1>7, <1>8, <1>9, <1>10, <1>11, <1>12, <1>13, <1>14, <1>15, <1>16, <1>17, <1>18, <1>19, <1>20, <1>21, <1>22, <1>23, <1>24, <1>25, <1>26, <1>27, <1>28, <1>29, CallsAre DEF Next, Inbound, StartSend, StepSend, StepEdit

\* The cards and their originals.
LEMMA CardTypesKept ==
  ASSUME Base, [Next]_vars
  PROVE  CardTypes'
<1>a. InTypes /\ HookTypes /\ CallTypes /\ CardTypes /\ PostTypes
  BY TypeParts DEF Base
<1>b. \A o \in Sends : pc[o] # "idle" => chat[o] \in Chats
  BY DEF Base, ChatInv
<1>c. \A e \in Edits : UnderWay(e) => target[e] \in Sends /\ chat[target[e]] \in Chats
  BY <1>b DEF Base, EditInv, EditsOfSent
<1>d. \A c \in Sends : streaming[c] # None => chat[c] \in Chats
  BY <1>b DEF Base, EditInv, UnsentUntouched
<1>1. ASSUME NEW m \in Messages, NEW hook \in BOOLEAN, Arrive(m, hook) PROVE CardTypes'
  BY <1>1, <1>a DEF CardTypes, Arrive, Remember, connVars, hookVars, callVars, rowVars, postVars, cardVars
<1>2. ASSUME NEW m \in Messages, Gated(m) PROVE CardTypes'
  BY <1>2, <1>a DEF CardTypes, Gated, connVars, hookVars, callVars, rowVars, postVars, cardVars
<1>3. ASSUME NEW ch \in Chats, WebhookExpires(ch) PROVE CardTypes'
  BY <1>3, <1>a DEF CardTypes, WebhookExpires, connVars, inVars, callVars, rowVars, postVars, cardVars
<1>4. ASSUME NEW o \in Sends, NEW ch \in Chats, NEW f \in BOOLEAN, SendRefused(o, ch, f) PROVE CardTypes'
  BY <1>4, <1>a DEF CardTypes, SendRefused, Begin, Goto, connVars, inVars, hookVars, rowVars, postVars, cardVars
<1>5. ASSUME NEW o \in Sends, NEW ch \in Chats, NEW f \in BOOLEAN, SendsCard(o, ch, f) PROVE CardTypes'
  BY <1>5, <1>a, CallsAre DEF CardTypes, SendsCard, Begin, TakeCards, Goto, connVars, inVars, hookVars, rowVars, postVars
<1>6. ASSUME NEW o \in Sends, NEW ch \in Chats, NEW f \in BOOLEAN, SendsPlain(o, ch, f) PROVE CardTypes'
  BY <1>6, <1>a DEF CardTypes, SendsPlain, Begin, Posts, Goto, connVars, inVars, hookVars, cardVars
<1>7. ASSUME NEW o \in Sends, SiblingsClosed(o) PROVE CardTypes'
  BY <1>7, <1>a DEF CardTypes, SiblingsClosed, Goto, connVars, inVars, hookVars, callVars, rowVars, postVars, cardVars
<1>8. ASSUME NEW o \in Sends, CardDelivered(o) PROVE CardTypes'
  BY <1>8, <1>a, CallsAre DEF CardTypes, CardDelivered, Goto, connVars, inVars, hookVars, callVars, rowVars, postVars
<1>9. ASSUME NEW o \in Sends, CardFails(o) PROVE CardTypes'
  BY <1>9, <1>a, CallsAre DEF CardTypes, CardFails, Posts, Goto, connVars, inVars, hookVars, callVars
<1>10. ASSUME NEW o \in Calls, UpdateApplied(o) PROVE CardTypes'
  <2>1. CardOf(o) \in Sends
    BY <1>10, <1>c DEF UpdateApplied, CardOf, UnderWay, Updating, Calls
  <2> QED
    BY <1>10, <2>1, <1>a DEF CardTypes, UpdateApplied, Goto, connVars, inVars, hookVars, callVars, rowVars, postVars
<1>11. ASSUME NEW o \in Sends, CardSent(o) PROVE CardTypes'
  BY <1>11, <1>a, CallsAre DEF CardTypes, CardSent, RememberDelivery, Track, Late, Finish, FireDone, Goto, connVars, inVars, hookVars, callVars, rowVars, postVars
<1>12. ASSUME NEW o \in Sends, CardLost(o) PROVE CardTypes'
  BY <1>12, <1>a, CallsAre DEF CardTypes, CardLost, Posts, Goto, connVars, inVars, hookVars, callVars
<1>13. ASSUME NEW o \in Sends, Accept(o) PROVE CardTypes'
  BY <1>13, <1>a DEF CardTypes, Accept, connVars, inVars, hookVars, callVars, cardVars
<1>14. ASSUME NEW o \in Sends, Reject(o) PROVE CardTypes'
  BY <1>14, <1>a DEF CardTypes, Reject, connVars, inVars, hookVars, callVars, rowVars, cardVars
<1>15. ASSUME NEW o \in Sends, PostDelivered(o) PROVE CardTypes'
  BY <1>15, <1>a DEF CardTypes, PostDelivered, RememberWebhook, Forget, Finish, FireDone, Goto, connVars, inVars, hookVars, callVars, postVars, cardVars
<1>16. ASSUME NEW o \in Sends, PostRejected(o) PROVE CardTypes'
  BY <1>16, <1>a DEF CardTypes, PostRejected, Forget, Goto, connVars, inVars, hookVars, callVars, rowVars, postVars, cardVars
<1>17. ASSUME NEW o \in Sends, PostMisread(o) PROVE CardTypes'
  BY <1>17, <1>a DEF CardTypes, PostMisread, Forget, Goto, connVars, inVars, hookVars, callVars, rowVars, cardVars
<1>18. ASSUME NEW o \in Sends, PostUnknown(o) PROVE CardTypes'
  BY <1>18, <1>a DEF CardTypes, PostUnknown, Forget, Goto, connVars, inVars, hookVars, callVars, rowVars, postVars, cardVars
<1>19. ASSUME NEW e \in Edits, NEW c \in Sends, NEW f \in BOOLEAN, Edit(e, c, f) PROVE CardTypes'
  BY <1>19, <1>a DEF CardTypes, Edit, Goto, connVars, inVars, hookVars, rowVars, postVars, cardVars
<1>20. ASSUME NEW e \in Edits, EditInvalidates(e) PROVE CardTypes'
  <2>1. target[e] \in Sends
    BY <1>20, <1>c DEF EditInvalidates, InvalidateContent, UnderWay, Updating
  <2> QED
    BY <1>20, <2>1, <1>a, CallsAre DEF CardTypes, EditInvalidates, InvalidateContent, Goto, connVars, inVars, hookVars, callVars, rowVars, postVars
<1>21. ASSUME NEW e \in Edits, EditRefused(e) PROVE CardTypes'
  BY <1>21, <1>a DEF CardTypes, EditRefused, Goto, connVars, inVars, hookVars, callVars, rowVars, postVars, cardVars
<1>22. ASSUME NEW e \in Edits, EditDone(e) PROVE CardTypes'
  <2>1. target[e] \in Sends
    BY <1>22, <1>c DEF EditDone, UpdateContent, UnderWay, Updating
  <2> QED
    BY <1>22, <2>1, <1>a, CallsAre DEF CardTypes, EditDone, UpdateContent, Track, Late, Goto, connVars, hookVars, callVars, rowVars, postVars
<1>23. ASSUME NEW e \in Edits, EditLost(e) PROVE CardTypes'
  <2>1. target[e] \in Sends
    BY <1>23, <1>c DEF EditLost, UnderWay, Updating
  <2> QED
    BY <1>23, <2>1, <1>a, CallsAre DEF CardTypes, EditLost, Goto, connVars, inVars, hookVars, callVars, rowVars, postVars
<1>24. ASSUME NEW x \in Closers, NEW c \in Sends, CloseSibling(x, c) PROVE CardTypes'
  BY <1>24, <1>a, CallsAre DEF CardTypes, CloseSibling, connVars, inVars, hookVars, callVars, rowVars, postVars
<1>25. ASSUME Disconnect PROVE CardTypes'
  BY <1>25, <1>a DEF CardTypes, Disconnect, inVars, hookVars, callVars, rowVars, postVars, cardVars
<1>26. ASSUME Disconnected PROVE CardTypes'
  BY <1>26, <1>a DEF CardTypes, NoCards, Disconnected, callVars, rowVars, postVars
<1>27. ASSUME Tick PROVE CardTypes'
  BY <1>27, <1>a DEF CardTypes, Tick, connVars, inVars, hookVars, callVars, rowVars, postVars, cardVars
<1>28. ASSUME NEW ch \in Chats, DisconnectTakes(ch) PROVE CardTypes'
  BY <1>28, <1>a, CallsAre DEF CardTypes, DisconnectTakes, TakeCards, inVars, hookVars, callVars, rowVars, postVars
<1>29. CASE UNCHANGED vars
  BY <1>29, <1>a DEF CardTypes, vars, connVars, inVars, hookVars, callVars, rowVars, postVars, cardVars
<1> QED
  BY <1>1, <1>2, <1>3, <1>4, <1>5, <1>6, <1>7, <1>8, <1>9, <1>10, <1>11, <1>12, <1>13, <1>14, <1>15, <1>16, <1>17, <1>18, <1>19, <1>20, <1>21, <1>22, <1>23, <1>24, <1>25, <1>26, <1>27, <1>28, <1>29, CallsAre DEF Next, Inbound, StartSend, StepSend, StepEdit

\* The webhook requests.
LEMMA PostTypesKept ==
  ASSUME Base, [Next]_vars
  PROVE  PostTypes'
<1>a. InTypes /\ HookTypes /\ CallTypes /\ CardTypes /\ PostTypes
  BY TypeParts DEF Base
<1>t. 0 \in Times /\ now \in Int /\ \A k \in -Skew..Skew : now + k \in Int
  BY <1>a, DeliveryAssumption DEF PostTypes, Times
<1>1. ASSUME NEW m \in Messages, NEW hook \in BOOLEAN, Arrive(m, hook) PROVE PostTypes'
  BY <1>1, <1>a DEF PostTypes, Arrive, Remember, connVars, hookVars, callVars, rowVars, postVars, cardVars
<1>2. ASSUME NEW m \in Messages, Gated(m) PROVE PostTypes'
  BY <1>2, <1>a DEF PostTypes, Gated, connVars, hookVars, callVars, rowVars, postVars, cardVars
<1>3. ASSUME NEW ch \in Chats, WebhookExpires(ch) PROVE PostTypes'
  BY <1>3, <1>a DEF PostTypes, WebhookExpires, connVars, inVars, callVars, rowVars, postVars, cardVars
<1>4. ASSUME NEW o \in Sends, NEW ch \in Chats, NEW f \in BOOLEAN, SendRefused(o, ch, f) PROVE PostTypes'
  BY <1>4, <1>a DEF PostTypes, SendRefused, Begin, Goto, connVars, inVars, hookVars, rowVars, postVars, cardVars
<1>5. ASSUME NEW o \in Sends, NEW ch \in Chats, NEW f \in BOOLEAN, SendsCard(o, ch, f) PROVE PostTypes'
  BY <1>5, <1>a DEF PostTypes, SendsCard, Begin, TakeCards, Goto, connVars, inVars, hookVars, rowVars, postVars
<1>6. ASSUME NEW o \in Sends, NEW ch \in Chats, NEW f \in BOOLEAN, SendsPlain(o, ch, f) PROVE PostTypes'
  BY <1>6, <1>a DEF PostTypes, SendsPlain, Begin, Posts, Goto, connVars, inVars, hookVars, cardVars
<1>7. ASSUME NEW o \in Sends, SiblingsClosed(o) PROVE PostTypes'
  BY <1>7, <1>a DEF PostTypes, SiblingsClosed, Goto, connVars, inVars, hookVars, callVars, rowVars, postVars, cardVars
<1>8. ASSUME NEW o \in Sends, CardDelivered(o) PROVE PostTypes'
  BY <1>8, <1>a DEF PostTypes, CardDelivered, Goto, connVars, inVars, hookVars, callVars, rowVars, postVars
<1>9. ASSUME NEW o \in Sends, CardFails(o) PROVE PostTypes'
  BY <1>9, <1>a DEF PostTypes, CardFails, Posts, Goto, connVars, inVars, hookVars, callVars
<1>10. ASSUME NEW o \in Calls, UpdateApplied(o) PROVE PostTypes'
  BY <1>10, <1>a DEF PostTypes, UpdateApplied, CardOf, Goto, connVars, inVars, hookVars, callVars, rowVars, postVars
<1>11. ASSUME NEW o \in Sends, CardSent(o) PROVE PostTypes'
  BY <1>11, <1>a DEF PostTypes, CardSent, RememberDelivery, Track, Late, Finish, FireDone, Goto, connVars, inVars, hookVars, callVars, rowVars, postVars
<1>12. ASSUME NEW o \in Sends, CardLost(o) PROVE PostTypes'
  BY <1>12, <1>a DEF PostTypes, CardLost, Posts, Goto, connVars, inVars, hookVars, callVars
<1>13. ASSUME NEW o \in Sends, Accept(o) PROVE PostTypes'
  BY <1>13, <1>a, <1>t DEF PostTypes, Accept, connVars, inVars, hookVars, callVars, cardVars
<1>14. ASSUME NEW o \in Sends, Reject(o) PROVE PostTypes'
  BY <1>14, <1>a DEF PostTypes, Reject, connVars, inVars, hookVars, callVars, rowVars, cardVars
<1>15. ASSUME NEW o \in Sends, PostDelivered(o) PROVE PostTypes'
  BY <1>15, <1>a, <1>t DEF PostTypes, PostDelivered, RememberWebhook, Forget, Finish, FireDone, Goto, connVars, inVars, hookVars, callVars, postVars, cardVars
<1>16. ASSUME NEW o \in Sends, PostRejected(o) PROVE PostTypes'
  BY <1>16, <1>a, <1>t DEF PostTypes, PostRejected, Forget, Goto, connVars, inVars, hookVars, callVars, rowVars, postVars, cardVars
<1>17. ASSUME NEW o \in Sends, PostMisread(o) PROVE PostTypes'
  BY <1>17, <1>a, <1>t DEF PostTypes, PostMisread, Forget, Goto, connVars, inVars, hookVars, callVars, rowVars, cardVars
<1>18. ASSUME NEW o \in Sends, PostUnknown(o) PROVE PostTypes'
  BY <1>18, <1>a, <1>t DEF PostTypes, PostUnknown, Forget, Goto, connVars, inVars, hookVars, callVars, rowVars, postVars, cardVars
<1>19. ASSUME NEW e \in Edits, NEW c \in Sends, NEW f \in BOOLEAN, Edit(e, c, f) PROVE PostTypes'
  BY <1>19, <1>a DEF PostTypes, Edit, Goto, connVars, inVars, hookVars, rowVars, postVars, cardVars
<1>20. ASSUME NEW e \in Edits, EditInvalidates(e) PROVE PostTypes'
  BY <1>20, <1>a DEF PostTypes, EditInvalidates, InvalidateContent, Goto, connVars, inVars, hookVars, callVars, rowVars, postVars
<1>21. ASSUME NEW e \in Edits, EditRefused(e) PROVE PostTypes'
  BY <1>21, <1>a DEF PostTypes, EditRefused, Goto, connVars, inVars, hookVars, callVars, rowVars, postVars, cardVars
<1>22. ASSUME NEW e \in Edits, EditDone(e) PROVE PostTypes'
  BY <1>22, <1>a DEF PostTypes, EditDone, UpdateContent, Track, Late, Finish, FireDone, Goto, connVars, inVars, hookVars, callVars, rowVars, postVars
<1>23. ASSUME NEW e \in Edits, EditLost(e) PROVE PostTypes'
  BY <1>23, <1>a DEF PostTypes, EditLost, Goto, connVars, inVars, hookVars, callVars, rowVars, postVars
<1>24. ASSUME NEW x \in Closers, NEW c \in Sends, CloseSibling(x, c) PROVE PostTypes'
  BY <1>24, <1>a DEF PostTypes, CloseSibling, connVars, inVars, hookVars, callVars, rowVars, postVars
<1>25. ASSUME Disconnect PROVE PostTypes'
  BY <1>25, <1>a DEF PostTypes, Disconnect, inVars, hookVars, callVars, rowVars, postVars, cardVars
<1>26. ASSUME Disconnected PROVE PostTypes'
  BY <1>26, <1>a DEF PostTypes, Disconnected, callVars, rowVars, postVars
<1>27. ASSUME Tick PROVE PostTypes'
  BY <1>27, <1>a, DeliveryAssumption DEF PostTypes, Times, Tick, connVars, inVars, hookVars, callVars, rowVars, postVars, cardVars
<1>28. ASSUME NEW ch \in Chats, DisconnectTakes(ch) PROVE PostTypes'
  BY <1>28, <1>a DEF PostTypes, DisconnectTakes, TakeCards, inVars, hookVars, callVars, rowVars, postVars
<1>29. CASE UNCHANGED vars
  BY <1>29, <1>a DEF PostTypes, vars, connVars, inVars, hookVars, callVars, rowVars, postVars, cardVars
<1> QED
  BY <1>1, <1>2, <1>3, <1>4, <1>5, <1>6, <1>7, <1>8, <1>9, <1>10, <1>11, <1>12, <1>13, <1>14, <1>15, <1>16, <1>17, <1>18, <1>19, <1>20, <1>21, <1>22, <1>23, <1>24, <1>25, <1>26, <1>27, <1>28, <1>29, CallsAre DEF Next, Inbound, StartSend, StepSend, StepEdit

-----------------------------------------------------------------------------
(* Every step keeps the invariant *)

\* Sends that have begun have a chat.
LEMMA ChatInvKept ==
  ASSUME Base, [Next]_vars
  PROVE  ChatInv'
<1>a. CallTypes /\ CardTypes
  BY TypeParts DEF Base
<1>b. ChatInv /\ EditsOfSent /\ OneEdit /\ UnsentUntouched /\ OwnText
  BY DEF Base, EditInv
<1>1. ASSUME NEW m \in Messages, NEW hook \in BOOLEAN, Arrive(m, hook) PROVE ChatInv'
  BY <1>1, <1>a, <1>b, CallsAre, DeliveryAssumption DEF ChatInv, Updating, CallTypes, CardTypes, Arrive, connVars, hookVars, callVars, rowVars, postVars, cardVars
<1>2. ASSUME NEW m \in Messages, Gated(m) PROVE ChatInv'
  BY <1>2, <1>a, <1>b, CallsAre, DeliveryAssumption DEF ChatInv, Updating, CallTypes, CardTypes, Gated, connVars, hookVars, callVars, rowVars, postVars, cardVars
<1>3. ASSUME NEW ch \in Chats, WebhookExpires(ch) PROVE ChatInv'
  BY <1>3, <1>a, <1>b, CallsAre, DeliveryAssumption DEF ChatInv, Updating, CallTypes, CardTypes, WebhookExpires, connVars, inVars, callVars, rowVars, postVars, cardVars
<1>4. ASSUME NEW o \in Sends, NEW ch \in Chats, NEW f \in BOOLEAN, SendRefused(o, ch, f) PROVE ChatInv'
  BY <1>4, <1>a, <1>b, CallsAre, DeliveryAssumption DEF ChatInv, Updating, CallTypes, CardTypes, SendRefused, Begin, Goto, connVars, inVars, hookVars, rowVars, postVars, cardVars
<1>5. ASSUME NEW o \in Sends, NEW ch \in Chats, NEW f \in BOOLEAN, SendsCard(o, ch, f) PROVE ChatInv'
  BY <1>5, <1>a, <1>b, CallsAre, DeliveryAssumption DEF ChatInv, Updating, CallTypes, CardTypes, SendsCard, Begin, TakeCards, Goto, connVars, inVars, hookVars, rowVars, postVars
<1>6. ASSUME NEW o \in Sends, NEW ch \in Chats, NEW f \in BOOLEAN, SendsPlain(o, ch, f) PROVE ChatInv'
  BY <1>6, <1>a, <1>b, CallsAre, DeliveryAssumption DEF ChatInv, Updating, CallTypes, CardTypes, SendsPlain, Begin, Posts, Goto, connVars, inVars, hookVars, cardVars
<1>7. ASSUME NEW o \in Sends, SiblingsClosed(o) PROVE ChatInv'
  BY <1>7, <1>a, <1>b, CallsAre, DeliveryAssumption DEF ChatInv, Updating, CallTypes, CardTypes, SiblingsClosed, Goto, connVars, inVars, hookVars, callVars, rowVars, postVars, cardVars
<1>8. ASSUME NEW o \in Sends, CardDelivered(o) PROVE ChatInv'
  BY <1>8, <1>a, <1>b, CallsAre, DeliveryAssumption DEF ChatInv, Updating, CallTypes, CardTypes, CardDelivered, Goto, connVars, inVars, hookVars, callVars, rowVars, postVars
<1>9. ASSUME NEW o \in Sends, CardFails(o) PROVE ChatInv'
  BY <1>9, <1>a, <1>b, CallsAre, DeliveryAssumption DEF ChatInv, Updating, CallTypes, CardTypes, CardFails, Posts, Goto, connVars, inVars, hookVars, callVars
<1>10. ASSUME NEW o \in Calls, UpdateApplied(o) PROVE ChatInv'
  BY <1>10, <1>a, <1>b, CallsAre, DeliveryAssumption DEF ChatInv, Updating, CallTypes, CardTypes, UpdateApplied, CardOf, Goto, connVars, inVars, hookVars, callVars, rowVars, postVars
<1>11. ASSUME NEW o \in Sends, CardSent(o) PROVE ChatInv'
  BY <1>11, <1>a, <1>b, CallsAre, DeliveryAssumption DEF ChatInv, Updating, CallTypes, CardTypes, CardSent, RememberDelivery, Track, Late, Goto, connVars, hookVars, callVars, rowVars, postVars
<1>12. ASSUME NEW o \in Sends, CardLost(o) PROVE ChatInv'
  BY <1>12, <1>a, <1>b, CallsAre, DeliveryAssumption DEF ChatInv, Updating, CallTypes, CardTypes, CardLost, Posts, Goto, connVars, inVars, hookVars, callVars
<1>13. ASSUME NEW o \in Sends, Accept(o) PROVE ChatInv'
  BY <1>13, <1>a, <1>b, CallsAre, DeliveryAssumption DEF ChatInv, Updating, CallTypes, CardTypes, Accept, connVars, inVars, hookVars, callVars, cardVars
<1>14. ASSUME NEW o \in Sends, Reject(o) PROVE ChatInv'
  BY <1>14, <1>a, <1>b, CallsAre, DeliveryAssumption DEF ChatInv, Updating, CallTypes, CardTypes, Reject, connVars, inVars, hookVars, callVars, rowVars, cardVars
<1>15. ASSUME NEW o \in Sends, PostDelivered(o) PROVE ChatInv'
  BY <1>15, <1>a, <1>b, CallsAre, DeliveryAssumption DEF ChatInv, Updating, CallTypes, CardTypes, PostDelivered, RememberWebhook, Forget, Goto, connVars, hookVars, callVars, postVars, cardVars
<1>16. ASSUME NEW o \in Sends, PostRejected(o) PROVE ChatInv'
  BY <1>16, <1>a, <1>b, CallsAre, DeliveryAssumption DEF ChatInv, Updating, CallTypes, CardTypes, PostRejected, Forget, Goto, connVars, inVars, hookVars, callVars, rowVars, postVars, cardVars
<1>17. ASSUME NEW o \in Sends, PostMisread(o) PROVE ChatInv'
  BY <1>17, <1>a, <1>b, CallsAre, DeliveryAssumption DEF ChatInv, Updating, CallTypes, CardTypes, PostMisread, Forget, Goto, connVars, inVars, hookVars, callVars, rowVars, cardVars
<1>18. ASSUME NEW o \in Sends, PostUnknown(o) PROVE ChatInv'
  BY <1>18, <1>a, <1>b, CallsAre, DeliveryAssumption DEF ChatInv, Updating, CallTypes, CardTypes, PostUnknown, Forget, Goto, connVars, inVars, hookVars, callVars, rowVars, postVars, cardVars
<1>19. ASSUME NEW e \in Edits, NEW c \in Sends, NEW f \in BOOLEAN, Edit(e, c, f) PROVE ChatInv'
  BY <1>19, <1>a, <1>b, CallsAre, DeliveryAssumption DEF ChatInv, Updating, CallTypes, CardTypes, Edit, Goto, connVars, inVars, hookVars, rowVars, postVars, cardVars
<1>20. ASSUME NEW e \in Edits, EditInvalidates(e) PROVE ChatInv'
  BY <1>20, <1>a, <1>b, CallsAre, DeliveryAssumption DEF ChatInv, Updating, CallTypes, CardTypes, EditInvalidates, InvalidateContent, Goto, connVars, inVars, hookVars, callVars, rowVars, postVars
<1>21. ASSUME NEW e \in Edits, EditRefused(e) PROVE ChatInv'
  BY <1>21, <1>a, <1>b, CallsAre, DeliveryAssumption DEF ChatInv, Updating, CallTypes, CardTypes, EditRefused, Goto, connVars, inVars, hookVars, callVars, rowVars, postVars, cardVars
<1>22. ASSUME NEW e \in Edits, EditDone(e) PROVE ChatInv'
  BY <1>22, <1>a, <1>b, CallsAre, DeliveryAssumption DEF ChatInv, Updating, CallTypes, CardTypes, EditDone, UpdateContent, Track, Late, Goto, connVars, hookVars, callVars, rowVars, postVars
<1>23. ASSUME NEW e \in Edits, EditLost(e) PROVE ChatInv'
  BY <1>23, <1>a, <1>b, CallsAre, DeliveryAssumption DEF ChatInv, Updating, CallTypes, CardTypes, EditLost, Goto, connVars, inVars, hookVars, callVars, rowVars, postVars
<1>24. ASSUME NEW x \in Closers, NEW c \in Sends, CloseSibling(x, c) PROVE ChatInv'
  BY <1>24, <1>a, <1>b, CallsAre, DeliveryAssumption DEF ChatInv, Updating, CallTypes, CardTypes, CloseSibling, connVars, inVars, hookVars, callVars, rowVars, postVars
<1>25. ASSUME Disconnect PROVE ChatInv'
  BY <1>25, <1>a, <1>b, CallsAre, DeliveryAssumption DEF ChatInv, Updating, CallTypes, CardTypes, Disconnect, inVars, hookVars, callVars, rowVars, postVars, cardVars
<1>26. ASSUME Disconnected PROVE ChatInv'
  BY <1>26, <1>a, <1>b, CallsAre, DeliveryAssumption DEF ChatInv, Updating, CallTypes, CardTypes, Disconnected, callVars, rowVars, postVars
<1>27. ASSUME Tick PROVE ChatInv'
  BY <1>27, <1>a, <1>b, CallsAre, DeliveryAssumption DEF ChatInv, Updating, CallTypes, CardTypes, Tick, connVars, inVars, hookVars, callVars, rowVars, postVars, cardVars
<1>28. ASSUME NEW ch \in Chats, DisconnectTakes(ch) PROVE ChatInv'
  BY <1>28, <1>a, <1>b, CallsAre, DeliveryAssumption DEF ChatInv, Updating, CallTypes, CardTypes, DisconnectTakes, TakeCards, inVars, hookVars, callVars, rowVars, postVars
<1>29. CASE UNCHANGED vars
  BY <1>29, <1>a, <1>b, CallsAre, DeliveryAssumption DEF ChatInv, Updating, CallTypes, CardTypes, vars, connVars, inVars, hookVars, callVars, rowVars, postVars, cardVars
<1> QED
  BY <1>1, <1>2, <1>3, <1>4, <1>5, <1>6, <1>7, <1>8, <1>9, <1>10, <1>11, <1>12, <1>13, <1>14, <1>15, <1>16, <1>17, <1>18, <1>19, <1>20, <1>21, <1>22, <1>23, <1>24, <1>25, <1>26, <1>27, <1>28, <1>29, CallsAre DEF Next, Inbound, StartSend, StepSend, StepEdit

\* The card of an edit under way is one whose send has returned.
LEMMA EditsOfSentKept ==
  ASSUME Base, [Next]_vars
  PROVE  EditsOfSent'
<1>a. CallTypes /\ CardTypes
  BY TypeParts DEF Base
<1>b. ChatInv /\ EditsOfSent /\ OneEdit /\ UnsentUntouched /\ OwnText
  BY DEF Base, EditInv
<1>1. ASSUME NEW m \in Messages, NEW hook \in BOOLEAN, Arrive(m, hook) PROVE EditsOfSent'
  BY <1>1, <1>a, <1>b, CallsAre, DeliveryAssumption DEF EditsOfSent, UnderWay, Updating, CallTypes, CardTypes, Arrive, connVars, hookVars, callVars, rowVars, postVars, cardVars
<1>2. ASSUME NEW m \in Messages, Gated(m) PROVE EditsOfSent'
  BY <1>2, <1>a, <1>b, CallsAre, DeliveryAssumption DEF EditsOfSent, UnderWay, Updating, CallTypes, CardTypes, Gated, connVars, hookVars, callVars, rowVars, postVars, cardVars
<1>3. ASSUME NEW ch \in Chats, WebhookExpires(ch) PROVE EditsOfSent'
  BY <1>3, <1>a, <1>b, CallsAre, DeliveryAssumption DEF EditsOfSent, UnderWay, Updating, CallTypes, CardTypes, WebhookExpires, connVars, inVars, callVars, rowVars, postVars, cardVars
<1>4. ASSUME NEW o \in Sends, NEW ch \in Chats, NEW f \in BOOLEAN, SendRefused(o, ch, f) PROVE EditsOfSent'
  BY <1>4, <1>a, <1>b, CallsAre, DeliveryAssumption DEF EditsOfSent, UnderWay, Updating, CallTypes, CardTypes, SendRefused, Begin, Goto, connVars, inVars, hookVars, rowVars, postVars, cardVars
<1>5. ASSUME NEW o \in Sends, NEW ch \in Chats, NEW f \in BOOLEAN, SendsCard(o, ch, f) PROVE EditsOfSent'
  BY <1>5, <1>a, <1>b, CallsAre, DeliveryAssumption DEF EditsOfSent, UnderWay, Updating, CallTypes, CardTypes, SendsCard, Begin, TakeCards, Goto, connVars, inVars, hookVars, rowVars, postVars
<1>6. ASSUME NEW o \in Sends, NEW ch \in Chats, NEW f \in BOOLEAN, SendsPlain(o, ch, f) PROVE EditsOfSent'
  BY <1>6, <1>a, <1>b, CallsAre, DeliveryAssumption DEF EditsOfSent, UnderWay, Updating, CallTypes, CardTypes, SendsPlain, Begin, Posts, Goto, connVars, inVars, hookVars, cardVars
<1>7. ASSUME NEW o \in Sends, SiblingsClosed(o) PROVE EditsOfSent'
  BY <1>7, <1>a, <1>b, CallsAre, DeliveryAssumption DEF EditsOfSent, UnderWay, Updating, CallTypes, CardTypes, SiblingsClosed, Goto, connVars, inVars, hookVars, callVars, rowVars, postVars, cardVars
<1>8. ASSUME NEW o \in Sends, CardDelivered(o) PROVE EditsOfSent'
  BY <1>8, <1>a, <1>b, CallsAre, DeliveryAssumption DEF EditsOfSent, UnderWay, Updating, CallTypes, CardTypes, CardDelivered, Goto, connVars, inVars, hookVars, callVars, rowVars, postVars
<1>9. ASSUME NEW o \in Sends, CardFails(o) PROVE EditsOfSent'
  BY <1>9, <1>a, <1>b, CallsAre, DeliveryAssumption DEF EditsOfSent, UnderWay, Updating, CallTypes, CardTypes, CardFails, Posts, Goto, connVars, inVars, hookVars, callVars
<1>10. ASSUME NEW o \in Calls, UpdateApplied(o) PROVE EditsOfSent'
  BY <1>10, <1>a, <1>b, CallsAre, DeliveryAssumption DEF EditsOfSent, UnderWay, Updating, CallTypes, CardTypes, UpdateApplied, CardOf, Goto, connVars, inVars, hookVars, callVars, rowVars, postVars
<1>11. ASSUME NEW o \in Sends, CardSent(o) PROVE EditsOfSent'
  BY <1>11, <1>a, <1>b, CallsAre, DeliveryAssumption DEF EditsOfSent, UnderWay, Updating, CallTypes, CardTypes, CardSent, RememberDelivery, Track, Late, Goto, connVars, hookVars, callVars, rowVars, postVars
<1>12. ASSUME NEW o \in Sends, CardLost(o) PROVE EditsOfSent'
  BY <1>12, <1>a, <1>b, CallsAre, DeliveryAssumption DEF EditsOfSent, UnderWay, Updating, CallTypes, CardTypes, CardLost, Posts, Goto, connVars, inVars, hookVars, callVars
<1>13. ASSUME NEW o \in Sends, Accept(o) PROVE EditsOfSent'
  BY <1>13, <1>a, <1>b, CallsAre, DeliveryAssumption DEF EditsOfSent, UnderWay, Updating, CallTypes, CardTypes, Accept, connVars, inVars, hookVars, callVars, cardVars
<1>14. ASSUME NEW o \in Sends, Reject(o) PROVE EditsOfSent'
  BY <1>14, <1>a, <1>b, CallsAre, DeliveryAssumption DEF EditsOfSent, UnderWay, Updating, CallTypes, CardTypes, Reject, connVars, inVars, hookVars, callVars, rowVars, cardVars
<1>15. ASSUME NEW o \in Sends, PostDelivered(o) PROVE EditsOfSent'
  BY <1>15, <1>a, <1>b, CallsAre, DeliveryAssumption DEF EditsOfSent, UnderWay, Updating, CallTypes, CardTypes, PostDelivered, RememberWebhook, Forget, Goto, connVars, hookVars, callVars, postVars, cardVars
<1>16. ASSUME NEW o \in Sends, PostRejected(o) PROVE EditsOfSent'
  BY <1>16, <1>a, <1>b, CallsAre, DeliveryAssumption DEF EditsOfSent, UnderWay, Updating, CallTypes, CardTypes, PostRejected, Forget, Goto, connVars, inVars, hookVars, callVars, rowVars, postVars, cardVars
<1>17. ASSUME NEW o \in Sends, PostMisread(o) PROVE EditsOfSent'
  BY <1>17, <1>a, <1>b, CallsAre, DeliveryAssumption DEF EditsOfSent, UnderWay, Updating, CallTypes, CardTypes, PostMisread, Forget, Goto, connVars, inVars, hookVars, callVars, rowVars, cardVars
<1>18. ASSUME NEW o \in Sends, PostUnknown(o) PROVE EditsOfSent'
  BY <1>18, <1>a, <1>b, CallsAre, DeliveryAssumption DEF EditsOfSent, UnderWay, Updating, CallTypes, CardTypes, PostUnknown, Forget, Goto, connVars, inVars, hookVars, callVars, rowVars, postVars, cardVars
<1>19. ASSUME NEW e \in Edits, NEW c \in Sends, NEW f \in BOOLEAN, Edit(e, c, f) PROVE EditsOfSent'
  BY <1>19, <1>a, <1>b, CallsAre, DeliveryAssumption DEF EditsOfSent, UnderWay, Updating, CallTypes, CardTypes, Edit, Goto, connVars, inVars, hookVars, rowVars, postVars, cardVars
<1>20. ASSUME NEW e \in Edits, EditInvalidates(e) PROVE EditsOfSent'
  BY <1>20, <1>a, <1>b, CallsAre, DeliveryAssumption DEF EditsOfSent, UnderWay, Updating, CallTypes, CardTypes, EditInvalidates, InvalidateContent, Goto, connVars, inVars, hookVars, callVars, rowVars, postVars
<1>21. ASSUME NEW e \in Edits, EditRefused(e) PROVE EditsOfSent'
  BY <1>21, <1>a, <1>b, CallsAre, DeliveryAssumption DEF EditsOfSent, UnderWay, Updating, CallTypes, CardTypes, EditRefused, Goto, connVars, inVars, hookVars, callVars, rowVars, postVars, cardVars
<1>22. ASSUME NEW e \in Edits, EditDone(e) PROVE EditsOfSent'
  BY <1>22, <1>a, <1>b, CallsAre, DeliveryAssumption DEF EditsOfSent, UnderWay, Updating, CallTypes, CardTypes, EditDone, UpdateContent, Track, Late, Goto, connVars, hookVars, callVars, rowVars, postVars
<1>23. ASSUME NEW e \in Edits, EditLost(e) PROVE EditsOfSent'
  BY <1>23, <1>a, <1>b, CallsAre, DeliveryAssumption DEF EditsOfSent, UnderWay, Updating, CallTypes, CardTypes, EditLost, Goto, connVars, inVars, hookVars, callVars, rowVars, postVars
<1>24. ASSUME NEW x \in Closers, NEW c \in Sends, CloseSibling(x, c) PROVE EditsOfSent'
  BY <1>24, <1>a, <1>b, CallsAre, DeliveryAssumption DEF EditsOfSent, UnderWay, Updating, CallTypes, CardTypes, CloseSibling, connVars, inVars, hookVars, callVars, rowVars, postVars
<1>25. ASSUME Disconnect PROVE EditsOfSent'
  BY <1>25, <1>a, <1>b, CallsAre, DeliveryAssumption DEF EditsOfSent, UnderWay, Updating, CallTypes, CardTypes, Disconnect, inVars, hookVars, callVars, rowVars, postVars, cardVars
<1>26. ASSUME Disconnected PROVE EditsOfSent'
  BY <1>26, <1>a, <1>b, CallsAre, DeliveryAssumption DEF EditsOfSent, UnderWay, Updating, CallTypes, CardTypes, Disconnected, callVars, rowVars, postVars
<1>27. ASSUME Tick PROVE EditsOfSent'
  BY <1>27, <1>a, <1>b, CallsAre, DeliveryAssumption DEF EditsOfSent, UnderWay, Updating, CallTypes, CardTypes, Tick, connVars, inVars, hookVars, callVars, rowVars, postVars, cardVars
<1>28. ASSUME NEW ch \in Chats, DisconnectTakes(ch) PROVE EditsOfSent'
  BY <1>28, <1>a, <1>b, CallsAre, DeliveryAssumption DEF EditsOfSent, UnderWay, Updating, CallTypes, CardTypes, DisconnectTakes, TakeCards, inVars, hookVars, callVars, rowVars, postVars
<1>29. CASE UNCHANGED vars
  BY <1>29, <1>a, <1>b, CallsAre, DeliveryAssumption DEF EditsOfSent, UnderWay, Updating, CallTypes, CardTypes, vars, connVars, inVars, hookVars, callVars, rowVars, postVars, cardVars
<1> QED
  BY <1>1, <1>2, <1>3, <1>4, <1>5, <1>6, <1>7, <1>8, <1>9, <1>10, <1>11, <1>12, <1>13, <1>14, <1>15, <1>16, <1>17, <1>18, <1>19, <1>20, <1>21, <1>22, <1>23, <1>24, <1>25, <1>26, <1>27, <1>28, <1>29, CallsAre DEF Next, Inbound, StartSend, StepSend, StepEdit

\* Edits of one card do not overlap.
LEMMA OneEditKept ==
  ASSUME Base, [Next]_vars
  PROVE  OneEdit'
<1>a. CallTypes /\ CardTypes
  BY TypeParts DEF Base
<1>b. ChatInv /\ EditsOfSent /\ OneEdit /\ UnsentUntouched /\ OwnText
  BY DEF Base, EditInv
<1>1. ASSUME NEW m \in Messages, NEW hook \in BOOLEAN, Arrive(m, hook) PROVE OneEdit'
  BY <1>1, <1>a, <1>b, CallsAre, DeliveryAssumption DEF OneEdit, UnderWay, Updating, CallTypes, CardTypes, Arrive, connVars, hookVars, callVars, rowVars, postVars, cardVars
<1>2. ASSUME NEW m \in Messages, Gated(m) PROVE OneEdit'
  BY <1>2, <1>a, <1>b, CallsAre, DeliveryAssumption DEF OneEdit, UnderWay, Updating, CallTypes, CardTypes, Gated, connVars, hookVars, callVars, rowVars, postVars, cardVars
<1>3. ASSUME NEW ch \in Chats, WebhookExpires(ch) PROVE OneEdit'
  BY <1>3, <1>a, <1>b, CallsAre, DeliveryAssumption DEF OneEdit, UnderWay, Updating, CallTypes, CardTypes, WebhookExpires, connVars, inVars, callVars, rowVars, postVars, cardVars
<1>4. ASSUME NEW o \in Sends, NEW ch \in Chats, NEW f \in BOOLEAN, SendRefused(o, ch, f) PROVE OneEdit'
  BY <1>4, <1>a, <1>b, CallsAre, DeliveryAssumption DEF OneEdit, UnderWay, Updating, CallTypes, CardTypes, SendRefused, Begin, Goto, connVars, inVars, hookVars, rowVars, postVars, cardVars
<1>5. ASSUME NEW o \in Sends, NEW ch \in Chats, NEW f \in BOOLEAN, SendsCard(o, ch, f) PROVE OneEdit'
  BY <1>5, <1>a, <1>b, CallsAre, DeliveryAssumption DEF OneEdit, UnderWay, Updating, CallTypes, CardTypes, SendsCard, Begin, TakeCards, Goto, connVars, inVars, hookVars, rowVars, postVars
<1>6. ASSUME NEW o \in Sends, NEW ch \in Chats, NEW f \in BOOLEAN, SendsPlain(o, ch, f) PROVE OneEdit'
  BY <1>6, <1>a, <1>b, CallsAre, DeliveryAssumption DEF OneEdit, UnderWay, Updating, CallTypes, CardTypes, SendsPlain, Begin, Posts, Goto, connVars, inVars, hookVars, cardVars
<1>7. ASSUME NEW o \in Sends, SiblingsClosed(o) PROVE OneEdit'
  BY <1>7, <1>a, <1>b, CallsAre, DeliveryAssumption DEF OneEdit, UnderWay, Updating, CallTypes, CardTypes, SiblingsClosed, Goto, connVars, inVars, hookVars, callVars, rowVars, postVars, cardVars
<1>8. ASSUME NEW o \in Sends, CardDelivered(o) PROVE OneEdit'
  BY <1>8, <1>a, <1>b, CallsAre, DeliveryAssumption DEF OneEdit, UnderWay, Updating, CallTypes, CardTypes, CardDelivered, Goto, connVars, inVars, hookVars, callVars, rowVars, postVars
<1>9. ASSUME NEW o \in Sends, CardFails(o) PROVE OneEdit'
  BY <1>9, <1>a, <1>b, CallsAre, DeliveryAssumption DEF OneEdit, UnderWay, Updating, CallTypes, CardTypes, CardFails, Posts, Goto, connVars, inVars, hookVars, callVars
<1>10. ASSUME NEW o \in Calls, UpdateApplied(o) PROVE OneEdit'
  BY <1>10, <1>a, <1>b, CallsAre, DeliveryAssumption DEF OneEdit, UnderWay, Updating, CallTypes, CardTypes, UpdateApplied, CardOf, Goto, connVars, inVars, hookVars, callVars, rowVars, postVars
<1>11. ASSUME NEW o \in Sends, CardSent(o) PROVE OneEdit'
  BY <1>11, <1>a, <1>b, CallsAre, DeliveryAssumption DEF OneEdit, UnderWay, Updating, CallTypes, CardTypes, CardSent, RememberDelivery, Track, Late, Goto, connVars, hookVars, callVars, rowVars, postVars
<1>12. ASSUME NEW o \in Sends, CardLost(o) PROVE OneEdit'
  BY <1>12, <1>a, <1>b, CallsAre, DeliveryAssumption DEF OneEdit, UnderWay, Updating, CallTypes, CardTypes, CardLost, Posts, Goto, connVars, inVars, hookVars, callVars
<1>13. ASSUME NEW o \in Sends, Accept(o) PROVE OneEdit'
  BY <1>13, <1>a, <1>b, CallsAre, DeliveryAssumption DEF OneEdit, UnderWay, Updating, CallTypes, CardTypes, Accept, connVars, inVars, hookVars, callVars, cardVars
<1>14. ASSUME NEW o \in Sends, Reject(o) PROVE OneEdit'
  BY <1>14, <1>a, <1>b, CallsAre, DeliveryAssumption DEF OneEdit, UnderWay, Updating, CallTypes, CardTypes, Reject, connVars, inVars, hookVars, callVars, rowVars, cardVars
<1>15. ASSUME NEW o \in Sends, PostDelivered(o) PROVE OneEdit'
  BY <1>15, <1>a, <1>b, CallsAre, DeliveryAssumption DEF OneEdit, UnderWay, Updating, CallTypes, CardTypes, PostDelivered, RememberWebhook, Forget, Goto, connVars, hookVars, callVars, postVars, cardVars
<1>16. ASSUME NEW o \in Sends, PostRejected(o) PROVE OneEdit'
  BY <1>16, <1>a, <1>b, CallsAre, DeliveryAssumption DEF OneEdit, UnderWay, Updating, CallTypes, CardTypes, PostRejected, Forget, Goto, connVars, inVars, hookVars, callVars, rowVars, postVars, cardVars
<1>17. ASSUME NEW o \in Sends, PostMisread(o) PROVE OneEdit'
  BY <1>17, <1>a, <1>b, CallsAre, DeliveryAssumption DEF OneEdit, UnderWay, Updating, CallTypes, CardTypes, PostMisread, Forget, Goto, connVars, inVars, hookVars, callVars, rowVars, cardVars
<1>18. ASSUME NEW o \in Sends, PostUnknown(o) PROVE OneEdit'
  BY <1>18, <1>a, <1>b, CallsAre, DeliveryAssumption DEF OneEdit, UnderWay, Updating, CallTypes, CardTypes, PostUnknown, Forget, Goto, connVars, inVars, hookVars, callVars, rowVars, postVars, cardVars
<1>19. ASSUME NEW e \in Edits, NEW c \in Sends, NEW f \in BOOLEAN, Edit(e, c, f) PROVE OneEdit'
  BY <1>19, <1>a, <1>b, CallsAre, DeliveryAssumption DEF OneEdit, UnderWay, Updating, CallTypes, CardTypes, Edit, Goto, connVars, inVars, hookVars, rowVars, postVars, cardVars
<1>20. ASSUME NEW e \in Edits, EditInvalidates(e) PROVE OneEdit'
  BY <1>20, <1>a, <1>b, CallsAre, DeliveryAssumption DEF OneEdit, UnderWay, Updating, CallTypes, CardTypes, EditInvalidates, InvalidateContent, Goto, connVars, inVars, hookVars, callVars, rowVars, postVars
<1>21. ASSUME NEW e \in Edits, EditRefused(e) PROVE OneEdit'
  BY <1>21, <1>a, <1>b, CallsAre, DeliveryAssumption DEF OneEdit, UnderWay, Updating, CallTypes, CardTypes, EditRefused, Goto, connVars, inVars, hookVars, callVars, rowVars, postVars, cardVars
<1>22. ASSUME NEW e \in Edits, EditDone(e) PROVE OneEdit'
  BY <1>22, <1>a, <1>b, CallsAre, DeliveryAssumption DEF OneEdit, UnderWay, Updating, CallTypes, CardTypes, EditDone, UpdateContent, Track, Late, Goto, connVars, hookVars, callVars, rowVars, postVars
<1>23. ASSUME NEW e \in Edits, EditLost(e) PROVE OneEdit'
  BY <1>23, <1>a, <1>b, CallsAre, DeliveryAssumption DEF OneEdit, UnderWay, Updating, CallTypes, CardTypes, EditLost, Goto, connVars, inVars, hookVars, callVars, rowVars, postVars
<1>24. ASSUME NEW x \in Closers, NEW c \in Sends, CloseSibling(x, c) PROVE OneEdit'
  BY <1>24, <1>a, <1>b, CallsAre, DeliveryAssumption DEF OneEdit, UnderWay, Updating, CallTypes, CardTypes, CloseSibling, connVars, inVars, hookVars, callVars, rowVars, postVars
<1>25. ASSUME Disconnect PROVE OneEdit'
  BY <1>25, <1>a, <1>b, CallsAre, DeliveryAssumption DEF OneEdit, UnderWay, Updating, CallTypes, CardTypes, Disconnect, inVars, hookVars, callVars, rowVars, postVars, cardVars
<1>26. ASSUME Disconnected PROVE OneEdit'
  BY <1>26, <1>a, <1>b, CallsAre, DeliveryAssumption DEF OneEdit, UnderWay, Updating, CallTypes, CardTypes, Disconnected, callVars, rowVars, postVars
<1>27. ASSUME Tick PROVE OneEdit'
  BY <1>27, <1>a, <1>b, CallsAre, DeliveryAssumption DEF OneEdit, UnderWay, Updating, CallTypes, CardTypes, Tick, connVars, inVars, hookVars, callVars, rowVars, postVars, cardVars
<1>28. ASSUME NEW ch \in Chats, DisconnectTakes(ch) PROVE OneEdit'
  BY <1>28, <1>a, <1>b, CallsAre, DeliveryAssumption DEF OneEdit, UnderWay, Updating, CallTypes, CardTypes, DisconnectTakes, TakeCards, inVars, hookVars, callVars, rowVars, postVars
<1>29. CASE UNCHANGED vars
  BY <1>29, <1>a, <1>b, CallsAre, DeliveryAssumption DEF OneEdit, UnderWay, Updating, CallTypes, CardTypes, vars, connVars, inVars, hookVars, callVars, rowVars, postVars, cardVars
<1> QED
  BY <1>1, <1>2, <1>3, <1>4, <1>5, <1>6, <1>7, <1>8, <1>9, <1>10, <1>11, <1>12, <1>13, <1>14, <1>15, <1>16, <1>17, <1>18, <1>19, <1>20, <1>21, <1>22, <1>23, <1>24, <1>25, <1>26, <1>27, <1>28, <1>29, CallsAre DEF Next, Inbound, StartSend, StepSend, StepEdit

\* A card is not stored or tracked before its send returns.
LEMMA UnsentUntouchedKept ==
  ASSUME Base, [Next]_vars
  PROVE  UnsentUntouched'
<1>a. CallTypes /\ CardTypes
  BY TypeParts DEF Base
<1>b. ChatInv /\ EditsOfSent /\ OneEdit /\ UnsentUntouched /\ OwnText
  BY DEF Base, EditInv
<1>1. ASSUME NEW m \in Messages, NEW hook \in BOOLEAN, Arrive(m, hook) PROVE UnsentUntouched'
  BY <1>1, <1>a, <1>b, CallsAre, DeliveryAssumption DEF UnsentUntouched, EditsOfSent, UnderWay, BeingClosed, Updating, CallTypes, CardTypes, Arrive, connVars, hookVars, callVars, rowVars, postVars, cardVars
<1>2. ASSUME NEW m \in Messages, Gated(m) PROVE UnsentUntouched'
  BY <1>2, <1>a, <1>b, CallsAre, DeliveryAssumption DEF UnsentUntouched, EditsOfSent, UnderWay, BeingClosed, Updating, CallTypes, CardTypes, Gated, connVars, hookVars, callVars, rowVars, postVars, cardVars
<1>3. ASSUME NEW ch \in Chats, WebhookExpires(ch) PROVE UnsentUntouched'
  BY <1>3, <1>a, <1>b, CallsAre, DeliveryAssumption DEF UnsentUntouched, EditsOfSent, UnderWay, BeingClosed, Updating, CallTypes, CardTypes, WebhookExpires, connVars, inVars, callVars, rowVars, postVars, cardVars
<1>4. ASSUME NEW o \in Sends, NEW ch \in Chats, NEW f \in BOOLEAN, SendRefused(o, ch, f) PROVE UnsentUntouched'
  BY <1>4, <1>a, <1>b, CallsAre, DeliveryAssumption DEF UnsentUntouched, EditsOfSent, UnderWay, BeingClosed, Updating, CallTypes, CardTypes, SendRefused, Begin, Goto, connVars, inVars, hookVars, rowVars, postVars, cardVars
<1>5. ASSUME NEW o \in Sends, NEW ch \in Chats, NEW f \in BOOLEAN, SendsCard(o, ch, f) PROVE UnsentUntouched'
  BY <1>5, <1>a, <1>b, CallsAre, DeliveryAssumption DEF UnsentUntouched, EditsOfSent, UnderWay, BeingClosed, Updating, CallTypes, CardTypes, SendsCard, Begin, TakeCards, Goto, connVars, inVars, hookVars, rowVars, postVars
<1>6. ASSUME NEW o \in Sends, NEW ch \in Chats, NEW f \in BOOLEAN, SendsPlain(o, ch, f) PROVE UnsentUntouched'
  BY <1>6, <1>a, <1>b, CallsAre, DeliveryAssumption DEF UnsentUntouched, EditsOfSent, UnderWay, BeingClosed, Updating, CallTypes, CardTypes, SendsPlain, Begin, Posts, Goto, connVars, inVars, hookVars, cardVars
<1>7. ASSUME NEW o \in Sends, SiblingsClosed(o) PROVE UnsentUntouched'
  BY <1>7, <1>a, <1>b, CallsAre, DeliveryAssumption DEF UnsentUntouched, EditsOfSent, UnderWay, BeingClosed, Updating, CallTypes, CardTypes, SiblingsClosed, Goto, connVars, inVars, hookVars, callVars, rowVars, postVars, cardVars
<1>8. ASSUME NEW o \in Sends, CardDelivered(o) PROVE UnsentUntouched'
  BY <1>8, <1>a, <1>b, CallsAre, DeliveryAssumption DEF UnsentUntouched, EditsOfSent, UnderWay, BeingClosed, Updating, CallTypes, CardTypes, CardDelivered, Goto, connVars, inVars, hookVars, callVars, rowVars, postVars
<1>9. ASSUME NEW o \in Sends, CardFails(o) PROVE UnsentUntouched'
  BY <1>9, <1>a, <1>b, CallsAre, DeliveryAssumption DEF UnsentUntouched, EditsOfSent, UnderWay, BeingClosed, Updating, CallTypes, CardTypes, CardFails, Posts, Goto, connVars, inVars, hookVars, callVars
<1>10. ASSUME NEW o \in Calls, UpdateApplied(o) PROVE UnsentUntouched'
  BY <1>10, <1>a, <1>b, CallsAre, DeliveryAssumption DEF UnsentUntouched, EditsOfSent, UnderWay, BeingClosed, Updating, CallTypes, CardTypes, UpdateApplied, CardOf, Goto, connVars, inVars, hookVars, callVars, rowVars, postVars
<1>11. ASSUME NEW o \in Sends, CardSent(o) PROVE UnsentUntouched'
  BY <1>11, <1>a, <1>b, CallsAre, DeliveryAssumption DEF UnsentUntouched, EditsOfSent, UnderWay, BeingClosed, Updating, CallTypes, CardTypes, CardSent, RememberDelivery, Track, Late, Goto, connVars, hookVars, callVars, rowVars, postVars
<1>12. ASSUME NEW o \in Sends, CardLost(o) PROVE UnsentUntouched'
  BY <1>12, <1>a, <1>b, CallsAre, DeliveryAssumption DEF UnsentUntouched, EditsOfSent, UnderWay, BeingClosed, Updating, CallTypes, CardTypes, CardLost, Posts, Goto, connVars, inVars, hookVars, callVars
<1>13. ASSUME NEW o \in Sends, Accept(o) PROVE UnsentUntouched'
  BY <1>13, <1>a, <1>b, CallsAre, DeliveryAssumption DEF UnsentUntouched, EditsOfSent, UnderWay, BeingClosed, Updating, CallTypes, CardTypes, Accept, connVars, inVars, hookVars, callVars, cardVars
<1>14. ASSUME NEW o \in Sends, Reject(o) PROVE UnsentUntouched'
  BY <1>14, <1>a, <1>b, CallsAre, DeliveryAssumption DEF UnsentUntouched, EditsOfSent, UnderWay, BeingClosed, Updating, CallTypes, CardTypes, Reject, connVars, inVars, hookVars, callVars, rowVars, cardVars
<1>15. ASSUME NEW o \in Sends, PostDelivered(o) PROVE UnsentUntouched'
  BY <1>15, <1>a, <1>b, CallsAre, DeliveryAssumption DEF UnsentUntouched, EditsOfSent, UnderWay, BeingClosed, Updating, CallTypes, CardTypes, PostDelivered, RememberWebhook, Forget, Goto, connVars, hookVars, callVars, postVars, cardVars
<1>16. ASSUME NEW o \in Sends, PostRejected(o) PROVE UnsentUntouched'
  BY <1>16, <1>a, <1>b, CallsAre, DeliveryAssumption DEF UnsentUntouched, EditsOfSent, UnderWay, BeingClosed, Updating, CallTypes, CardTypes, PostRejected, Forget, Goto, connVars, inVars, hookVars, callVars, rowVars, postVars, cardVars
<1>17. ASSUME NEW o \in Sends, PostMisread(o) PROVE UnsentUntouched'
  BY <1>17, <1>a, <1>b, CallsAre, DeliveryAssumption DEF UnsentUntouched, EditsOfSent, UnderWay, BeingClosed, Updating, CallTypes, CardTypes, PostMisread, Forget, Goto, connVars, inVars, hookVars, callVars, rowVars, cardVars
<1>18. ASSUME NEW o \in Sends, PostUnknown(o) PROVE UnsentUntouched'
  BY <1>18, <1>a, <1>b, CallsAre, DeliveryAssumption DEF UnsentUntouched, EditsOfSent, UnderWay, BeingClosed, Updating, CallTypes, CardTypes, PostUnknown, Forget, Goto, connVars, inVars, hookVars, callVars, rowVars, postVars, cardVars
<1>19. ASSUME NEW e \in Edits, NEW c \in Sends, NEW f \in BOOLEAN, Edit(e, c, f) PROVE UnsentUntouched'
  BY <1>19, <1>a, <1>b, CallsAre, DeliveryAssumption DEF UnsentUntouched, EditsOfSent, UnderWay, BeingClosed, Updating, CallTypes, CardTypes, Edit, Goto, connVars, inVars, hookVars, rowVars, postVars, cardVars
<1>20. ASSUME NEW e \in Edits, EditInvalidates(e) PROVE UnsentUntouched'
  BY <1>20, <1>a, <1>b, CallsAre, DeliveryAssumption DEF UnsentUntouched, EditsOfSent, UnderWay, BeingClosed, Updating, CallTypes, CardTypes, EditInvalidates, InvalidateContent, Goto, connVars, inVars, hookVars, callVars, rowVars, postVars
<1>21. ASSUME NEW e \in Edits, EditRefused(e) PROVE UnsentUntouched'
  BY <1>21, <1>a, <1>b, CallsAre, DeliveryAssumption DEF UnsentUntouched, EditsOfSent, UnderWay, BeingClosed, Updating, CallTypes, CardTypes, EditRefused, Goto, connVars, inVars, hookVars, callVars, rowVars, postVars, cardVars
<1>22. ASSUME NEW e \in Edits, EditDone(e) PROVE UnsentUntouched'
  BY <1>22, <1>a, <1>b, CallsAre, DeliveryAssumption DEF UnsentUntouched, EditsOfSent, UnderWay, BeingClosed, Updating, CallTypes, CardTypes, EditDone, UpdateContent, Track, Late, Goto, connVars, hookVars, callVars, rowVars, postVars
<1>23. ASSUME NEW e \in Edits, EditLost(e) PROVE UnsentUntouched'
  BY <1>23, <1>a, <1>b, CallsAre, DeliveryAssumption DEF UnsentUntouched, EditsOfSent, UnderWay, BeingClosed, Updating, CallTypes, CardTypes, EditLost, Goto, connVars, inVars, hookVars, callVars, rowVars, postVars
<1>24. ASSUME NEW x \in Closers, NEW c \in Sends, CloseSibling(x, c) PROVE UnsentUntouched'
  BY <1>24, <1>a, <1>b, CallsAre, DeliveryAssumption DEF UnsentUntouched, EditsOfSent, UnderWay, BeingClosed, Updating, CallTypes, CardTypes, CloseSibling, connVars, inVars, hookVars, callVars, rowVars, postVars
<1>25. ASSUME Disconnect PROVE UnsentUntouched'
  BY <1>25, <1>a, <1>b, CallsAre, DeliveryAssumption DEF UnsentUntouched, EditsOfSent, UnderWay, BeingClosed, Updating, CallTypes, CardTypes, Disconnect, inVars, hookVars, callVars, rowVars, postVars, cardVars
<1>26. ASSUME Disconnected PROVE UnsentUntouched'
  BY <1>26, <1>a, <1>b, CallsAre, DeliveryAssumption DEF UnsentUntouched, EditsOfSent, UnderWay, BeingClosed, Updating, CallTypes, CardTypes, Disconnected, callVars, rowVars, postVars
<1>27. ASSUME Tick PROVE UnsentUntouched'
  BY <1>27, <1>a, <1>b, CallsAre, DeliveryAssumption DEF UnsentUntouched, EditsOfSent, UnderWay, BeingClosed, Updating, CallTypes, CardTypes, Tick, connVars, inVars, hookVars, callVars, rowVars, postVars, cardVars
<1>28. ASSUME NEW ch \in Chats, DisconnectTakes(ch) PROVE UnsentUntouched'
  BY <1>28, <1>a, <1>b, CallsAre, DeliveryAssumption DEF UnsentUntouched, EditsOfSent, UnderWay, BeingClosed, Updating, CallTypes, CardTypes, DisconnectTakes, TakeCards, inVars, hookVars, callVars, rowVars, postVars
<1>29. CASE UNCHANGED vars
  BY <1>29, <1>a, <1>b, CallsAre, DeliveryAssumption DEF UnsentUntouched, EditsOfSent, UnderWay, BeingClosed, Updating, CallTypes, CardTypes, vars, connVars, inVars, hookVars, callVars, rowVars, postVars, cardVars
<1> QED
  BY <1>1, <1>2, <1>3, <1>4, <1>5, <1>6, <1>7, <1>8, <1>9, <1>10, <1>11, <1>12, <1>13, <1>14, <1>15, <1>16, <1>17, <1>18, <1>19, <1>20, <1>21, <1>22, <1>23, <1>24, <1>25, <1>26, <1>27, <1>28, <1>29, CallsAre DEF Next, Inbound, StartSend, StepSend, StepEdit

\* Nobody else updates a card before its send returns.
LEMMA OwnTextKept ==
  ASSUME Base, [Next]_vars
  PROVE  OwnText'
<1>a. CallTypes /\ CardTypes
  BY TypeParts DEF Base
<1>b. ChatInv /\ EditsOfSent /\ OneEdit /\ UnsentUntouched /\ OwnText
  BY DEF Base, EditInv
<1>1. ASSUME NEW m \in Messages, NEW hook \in BOOLEAN, Arrive(m, hook) PROVE OwnText'
  BY <1>1, <1>a, <1>b, CallsAre, DeliveryAssumption DEF OwnText, EditsOfSent, UnsentUntouched, UnderWay, BeingClosed, Updating, CallTypes, CardTypes, Arrive, connVars, hookVars, callVars, rowVars, postVars, cardVars
<1>2. ASSUME NEW m \in Messages, Gated(m) PROVE OwnText'
  BY <1>2, <1>a, <1>b, CallsAre, DeliveryAssumption DEF OwnText, EditsOfSent, UnsentUntouched, UnderWay, BeingClosed, Updating, CallTypes, CardTypes, Gated, connVars, hookVars, callVars, rowVars, postVars, cardVars
<1>3. ASSUME NEW ch \in Chats, WebhookExpires(ch) PROVE OwnText'
  BY <1>3, <1>a, <1>b, CallsAre, DeliveryAssumption DEF OwnText, EditsOfSent, UnsentUntouched, UnderWay, BeingClosed, Updating, CallTypes, CardTypes, WebhookExpires, connVars, inVars, callVars, rowVars, postVars, cardVars
<1>4. ASSUME NEW o \in Sends, NEW ch \in Chats, NEW f \in BOOLEAN, SendRefused(o, ch, f) PROVE OwnText'
  BY <1>4, <1>a, <1>b, CallsAre, DeliveryAssumption DEF OwnText, EditsOfSent, UnsentUntouched, UnderWay, BeingClosed, Updating, CallTypes, CardTypes, SendRefused, Begin, Goto, connVars, inVars, hookVars, rowVars, postVars, cardVars
<1>5. ASSUME NEW o \in Sends, NEW ch \in Chats, NEW f \in BOOLEAN, SendsCard(o, ch, f) PROVE OwnText'
  BY <1>5, <1>a, <1>b, CallsAre, DeliveryAssumption DEF OwnText, EditsOfSent, UnsentUntouched, UnderWay, BeingClosed, Updating, CallTypes, CardTypes, SendsCard, Begin, TakeCards, Goto, connVars, inVars, hookVars, rowVars, postVars
<1>6. ASSUME NEW o \in Sends, NEW ch \in Chats, NEW f \in BOOLEAN, SendsPlain(o, ch, f) PROVE OwnText'
  BY <1>6, <1>a, <1>b, CallsAre, DeliveryAssumption DEF OwnText, EditsOfSent, UnsentUntouched, UnderWay, BeingClosed, Updating, CallTypes, CardTypes, SendsPlain, Begin, Posts, Goto, connVars, inVars, hookVars, cardVars
<1>7. ASSUME NEW o \in Sends, SiblingsClosed(o) PROVE OwnText'
  BY <1>7, <1>a, <1>b, CallsAre, DeliveryAssumption DEF OwnText, EditsOfSent, UnsentUntouched, UnderWay, BeingClosed, Updating, CallTypes, CardTypes, SiblingsClosed, Goto, connVars, inVars, hookVars, callVars, rowVars, postVars, cardVars
<1>8. ASSUME NEW o \in Sends, CardDelivered(o) PROVE OwnText'
  BY <1>8, <1>a, <1>b, CallsAre, DeliveryAssumption DEF OwnText, EditsOfSent, UnsentUntouched, UnderWay, BeingClosed, Updating, CallTypes, CardTypes, CardDelivered, Goto, connVars, inVars, hookVars, callVars, rowVars, postVars
<1>9. ASSUME NEW o \in Sends, CardFails(o) PROVE OwnText'
  BY <1>9, <1>a, <1>b, CallsAre, DeliveryAssumption DEF OwnText, EditsOfSent, UnsentUntouched, UnderWay, BeingClosed, Updating, CallTypes, CardTypes, CardFails, Posts, Goto, connVars, inVars, hookVars, callVars
<1>10. ASSUME NEW o \in Calls, UpdateApplied(o) PROVE OwnText'
  <2>1. CASE o \in Sends
    BY <1>10, <2>1, <1>a, <1>b, CallsAre DEF OwnText, CallTypes, CardTypes, UpdateApplied, CardOf, Goto, connVars, inVars, hookVars, callVars, rowVars, postVars
  <2>2. CASE o \in Edits /\ o \notin Sends
    <3>1. CardOf(o) \in Sends /\ pc[CardOf(o)] = "delivered"
      BY <1>10, <2>2, <1>b DEF EditsOfSent, UnderWay, Updating, UpdateApplied, CardOf
    <3>2. \A s \in Sends : pc'[s] = "applied" => s # CardOf(o) /\ pc[s] = "applied"
      BY <1>10, <2>2, <3>1, <1>a, CallsAre DEF UpdateApplied, Goto, CallTypes
    <3> QED
      BY <1>10, <3>2, <1>a, <1>b DEF OwnText, UpdateApplied, CardTypes
  <2> QED
    BY <2>1, <2>2 DEF Calls
<1>11. ASSUME NEW o \in Sends, CardSent(o) PROVE OwnText'
  BY <1>11, <1>a, <1>b, CallsAre, DeliveryAssumption DEF OwnText, EditsOfSent, UnsentUntouched, UnderWay, BeingClosed, Updating, CallTypes, CardTypes, CardSent, RememberDelivery, Track, Late, Goto, connVars, hookVars, callVars, rowVars, postVars
<1>12. ASSUME NEW o \in Sends, CardLost(o) PROVE OwnText'
  BY <1>12, <1>a, <1>b, CallsAre, DeliveryAssumption DEF OwnText, EditsOfSent, UnsentUntouched, UnderWay, BeingClosed, Updating, CallTypes, CardTypes, CardLost, Posts, Goto, connVars, inVars, hookVars, callVars
<1>13. ASSUME NEW o \in Sends, Accept(o) PROVE OwnText'
  BY <1>13, <1>a, <1>b, CallsAre, DeliveryAssumption DEF OwnText, EditsOfSent, UnsentUntouched, UnderWay, BeingClosed, Updating, CallTypes, CardTypes, Accept, connVars, inVars, hookVars, callVars, cardVars
<1>14. ASSUME NEW o \in Sends, Reject(o) PROVE OwnText'
  BY <1>14, <1>a, <1>b, CallsAre, DeliveryAssumption DEF OwnText, EditsOfSent, UnsentUntouched, UnderWay, BeingClosed, Updating, CallTypes, CardTypes, Reject, connVars, inVars, hookVars, callVars, rowVars, cardVars
<1>15. ASSUME NEW o \in Sends, PostDelivered(o) PROVE OwnText'
  BY <1>15, <1>a, <1>b, CallsAre, DeliveryAssumption DEF OwnText, EditsOfSent, UnsentUntouched, UnderWay, BeingClosed, Updating, CallTypes, CardTypes, PostDelivered, RememberWebhook, Forget, Goto, connVars, hookVars, callVars, postVars, cardVars
<1>16. ASSUME NEW o \in Sends, PostRejected(o) PROVE OwnText'
  BY <1>16, <1>a, <1>b, CallsAre, DeliveryAssumption DEF OwnText, EditsOfSent, UnsentUntouched, UnderWay, BeingClosed, Updating, CallTypes, CardTypes, PostRejected, Forget, Goto, connVars, inVars, hookVars, callVars, rowVars, postVars, cardVars
<1>17. ASSUME NEW o \in Sends, PostMisread(o) PROVE OwnText'
  BY <1>17, <1>a, <1>b, CallsAre, DeliveryAssumption DEF OwnText, EditsOfSent, UnsentUntouched, UnderWay, BeingClosed, Updating, CallTypes, CardTypes, PostMisread, Forget, Goto, connVars, inVars, hookVars, callVars, rowVars, cardVars
<1>18. ASSUME NEW o \in Sends, PostUnknown(o) PROVE OwnText'
  BY <1>18, <1>a, <1>b, CallsAre, DeliveryAssumption DEF OwnText, EditsOfSent, UnsentUntouched, UnderWay, BeingClosed, Updating, CallTypes, CardTypes, PostUnknown, Forget, Goto, connVars, inVars, hookVars, callVars, rowVars, postVars, cardVars
<1>19. ASSUME NEW e \in Edits, NEW c \in Sends, NEW f \in BOOLEAN, Edit(e, c, f) PROVE OwnText'
  BY <1>19, <1>a, <1>b, CallsAre, DeliveryAssumption DEF OwnText, EditsOfSent, UnsentUntouched, UnderWay, BeingClosed, Updating, CallTypes, CardTypes, Edit, Goto, connVars, inVars, hookVars, rowVars, postVars, cardVars
<1>20. ASSUME NEW e \in Edits, EditInvalidates(e) PROVE OwnText'
  BY <1>20, <1>a, <1>b, CallsAre, DeliveryAssumption DEF OwnText, EditsOfSent, UnsentUntouched, UnderWay, BeingClosed, Updating, CallTypes, CardTypes, EditInvalidates, InvalidateContent, Goto, connVars, inVars, hookVars, callVars, rowVars, postVars
<1>21. ASSUME NEW e \in Edits, EditRefused(e) PROVE OwnText'
  BY <1>21, <1>a, <1>b, CallsAre, DeliveryAssumption DEF OwnText, EditsOfSent, UnsentUntouched, UnderWay, BeingClosed, Updating, CallTypes, CardTypes, EditRefused, Goto, connVars, inVars, hookVars, callVars, rowVars, postVars, cardVars
<1>22. ASSUME NEW e \in Edits, EditDone(e) PROVE OwnText'
  BY <1>22, <1>a, <1>b, CallsAre, DeliveryAssumption DEF OwnText, EditsOfSent, UnsentUntouched, UnderWay, BeingClosed, Updating, CallTypes, CardTypes, EditDone, UpdateContent, Track, Late, Goto, connVars, hookVars, callVars, rowVars, postVars
<1>23. ASSUME NEW e \in Edits, EditLost(e) PROVE OwnText'
  BY <1>23, <1>a, <1>b, CallsAre, DeliveryAssumption DEF OwnText, EditsOfSent, UnsentUntouched, UnderWay, BeingClosed, Updating, CallTypes, CardTypes, EditLost, Goto, connVars, inVars, hookVars, callVars, rowVars, postVars
<1>24. ASSUME NEW x \in Closers, NEW c \in Sends, CloseSibling(x, c) PROVE OwnText'
  BY <1>24, <1>a, <1>b, CallsAre, DeliveryAssumption DEF OwnText, EditsOfSent, UnsentUntouched, UnderWay, BeingClosed, Updating, CallTypes, CardTypes, CloseSibling, connVars, inVars, hookVars, callVars, rowVars, postVars
<1>25. ASSUME Disconnect PROVE OwnText'
  BY <1>25, <1>a, <1>b, CallsAre, DeliveryAssumption DEF OwnText, EditsOfSent, UnsentUntouched, UnderWay, BeingClosed, Updating, CallTypes, CardTypes, Disconnect, inVars, hookVars, callVars, rowVars, postVars, cardVars
<1>26. ASSUME Disconnected PROVE OwnText'
  BY <1>26, <1>a, <1>b, CallsAre, DeliveryAssumption DEF OwnText, EditsOfSent, UnsentUntouched, UnderWay, BeingClosed, Updating, CallTypes, CardTypes, Disconnected, callVars, rowVars, postVars
<1>27. ASSUME Tick PROVE OwnText'
  BY <1>27, <1>a, <1>b, CallsAre, DeliveryAssumption DEF OwnText, EditsOfSent, UnsentUntouched, UnderWay, BeingClosed, Updating, CallTypes, CardTypes, Tick, connVars, inVars, hookVars, callVars, rowVars, postVars, cardVars
<1>28. ASSUME NEW ch \in Chats, DisconnectTakes(ch) PROVE OwnText'
  BY <1>28, <1>a, <1>b, CallsAre, DeliveryAssumption DEF OwnText, EditsOfSent, UnsentUntouched, UnderWay, BeingClosed, Updating, CallTypes, CardTypes, DisconnectTakes, TakeCards, inVars, hookVars, callVars, rowVars, postVars
<1>29. CASE UNCHANGED vars
  BY <1>29, <1>a, <1>b, CallsAre, DeliveryAssumption DEF OwnText, EditsOfSent, UnsentUntouched, UnderWay, BeingClosed, Updating, CallTypes, CardTypes, vars, connVars, inVars, hookVars, callVars, rowVars, postVars, cardVars
<1> QED
  BY <1>1, <1>2, <1>3, <1>4, <1>5, <1>6, <1>7, <1>8, <1>9, <1>10, <1>11, <1>12, <1>13, <1>14, <1>15, <1>16, <1>17, <1>18, <1>19, <1>20, <1>21, <1>22, <1>23, <1>24, <1>25, <1>26, <1>27, <1>28, <1>29, CallsAre DEF Next, Inbound, StartSend, StepSend, StepEdit

LEMMA StepBase == Base /\ [Next]_vars => Base'
<1> SUFFICES ASSUME Base, [Next]_vars PROVE Base'
  OBVIOUS
<1>1. InTypes' /\ HookTypes' /\ CallTypes' /\ CardTypes' /\ PostTypes'
  BY InTypesKept, HookTypesKept, CallTypesKept, CardTypesKept, PostTypesKept
<1>2. TypeOK'
  BY <1>1, TypeParts, PTL
<1>3. ChatInv' /\ EditsOfSent' /\ OneEdit' /\ UnsentUntouched' /\ OwnText'
  BY ChatInvKept, EditsOfSentKept, OneEditKept, UnsentUntouchedKept, OwnTextKept
<1> QED
  BY <1>2, <1>3 DEF Base, EditInv

\* The specification keeps to its types.
THEOREM TypeCorrect == Spec => []TypeOK
<1>1. Base => TypeOK
  BY DEF Base
<1> QED
  BY InitBase, StepBase, <1>1, PTL DEF Spec

-----------------------------------------------------------------------------
(* Saved originals *)

\* Unless an edit overlapped with its being closed: a card that is being edited
\* has no saved original and is in nobody's list of cards to close.
EditedBlank == \A c \in Sends \ raced : BeingEdited(c) => ~BeingClosed(c) /\ saved[c] \in {NoRow, Blank}
EditedText ==
  \A c \in Sends \ raced : \A e \in Edits : target[e] = c /\ pc[e] = "applied" => shown[c] = e

\* A saved original is shown, and so is what its card is tracked or closed with.
SavedText ==
  \A c \in Sends \ raced : saved[c] \notin {NoRow, Blank} =>
    /\ saved[c] = shown[c]
    /\ streaming[c] \in {None, shown[c]}
    /\ \A x \in Closers : siblings[x][c] \in {None, shown[c]}

ShownInv == EditedBlank /\ EditedText /\ SavedText


\* A card being edited stays without a saved original.
LEMMA EditedBlankKept ==
  ASSUME Base, ShownInv, [Next]_vars
  PROVE  EditedBlank'
<1>a. CallTypes /\ CardTypes
  BY TypeParts DEF Base
<1>b. EditsOfSent /\ OneEdit /\ UnsentUntouched /\ OwnText
  BY DEF Base, EditInv
<1>s. EditedBlank /\ EditedText /\ SavedText
  BY DEF ShownInv
<1>1. ASSUME NEW m \in Messages, NEW hook \in BOOLEAN, Arrive(m, hook) PROVE EditedBlank'
  BY <1>1, <1>a, <1>b, <1>s, CallsAre, DeliveryAssumption DEF EditedBlank, EditsOfSent, OneEdit, UnsentUntouched, UnderWay, BeingEdited, BeingClosed, Updating, CallTypes, CardTypes, Arrive, connVars, hookVars, callVars, rowVars, postVars, cardVars
<1>2. ASSUME NEW m \in Messages, Gated(m) PROVE EditedBlank'
  BY <1>2, <1>a, <1>b, <1>s, CallsAre, DeliveryAssumption DEF EditedBlank, EditsOfSent, OneEdit, UnsentUntouched, UnderWay, BeingEdited, BeingClosed, Updating, CallTypes, CardTypes, Gated, connVars, hookVars, callVars, rowVars, postVars, cardVars
<1>3. ASSUME NEW ch \in Chats, WebhookExpires(ch) PROVE EditedBlank'
  BY <1>3, <1>a, <1>b, <1>s, CallsAre, DeliveryAssumption DEF EditedBlank, EditsOfSent, OneEdit, UnsentUntouched, UnderWay, BeingEdited, BeingClosed, Updating, CallTypes, CardTypes, WebhookExpires, connVars, inVars, callVars, rowVars, postVars, cardVars
<1>4. ASSUME NEW o \in Sends, NEW ch \in Chats, NEW f \in BOOLEAN, SendRefused(o, ch, f) PROVE EditedBlank'
  BY <1>4, <1>a, <1>b, <1>s, CallsAre, DeliveryAssumption DEF EditedBlank, EditsOfSent, OneEdit, UnsentUntouched, UnderWay, BeingEdited, BeingClosed, Updating, CallTypes, CardTypes, SendRefused, Begin, Goto, connVars, inVars, hookVars, rowVars, postVars, cardVars
<1>5. ASSUME NEW o \in Sends, NEW ch \in Chats, NEW f \in BOOLEAN, SendsCard(o, ch, f) PROVE EditedBlank'
  BY <1>5, <1>a, <1>b, <1>s, CallsAre, DeliveryAssumption DEF EditedBlank, EditsOfSent, OneEdit, UnsentUntouched, UnderWay, BeingEdited, BeingClosed, Updating, CallTypes, CardTypes, SendsCard, Begin, TakeCards, Goto, connVars, inVars, hookVars, rowVars, postVars
<1>6. ASSUME NEW o \in Sends, NEW ch \in Chats, NEW f \in BOOLEAN, SendsPlain(o, ch, f) PROVE EditedBlank'
  BY <1>6, <1>a, <1>b, <1>s, CallsAre, DeliveryAssumption DEF EditedBlank, EditsOfSent, OneEdit, UnsentUntouched, UnderWay, BeingEdited, BeingClosed, Updating, CallTypes, CardTypes, SendsPlain, Begin, Posts, Goto, connVars, inVars, hookVars, cardVars
<1>7. ASSUME NEW o \in Sends, SiblingsClosed(o) PROVE EditedBlank'
  BY <1>7, <1>a, <1>b, <1>s, CallsAre, DeliveryAssumption DEF EditedBlank, EditsOfSent, OneEdit, UnsentUntouched, UnderWay, BeingEdited, BeingClosed, Updating, CallTypes, CardTypes, SiblingsClosed, Goto, connVars, inVars, hookVars, callVars, rowVars, postVars, cardVars
<1>8. ASSUME NEW o \in Sends, CardDelivered(o) PROVE EditedBlank'
  BY <1>8, <1>a, <1>b, <1>s, CallsAre, DeliveryAssumption DEF EditedBlank, EditsOfSent, OneEdit, UnsentUntouched, UnderWay, BeingEdited, BeingClosed, Updating, CallTypes, CardTypes, CardDelivered, Goto, connVars, inVars, hookVars, callVars, rowVars, postVars
<1>9. ASSUME NEW o \in Sends, CardFails(o) PROVE EditedBlank'
  BY <1>9, <1>a, <1>b, <1>s, CallsAre, DeliveryAssumption DEF EditedBlank, EditsOfSent, OneEdit, UnsentUntouched, UnderWay, BeingEdited, BeingClosed, Updating, CallTypes, CardTypes, CardFails, Posts, Goto, connVars, inVars, hookVars, callVars
<1>10. ASSUME NEW o \in Calls, UpdateApplied(o) PROVE EditedBlank'
  BY <1>10, <1>a, <1>b, <1>s, CallsAre, DeliveryAssumption DEF EditedBlank, EditsOfSent, OneEdit, UnsentUntouched, UnderWay, BeingEdited, BeingClosed, Updating, CallTypes, CardTypes, UpdateApplied, CardOf, Goto, connVars, inVars, hookVars, callVars, rowVars, postVars
<1>11. ASSUME NEW o \in Sends, CardSent(o) PROVE EditedBlank'
  BY <1>11, <1>a, <1>b, <1>s, CallsAre, DeliveryAssumption DEF EditedBlank, EditsOfSent, OneEdit, UnsentUntouched, UnderWay, BeingEdited, BeingClosed, Updating, CallTypes, CardTypes, CardSent, RememberDelivery, Track, Late, Goto, connVars, hookVars, callVars, rowVars, postVars
<1>12. ASSUME NEW o \in Sends, CardLost(o) PROVE EditedBlank'
  BY <1>12, <1>a, <1>b, <1>s, CallsAre, DeliveryAssumption DEF EditedBlank, EditsOfSent, OneEdit, UnsentUntouched, UnderWay, BeingEdited, BeingClosed, Updating, CallTypes, CardTypes, CardLost, Posts, Goto, connVars, inVars, hookVars, callVars
<1>13. ASSUME NEW o \in Sends, Accept(o) PROVE EditedBlank'
  BY <1>13, <1>a, <1>b, <1>s, CallsAre, DeliveryAssumption DEF EditedBlank, EditsOfSent, OneEdit, UnsentUntouched, UnderWay, BeingEdited, BeingClosed, Updating, CallTypes, CardTypes, Accept, connVars, inVars, hookVars, callVars, cardVars
<1>14. ASSUME NEW o \in Sends, Reject(o) PROVE EditedBlank'
  BY <1>14, <1>a, <1>b, <1>s, CallsAre, DeliveryAssumption DEF EditedBlank, EditsOfSent, OneEdit, UnsentUntouched, UnderWay, BeingEdited, BeingClosed, Updating, CallTypes, CardTypes, Reject, connVars, inVars, hookVars, callVars, rowVars, cardVars
<1>15. ASSUME NEW o \in Sends, PostDelivered(o) PROVE EditedBlank'
  BY <1>15, <1>a, <1>b, <1>s, CallsAre, DeliveryAssumption DEF EditedBlank, EditsOfSent, OneEdit, UnsentUntouched, UnderWay, BeingEdited, BeingClosed, Updating, CallTypes, CardTypes, PostDelivered, RememberWebhook, Forget, Goto, connVars, hookVars, callVars, postVars, cardVars
<1>16. ASSUME NEW o \in Sends, PostRejected(o) PROVE EditedBlank'
  BY <1>16, <1>a, <1>b, <1>s, CallsAre, DeliveryAssumption DEF EditedBlank, EditsOfSent, OneEdit, UnsentUntouched, UnderWay, BeingEdited, BeingClosed, Updating, CallTypes, CardTypes, PostRejected, Forget, Goto, connVars, inVars, hookVars, callVars, rowVars, postVars, cardVars
<1>17. ASSUME NEW o \in Sends, PostMisread(o) PROVE EditedBlank'
  BY <1>17, <1>a, <1>b, <1>s, CallsAre, DeliveryAssumption DEF EditedBlank, EditsOfSent, OneEdit, UnsentUntouched, UnderWay, BeingEdited, BeingClosed, Updating, CallTypes, CardTypes, PostMisread, Forget, Goto, connVars, inVars, hookVars, callVars, rowVars, cardVars
<1>18. ASSUME NEW o \in Sends, PostUnknown(o) PROVE EditedBlank'
  BY <1>18, <1>a, <1>b, <1>s, CallsAre, DeliveryAssumption DEF EditedBlank, EditsOfSent, OneEdit, UnsentUntouched, UnderWay, BeingEdited, BeingClosed, Updating, CallTypes, CardTypes, PostUnknown, Forget, Goto, connVars, inVars, hookVars, callVars, rowVars, postVars, cardVars
<1>19. ASSUME NEW e \in Edits, NEW c \in Sends, NEW f \in BOOLEAN, Edit(e, c, f) PROVE EditedBlank'
  BY <1>19, <1>a, <1>b, <1>s, CallsAre, DeliveryAssumption DEF EditedBlank, EditsOfSent, OneEdit, UnsentUntouched, UnderWay, BeingEdited, BeingClosed, Updating, CallTypes, CardTypes, Edit, Goto, connVars, inVars, hookVars, rowVars, postVars, cardVars
<1>20. ASSUME NEW e \in Edits, EditInvalidates(e) PROVE EditedBlank'
  BY <1>20, <1>a, <1>b, <1>s, CallsAre, DeliveryAssumption DEF EditedBlank, EditsOfSent, OneEdit, UnsentUntouched, UnderWay, BeingEdited, BeingClosed, Updating, CallTypes, CardTypes, EditInvalidates, InvalidateContent, Goto, connVars, inVars, hookVars, callVars, rowVars, postVars
<1>21. ASSUME NEW e \in Edits, EditRefused(e) PROVE EditedBlank'
  BY <1>21, <1>a, <1>b, <1>s, CallsAre, DeliveryAssumption DEF EditedBlank, EditsOfSent, OneEdit, UnsentUntouched, UnderWay, BeingEdited, BeingClosed, Updating, CallTypes, CardTypes, EditRefused, Goto, connVars, inVars, hookVars, callVars, rowVars, postVars, cardVars
<1>22. ASSUME NEW e \in Edits, EditDone(e) PROVE EditedBlank'
  BY <1>22, <1>a, <1>b, <1>s, CallsAre, DeliveryAssumption DEF EditedBlank, EditsOfSent, OneEdit, UnsentUntouched, UnderWay, BeingEdited, BeingClosed, Updating, CallTypes, CardTypes, EditDone, UpdateContent, Track, Late, Goto, connVars, hookVars, callVars, rowVars, postVars
<1>23. ASSUME NEW e \in Edits, EditLost(e) PROVE EditedBlank'
  BY <1>23, <1>a, <1>b, <1>s, CallsAre, DeliveryAssumption DEF EditedBlank, EditsOfSent, OneEdit, UnsentUntouched, UnderWay, BeingEdited, BeingClosed, Updating, CallTypes, CardTypes, EditLost, Goto, connVars, inVars, hookVars, callVars, rowVars, postVars
<1>24. ASSUME NEW x \in Closers, NEW c \in Sends, CloseSibling(x, c) PROVE EditedBlank'
  BY <1>24, <1>a, <1>b, <1>s, CallsAre, DeliveryAssumption DEF EditedBlank, EditsOfSent, OneEdit, UnsentUntouched, UnderWay, BeingEdited, BeingClosed, Updating, CallTypes, CardTypes, CloseSibling, connVars, inVars, hookVars, callVars, rowVars, postVars
<1>25. ASSUME Disconnect PROVE EditedBlank'
  BY <1>25, <1>a, <1>b, <1>s, CallsAre, DeliveryAssumption DEF EditedBlank, EditsOfSent, OneEdit, UnsentUntouched, UnderWay, BeingEdited, BeingClosed, Updating, CallTypes, CardTypes, Disconnect, inVars, hookVars, callVars, rowVars, postVars, cardVars
<1>26. ASSUME Disconnected PROVE EditedBlank'
  BY <1>26, <1>a, <1>b, <1>s, CallsAre, DeliveryAssumption DEF EditedBlank, EditsOfSent, OneEdit, UnsentUntouched, UnderWay, BeingEdited, BeingClosed, Updating, CallTypes, CardTypes, Disconnected, callVars, rowVars, postVars
<1>27. ASSUME Tick PROVE EditedBlank'
  BY <1>27, <1>a, <1>b, <1>s, CallsAre, DeliveryAssumption DEF EditedBlank, EditsOfSent, OneEdit, UnsentUntouched, UnderWay, BeingEdited, BeingClosed, Updating, CallTypes, CardTypes, Tick, connVars, inVars, hookVars, callVars, rowVars, postVars, cardVars
<1>28. ASSUME NEW ch \in Chats, DisconnectTakes(ch) PROVE EditedBlank'
  BY <1>28, <1>a, <1>b, <1>s, CallsAre, DeliveryAssumption DEF EditedBlank, EditsOfSent, OneEdit, UnsentUntouched, UnderWay, BeingEdited, BeingClosed, Updating, CallTypes, CardTypes, DisconnectTakes, TakeCards, inVars, hookVars, callVars, rowVars, postVars
<1>29. CASE UNCHANGED vars
  BY <1>29, <1>a, <1>b, <1>s, CallsAre, DeliveryAssumption DEF EditedBlank, EditsOfSent, OneEdit, UnsentUntouched, UnderWay, BeingEdited, BeingClosed, Updating, CallTypes, CardTypes, vars, connVars, inVars, hookVars, callVars, rowVars, postVars, cardVars
<1> QED
  BY <1>1, <1>2, <1>3, <1>4, <1>5, <1>6, <1>7, <1>8, <1>9, <1>10, <1>11, <1>12, <1>13, <1>14, <1>15, <1>16, <1>17, <1>18, <1>19, <1>20, <1>21, <1>22, <1>23, <1>24, <1>25, <1>26, <1>27, <1>28, <1>29, CallsAre DEF Next, Inbound, StartSend, StepSend, StepEdit

\* Nothing overwrites the text of an edit before it returns.
LEMMA EditedTextKept ==
  ASSUME Base, ShownInv, [Next]_vars
  PROVE  EditedText'
<1>a. CallTypes /\ CardTypes
  BY TypeParts DEF Base
<1>b. EditsOfSent /\ OneEdit /\ UnsentUntouched /\ OwnText
  BY DEF Base, EditInv
<1>s. EditedBlank /\ EditedText /\ SavedText
  BY DEF ShownInv
<1>1. ASSUME NEW m \in Messages, NEW hook \in BOOLEAN, Arrive(m, hook) PROVE EditedText'
  BY <1>1, <1>a, <1>b, <1>s, CallsAre, DeliveryAssumption DEF EditedText, EditsOfSent, OneEdit, UnsentUntouched, UnderWay, BeingEdited, BeingClosed, Updating, EditedBlank, CallTypes, CardTypes, Arrive, connVars, hookVars, callVars, rowVars, postVars, cardVars
<1>2. ASSUME NEW m \in Messages, Gated(m) PROVE EditedText'
  BY <1>2, <1>a, <1>b, <1>s, CallsAre, DeliveryAssumption DEF EditedText, EditsOfSent, OneEdit, UnsentUntouched, UnderWay, BeingEdited, BeingClosed, Updating, EditedBlank, CallTypes, CardTypes, Gated, connVars, hookVars, callVars, rowVars, postVars, cardVars
<1>3. ASSUME NEW ch \in Chats, WebhookExpires(ch) PROVE EditedText'
  BY <1>3, <1>a, <1>b, <1>s, CallsAre, DeliveryAssumption DEF EditedText, EditsOfSent, OneEdit, UnsentUntouched, UnderWay, BeingEdited, BeingClosed, Updating, EditedBlank, CallTypes, CardTypes, WebhookExpires, connVars, inVars, callVars, rowVars, postVars, cardVars
<1>4. ASSUME NEW o \in Sends, NEW ch \in Chats, NEW f \in BOOLEAN, SendRefused(o, ch, f) PROVE EditedText'
  BY <1>4, <1>a, <1>b, <1>s, CallsAre, DeliveryAssumption DEF EditedText, EditsOfSent, OneEdit, UnsentUntouched, UnderWay, BeingEdited, BeingClosed, Updating, EditedBlank, CallTypes, CardTypes, SendRefused, Begin, Goto, connVars, inVars, hookVars, rowVars, postVars, cardVars
<1>5. ASSUME NEW o \in Sends, NEW ch \in Chats, NEW f \in BOOLEAN, SendsCard(o, ch, f) PROVE EditedText'
  BY <1>5, <1>a, <1>b, <1>s, CallsAre, DeliveryAssumption DEF EditedText, EditsOfSent, OneEdit, UnsentUntouched, UnderWay, BeingEdited, BeingClosed, Updating, EditedBlank, CallTypes, CardTypes, SendsCard, Begin, TakeCards, Goto, connVars, inVars, hookVars, rowVars, postVars
<1>6. ASSUME NEW o \in Sends, NEW ch \in Chats, NEW f \in BOOLEAN, SendsPlain(o, ch, f) PROVE EditedText'
  BY <1>6, <1>a, <1>b, <1>s, CallsAre, DeliveryAssumption DEF EditedText, EditsOfSent, OneEdit, UnsentUntouched, UnderWay, BeingEdited, BeingClosed, Updating, EditedBlank, CallTypes, CardTypes, SendsPlain, Begin, Posts, Goto, connVars, inVars, hookVars, cardVars
<1>7. ASSUME NEW o \in Sends, SiblingsClosed(o) PROVE EditedText'
  BY <1>7, <1>a, <1>b, <1>s, CallsAre, DeliveryAssumption DEF EditedText, EditsOfSent, OneEdit, UnsentUntouched, UnderWay, BeingEdited, BeingClosed, Updating, EditedBlank, CallTypes, CardTypes, SiblingsClosed, Goto, connVars, inVars, hookVars, callVars, rowVars, postVars, cardVars
<1>8. ASSUME NEW o \in Sends, CardDelivered(o) PROVE EditedText'
  BY <1>8, <1>a, <1>b, <1>s, CallsAre, DeliveryAssumption DEF EditedText, EditsOfSent, OneEdit, UnsentUntouched, UnderWay, BeingEdited, BeingClosed, Updating, EditedBlank, CallTypes, CardTypes, CardDelivered, Goto, connVars, inVars, hookVars, callVars, rowVars, postVars
<1>9. ASSUME NEW o \in Sends, CardFails(o) PROVE EditedText'
  BY <1>9, <1>a, <1>b, <1>s, CallsAre, DeliveryAssumption DEF EditedText, EditsOfSent, OneEdit, UnsentUntouched, UnderWay, BeingEdited, BeingClosed, Updating, EditedBlank, CallTypes, CardTypes, CardFails, Posts, Goto, connVars, inVars, hookVars, callVars
<1>10. ASSUME NEW o \in Calls, UpdateApplied(o) PROVE EditedText'
  <2> SUFFICES ASSUME NEW c \in Sends \ raced, NEW e \in Edits, target[e] = c, pc'[e] = "applied"
                PROVE  shown'[c] = e
    BY <1>10 DEF EditedText, UpdateApplied, callVars
  <2>1. CASE e = o
    BY <1>10, <2>1, <1>a, DeliveryAssumption DEF UpdateApplied, CardOf, CardTypes
  <2>2. CASE e # o
    <3>1. pc[e] = "applied" /\ pc[c] = "delivered" /\ shown[c] = e
      BY <1>10, <2>2, <1>a, <1>b, <1>s, CallsAre DEF UpdateApplied, Goto, CallTypes, EditsOfSent, UnderWay, Updating, EditedText
    <3>2. CardOf(o) # c
      BY <1>10, <2>2, <3>1, <1>b DEF UpdateApplied, CardOf, Calls, OneEdit, UnderWay, Updating
    <3> QED
      BY <1>10, <3>1, <3>2, <1>a DEF UpdateApplied, CardTypes
  <2> QED
    BY <2>1, <2>2
<1>11. ASSUME NEW o \in Sends, CardSent(o) PROVE EditedText'
  BY <1>11, <1>a, <1>b, <1>s, CallsAre, DeliveryAssumption DEF EditedText, EditsOfSent, OneEdit, UnsentUntouched, UnderWay, BeingEdited, BeingClosed, Updating, EditedBlank, CallTypes, CardTypes, CardSent, RememberDelivery, Track, Late, Goto, connVars, hookVars, callVars, rowVars, postVars
<1>12. ASSUME NEW o \in Sends, CardLost(o) PROVE EditedText'
  BY <1>12, <1>a, <1>b, <1>s, CallsAre, DeliveryAssumption DEF EditedText, EditsOfSent, OneEdit, UnsentUntouched, UnderWay, BeingEdited, BeingClosed, Updating, EditedBlank, CallTypes, CardTypes, CardLost, Posts, Goto, connVars, inVars, hookVars, callVars
<1>13. ASSUME NEW o \in Sends, Accept(o) PROVE EditedText'
  BY <1>13, <1>a, <1>b, <1>s, CallsAre, DeliveryAssumption DEF EditedText, EditsOfSent, OneEdit, UnsentUntouched, UnderWay, BeingEdited, BeingClosed, Updating, EditedBlank, CallTypes, CardTypes, Accept, connVars, inVars, hookVars, callVars, cardVars
<1>14. ASSUME NEW o \in Sends, Reject(o) PROVE EditedText'
  BY <1>14, <1>a, <1>b, <1>s, CallsAre, DeliveryAssumption DEF EditedText, EditsOfSent, OneEdit, UnsentUntouched, UnderWay, BeingEdited, BeingClosed, Updating, EditedBlank, CallTypes, CardTypes, Reject, connVars, inVars, hookVars, callVars, rowVars, cardVars
<1>15. ASSUME NEW o \in Sends, PostDelivered(o) PROVE EditedText'
  BY <1>15, <1>a, <1>b, <1>s, CallsAre, DeliveryAssumption DEF EditedText, EditsOfSent, OneEdit, UnsentUntouched, UnderWay, BeingEdited, BeingClosed, Updating, EditedBlank, CallTypes, CardTypes, PostDelivered, RememberWebhook, Forget, Goto, connVars, hookVars, callVars, postVars, cardVars
<1>16. ASSUME NEW o \in Sends, PostRejected(o) PROVE EditedText'
  BY <1>16, <1>a, <1>b, <1>s, CallsAre, DeliveryAssumption DEF EditedText, EditsOfSent, OneEdit, UnsentUntouched, UnderWay, BeingEdited, BeingClosed, Updating, EditedBlank, CallTypes, CardTypes, PostRejected, Forget, Goto, connVars, inVars, hookVars, callVars, rowVars, postVars, cardVars
<1>17. ASSUME NEW o \in Sends, PostMisread(o) PROVE EditedText'
  BY <1>17, <1>a, <1>b, <1>s, CallsAre, DeliveryAssumption DEF EditedText, EditsOfSent, OneEdit, UnsentUntouched, UnderWay, BeingEdited, BeingClosed, Updating, EditedBlank, CallTypes, CardTypes, PostMisread, Forget, Goto, connVars, inVars, hookVars, callVars, rowVars, cardVars
<1>18. ASSUME NEW o \in Sends, PostUnknown(o) PROVE EditedText'
  BY <1>18, <1>a, <1>b, <1>s, CallsAre, DeliveryAssumption DEF EditedText, EditsOfSent, OneEdit, UnsentUntouched, UnderWay, BeingEdited, BeingClosed, Updating, EditedBlank, CallTypes, CardTypes, PostUnknown, Forget, Goto, connVars, inVars, hookVars, callVars, rowVars, postVars, cardVars
<1>19. ASSUME NEW e \in Edits, NEW c \in Sends, NEW f \in BOOLEAN, Edit(e, c, f) PROVE EditedText'
  BY <1>19, <1>a, <1>b, <1>s, CallsAre, DeliveryAssumption DEF EditedText, EditsOfSent, OneEdit, UnsentUntouched, UnderWay, BeingEdited, BeingClosed, Updating, EditedBlank, CallTypes, CardTypes, Edit, Goto, connVars, inVars, hookVars, rowVars, postVars, cardVars
<1>20. ASSUME NEW e \in Edits, EditInvalidates(e) PROVE EditedText'
  BY <1>20, <1>a, <1>b, <1>s, CallsAre, DeliveryAssumption DEF EditedText, EditsOfSent, OneEdit, UnsentUntouched, UnderWay, BeingEdited, BeingClosed, Updating, EditedBlank, CallTypes, CardTypes, EditInvalidates, InvalidateContent, Goto, connVars, inVars, hookVars, callVars, rowVars, postVars
<1>21. ASSUME NEW e \in Edits, EditRefused(e) PROVE EditedText'
  BY <1>21, <1>a, <1>b, <1>s, CallsAre, DeliveryAssumption DEF EditedText, EditsOfSent, OneEdit, UnsentUntouched, UnderWay, BeingEdited, BeingClosed, Updating, EditedBlank, CallTypes, CardTypes, EditRefused, Goto, connVars, inVars, hookVars, callVars, rowVars, postVars, cardVars
<1>22. ASSUME NEW e \in Edits, EditDone(e) PROVE EditedText'
  BY <1>22, <1>a, <1>b, <1>s, CallsAre, DeliveryAssumption DEF EditedText, EditsOfSent, OneEdit, UnsentUntouched, UnderWay, BeingEdited, BeingClosed, Updating, EditedBlank, CallTypes, CardTypes, EditDone, UpdateContent, Track, Late, Goto, connVars, hookVars, callVars, rowVars, postVars
<1>23. ASSUME NEW e \in Edits, EditLost(e) PROVE EditedText'
  BY <1>23, <1>a, <1>b, <1>s, CallsAre, DeliveryAssumption DEF EditedText, EditsOfSent, OneEdit, UnsentUntouched, UnderWay, BeingEdited, BeingClosed, Updating, EditedBlank, CallTypes, CardTypes, EditLost, Goto, connVars, inVars, hookVars, callVars, rowVars, postVars
<1>24. ASSUME NEW x \in Closers, NEW c \in Sends, CloseSibling(x, c) PROVE EditedText'
  BY <1>24, <1>a, <1>b, <1>s, CallsAre, DeliveryAssumption, SMTT(60) DEF EditedText, EditsOfSent, OneEdit, UnsentUntouched, UnderWay, BeingEdited, BeingClosed, Updating, EditedBlank, CallTypes, CardTypes, CloseSibling, connVars, inVars, hookVars, callVars, rowVars, postVars
<1>25. ASSUME Disconnect PROVE EditedText'
  BY <1>25, <1>a, <1>b, <1>s, CallsAre, DeliveryAssumption DEF EditedText, EditsOfSent, OneEdit, UnsentUntouched, UnderWay, BeingEdited, BeingClosed, Updating, EditedBlank, CallTypes, CardTypes, Disconnect, inVars, hookVars, callVars, rowVars, postVars, cardVars
<1>26. ASSUME Disconnected PROVE EditedText'
  BY <1>26, <1>a, <1>b, <1>s, CallsAre, DeliveryAssumption DEF EditedText, EditsOfSent, OneEdit, UnsentUntouched, UnderWay, BeingEdited, BeingClosed, Updating, EditedBlank, CallTypes, CardTypes, Disconnected, callVars, rowVars, postVars
<1>27. ASSUME Tick PROVE EditedText'
  BY <1>27, <1>a, <1>b, <1>s, CallsAre, DeliveryAssumption DEF EditedText, EditsOfSent, OneEdit, UnsentUntouched, UnderWay, BeingEdited, BeingClosed, Updating, EditedBlank, CallTypes, CardTypes, Tick, connVars, inVars, hookVars, callVars, rowVars, postVars, cardVars
<1>28. ASSUME NEW ch \in Chats, DisconnectTakes(ch) PROVE EditedText'
  BY <1>28, <1>a, <1>b, <1>s, CallsAre, DeliveryAssumption DEF EditedText, EditsOfSent, OneEdit, UnsentUntouched, UnderWay, BeingEdited, BeingClosed, Updating, EditedBlank, CallTypes, CardTypes, DisconnectTakes, TakeCards, inVars, hookVars, callVars, rowVars, postVars
<1>29. CASE UNCHANGED vars
  BY <1>29, <1>a, <1>b, <1>s, CallsAre, DeliveryAssumption DEF EditedText, EditsOfSent, OneEdit, UnsentUntouched, UnderWay, BeingEdited, BeingClosed, Updating, EditedBlank, CallTypes, CardTypes, vars, connVars, inVars, hookVars, callVars, rowVars, postVars, cardVars
<1> QED
  BY <1>1, <1>2, <1>3, <1>4, <1>5, <1>6, <1>7, <1>8, <1>9, <1>10, <1>11, <1>12, <1>13, <1>14, <1>15, <1>16, <1>17, <1>18, <1>19, <1>20, <1>21, <1>22, <1>23, <1>24, <1>25, <1>26, <1>27, <1>28, <1>29, CallsAre DEF Next, Inbound, StartSend, StepSend, StepEdit

\* What is saved, tracked and closed with stays what is shown.
LEMMA SavedTextKept ==
  ASSUME Base, ShownInv, [Next]_vars
  PROVE  SavedText'
<1>a. CallTypes /\ CardTypes
  BY TypeParts DEF Base
<1>b. EditsOfSent /\ OneEdit /\ UnsentUntouched /\ OwnText
  BY DEF Base, EditInv
<1>s. EditedBlank /\ EditedText /\ SavedText
  BY DEF ShownInv
<1>1. ASSUME NEW m \in Messages, NEW hook \in BOOLEAN, Arrive(m, hook) PROVE SavedText'
  BY <1>1, <1>a, <1>b, <1>s, CallsAre, DeliveryAssumption DEF SavedText, EditsOfSent, OneEdit, UnsentUntouched, UnderWay, BeingEdited, BeingClosed, Updating, EditedBlank, EditedText, OwnText, CallTypes, CardTypes, Arrive, connVars, hookVars, callVars, rowVars, postVars, cardVars
<1>2. ASSUME NEW m \in Messages, Gated(m) PROVE SavedText'
  BY <1>2, <1>a, <1>b, <1>s, CallsAre, DeliveryAssumption DEF SavedText, EditsOfSent, OneEdit, UnsentUntouched, UnderWay, BeingEdited, BeingClosed, Updating, EditedBlank, EditedText, OwnText, CallTypes, CardTypes, Gated, connVars, hookVars, callVars, rowVars, postVars, cardVars
<1>3. ASSUME NEW ch \in Chats, WebhookExpires(ch) PROVE SavedText'
  BY <1>3, <1>a, <1>b, <1>s, CallsAre, DeliveryAssumption DEF SavedText, EditsOfSent, OneEdit, UnsentUntouched, UnderWay, BeingEdited, BeingClosed, Updating, EditedBlank, EditedText, OwnText, CallTypes, CardTypes, WebhookExpires, connVars, inVars, callVars, rowVars, postVars, cardVars
<1>4. ASSUME NEW o \in Sends, NEW ch \in Chats, NEW f \in BOOLEAN, SendRefused(o, ch, f) PROVE SavedText'
  BY <1>4, <1>a, <1>b, <1>s, CallsAre, DeliveryAssumption DEF SavedText, EditsOfSent, OneEdit, UnsentUntouched, UnderWay, BeingEdited, BeingClosed, Updating, EditedBlank, EditedText, OwnText, CallTypes, CardTypes, SendRefused, Begin, Goto, connVars, inVars, hookVars, rowVars, postVars, cardVars
<1>5. ASSUME NEW o \in Sends, NEW ch \in Chats, NEW f \in BOOLEAN, SendsCard(o, ch, f) PROVE SavedText'
  BY <1>5, <1>a, <1>b, <1>s, CallsAre, DeliveryAssumption DEF SavedText, EditsOfSent, OneEdit, UnsentUntouched, UnderWay, BeingEdited, BeingClosed, Updating, EditedBlank, EditedText, OwnText, CallTypes, CardTypes, SendsCard, Begin, TakeCards, Goto, connVars, inVars, hookVars, rowVars, postVars
<1>6. ASSUME NEW o \in Sends, NEW ch \in Chats, NEW f \in BOOLEAN, SendsPlain(o, ch, f) PROVE SavedText'
  BY <1>6, <1>a, <1>b, <1>s, CallsAre, DeliveryAssumption DEF SavedText, EditsOfSent, OneEdit, UnsentUntouched, UnderWay, BeingEdited, BeingClosed, Updating, EditedBlank, EditedText, OwnText, CallTypes, CardTypes, SendsPlain, Begin, Posts, Goto, connVars, inVars, hookVars, cardVars
<1>7. ASSUME NEW o \in Sends, SiblingsClosed(o) PROVE SavedText'
  BY <1>7, <1>a, <1>b, <1>s, CallsAre, DeliveryAssumption DEF SavedText, EditsOfSent, OneEdit, UnsentUntouched, UnderWay, BeingEdited, BeingClosed, Updating, EditedBlank, EditedText, OwnText, CallTypes, CardTypes, SiblingsClosed, Goto, connVars, inVars, hookVars, callVars, rowVars, postVars, cardVars
<1>8. ASSUME NEW o \in Sends, CardDelivered(o) PROVE SavedText'
  BY <1>8, <1>a, <1>b, <1>s, CallsAre, DeliveryAssumption DEF SavedText, EditsOfSent, OneEdit, UnsentUntouched, UnderWay, BeingEdited, BeingClosed, Updating, EditedBlank, EditedText, OwnText, CallTypes, CardTypes, CardDelivered, Goto, connVars, inVars, hookVars, callVars, rowVars, postVars
<1>9. ASSUME NEW o \in Sends, CardFails(o) PROVE SavedText'
  BY <1>9, <1>a, <1>b, <1>s, CallsAre, DeliveryAssumption DEF SavedText, EditsOfSent, OneEdit, UnsentUntouched, UnderWay, BeingEdited, BeingClosed, Updating, EditedBlank, EditedText, OwnText, CallTypes, CardTypes, CardFails, Posts, Goto, connVars, inVars, hookVars, callVars
<1>10. ASSUME NEW o \in Calls, UpdateApplied(o) PROVE SavedText'
  <2>1. CardOf(o) \in Sends /\ (CardOf(o) \in raced \/ saved[CardOf(o)] \in {NoRow, Blank})
    <3>1. CASE o \in Sends
      BY <1>10, <3>1, <1>b DEF UpdateApplied, CardOf, UnsentUntouched
    <3>2. CASE o \in Edits /\ o \notin Sends
      BY <1>10, <3>2, <1>b, <1>s DEF UpdateApplied, CardOf, EditsOfSent, UnderWay, Updating, EditedBlank, BeingEdited
    <3> QED
      BY <3>1, <3>2 DEF Calls
  <2> QED
    BY <1>10, <2>1, <1>a, <1>s DEF UpdateApplied, SavedText, CardTypes
<1>11. ASSUME NEW o \in Sends, CardSent(o) PROVE SavedText'
  BY <1>11, <1>a, <1>b, <1>s, CallsAre, DeliveryAssumption DEF SavedText, EditsOfSent, OneEdit, UnsentUntouched, UnderWay, BeingEdited, BeingClosed, Updating, EditedBlank, EditedText, OwnText, CallTypes, CardTypes, CardSent, RememberDelivery, Track, Late, Goto, connVars, hookVars, callVars, rowVars, postVars
<1>12. ASSUME NEW o \in Sends, CardLost(o) PROVE SavedText'
  BY <1>12, <1>a, <1>b, <1>s, CallsAre, DeliveryAssumption DEF SavedText, EditsOfSent, OneEdit, UnsentUntouched, UnderWay, BeingEdited, BeingClosed, Updating, EditedBlank, EditedText, OwnText, CallTypes, CardTypes, CardLost, Posts, Goto, connVars, inVars, hookVars, callVars
<1>13. ASSUME NEW o \in Sends, Accept(o) PROVE SavedText'
  BY <1>13, <1>a, <1>b, <1>s, CallsAre, DeliveryAssumption DEF SavedText, EditsOfSent, OneEdit, UnsentUntouched, UnderWay, BeingEdited, BeingClosed, Updating, EditedBlank, EditedText, OwnText, CallTypes, CardTypes, Accept, connVars, inVars, hookVars, callVars, cardVars
<1>14. ASSUME NEW o \in Sends, Reject(o) PROVE SavedText'
  BY <1>14, <1>a, <1>b, <1>s, CallsAre, DeliveryAssumption DEF SavedText, EditsOfSent, OneEdit, UnsentUntouched, UnderWay, BeingEdited, BeingClosed, Updating, EditedBlank, EditedText, OwnText, CallTypes, CardTypes, Reject, connVars, inVars, hookVars, callVars, rowVars, cardVars
<1>15. ASSUME NEW o \in Sends, PostDelivered(o) PROVE SavedText'
  BY <1>15, <1>a, <1>b, <1>s, CallsAre, DeliveryAssumption DEF SavedText, EditsOfSent, OneEdit, UnsentUntouched, UnderWay, BeingEdited, BeingClosed, Updating, EditedBlank, EditedText, OwnText, CallTypes, CardTypes, PostDelivered, RememberWebhook, Forget, Goto, connVars, hookVars, callVars, postVars, cardVars
<1>16. ASSUME NEW o \in Sends, PostRejected(o) PROVE SavedText'
  BY <1>16, <1>a, <1>b, <1>s, CallsAre, DeliveryAssumption DEF SavedText, EditsOfSent, OneEdit, UnsentUntouched, UnderWay, BeingEdited, BeingClosed, Updating, EditedBlank, EditedText, OwnText, CallTypes, CardTypes, PostRejected, Forget, Goto, connVars, inVars, hookVars, callVars, rowVars, postVars, cardVars
<1>17. ASSUME NEW o \in Sends, PostMisread(o) PROVE SavedText'
  BY <1>17, <1>a, <1>b, <1>s, CallsAre, DeliveryAssumption DEF SavedText, EditsOfSent, OneEdit, UnsentUntouched, UnderWay, BeingEdited, BeingClosed, Updating, EditedBlank, EditedText, OwnText, CallTypes, CardTypes, PostMisread, Forget, Goto, connVars, inVars, hookVars, callVars, rowVars, cardVars
<1>18. ASSUME NEW o \in Sends, PostUnknown(o) PROVE SavedText'
  BY <1>18, <1>a, <1>b, <1>s, CallsAre, DeliveryAssumption DEF SavedText, EditsOfSent, OneEdit, UnsentUntouched, UnderWay, BeingEdited, BeingClosed, Updating, EditedBlank, EditedText, OwnText, CallTypes, CardTypes, PostUnknown, Forget, Goto, connVars, inVars, hookVars, callVars, rowVars, postVars, cardVars
<1>19. ASSUME NEW e \in Edits, NEW c \in Sends, NEW f \in BOOLEAN, Edit(e, c, f) PROVE SavedText'
  BY <1>19, <1>a, <1>b, <1>s, CallsAre, DeliveryAssumption DEF SavedText, EditsOfSent, OneEdit, UnsentUntouched, UnderWay, BeingEdited, BeingClosed, Updating, EditedBlank, EditedText, OwnText, CallTypes, CardTypes, Edit, Goto, connVars, inVars, hookVars, rowVars, postVars, cardVars
<1>20. ASSUME NEW e \in Edits, EditInvalidates(e) PROVE SavedText'
  BY <1>20, <1>a, <1>b, <1>s, CallsAre, DeliveryAssumption DEF SavedText, EditsOfSent, OneEdit, UnsentUntouched, UnderWay, BeingEdited, BeingClosed, Updating, EditedBlank, EditedText, OwnText, CallTypes, CardTypes, EditInvalidates, InvalidateContent, Goto, connVars, inVars, hookVars, callVars, rowVars, postVars
<1>21. ASSUME NEW e \in Edits, EditRefused(e) PROVE SavedText'
  BY <1>21, <1>a, <1>b, <1>s, CallsAre, DeliveryAssumption DEF SavedText, EditsOfSent, OneEdit, UnsentUntouched, UnderWay, BeingEdited, BeingClosed, Updating, EditedBlank, EditedText, OwnText, CallTypes, CardTypes, EditRefused, Goto, connVars, inVars, hookVars, callVars, rowVars, postVars, cardVars
<1>22. ASSUME NEW e \in Edits, EditDone(e) PROVE SavedText'
  BY <1>22, <1>a, <1>b, <1>s, CallsAre, DeliveryAssumption DEF SavedText, EditsOfSent, OneEdit, UnsentUntouched, UnderWay, BeingEdited, BeingClosed, Updating, EditedBlank, EditedText, OwnText, CallTypes, CardTypes, EditDone, UpdateContent, Track, Late, Goto, connVars, hookVars, callVars, rowVars, postVars
<1>23. ASSUME NEW e \in Edits, EditLost(e) PROVE SavedText'
  BY <1>23, <1>a, <1>b, <1>s, CallsAre, DeliveryAssumption DEF SavedText, EditsOfSent, OneEdit, UnsentUntouched, UnderWay, BeingEdited, BeingClosed, Updating, EditedBlank, EditedText, OwnText, CallTypes, CardTypes, EditLost, Goto, connVars, inVars, hookVars, callVars, rowVars, postVars
<1>24. ASSUME NEW x \in Closers, NEW c \in Sends, CloseSibling(x, c) PROVE SavedText'
  BY <1>24, <1>a, <1>b, <1>s, CallsAre, DeliveryAssumption DEF SavedText, EditsOfSent, OneEdit, UnsentUntouched, UnderWay, BeingEdited, BeingClosed, Updating, EditedBlank, EditedText, OwnText, CallTypes, CardTypes, CloseSibling, connVars, inVars, hookVars, callVars, rowVars, postVars
<1>25. ASSUME Disconnect PROVE SavedText'
  BY <1>25, <1>a, <1>b, <1>s, CallsAre, DeliveryAssumption DEF SavedText, EditsOfSent, OneEdit, UnsentUntouched, UnderWay, BeingEdited, BeingClosed, Updating, EditedBlank, EditedText, OwnText, CallTypes, CardTypes, Disconnect, inVars, hookVars, callVars, rowVars, postVars, cardVars
<1>26. ASSUME Disconnected PROVE SavedText'
  BY <1>26, <1>a, <1>b, <1>s, CallsAre, DeliveryAssumption DEF SavedText, EditsOfSent, OneEdit, UnsentUntouched, UnderWay, BeingEdited, BeingClosed, Updating, EditedBlank, EditedText, OwnText, CallTypes, CardTypes, Disconnected, callVars, rowVars, postVars
<1>27. ASSUME Tick PROVE SavedText'
  BY <1>27, <1>a, <1>b, <1>s, CallsAre, DeliveryAssumption DEF SavedText, EditsOfSent, OneEdit, UnsentUntouched, UnderWay, BeingEdited, BeingClosed, Updating, EditedBlank, EditedText, OwnText, CallTypes, CardTypes, Tick, connVars, inVars, hookVars, callVars, rowVars, postVars, cardVars
<1>28. ASSUME NEW ch \in Chats, DisconnectTakes(ch) PROVE SavedText'
  BY <1>28, <1>a, <1>b, <1>s, CallsAre, DeliveryAssumption DEF SavedText, EditsOfSent, OneEdit, UnsentUntouched, UnderWay, BeingEdited, BeingClosed, Updating, EditedBlank, EditedText, OwnText, CallTypes, CardTypes, DisconnectTakes, TakeCards, inVars, hookVars, callVars, rowVars, postVars
<1>29. CASE UNCHANGED vars
  BY <1>29, <1>a, <1>b, <1>s, CallsAre, DeliveryAssumption DEF SavedText, EditsOfSent, OneEdit, UnsentUntouched, UnderWay, BeingEdited, BeingClosed, Updating, EditedBlank, EditedText, OwnText, CallTypes, CardTypes, vars, connVars, inVars, hookVars, callVars, rowVars, postVars, cardVars
<1> QED
  BY <1>1, <1>2, <1>3, <1>4, <1>5, <1>6, <1>7, <1>8, <1>9, <1>10, <1>11, <1>12, <1>13, <1>14, <1>15, <1>16, <1>17, <1>18, <1>19, <1>20, <1>21, <1>22, <1>23, <1>24, <1>25, <1>26, <1>27, <1>28, <1>29, CallsAre DEF Next, Inbound, StartSend, StepSend, StepEdit

LEMMA InitShown == Init => ShownInv
  BY CallsAre DEF Init, ShownInv, EditedBlank, EditedText, SavedText, BeingEdited, Updating

\* A quoted card is never answered with a text it does not show, edits that
\* overlapped with its being closed excepted.
THEOREM OriginalsAreCurrent == Spec => []OriginalsCurrent
<1>1. Init => Base /\ ShownInv
  BY InitBase, InitShown
<1>2. Base /\ ShownInv /\ [Next]_vars => (Base /\ ShownInv)'
  BY StepBase, EditedBlankKept, EditedTextKept, SavedTextKept DEF ShownInv
<1>3. ShownInv => OriginalsCurrent
  BY DEF ShownInv, SavedText, OriginalsCurrent
<1> QED
  BY <1>1, <1>2, <1>3, PTL DEF Spec

-----------------------------------------------------------------------------
(* Open cards *)

\* A final update that was carried out has closed its card.
FinalCloses == \A o \in Calls : pc[o] = "applied" /\ o \in final => CardOf(o) \notin open

\* Only a send that is closing cards holds any.
ClosersHold == \A x \in Sends : pc[x] # "closing" => siblings[x] = NoCards

OpenInv == FinalCloses /\ ClosersHold /\ OpenCardsTracked


\* A card that was closed for good stays closed until the call returns.
LEMMA FinalClosesKept ==
  ASSUME Base, OpenInv, [Next]_vars
  PROVE  FinalCloses'
<1>a. CallTypes /\ CardTypes
  BY TypeParts DEF Base
<1>b. EditsOfSent /\ OneEdit /\ UnsentUntouched
  BY DEF Base, EditInv
<1>s. FinalCloses /\ ClosersHold /\ OpenCardsTracked
  BY DEF OpenInv
<1>1. ASSUME NEW m \in Messages, NEW hook \in BOOLEAN, Arrive(m, hook) PROVE FinalCloses'
  BY <1>1, <1>a, <1>b, <1>s, CallsAre, DeliveryAssumption DEF FinalCloses, EditsOfSent, OneEdit, UnsentUntouched, UnderWay, BeingClosed, Updating, CardOf, CallTypes, CardTypes, Arrive, connVars, hookVars, callVars, rowVars, postVars, cardVars
<1>2. ASSUME NEW m \in Messages, Gated(m) PROVE FinalCloses'
  BY <1>2, <1>a, <1>b, <1>s, CallsAre, DeliveryAssumption DEF FinalCloses, EditsOfSent, OneEdit, UnsentUntouched, UnderWay, BeingClosed, Updating, CardOf, CallTypes, CardTypes, Gated, connVars, hookVars, callVars, rowVars, postVars, cardVars
<1>3. ASSUME NEW ch \in Chats, WebhookExpires(ch) PROVE FinalCloses'
  BY <1>3, <1>a, <1>b, <1>s, CallsAre, DeliveryAssumption DEF FinalCloses, EditsOfSent, OneEdit, UnsentUntouched, UnderWay, BeingClosed, Updating, CardOf, CallTypes, CardTypes, WebhookExpires, connVars, inVars, callVars, rowVars, postVars, cardVars
<1>4. ASSUME NEW o \in Sends, NEW ch \in Chats, NEW f \in BOOLEAN, SendRefused(o, ch, f) PROVE FinalCloses'
  BY <1>4, <1>a, <1>b, <1>s, CallsAre, DeliveryAssumption DEF FinalCloses, EditsOfSent, OneEdit, UnsentUntouched, UnderWay, BeingClosed, Updating, CardOf, CallTypes, CardTypes, SendRefused, Begin, Goto, connVars, inVars, hookVars, rowVars, postVars, cardVars
<1>5. ASSUME NEW o \in Sends, NEW ch \in Chats, NEW f \in BOOLEAN, SendsCard(o, ch, f) PROVE FinalCloses'
  BY <1>5, <1>a, <1>b, <1>s, CallsAre, DeliveryAssumption DEF FinalCloses, EditsOfSent, OneEdit, UnsentUntouched, UnderWay, BeingClosed, Updating, CardOf, CallTypes, CardTypes, SendsCard, Begin, TakeCards, Goto, connVars, inVars, hookVars, rowVars, postVars
<1>6. ASSUME NEW o \in Sends, NEW ch \in Chats, NEW f \in BOOLEAN, SendsPlain(o, ch, f) PROVE FinalCloses'
  BY <1>6, <1>a, <1>b, <1>s, CallsAre, DeliveryAssumption DEF FinalCloses, EditsOfSent, OneEdit, UnsentUntouched, UnderWay, BeingClosed, Updating, CardOf, CallTypes, CardTypes, SendsPlain, Begin, Posts, Goto, connVars, inVars, hookVars, cardVars
<1>7. ASSUME NEW o \in Sends, SiblingsClosed(o) PROVE FinalCloses'
  BY <1>7, <1>a, <1>b, <1>s, CallsAre, DeliveryAssumption DEF FinalCloses, EditsOfSent, OneEdit, UnsentUntouched, UnderWay, BeingClosed, Updating, CardOf, CallTypes, CardTypes, SiblingsClosed, Goto, connVars, inVars, hookVars, callVars, rowVars, postVars, cardVars
<1>8. ASSUME NEW o \in Sends, CardDelivered(o) PROVE FinalCloses'
  BY <1>8, <1>a, <1>b, <1>s, CallsAre, DeliveryAssumption DEF FinalCloses, EditsOfSent, OneEdit, UnsentUntouched, UnderWay, BeingClosed, Updating, CardOf, CallTypes, CardTypes, CardDelivered, Goto, connVars, inVars, hookVars, callVars, rowVars, postVars
<1>9. ASSUME NEW o \in Sends, CardFails(o) PROVE FinalCloses'
  BY <1>9, <1>a, <1>b, <1>s, CallsAre, DeliveryAssumption DEF FinalCloses, EditsOfSent, OneEdit, UnsentUntouched, UnderWay, BeingClosed, Updating, CardOf, CallTypes, CardTypes, CardFails, Posts, Goto, connVars, inVars, hookVars, callVars
<1>10. ASSUME NEW o \in Calls, UpdateApplied(o) PROVE FinalCloses'
  <2> SUFFICES ASSUME NEW q \in Calls, pc'[q] = "applied", q \in final
                PROVE  CardOf(q) \notin open'
    BY <1>10 DEF FinalCloses, UpdateApplied, CardOf, callVars
  <2>1. CASE q = o
    BY <1>10, <2>1 DEF UpdateApplied
  <2>2. CASE q # o
    <3>1. pc[q] = "applied" /\ CardOf(q) \notin open
      BY <1>10, <2>2, <1>a, <1>s DEF UpdateApplied, Goto, CallTypes, FinalCloses
    <3>2. CardOf(q) # CardOf(o)
      BY <1>10, <2>2, <3>1, <1>b DEF UpdateApplied, CardOf, Calls, EditsOfSent, OneEdit, UnderWay, Updating
    <3> QED
      BY <1>10, <3>1, <3>2 DEF UpdateApplied
  <2> QED
    BY <2>1, <2>2
<1>11. ASSUME NEW o \in Sends, CardSent(o) PROVE FinalCloses'
  BY <1>11, <1>a, <1>b, <1>s, CallsAre, DeliveryAssumption DEF FinalCloses, EditsOfSent, OneEdit, UnsentUntouched, UnderWay, BeingClosed, Updating, CardOf, CallTypes, CardTypes, CardSent, RememberDelivery, Track, Late, Goto, connVars, hookVars, callVars, rowVars, postVars
<1>12. ASSUME NEW o \in Sends, CardLost(o) PROVE FinalCloses'
  BY <1>12, <1>a, <1>b, <1>s, CallsAre, DeliveryAssumption DEF FinalCloses, EditsOfSent, OneEdit, UnsentUntouched, UnderWay, BeingClosed, Updating, CardOf, CallTypes, CardTypes, CardLost, Posts, Goto, connVars, inVars, hookVars, callVars
<1>13. ASSUME NEW o \in Sends, Accept(o) PROVE FinalCloses'
  BY <1>13, <1>a, <1>b, <1>s, CallsAre, DeliveryAssumption DEF FinalCloses, EditsOfSent, OneEdit, UnsentUntouched, UnderWay, BeingClosed, Updating, CardOf, CallTypes, CardTypes, Accept, connVars, inVars, hookVars, callVars, cardVars
<1>14. ASSUME NEW o \in Sends, Reject(o) PROVE FinalCloses'
  BY <1>14, <1>a, <1>b, <1>s, CallsAre, DeliveryAssumption DEF FinalCloses, EditsOfSent, OneEdit, UnsentUntouched, UnderWay, BeingClosed, Updating, CardOf, CallTypes, CardTypes, Reject, connVars, inVars, hookVars, callVars, rowVars, cardVars
<1>15. ASSUME NEW o \in Sends, PostDelivered(o) PROVE FinalCloses'
  BY <1>15, <1>a, <1>b, <1>s, CallsAre, DeliveryAssumption DEF FinalCloses, EditsOfSent, OneEdit, UnsentUntouched, UnderWay, BeingClosed, Updating, CardOf, CallTypes, CardTypes, PostDelivered, RememberWebhook, Forget, Goto, connVars, hookVars, callVars, postVars, cardVars
<1>16. ASSUME NEW o \in Sends, PostRejected(o) PROVE FinalCloses'
  BY <1>16, <1>a, <1>b, <1>s, CallsAre, DeliveryAssumption DEF FinalCloses, EditsOfSent, OneEdit, UnsentUntouched, UnderWay, BeingClosed, Updating, CardOf, CallTypes, CardTypes, PostRejected, Forget, Goto, connVars, inVars, hookVars, callVars, rowVars, postVars, cardVars
<1>17. ASSUME NEW o \in Sends, PostMisread(o) PROVE FinalCloses'
  BY <1>17, <1>a, <1>b, <1>s, CallsAre, DeliveryAssumption DEF FinalCloses, EditsOfSent, OneEdit, UnsentUntouched, UnderWay, BeingClosed, Updating, CardOf, CallTypes, CardTypes, PostMisread, Forget, Goto, connVars, inVars, hookVars, callVars, rowVars, cardVars
<1>18. ASSUME NEW o \in Sends, PostUnknown(o) PROVE FinalCloses'
  BY <1>18, <1>a, <1>b, <1>s, CallsAre, DeliveryAssumption DEF FinalCloses, EditsOfSent, OneEdit, UnsentUntouched, UnderWay, BeingClosed, Updating, CardOf, CallTypes, CardTypes, PostUnknown, Forget, Goto, connVars, inVars, hookVars, callVars, rowVars, postVars, cardVars
<1>19. ASSUME NEW e \in Edits, NEW c \in Sends, NEW f \in BOOLEAN, Edit(e, c, f) PROVE FinalCloses'
  BY <1>19, <1>a, <1>b, <1>s, CallsAre, DeliveryAssumption DEF FinalCloses, EditsOfSent, OneEdit, UnsentUntouched, UnderWay, BeingClosed, Updating, CardOf, CallTypes, CardTypes, Edit, Goto, connVars, inVars, hookVars, rowVars, postVars, cardVars
<1>20. ASSUME NEW e \in Edits, EditInvalidates(e) PROVE FinalCloses'
  BY <1>20, <1>a, <1>b, <1>s, CallsAre, DeliveryAssumption DEF FinalCloses, EditsOfSent, OneEdit, UnsentUntouched, UnderWay, BeingClosed, Updating, CardOf, CallTypes, CardTypes, EditInvalidates, InvalidateContent, Goto, connVars, inVars, hookVars, callVars, rowVars, postVars
<1>21. ASSUME NEW e \in Edits, EditRefused(e) PROVE FinalCloses'
  BY <1>21, <1>a, <1>b, <1>s, CallsAre, DeliveryAssumption DEF FinalCloses, EditsOfSent, OneEdit, UnsentUntouched, UnderWay, BeingClosed, Updating, CardOf, CallTypes, CardTypes, EditRefused, Goto, connVars, inVars, hookVars, callVars, rowVars, postVars, cardVars
<1>22. ASSUME NEW e \in Edits, EditDone(e) PROVE FinalCloses'
  BY <1>22, <1>a, <1>b, <1>s, CallsAre, DeliveryAssumption DEF FinalCloses, EditsOfSent, OneEdit, UnsentUntouched, UnderWay, BeingClosed, Updating, CardOf, CallTypes, CardTypes, EditDone, UpdateContent, Track, Late, Goto, connVars, hookVars, callVars, rowVars, postVars
<1>23. ASSUME NEW e \in Edits, EditLost(e) PROVE FinalCloses'
  BY <1>23, <1>a, <1>b, <1>s, CallsAre, DeliveryAssumption DEF FinalCloses, EditsOfSent, OneEdit, UnsentUntouched, UnderWay, BeingClosed, Updating, CardOf, CallTypes, CardTypes, EditLost, Goto, connVars, inVars, hookVars, callVars, rowVars, postVars
<1>24. ASSUME NEW x \in Closers, NEW c \in Sends, CloseSibling(x, c) PROVE FinalCloses'
  BY <1>24, <1>a, <1>b, <1>s, CallsAre, DeliveryAssumption DEF FinalCloses, EditsOfSent, OneEdit, UnsentUntouched, UnderWay, BeingClosed, Updating, CardOf, CallTypes, CardTypes, CloseSibling, connVars, inVars, hookVars, callVars, rowVars, postVars
<1>25. ASSUME Disconnect PROVE FinalCloses'
  BY <1>25, <1>a, <1>b, <1>s, CallsAre, DeliveryAssumption DEF FinalCloses, EditsOfSent, OneEdit, UnsentUntouched, UnderWay, BeingClosed, Updating, CardOf, CallTypes, CardTypes, Disconnect, inVars, hookVars, callVars, rowVars, postVars, cardVars
<1>26. ASSUME Disconnected PROVE FinalCloses'
  BY <1>26, <1>a, <1>b, <1>s, CallsAre, DeliveryAssumption DEF FinalCloses, EditsOfSent, OneEdit, UnsentUntouched, UnderWay, BeingClosed, Updating, CardOf, CallTypes, CardTypes, Disconnected, callVars, rowVars, postVars
<1>27. ASSUME Tick PROVE FinalCloses'
  BY <1>27, <1>a, <1>b, <1>s, CallsAre, DeliveryAssumption DEF FinalCloses, EditsOfSent, OneEdit, UnsentUntouched, UnderWay, BeingClosed, Updating, CardOf, CallTypes, CardTypes, Tick, connVars, inVars, hookVars, callVars, rowVars, postVars, cardVars
<1>28. ASSUME NEW ch \in Chats, DisconnectTakes(ch) PROVE FinalCloses'
  BY <1>28, <1>a, <1>b, <1>s, CallsAre, DeliveryAssumption DEF FinalCloses, EditsOfSent, OneEdit, UnsentUntouched, UnderWay, BeingClosed, Updating, CardOf, CallTypes, CardTypes, DisconnectTakes, TakeCards, inVars, hookVars, callVars, rowVars, postVars
<1>29. CASE UNCHANGED vars
  BY <1>29, <1>a, <1>b, <1>s, CallsAre, DeliveryAssumption DEF FinalCloses, EditsOfSent, OneEdit, UnsentUntouched, UnderWay, BeingClosed, Updating, CardOf, CallTypes, CardTypes, vars, connVars, inVars, hookVars, callVars, rowVars, postVars, cardVars
<1> QED
  BY <1>1, <1>2, <1>3, <1>4, <1>5, <1>6, <1>7, <1>8, <1>9, <1>10, <1>11, <1>12, <1>13, <1>14, <1>15, <1>16, <1>17, <1>18, <1>19, <1>20, <1>21, <1>22, <1>23, <1>24, <1>25, <1>26, <1>27, <1>28, <1>29, CallsAre DEF Next, Inbound, StartSend, StepSend, StepEdit

\* A send gives its list of cards up before it goes on.
LEMMA ClosersHoldKept ==
  ASSUME Base, OpenInv, [Next]_vars
  PROVE  ClosersHold'
<1>a. CallTypes /\ CardTypes
  BY TypeParts DEF Base
<1>b. EditsOfSent /\ OneEdit /\ UnsentUntouched
  BY DEF Base, EditInv
<1>s. FinalCloses /\ ClosersHold /\ OpenCardsTracked
  BY DEF OpenInv
<1>1. ASSUME NEW m \in Messages, NEW hook \in BOOLEAN, Arrive(m, hook) PROVE ClosersHold'
  BY <1>1, <1>a, <1>b, <1>s, CallsAre, DeliveryAssumption DEF ClosersHold, NoCards, Updating, CallTypes, CardTypes, Arrive, connVars, hookVars, callVars, rowVars, postVars, cardVars
<1>2. ASSUME NEW m \in Messages, Gated(m) PROVE ClosersHold'
  BY <1>2, <1>a, <1>b, <1>s, CallsAre, DeliveryAssumption DEF ClosersHold, NoCards, Updating, CallTypes, CardTypes, Gated, connVars, hookVars, callVars, rowVars, postVars, cardVars
<1>3. ASSUME NEW ch \in Chats, WebhookExpires(ch) PROVE ClosersHold'
  BY <1>3, <1>a, <1>b, <1>s, CallsAre, DeliveryAssumption DEF ClosersHold, NoCards, Updating, CallTypes, CardTypes, WebhookExpires, connVars, inVars, callVars, rowVars, postVars, cardVars
<1>4. ASSUME NEW o \in Sends, NEW ch \in Chats, NEW f \in BOOLEAN, SendRefused(o, ch, f) PROVE ClosersHold'
  BY <1>4, <1>a, <1>b, <1>s, CallsAre, DeliveryAssumption DEF ClosersHold, NoCards, Updating, CallTypes, CardTypes, SendRefused, Begin, Goto, connVars, inVars, hookVars, rowVars, postVars, cardVars
<1>5. ASSUME NEW o \in Sends, NEW ch \in Chats, NEW f \in BOOLEAN, SendsCard(o, ch, f) PROVE ClosersHold'
  BY <1>5, <1>a, <1>b, <1>s, CallsAre, DeliveryAssumption DEF ClosersHold, NoCards, Updating, CallTypes, CardTypes, SendsCard, Begin, TakeCards, Goto, connVars, inVars, hookVars, rowVars, postVars
<1>6. ASSUME NEW o \in Sends, NEW ch \in Chats, NEW f \in BOOLEAN, SendsPlain(o, ch, f) PROVE ClosersHold'
  BY <1>6, <1>a, <1>b, <1>s, CallsAre, DeliveryAssumption DEF ClosersHold, NoCards, Updating, CallTypes, CardTypes, SendsPlain, Begin, Posts, Goto, connVars, inVars, hookVars, cardVars
<1>7. ASSUME NEW o \in Sends, SiblingsClosed(o) PROVE ClosersHold'
  BY <1>7, <1>a, <1>b, <1>s, CallsAre, DeliveryAssumption DEF ClosersHold, NoCards, Updating, CallTypes, CardTypes, SiblingsClosed, Goto, connVars, inVars, hookVars, callVars, rowVars, postVars, cardVars
<1>8. ASSUME NEW o \in Sends, CardDelivered(o) PROVE ClosersHold'
  BY <1>8, <1>a, <1>b, <1>s, CallsAre, DeliveryAssumption DEF ClosersHold, NoCards, Updating, CallTypes, CardTypes, CardDelivered, Goto, connVars, inVars, hookVars, callVars, rowVars, postVars
<1>9. ASSUME NEW o \in Sends, CardFails(o) PROVE ClosersHold'
  BY <1>9, <1>a, <1>b, <1>s, CallsAre, DeliveryAssumption DEF ClosersHold, NoCards, Updating, CallTypes, CardTypes, CardFails, Posts, Goto, connVars, inVars, hookVars, callVars
<1>10. ASSUME NEW o \in Calls, UpdateApplied(o) PROVE ClosersHold'
  BY <1>10, <1>a, <1>b, <1>s, CallsAre, DeliveryAssumption DEF ClosersHold, NoCards, Updating, CallTypes, CardTypes, UpdateApplied, CardOf, Goto, connVars, inVars, hookVars, callVars, rowVars, postVars
<1>11. ASSUME NEW o \in Sends, CardSent(o) PROVE ClosersHold'
  BY <1>11, <1>a, <1>b, <1>s, CallsAre, DeliveryAssumption DEF ClosersHold, NoCards, Updating, CallTypes, CardTypes, CardSent, RememberDelivery, Track, Late, Goto, connVars, hookVars, callVars, rowVars, postVars
<1>12. ASSUME NEW o \in Sends, CardLost(o) PROVE ClosersHold'
  BY <1>12, <1>a, <1>b, <1>s, CallsAre, DeliveryAssumption DEF ClosersHold, NoCards, Updating, CallTypes, CardTypes, CardLost, Posts, Goto, connVars, inVars, hookVars, callVars
<1>13. ASSUME NEW o \in Sends, Accept(o) PROVE ClosersHold'
  BY <1>13, <1>a, <1>b, <1>s, CallsAre, DeliveryAssumption DEF ClosersHold, NoCards, Updating, CallTypes, CardTypes, Accept, connVars, inVars, hookVars, callVars, cardVars
<1>14. ASSUME NEW o \in Sends, Reject(o) PROVE ClosersHold'
  BY <1>14, <1>a, <1>b, <1>s, CallsAre, DeliveryAssumption DEF ClosersHold, NoCards, Updating, CallTypes, CardTypes, Reject, connVars, inVars, hookVars, callVars, rowVars, cardVars
<1>15. ASSUME NEW o \in Sends, PostDelivered(o) PROVE ClosersHold'
  BY <1>15, <1>a, <1>b, <1>s, CallsAre, DeliveryAssumption DEF ClosersHold, NoCards, Updating, CallTypes, CardTypes, PostDelivered, RememberWebhook, Forget, Goto, connVars, hookVars, callVars, postVars, cardVars
<1>16. ASSUME NEW o \in Sends, PostRejected(o) PROVE ClosersHold'
  BY <1>16, <1>a, <1>b, <1>s, CallsAre, DeliveryAssumption DEF ClosersHold, NoCards, Updating, CallTypes, CardTypes, PostRejected, Forget, Goto, connVars, inVars, hookVars, callVars, rowVars, postVars, cardVars
<1>17. ASSUME NEW o \in Sends, PostMisread(o) PROVE ClosersHold'
  BY <1>17, <1>a, <1>b, <1>s, CallsAre, DeliveryAssumption DEF ClosersHold, NoCards, Updating, CallTypes, CardTypes, PostMisread, Forget, Goto, connVars, inVars, hookVars, callVars, rowVars, cardVars
<1>18. ASSUME NEW o \in Sends, PostUnknown(o) PROVE ClosersHold'
  BY <1>18, <1>a, <1>b, <1>s, CallsAre, DeliveryAssumption DEF ClosersHold, NoCards, Updating, CallTypes, CardTypes, PostUnknown, Forget, Goto, connVars, inVars, hookVars, callVars, rowVars, postVars, cardVars
<1>19. ASSUME NEW e \in Edits, NEW c \in Sends, NEW f \in BOOLEAN, Edit(e, c, f) PROVE ClosersHold'
  BY <1>19, <1>a, <1>b, <1>s, CallsAre, DeliveryAssumption DEF ClosersHold, NoCards, Updating, CallTypes, CardTypes, Edit, Goto, connVars, inVars, hookVars, rowVars, postVars, cardVars
<1>20. ASSUME NEW e \in Edits, EditInvalidates(e) PROVE ClosersHold'
  BY <1>20, <1>a, <1>b, <1>s, CallsAre, DeliveryAssumption DEF ClosersHold, NoCards, Updating, CallTypes, CardTypes, EditInvalidates, InvalidateContent, Goto, connVars, inVars, hookVars, callVars, rowVars, postVars
<1>21. ASSUME NEW e \in Edits, EditRefused(e) PROVE ClosersHold'
  BY <1>21, <1>a, <1>b, <1>s, CallsAre, DeliveryAssumption DEF ClosersHold, NoCards, Updating, CallTypes, CardTypes, EditRefused, Goto, connVars, inVars, hookVars, callVars, rowVars, postVars, cardVars
<1>22. ASSUME NEW e \in Edits, EditDone(e) PROVE ClosersHold'
  BY <1>22, <1>a, <1>b, <1>s, CallsAre, DeliveryAssumption DEF ClosersHold, NoCards, Updating, CallTypes, CardTypes, EditDone, UpdateContent, Track, Late, Goto, connVars, hookVars, callVars, rowVars, postVars
<1>23. ASSUME NEW e \in Edits, EditLost(e) PROVE ClosersHold'
  BY <1>23, <1>a, <1>b, <1>s, CallsAre, DeliveryAssumption DEF ClosersHold, NoCards, Updating, CallTypes, CardTypes, EditLost, Goto, connVars, inVars, hookVars, callVars, rowVars, postVars
<1>24. ASSUME NEW x \in Closers, NEW c \in Sends, CloseSibling(x, c) PROVE ClosersHold'
  BY <1>24, <1>a, <1>b, <1>s, CallsAre, DeliveryAssumption DEF ClosersHold, NoCards, Updating, CallTypes, CardTypes, CloseSibling, connVars, inVars, hookVars, callVars, rowVars, postVars
<1>25. ASSUME Disconnect PROVE ClosersHold'
  BY <1>25, <1>a, <1>b, <1>s, CallsAre, DeliveryAssumption DEF ClosersHold, NoCards, Updating, CallTypes, CardTypes, Disconnect, inVars, hookVars, callVars, rowVars, postVars, cardVars
<1>26. ASSUME Disconnected PROVE ClosersHold'
  BY <1>26, <1>a, <1>b, <1>s, CallsAre, DeliveryAssumption DEF ClosersHold, NoCards, Updating, CallTypes, CardTypes, Disconnected, callVars, rowVars, postVars
<1>27. ASSUME Tick PROVE ClosersHold'
  BY <1>27, <1>a, <1>b, <1>s, CallsAre, DeliveryAssumption DEF ClosersHold, NoCards, Updating, CallTypes, CardTypes, Tick, connVars, inVars, hookVars, callVars, rowVars, postVars, cardVars
<1>28. ASSUME NEW ch \in Chats, DisconnectTakes(ch) PROVE ClosersHold'
  BY <1>28, <1>a, <1>b, <1>s, CallsAre, DeliveryAssumption DEF ClosersHold, NoCards, Updating, CallTypes, CardTypes, DisconnectTakes, TakeCards, inVars, hookVars, callVars, rowVars, postVars
<1>29. CASE UNCHANGED vars
  BY <1>29, <1>a, <1>b, <1>s, CallsAre, DeliveryAssumption DEF ClosersHold, NoCards, Updating, CallTypes, CardTypes, vars, connVars, inVars, hookVars, callVars, rowVars, postVars, cardVars
<1> QED
  BY <1>1, <1>2, <1>3, <1>4, <1>5, <1>6, <1>7, <1>8, <1>9, <1>10, <1>11, <1>12, <1>13, <1>14, <1>15, <1>16, <1>17, <1>18, <1>19, <1>20, <1>21, <1>22, <1>23, <1>24, <1>25, <1>26, <1>27, <1>28, <1>29, CallsAre DEF Next, Inbound, StartSend, StepSend, StepEdit

\* An open card is tracked, being closed, or being updated.
LEMMA OpenTrackedKept ==
  ASSUME Base, OpenInv, [Next]_vars
  PROVE  OpenCardsTracked'
<1>a. CallTypes /\ CardTypes
  BY TypeParts DEF Base
<1>b. EditsOfSent /\ OneEdit /\ UnsentUntouched
  BY DEF Base, EditInv
<1>s. FinalCloses /\ ClosersHold /\ OpenCardsTracked
  BY DEF OpenInv
<1>1. ASSUME NEW m \in Messages, NEW hook \in BOOLEAN, Arrive(m, hook) PROVE OpenCardsTracked'
  BY <1>1, <1>a, <1>b, <1>s, CallsAre, DeliveryAssumption, SMTT(60) DEF OpenCardsTracked, EditsOfSent, OneEdit, UnsentUntouched, UnderWay, BeingClosed, Updating, CardOf, BeingUpdated, FinalCloses, ClosersHold, NoCards, CallTypes, CardTypes, Arrive, connVars, hookVars, callVars, rowVars, postVars, cardVars
<1>2. ASSUME NEW m \in Messages, Gated(m) PROVE OpenCardsTracked'
  BY <1>2, <1>a, <1>b, <1>s, CallsAre, DeliveryAssumption, SMTT(60) DEF OpenCardsTracked, EditsOfSent, OneEdit, UnsentUntouched, UnderWay, BeingClosed, Updating, CardOf, BeingUpdated, FinalCloses, ClosersHold, NoCards, CallTypes, CardTypes, Gated, connVars, hookVars, callVars, rowVars, postVars, cardVars
<1>3. ASSUME NEW ch \in Chats, WebhookExpires(ch) PROVE OpenCardsTracked'
  BY <1>3, <1>a, <1>b, <1>s, CallsAre, DeliveryAssumption, SMTT(60) DEF OpenCardsTracked, EditsOfSent, OneEdit, UnsentUntouched, UnderWay, BeingClosed, Updating, CardOf, BeingUpdated, FinalCloses, ClosersHold, NoCards, CallTypes, CardTypes, WebhookExpires, connVars, inVars, callVars, rowVars, postVars, cardVars
<1>4. ASSUME NEW o \in Sends, NEW ch \in Chats, NEW f \in BOOLEAN, SendRefused(o, ch, f) PROVE OpenCardsTracked'
  BY <1>4, <1>a, <1>b, <1>s, CallsAre, DeliveryAssumption, SMTT(60) DEF OpenCardsTracked, EditsOfSent, OneEdit, UnsentUntouched, UnderWay, BeingClosed, Updating, CardOf, BeingUpdated, FinalCloses, ClosersHold, NoCards, CallTypes, CardTypes, SendRefused, Begin, Goto, connVars, inVars, hookVars, rowVars, postVars, cardVars
<1>5. ASSUME NEW o \in Sends, NEW ch \in Chats, NEW f \in BOOLEAN, SendsCard(o, ch, f) PROVE OpenCardsTracked'
  <2> SUFFICES ASSUME NEW c \in open, c \notin loose
                PROVE  streaming'[c] # None \/ BeingClosed(c)' \/ BeingUpdated(c)'
    BY <1>5 DEF OpenCardsTracked, SendsCard, Begin, TakeCards, Goto
  <2>1. c \in Sends
    BY <1>a DEF CardTypes
  <2>2. siblings[o] = NoCards
    BY <1>5, <1>s, CallsAre DEF SendsCard, Begin, TakeCards, Goto, ClosersHold
  <2>3. CASE streaming[c] # None
    BY <1>5, <2>1, <2>3, <1>a, CallsAre DEF SendsCard, Begin, TakeCards, Goto, BeingClosed, CardTypes
  <2>4. CASE BeingClosed(c)
    <3>1. PICK y \in Closers : siblings[y][c] # None
      BY <2>4 DEF BeingClosed
    <3>2. y # o
      BY <2>1, <2>2, <3>1 DEF NoCards
    <3> QED
      BY <1>5, <3>1, <3>2, <1>a DEF SendsCard, Begin, TakeCards, Goto, BeingClosed, CardTypes
  <2>5. CASE BeingUpdated(c)
    <3>1. PICK q \in Calls : CardOf(q) = c /\ pc[q] \in Updating
      BY <2>5 DEF BeingUpdated
    <3>2. pc'[q] = pc[q] /\ CardOf(q)' = CardOf(q)
      BY <1>5, <3>1, <1>a DEF SendsCard, Begin, TakeCards, Goto, CardOf, Updating, CallTypes
    <3> QED
      BY <3>1, <3>2 DEF BeingUpdated
  <2> QED
    BY <2>1, <2>3, <2>4, <2>5, <1>s DEF OpenCardsTracked
<1>6. ASSUME NEW o \in Sends, NEW ch \in Chats, NEW f \in BOOLEAN, SendsPlain(o, ch, f) PROVE OpenCardsTracked'
  <2> SUFFICES ASSUME NEW c \in open, c \notin loose
                PROVE  streaming'[c] # None \/ BeingClosed(c)' \/ BeingUpdated(c)'
    BY <1>6 DEF OpenCardsTracked, SendsPlain, Begin, Posts, Goto, cardVars
  <2>1. c \in Sends
    BY <1>a DEF CardTypes
  <2>3. CASE streaming[c] # None
    BY <1>6, <2>1, <2>3, <1>a, CallsAre DEF SendsPlain, Begin, Posts, Goto, cardVars, BeingClosed, CardTypes
  <2>4. CASE BeingClosed(c)
    BY <1>6, <2>4 DEF SendsPlain, Begin, Posts, Goto, cardVars, BeingClosed
  <2>5. CASE BeingUpdated(c)
    <3>1. PICK q \in Calls : CardOf(q) = c /\ pc[q] \in Updating
      BY <2>5 DEF BeingUpdated
    <3>2. pc'[q] = pc[q] /\ CardOf(q)' = CardOf(q)
      BY <1>6, <3>1, <1>a DEF SendsPlain, Begin, Posts, Goto, cardVars, CardOf, Updating, CallTypes
    <3> QED
      BY <3>1, <3>2 DEF BeingUpdated
  <2> QED
    BY <2>1, <2>3, <2>4, <2>5, <1>s DEF OpenCardsTracked
<1>7. ASSUME NEW o \in Sends, SiblingsClosed(o) PROVE OpenCardsTracked'
  BY <1>7, <1>a, <1>b, <1>s, CallsAre, DeliveryAssumption, SMTT(60) DEF OpenCardsTracked, EditsOfSent, OneEdit, UnsentUntouched, UnderWay, BeingClosed, Updating, CardOf, BeingUpdated, FinalCloses, ClosersHold, NoCards, CallTypes, CardTypes, SiblingsClosed, Goto, connVars, inVars, hookVars, callVars, rowVars, postVars, cardVars
<1>8. ASSUME NEW o \in Sends, CardDelivered(o) PROVE OpenCardsTracked'
  BY <1>8, <1>a, <1>b, <1>s, CallsAre, DeliveryAssumption, SMTT(60) DEF OpenCardsTracked, EditsOfSent, OneEdit, UnsentUntouched, UnderWay, BeingClosed, Updating, CardOf, BeingUpdated, FinalCloses, ClosersHold, NoCards, CallTypes, CardTypes, CardDelivered, Goto, connVars, inVars, hookVars, callVars, rowVars, postVars
<1>9. ASSUME NEW o \in Sends, CardFails(o) PROVE OpenCardsTracked'
  BY <1>9, <1>a, <1>b, <1>s, CallsAre, DeliveryAssumption, SMTT(60) DEF OpenCardsTracked, EditsOfSent, OneEdit, UnsentUntouched, UnderWay, BeingClosed, Updating, CardOf, BeingUpdated, FinalCloses, ClosersHold, NoCards, CallTypes, CardTypes, CardFails, Posts, Goto, connVars, inVars, hookVars, callVars
<1>10. ASSUME NEW o \in Calls, UpdateApplied(o) PROVE OpenCardsTracked'
  BY <1>10, <1>a, <1>b, <1>s, CallsAre, DeliveryAssumption, SMTT(60) DEF OpenCardsTracked, EditsOfSent, OneEdit, UnsentUntouched, UnderWay, BeingClosed, Updating, CardOf, BeingUpdated, FinalCloses, ClosersHold, NoCards, CallTypes, CardTypes, UpdateApplied, Goto, connVars, inVars, hookVars, callVars, rowVars, postVars
<1>11. ASSUME NEW o \in Sends, CardSent(o) PROVE OpenCardsTracked'
  BY <1>11, <1>a, <1>b, <1>s, CallsAre, DeliveryAssumption, SMTT(60) DEF OpenCardsTracked, EditsOfSent, OneEdit, UnsentUntouched, UnderWay, BeingClosed, Updating, CardOf, BeingUpdated, FinalCloses, ClosersHold, NoCards, CallTypes, CardTypes, CardSent, RememberDelivery, Track, Late, Goto, connVars, hookVars, callVars, rowVars, postVars
<1>12. ASSUME NEW o \in Sends, CardLost(o) PROVE OpenCardsTracked'
  BY <1>12, <1>a, <1>b, <1>s, CallsAre, DeliveryAssumption, SMTT(60) DEF OpenCardsTracked, EditsOfSent, OneEdit, UnsentUntouched, UnderWay, BeingClosed, Updating, CardOf, BeingUpdated, FinalCloses, ClosersHold, NoCards, CallTypes, CardTypes, CardLost, Posts, Goto, connVars, inVars, hookVars, callVars
<1>13. ASSUME NEW o \in Sends, Accept(o) PROVE OpenCardsTracked'
  BY <1>13, <1>a, <1>b, <1>s, CallsAre, DeliveryAssumption, SMTT(60) DEF OpenCardsTracked, EditsOfSent, OneEdit, UnsentUntouched, UnderWay, BeingClosed, Updating, CardOf, BeingUpdated, FinalCloses, ClosersHold, NoCards, CallTypes, CardTypes, Accept, connVars, inVars, hookVars, callVars, cardVars
<1>14. ASSUME NEW o \in Sends, Reject(o) PROVE OpenCardsTracked'
  BY <1>14, <1>a, <1>b, <1>s, CallsAre, DeliveryAssumption, SMTT(60) DEF OpenCardsTracked, EditsOfSent, OneEdit, UnsentUntouched, UnderWay, BeingClosed, Updating, CardOf, BeingUpdated, FinalCloses, ClosersHold, NoCards, CallTypes, CardTypes, Reject, connVars, inVars, hookVars, callVars, rowVars, cardVars
<1>15. ASSUME NEW o \in Sends, PostDelivered(o) PROVE OpenCardsTracked'
  BY <1>15, <1>a, <1>b, <1>s, CallsAre, DeliveryAssumption, SMTT(60) DEF OpenCardsTracked, EditsOfSent, OneEdit, UnsentUntouched, UnderWay, BeingClosed, Updating, CardOf, BeingUpdated, FinalCloses, ClosersHold, NoCards, CallTypes, CardTypes, PostDelivered, RememberWebhook, Forget, Goto, connVars, hookVars, callVars, postVars, cardVars
<1>16. ASSUME NEW o \in Sends, PostRejected(o) PROVE OpenCardsTracked'
  BY <1>16, <1>a, <1>b, <1>s, CallsAre, DeliveryAssumption, SMTT(60) DEF OpenCardsTracked, EditsOfSent, OneEdit, UnsentUntouched, UnderWay, BeingClosed, Updating, CardOf, BeingUpdated, FinalCloses, ClosersHold, NoCards, CallTypes, CardTypes, PostRejected, Forget, Goto, connVars, inVars, hookVars, callVars, rowVars, postVars, cardVars
<1>17. ASSUME NEW o \in Sends, PostMisread(o) PROVE OpenCardsTracked'
  BY <1>17, <1>a, <1>b, <1>s, CallsAre, DeliveryAssumption, SMTT(60) DEF OpenCardsTracked, EditsOfSent, OneEdit, UnsentUntouched, UnderWay, BeingClosed, Updating, CardOf, BeingUpdated, FinalCloses, ClosersHold, NoCards, CallTypes, CardTypes, PostMisread, Forget, Goto, connVars, inVars, hookVars, callVars, rowVars, cardVars
<1>18. ASSUME NEW o \in Sends, PostUnknown(o) PROVE OpenCardsTracked'
  BY <1>18, <1>a, <1>b, <1>s, CallsAre, DeliveryAssumption, SMTT(60) DEF OpenCardsTracked, EditsOfSent, OneEdit, UnsentUntouched, UnderWay, BeingClosed, Updating, CardOf, BeingUpdated, FinalCloses, ClosersHold, NoCards, CallTypes, CardTypes, PostUnknown, Forget, Goto, connVars, inVars, hookVars, callVars, rowVars, postVars, cardVars
<1>19. ASSUME NEW e \in Edits, NEW c \in Sends, NEW f \in BOOLEAN, Edit(e, c, f) PROVE OpenCardsTracked'
  BY <1>19, <1>a, <1>b, <1>s, CallsAre, DeliveryAssumption, SMTT(60) DEF OpenCardsTracked, EditsOfSent, OneEdit, UnsentUntouched, UnderWay, BeingClosed, Updating, CardOf, BeingUpdated, FinalCloses, ClosersHold, NoCards, CallTypes, CardTypes, Edit, Goto, connVars, inVars, hookVars, rowVars, postVars, cardVars
<1>20. ASSUME NEW e \in Edits, EditInvalidates(e) PROVE OpenCardsTracked'
  BY <1>20, <1>a, <1>b, <1>s, CallsAre, DeliveryAssumption, SMTT(60) DEF OpenCardsTracked, EditsOfSent, OneEdit, UnsentUntouched, UnderWay, BeingClosed, Updating, CardOf, BeingUpdated, FinalCloses, ClosersHold, NoCards, CallTypes, CardTypes, EditInvalidates, InvalidateContent, Goto, connVars, inVars, hookVars, callVars, rowVars, postVars
<1>21. ASSUME NEW e \in Edits, EditRefused(e) PROVE OpenCardsTracked'
  BY <1>21, <1>a, <1>b, <1>s, CallsAre, DeliveryAssumption, SMTT(60) DEF OpenCardsTracked, EditsOfSent, OneEdit, UnsentUntouched, UnderWay, BeingClosed, Updating, CardOf, BeingUpdated, FinalCloses, ClosersHold, NoCards, CallTypes, CardTypes, EditRefused, Goto, connVars, inVars, hookVars, callVars, rowVars, postVars, cardVars
<1>22. ASSUME NEW e \in Edits, EditDone(e) PROVE OpenCardsTracked'
  BY <1>22, <1>a, <1>b, <1>s, CallsAre, DeliveryAssumption, SMTT(60) DEF OpenCardsTracked, EditsOfSent, OneEdit, UnsentUntouched, UnderWay, BeingClosed, Updating, CardOf, BeingUpdated, FinalCloses, ClosersHold, NoCards, CallTypes, CardTypes, EditDone, UpdateContent, Track, Late, Goto, connVars, hookVars, callVars, rowVars, postVars
<1>23. ASSUME NEW e \in Edits, EditLost(e) PROVE OpenCardsTracked'
  BY <1>23, <1>a, <1>b, <1>s, CallsAre, DeliveryAssumption, SMTT(60) DEF OpenCardsTracked, EditsOfSent, OneEdit, UnsentUntouched, UnderWay, BeingClosed, Updating, CardOf, BeingUpdated, FinalCloses, ClosersHold, NoCards, CallTypes, CardTypes, EditLost, Goto, connVars, inVars, hookVars, callVars, rowVars, postVars
<1>24. ASSUME NEW x \in Closers, NEW c \in Sends, CloseSibling(x, c) PROVE OpenCardsTracked'
  BY <1>24, <1>a, <1>b, <1>s, CallsAre, DeliveryAssumption, SMTT(60) DEF OpenCardsTracked, EditsOfSent, OneEdit, UnsentUntouched, UnderWay, BeingClosed, Updating, CardOf, BeingUpdated, FinalCloses, ClosersHold, NoCards, CallTypes, CardTypes, CloseSibling, connVars, inVars, hookVars, callVars, rowVars, postVars
<1>25. ASSUME Disconnect PROVE OpenCardsTracked'
  BY <1>25, <1>a, <1>b, <1>s, CallsAre, DeliveryAssumption, SMTT(60) DEF OpenCardsTracked, EditsOfSent, OneEdit, UnsentUntouched, UnderWay, BeingClosed, Updating, CardOf, BeingUpdated, FinalCloses, ClosersHold, NoCards, CallTypes, CardTypes, Disconnect, inVars, hookVars, callVars, rowVars, postVars, cardVars
<1>26. ASSUME Disconnected PROVE OpenCardsTracked'
  BY <1>26, <1>a, <1>b, <1>s, CallsAre, DeliveryAssumption, SMTT(60) DEF OpenCardsTracked, EditsOfSent, OneEdit, UnsentUntouched, UnderWay, BeingClosed, Updating, CardOf, BeingUpdated, FinalCloses, ClosersHold, NoCards, CallTypes, CardTypes, Disconnected, callVars, rowVars, postVars
<1>27. ASSUME Tick PROVE OpenCardsTracked'
  BY <1>27, <1>a, <1>b, <1>s, CallsAre, DeliveryAssumption, SMTT(60) DEF OpenCardsTracked, EditsOfSent, OneEdit, UnsentUntouched, UnderWay, BeingClosed, Updating, CardOf, BeingUpdated, FinalCloses, ClosersHold, NoCards, CallTypes, CardTypes, Tick, connVars, inVars, hookVars, callVars, rowVars, postVars, cardVars
<1>28. ASSUME NEW ch \in Chats, DisconnectTakes(ch) PROVE OpenCardsTracked'
  <2> SUFFICES ASSUME NEW c \in open, c \notin loose
                PROVE  streaming'[c] # None \/ BeingClosed(c)' \/ BeingUpdated(c)'
    BY <1>28 DEF OpenCardsTracked, DisconnectTakes, TakeCards, callVars
  <2>1. c \in Sends
    BY <1>a DEF CardTypes
  <2>2. siblings[Off] = NoCards
    BY <1>28, <1>s, CallsAre DEF DisconnectTakes, TakeCards, callVars, ClosersHold
  <2>3. CASE streaming[c] # None
    BY <1>28, <2>1, <2>3, <1>a, CallsAre DEF DisconnectTakes, TakeCards, callVars, BeingClosed, CardTypes
  <2>4. CASE BeingClosed(c)
    <3>1. PICK y \in Closers : siblings[y][c] # None
      BY <2>4 DEF BeingClosed
    <3>2. y # Off
      BY <2>1, <2>2, <3>1 DEF NoCards
    <3> QED
      BY <1>28, <3>1, <3>2, <1>a DEF DisconnectTakes, TakeCards, callVars, BeingClosed, CardTypes
  <2>5. CASE BeingUpdated(c)
    <3>1. PICK q \in Calls : CardOf(q) = c /\ pc[q] \in Updating
      BY <2>5 DEF BeingUpdated
    <3>2. pc'[q] = pc[q] /\ CardOf(q)' = CardOf(q)
      BY <1>28, <3>1, <1>a DEF DisconnectTakes, TakeCards, callVars, CardOf, Updating, CallTypes
    <3> QED
      BY <3>1, <3>2 DEF BeingUpdated
  <2> QED
    BY <2>1, <2>3, <2>4, <2>5, <1>s DEF OpenCardsTracked
<1>29. CASE UNCHANGED vars
  BY <1>29, <1>a, <1>b, <1>s, CallsAre, DeliveryAssumption, SMTT(60) DEF OpenCardsTracked, EditsOfSent, OneEdit, UnsentUntouched, UnderWay, BeingClosed, Updating, CardOf, BeingUpdated, FinalCloses, ClosersHold, NoCards, CallTypes, CardTypes, vars, connVars, inVars, hookVars, callVars, rowVars, postVars, cardVars
<1> QED
  BY <1>1, <1>2, <1>3, <1>4, <1>5, <1>6, <1>7, <1>8, <1>9, <1>10, <1>11, <1>12, <1>13, <1>14, <1>15, <1>16, <1>17, <1>18, <1>19, <1>20, <1>21, <1>22, <1>23, <1>24, <1>25, <1>26, <1>27, <1>28, <1>29, CallsAre DEF Next, Inbound, StartSend, StepSend, StepEdit

LEMMA InitOpen == Init => OpenInv
  BY CallsAre DEF Init, OpenInv, FinalCloses, ClosersHold, OpenCardsTracked, NoCards, Closers

\* No card is left open that neither a send nor disconnect would close, but
\* for failed updates and those that came while disconnect was at work.
THEOREM OpenCardsAreTracked == Spec => []OpenCardsTracked
<1>1. Init => Base /\ OpenInv
  BY InitBase, InitOpen
<1>2. Base /\ OpenInv /\ [Next]_vars => (Base /\ OpenInv)'
  BY StepBase, FinalClosesKept, ClosersHoldKept, OpenTrackedKept DEF OpenInv
<1>3. OpenInv => OpenCardsTracked
  BY DEF OpenInv
<1> QED
  BY <1>1, <1>2, <1>3, PTL DEF Spec


-----------------------------------------------------------------------------
(* The Done reaction *)

\* A message that has not arrived has no reaction; the newest message of a chat
\* has none while the chat may still fire one.
FreshUndone ==
  /\ conn = "up" => \A m \in Messages \ seen : done[m] = 0
  /\ \A ch \in Chats : context[ch] # None =>
       /\ context[ch] \in seen
       /\ ChatOf[context[ch]] = ch
       /\ ch \notin fired => done[context[ch]] = 0

DoneInv == FreshUndone /\ DoneOnce


\* A message arrives without a reaction.
LEMMA FreshUndoneKept ==
  ASSUME Base, DoneInv, [Next]_vars
  PROVE  FreshUndone'
<1>a. InTypes /\ CallTypes
  BY TypeParts DEF Base
<1>b. ChatInv /\ EditsOfSent
  BY DEF Base, EditInv
<1>s. FreshUndone /\ DoneOnce
  BY DEF DoneInv
<1>1. ASSUME NEW m \in Messages, NEW hook \in BOOLEAN, Arrive(m, hook) PROVE FreshUndone'
  BY <1>1, <1>a, <1>b, <1>s, CallsAre, DeliveryAssumption DEF FreshUndone, DoneOnce, InTypes, Arrive, connVars, hookVars, callVars, rowVars, postVars, cardVars
<1>2. ASSUME NEW m \in Messages, Gated(m) PROVE FreshUndone'
  BY <1>2, <1>a, <1>b, <1>s, CallsAre, DeliveryAssumption DEF FreshUndone, DoneOnce, InTypes, Gated, connVars, hookVars, callVars, rowVars, postVars, cardVars
<1>3. ASSUME NEW ch \in Chats, WebhookExpires(ch) PROVE FreshUndone'
  BY <1>3, <1>a, <1>b, <1>s, CallsAre, DeliveryAssumption DEF FreshUndone, DoneOnce, InTypes, WebhookExpires, connVars, inVars, callVars, rowVars, postVars, cardVars
<1>4. ASSUME NEW o \in Sends, NEW ch \in Chats, NEW f \in BOOLEAN, SendRefused(o, ch, f) PROVE FreshUndone'
  BY <1>4, <1>a, <1>b, <1>s, CallsAre, DeliveryAssumption DEF FreshUndone, DoneOnce, InTypes, SendRefused, Begin, Goto, connVars, inVars, hookVars, rowVars, postVars, cardVars
<1>5. ASSUME NEW o \in Sends, NEW ch \in Chats, NEW f \in BOOLEAN, SendsCard(o, ch, f) PROVE FreshUndone'
  BY <1>5, <1>a, <1>b, <1>s, CallsAre, DeliveryAssumption DEF FreshUndone, DoneOnce, InTypes, SendsCard, Begin, TakeCards, Goto, connVars, inVars, hookVars, rowVars, postVars
<1>6. ASSUME NEW o \in Sends, NEW ch \in Chats, NEW f \in BOOLEAN, SendsPlain(o, ch, f) PROVE FreshUndone'
  BY <1>6, <1>a, <1>b, <1>s, CallsAre, DeliveryAssumption DEF FreshUndone, DoneOnce, InTypes, SendsPlain, Begin, Posts, Goto, connVars, inVars, hookVars, cardVars
<1>7. ASSUME NEW o \in Sends, SiblingsClosed(o) PROVE FreshUndone'
  BY <1>7, <1>a, <1>b, <1>s, CallsAre, DeliveryAssumption DEF FreshUndone, DoneOnce, InTypes, SiblingsClosed, Goto, connVars, inVars, hookVars, callVars, rowVars, postVars, cardVars
<1>8. ASSUME NEW o \in Sends, CardDelivered(o) PROVE FreshUndone'
  BY <1>8, <1>a, <1>b, <1>s, CallsAre, DeliveryAssumption DEF FreshUndone, DoneOnce, InTypes, CardDelivered, Goto, connVars, inVars, hookVars, callVars, rowVars, postVars
<1>9. ASSUME NEW o \in Sends, CardFails(o) PROVE FreshUndone'
  BY <1>9, <1>a, <1>b, <1>s, CallsAre, DeliveryAssumption DEF FreshUndone, DoneOnce, InTypes, CardFails, Posts, Goto, connVars, inVars, hookVars, callVars
<1>10. ASSUME NEW o \in Calls, UpdateApplied(o) PROVE FreshUndone'
  BY <1>10, <1>a, <1>b, <1>s, CallsAre, DeliveryAssumption DEF FreshUndone, DoneOnce, InTypes, UpdateApplied, CardOf, Goto, connVars, inVars, hookVars, callVars, rowVars, postVars
<1>11. ASSUME NEW o \in Sends, CardSent(o) PROVE FreshUndone'
  BY <1>11, <1>a, <1>b, <1>s, CallsAre, DeliveryAssumption DEF FreshUndone, DoneOnce, InTypes, ChatInv, CardSent, RememberDelivery, Track, Late, Finish, FireDone, Goto, connVars, inVars, hookVars, callVars, rowVars, postVars
<1>12. ASSUME NEW o \in Sends, CardLost(o) PROVE FreshUndone'
  BY <1>12, <1>a, <1>b, <1>s, CallsAre, DeliveryAssumption DEF FreshUndone, DoneOnce, InTypes, CardLost, Posts, Goto, connVars, inVars, hookVars, callVars
<1>13. ASSUME NEW o \in Sends, Accept(o) PROVE FreshUndone'
  BY <1>13, <1>a, <1>b, <1>s, CallsAre, DeliveryAssumption DEF FreshUndone, DoneOnce, InTypes, Accept, connVars, inVars, hookVars, callVars, cardVars
<1>14. ASSUME NEW o \in Sends, Reject(o) PROVE FreshUndone'
  BY <1>14, <1>a, <1>b, <1>s, CallsAre, DeliveryAssumption DEF FreshUndone, DoneOnce, InTypes, Reject, connVars, inVars, hookVars, callVars, rowVars, cardVars
<1>15. ASSUME NEW o \in Sends, PostDelivered(o) PROVE FreshUndone'
  BY <1>15, <1>a, <1>b, <1>s, CallsAre, DeliveryAssumption DEF FreshUndone, DoneOnce, InTypes, ChatInv, PostDelivered, RememberWebhook, Forget, Finish, FireDone, Goto, connVars, inVars, hookVars, callVars, postVars, cardVars
<1>16. ASSUME NEW o \in Sends, PostRejected(o) PROVE FreshUndone'
  BY <1>16, <1>a, <1>b, <1>s, CallsAre, DeliveryAssumption DEF FreshUndone, DoneOnce, InTypes, PostRejected, Forget, Goto, connVars, inVars, hookVars, callVars, rowVars, postVars, cardVars
<1>17. ASSUME NEW o \in Sends, PostMisread(o) PROVE FreshUndone'
  BY <1>17, <1>a, <1>b, <1>s, CallsAre, DeliveryAssumption DEF FreshUndone, DoneOnce, InTypes, PostMisread, Forget, Goto, connVars, inVars, hookVars, callVars, rowVars, cardVars
<1>18. ASSUME NEW o \in Sends, PostUnknown(o) PROVE FreshUndone'
  BY <1>18, <1>a, <1>b, <1>s, CallsAre, DeliveryAssumption DEF FreshUndone, DoneOnce, InTypes, PostUnknown, Forget, Goto, connVars, inVars, hookVars, callVars, rowVars, postVars, cardVars
<1>19. ASSUME NEW e \in Edits, NEW c \in Sends, NEW f \in BOOLEAN, Edit(e, c, f) PROVE FreshUndone'
  BY <1>19, <1>a, <1>b, <1>s, CallsAre, DeliveryAssumption DEF FreshUndone, DoneOnce, InTypes, Edit, Goto, connVars, inVars, hookVars, rowVars, postVars, cardVars
<1>20. ASSUME NEW e \in Edits, EditInvalidates(e) PROVE FreshUndone'
  BY <1>20, <1>a, <1>b, <1>s, CallsAre, DeliveryAssumption DEF FreshUndone, DoneOnce, InTypes, EditInvalidates, InvalidateContent, Goto, connVars, inVars, hookVars, callVars, rowVars, postVars
<1>21. ASSUME NEW e \in Edits, EditRefused(e) PROVE FreshUndone'
  BY <1>21, <1>a, <1>b, <1>s, CallsAre, DeliveryAssumption DEF FreshUndone, DoneOnce, InTypes, EditRefused, Goto, connVars, inVars, hookVars, callVars, rowVars, postVars, cardVars
<1>22. ASSUME NEW e \in Edits, EditDone(e) PROVE FreshUndone'
  <2>1. chat[target[e]] \in Chats
    BY <1>22, <1>b DEF EditDone, UpdateContent, EditsOfSent, ChatInv, UnderWay, Updating
  <2> QED
    BY <1>22, <2>1, <1>a, <1>s, DeliveryAssumption DEF FreshUndone, DoneOnce, InTypes, EditDone, UpdateContent, Finish, FireDone, Goto, connVars, inVars, hookVars, callVars, rowVars, postVars
<1>23. ASSUME NEW e \in Edits, EditLost(e) PROVE FreshUndone'
  BY <1>23, <1>a, <1>b, <1>s, CallsAre, DeliveryAssumption DEF FreshUndone, DoneOnce, InTypes, EditLost, Goto, connVars, inVars, hookVars, callVars, rowVars, postVars
<1>24. ASSUME NEW x \in Closers, NEW c \in Sends, CloseSibling(x, c) PROVE FreshUndone'
  BY <1>24, <1>a, <1>b, <1>s, CallsAre, DeliveryAssumption DEF FreshUndone, DoneOnce, InTypes, CloseSibling, connVars, inVars, hookVars, callVars, rowVars, postVars
<1>25. ASSUME Disconnect PROVE FreshUndone'
  BY <1>25, <1>a, <1>b, <1>s, CallsAre, DeliveryAssumption DEF FreshUndone, DoneOnce, InTypes, Disconnect, inVars, hookVars, callVars, rowVars, postVars, cardVars
<1>26. ASSUME Disconnected PROVE FreshUndone'
  BY <1>26, <1>a, <1>b, <1>s, CallsAre, DeliveryAssumption DEF FreshUndone, DoneOnce, InTypes, Disconnected, callVars, rowVars, postVars
<1>27. ASSUME Tick PROVE FreshUndone'
  BY <1>27, <1>a, <1>b, <1>s, CallsAre, DeliveryAssumption DEF FreshUndone, DoneOnce, InTypes, Tick, connVars, inVars, hookVars, callVars, rowVars, postVars, cardVars
<1>28. ASSUME NEW ch \in Chats, DisconnectTakes(ch) PROVE FreshUndone'
  BY <1>28, <1>a, <1>b, <1>s, CallsAre, DeliveryAssumption DEF FreshUndone, DoneOnce, InTypes, DisconnectTakes, TakeCards, inVars, hookVars, callVars, rowVars, postVars
<1>29. CASE UNCHANGED vars
  BY <1>29, <1>a, <1>b, <1>s, CallsAre, DeliveryAssumption DEF FreshUndone, DoneOnce, InTypes, vars, connVars, inVars, hookVars, callVars, rowVars, postVars, cardVars
<1> QED
  BY <1>1, <1>2, <1>3, <1>4, <1>5, <1>6, <1>7, <1>8, <1>9, <1>10, <1>11, <1>12, <1>13, <1>14, <1>15, <1>16, <1>17, <1>18, <1>19, <1>20, <1>21, <1>22, <1>23, <1>24, <1>25, <1>26, <1>27, <1>28, <1>29, CallsAre DEF Next, Inbound, StartSend, StepSend, StepEdit

\* A reaction is given to a message that has none.
LEMMA DoneOnceKept ==
  ASSUME Base, DoneInv, [Next]_vars
  PROVE  DoneOnce'
<1>a. InTypes /\ CallTypes
  BY TypeParts DEF Base
<1>b. ChatInv /\ EditsOfSent
  BY DEF Base, EditInv
<1>s. FreshUndone /\ DoneOnce
  BY DEF DoneInv
<1>1. ASSUME NEW m \in Messages, NEW hook \in BOOLEAN, Arrive(m, hook) PROVE DoneOnce'
  BY <1>1, <1>a, <1>b, <1>s, CallsAre, DeliveryAssumption DEF FreshUndone, DoneOnce, InTypes, Arrive, connVars, hookVars, callVars, rowVars, postVars, cardVars
<1>2. ASSUME NEW m \in Messages, Gated(m) PROVE DoneOnce'
  BY <1>2, <1>a, <1>b, <1>s, CallsAre, DeliveryAssumption DEF FreshUndone, DoneOnce, InTypes, Gated, connVars, hookVars, callVars, rowVars, postVars, cardVars
<1>3. ASSUME NEW ch \in Chats, WebhookExpires(ch) PROVE DoneOnce'
  BY <1>3, <1>a, <1>b, <1>s, CallsAre, DeliveryAssumption DEF FreshUndone, DoneOnce, InTypes, WebhookExpires, connVars, inVars, callVars, rowVars, postVars, cardVars
<1>4. ASSUME NEW o \in Sends, NEW ch \in Chats, NEW f \in BOOLEAN, SendRefused(o, ch, f) PROVE DoneOnce'
  BY <1>4, <1>a, <1>b, <1>s, CallsAre, DeliveryAssumption DEF FreshUndone, DoneOnce, InTypes, SendRefused, Begin, Goto, connVars, inVars, hookVars, rowVars, postVars, cardVars
<1>5. ASSUME NEW o \in Sends, NEW ch \in Chats, NEW f \in BOOLEAN, SendsCard(o, ch, f) PROVE DoneOnce'
  BY <1>5, <1>a, <1>b, <1>s, CallsAre, DeliveryAssumption DEF FreshUndone, DoneOnce, InTypes, SendsCard, Begin, TakeCards, Goto, connVars, inVars, hookVars, rowVars, postVars
<1>6. ASSUME NEW o \in Sends, NEW ch \in Chats, NEW f \in BOOLEAN, SendsPlain(o, ch, f) PROVE DoneOnce'
  BY <1>6, <1>a, <1>b, <1>s, CallsAre, DeliveryAssumption DEF FreshUndone, DoneOnce, InTypes, SendsPlain, Begin, Posts, Goto, connVars, inVars, hookVars, cardVars
<1>7. ASSUME NEW o \in Sends, SiblingsClosed(o) PROVE DoneOnce'
  BY <1>7, <1>a, <1>b, <1>s, CallsAre, DeliveryAssumption DEF FreshUndone, DoneOnce, InTypes, SiblingsClosed, Goto, connVars, inVars, hookVars, callVars, rowVars, postVars, cardVars
<1>8. ASSUME NEW o \in Sends, CardDelivered(o) PROVE DoneOnce'
  BY <1>8, <1>a, <1>b, <1>s, CallsAre, DeliveryAssumption DEF FreshUndone, DoneOnce, InTypes, CardDelivered, Goto, connVars, inVars, hookVars, callVars, rowVars, postVars
<1>9. ASSUME NEW o \in Sends, CardFails(o) PROVE DoneOnce'
  BY <1>9, <1>a, <1>b, <1>s, CallsAre, DeliveryAssumption DEF FreshUndone, DoneOnce, InTypes, CardFails, Posts, Goto, connVars, inVars, hookVars, callVars
<1>10. ASSUME NEW o \in Calls, UpdateApplied(o) PROVE DoneOnce'
  BY <1>10, <1>a, <1>b, <1>s, CallsAre, DeliveryAssumption DEF FreshUndone, DoneOnce, InTypes, UpdateApplied, CardOf, Goto, connVars, inVars, hookVars, callVars, rowVars, postVars
<1>11. ASSUME NEW o \in Sends, CardSent(o) PROVE DoneOnce'
  BY <1>11, <1>a, <1>b, <1>s, CallsAre, DeliveryAssumption DEF FreshUndone, DoneOnce, InTypes, ChatInv, CardSent, RememberDelivery, Track, Late, Finish, FireDone, Goto, connVars, inVars, hookVars, callVars, rowVars, postVars
<1>12. ASSUME NEW o \in Sends, CardLost(o) PROVE DoneOnce'
  BY <1>12, <1>a, <1>b, <1>s, CallsAre, DeliveryAssumption DEF FreshUndone, DoneOnce, InTypes, CardLost, Posts, Goto, connVars, inVars, hookVars, callVars
<1>13. ASSUME NEW o \in Sends, Accept(o) PROVE DoneOnce'
  BY <1>13, <1>a, <1>b, <1>s, CallsAre, DeliveryAssumption DEF FreshUndone, DoneOnce, InTypes, Accept, connVars, inVars, hookVars, callVars, cardVars
<1>14. ASSUME NEW o \in Sends, Reject(o) PROVE DoneOnce'
  BY <1>14, <1>a, <1>b, <1>s, CallsAre, DeliveryAssumption DEF FreshUndone, DoneOnce, InTypes, Reject, connVars, inVars, hookVars, callVars, rowVars, cardVars
<1>15. ASSUME NEW o \in Sends, PostDelivered(o) PROVE DoneOnce'
  BY <1>15, <1>a, <1>b, <1>s, CallsAre, DeliveryAssumption DEF FreshUndone, DoneOnce, InTypes, ChatInv, PostDelivered, RememberWebhook, Forget, Finish, FireDone, Goto, connVars, inVars, hookVars, callVars, postVars, cardVars
<1>16. ASSUME NEW o \in Sends, PostRejected(o) PROVE DoneOnce'
  BY <1>16, <1>a, <1>b, <1>s, CallsAre, DeliveryAssumption DEF FreshUndone, DoneOnce, InTypes, PostRejected, Forget, Goto, connVars, inVars, hookVars, callVars, rowVars, postVars, cardVars
<1>17. ASSUME NEW o \in Sends, PostMisread(o) PROVE DoneOnce'
  BY <1>17, <1>a, <1>b, <1>s, CallsAre, DeliveryAssumption DEF FreshUndone, DoneOnce, InTypes, PostMisread, Forget, Goto, connVars, inVars, hookVars, callVars, rowVars, cardVars
<1>18. ASSUME NEW o \in Sends, PostUnknown(o) PROVE DoneOnce'
  BY <1>18, <1>a, <1>b, <1>s, CallsAre, DeliveryAssumption DEF FreshUndone, DoneOnce, InTypes, PostUnknown, Forget, Goto, connVars, inVars, hookVars, callVars, rowVars, postVars, cardVars
<1>19. ASSUME NEW e \in Edits, NEW c \in Sends, NEW f \in BOOLEAN, Edit(e, c, f) PROVE DoneOnce'
  BY <1>19, <1>a, <1>b, <1>s, CallsAre, DeliveryAssumption DEF FreshUndone, DoneOnce, InTypes, Edit, Goto, connVars, inVars, hookVars, rowVars, postVars, cardVars
<1>20. ASSUME NEW e \in Edits, EditInvalidates(e) PROVE DoneOnce'
  BY <1>20, <1>a, <1>b, <1>s, CallsAre, DeliveryAssumption DEF FreshUndone, DoneOnce, InTypes, EditInvalidates, InvalidateContent, Goto, connVars, inVars, hookVars, callVars, rowVars, postVars
<1>21. ASSUME NEW e \in Edits, EditRefused(e) PROVE DoneOnce'
  BY <1>21, <1>a, <1>b, <1>s, CallsAre, DeliveryAssumption DEF FreshUndone, DoneOnce, InTypes, EditRefused, Goto, connVars, inVars, hookVars, callVars, rowVars, postVars, cardVars
<1>22. ASSUME NEW e \in Edits, EditDone(e) PROVE DoneOnce'
  <2>1. chat[target[e]] \in Chats
    BY <1>22, <1>b DEF EditDone, UpdateContent, EditsOfSent, ChatInv, UnderWay, Updating
  <2> QED
    BY <1>22, <2>1, <1>a, <1>s, DeliveryAssumption DEF FreshUndone, DoneOnce, InTypes, EditDone, UpdateContent, Finish, FireDone, Goto, connVars, inVars, hookVars, callVars, rowVars, postVars
<1>23. ASSUME NEW e \in Edits, EditLost(e) PROVE DoneOnce'
  BY <1>23, <1>a, <1>b, <1>s, CallsAre, DeliveryAssumption DEF FreshUndone, DoneOnce, InTypes, EditLost, Goto, connVars, inVars, hookVars, callVars, rowVars, postVars
<1>24. ASSUME NEW x \in Closers, NEW c \in Sends, CloseSibling(x, c) PROVE DoneOnce'
  BY <1>24, <1>a, <1>b, <1>s, CallsAre, DeliveryAssumption DEF FreshUndone, DoneOnce, InTypes, CloseSibling, connVars, inVars, hookVars, callVars, rowVars, postVars
<1>25. ASSUME Disconnect PROVE DoneOnce'
  BY <1>25, <1>a, <1>b, <1>s, CallsAre, DeliveryAssumption DEF FreshUndone, DoneOnce, InTypes, Disconnect, inVars, hookVars, callVars, rowVars, postVars, cardVars
<1>26. ASSUME Disconnected PROVE DoneOnce'
  BY <1>26, <1>a, <1>b, <1>s, CallsAre, DeliveryAssumption DEF FreshUndone, DoneOnce, InTypes, Disconnected, callVars, rowVars, postVars
<1>27. ASSUME Tick PROVE DoneOnce'
  BY <1>27, <1>a, <1>b, <1>s, CallsAre, DeliveryAssumption DEF FreshUndone, DoneOnce, InTypes, Tick, connVars, inVars, hookVars, callVars, rowVars, postVars, cardVars
<1>28. ASSUME NEW ch \in Chats, DisconnectTakes(ch) PROVE DoneOnce'
  BY <1>28, <1>a, <1>b, <1>s, CallsAre, DeliveryAssumption DEF FreshUndone, DoneOnce, InTypes, DisconnectTakes, TakeCards, inVars, hookVars, callVars, rowVars, postVars
<1>29. CASE UNCHANGED vars
  BY <1>29, <1>a, <1>b, <1>s, CallsAre, DeliveryAssumption DEF FreshUndone, DoneOnce, InTypes, vars, connVars, inVars, hookVars, callVars, rowVars, postVars, cardVars
<1> QED
  BY <1>1, <1>2, <1>3, <1>4, <1>5, <1>6, <1>7, <1>8, <1>9, <1>10, <1>11, <1>12, <1>13, <1>14, <1>15, <1>16, <1>17, <1>18, <1>19, <1>20, <1>21, <1>22, <1>23, <1>24, <1>25, <1>26, <1>27, <1>28, <1>29, CallsAre DEF Next, Inbound, StartSend, StepSend, StepEdit

LEMMA InitDone == Init => DoneInv
  BY DEF Init, DoneInv, FreshUndone, DoneOnce

\* A message gets the Done reaction at most once.
THEOREM DoneAtMostOnce == Spec => []DoneOnce
<1>1. Init => Base /\ DoneInv
  BY InitBase, InitDone
<1>2. Base /\ DoneInv /\ [Next]_vars => (Base /\ DoneInv)'
  BY StepBase, FreshUndoneKept, DoneOnceKept DEF DoneInv
<1>3. DoneInv => DoneOnce
  BY DEF DoneInv
<1> QED
  BY <1>1, <1>2, <1>3, PTL DEF Spec

-----------------------------------------------------------------------------
(* What send() reports, and the look-up of a quoted message by its time *)

Before == {"idle", "closing", "creating", "streaming", "applied"}
Posted(o) == o \in wire \union accepted

\* Until a send has posted or returned, nothing of it is on the wire and a card
\* shows its text exactly when its update was applied; afterwards a text that a
\* card shows and that was posted is known to be loose.
OutcomeInv ==
  \A o \in Sends :
    /\ pc[o] \in Before => ~Posted(o) /\ o \notin kept /\ (o \in carded <=> pc[o] = "applied")
    /\ pc[o] \in {"posting", "rejected", "unknown"} \/ Posted(o) => o \notin carded \ loose
    /\ pc[o] = "delivered" => o \in carded \union accepted
    /\ pc[o] = "rejected" /\ Posted(o) => o \in misread

\* The time DingTalk gives a message lies in the window of its request, give or
\* take the distance of the clocks; a stored window is not changed any more.
Within(from, t, to) == from - Skew <= t /\ t <= to + Skew
WindowInv ==
  /\ IsFiniteSet(kept)
  /\ wire \intersect accepted = {}
  /\ \A o \in Sends : began[o] <= now
  /\ \A o \in accepted : pc[o] = "posting" => Within(began[o], stamped[o], now)
  /\ \A o \in kept :
       /\ o \in accepted /\ pc[o] = "delivered"
       /\ began[o] <= ended[o] /\ Within(began[o], stamped[o], ended[o])

\* A step that is no send's own.
NoSendsStep ==
  /\ UNCHANGED <<rowVars, postVars>>
  /\ now <= now'
  /\ loose \subseteq loose'
  /\ \A s \in Sends : pc'[s] = pc[s] /\ (s \in carded' <=> s \in carded)

\* Inbound messages, edits, cards that are closed, disconnect() and the clock
\* leave the sends alone.
LEMMA OtherSteps ==
  ASSUME Base,
         \/ Inbound
         \/ \E e \in Edits : StepEdit(e)
         \/ \E x \in Closers, c \in Sends : CloseSibling(x, c)
         \/ Disconnect \/ Disconnected \/ Tick
         \/ \E ch \in Chats : DisconnectTakes(ch)
         \/ UNCHANGED vars
  PROVE  NoSendsStep
<1>a. CallTypes /\ PostTypes /\ CardTypes
  BY TypeParts DEF Base
<1>n. now \in Int /\ Edits \intersect Sends = {}
  BY <1>a, DeliveryAssumption DEF PostTypes, Times
<1>1. ASSUME NEW m \in Messages, NEW hook \in BOOLEAN, Arrive(m, hook) PROVE NoSendsStep
  BY <1>1, <1>a, <1>n, CallsAre DEF NoSendsStep, CallTypes, Arrive, rowVars, postVars, cardVars
<1>2. ASSUME NEW m \in Messages, Gated(m) PROVE NoSendsStep
  BY <1>2, <1>a, <1>n, CallsAre DEF NoSendsStep, CallTypes, Gated, rowVars, postVars, cardVars
<1>3. ASSUME NEW ch \in Chats, WebhookExpires(ch) PROVE NoSendsStep
  BY <1>3, <1>a, <1>n, CallsAre DEF NoSendsStep, CallTypes, WebhookExpires, rowVars, postVars,
     cardVars
<1>19. ASSUME NEW e \in Edits, NEW c \in Sends, NEW f \in BOOLEAN, Edit(e, c, f) PROVE NoSendsStep
  BY <1>19, <1>a, <1>n, CallsAre DEF NoSendsStep, CallTypes, Edit, Goto, rowVars, postVars, cardVars
<1>20. ASSUME NEW e \in Edits, EditInvalidates(e) PROVE NoSendsStep
  BY <1>20, <1>a, <1>n, CallsAre DEF NoSendsStep, CallTypes, EditInvalidates, Goto, rowVars,
     postVars
<1>21. ASSUME NEW e \in Edits, EditRefused(e) PROVE NoSendsStep
  BY <1>21, <1>a, <1>n, CallsAre DEF NoSendsStep, CallTypes, EditRefused, Goto, rowVars,
     postVars, cardVars
<1>22. ASSUME NEW e \in Edits, EditDone(e) PROVE NoSendsStep
  BY <1>22, <1>a, <1>n, CallsAre DEF NoSendsStep, CallTypes, EditDone, Track, Late, Goto,
     rowVars, postVars
<1>23. ASSUME NEW e \in Edits, EditLost(e) PROVE NoSendsStep
  BY <1>23, <1>a, <1>n, CallsAre DEF NoSendsStep, CallTypes, EditLost, Goto, rowVars, postVars
<1>24. ASSUME NEW x \in Closers, NEW c \in Sends, CloseSibling(x, c) PROVE NoSendsStep
  BY <1>24, <1>a, <1>n, CallsAre DEF NoSendsStep, CallTypes, CloseSibling, rowVars, postVars
<1>25. ASSUME Disconnect PROVE NoSendsStep
  BY <1>25, <1>a, <1>n, CallsAre DEF NoSendsStep, CallTypes, Disconnect, rowVars, postVars, cardVars
<1>26. ASSUME Disconnected PROVE NoSendsStep
  BY <1>26, <1>a, <1>n, CallsAre DEF NoSendsStep, CallTypes, Disconnected, rowVars, postVars
<1>27. ASSUME Tick PROVE NoSendsStep
  BY <1>27, <1>a, <1>n, CallsAre DEF NoSendsStep, CallTypes, Tick, rowVars, postVars, cardVars
<1>28. ASSUME NEW ch \in Chats, DisconnectTakes(ch) PROVE NoSendsStep
  BY <1>28, <1>a, <1>n, CallsAre DEF NoSendsStep, CallTypes, DisconnectTakes, TakeCards, rowVars,
     postVars
<1>30. ASSUME NEW o \in Edits, UpdateApplied(o) PROVE NoSendsStep
  BY <1>30, <1>a, <1>n, CallsAre DEF NoSendsStep, CallTypes, UpdateApplied, Goto, rowVars, postVars
<1>31. CASE UNCHANGED vars
  BY <1>31, <1>a, <1>n DEF NoSendsStep, vars, rowVars, postVars, cardVars
<1> QED
  BY <1>1, <1>2, <1>3, <1>19, <1>20, <1>21, <1>22, <1>23, <1>24, <1>25, <1>26, <1>27, <1>28,
     <1>30, <1>31 DEF Inbound, StepEdit

\* What a send reports stays true.
LEMMA OutcomeKept ==
  ASSUME Base, OutcomeInv, WindowInv, [Next]_vars
  PROVE  OutcomeInv'
<1>a. CallTypes /\ PostTypes /\ CardTypes
  BY TypeParts DEF Base
<1>n. now \in Int /\ \A s \in Sends : began[s] \in Int /\ ended[s] \in Int /\ stamped[s] \in Int
  BY <1>a DEF PostTypes, Times
<1>4. ASSUME NEW o \in Sends, NEW ch \in Chats, NEW f \in BOOLEAN, SendRefused(o, ch, f) PROVE OutcomeInv'
  BY <1>4, <1>a, <1>n, CallsAre DEF OutcomeInv, Before, Posted, CallTypes, PostTypes,
     SendRefused, Begin, Goto, rowVars, postVars, cardVars
<1>5. ASSUME NEW o \in Sends, NEW ch \in Chats, NEW f \in BOOLEAN, SendsCard(o, ch, f) PROVE OutcomeInv'
  BY <1>5, <1>a, <1>n, CallsAre DEF OutcomeInv, Before, Posted, CallTypes, PostTypes, SendsCard,
     Begin, TakeCards, Goto, rowVars, postVars
<1>6. ASSUME NEW o \in Sends, NEW ch \in Chats, NEW f \in BOOLEAN, SendsPlain(o, ch, f) PROVE OutcomeInv'
  BY <1>6, <1>a, <1>n, CallsAre DEF OutcomeInv, Before, Posted, CallTypes, PostTypes, SendsPlain,
     Begin, Posts, Goto, cardVars
<1>7. ASSUME NEW o \in Sends, SiblingsClosed(o) PROVE OutcomeInv'
  BY <1>7, <1>a, <1>n, CallsAre DEF OutcomeInv, Before, Posted, CallTypes, PostTypes,
     SiblingsClosed, Goto, callVars, rowVars, postVars, cardVars
<1>8. ASSUME NEW o \in Sends, CardDelivered(o) PROVE OutcomeInv'
  BY <1>8, <1>a, <1>n, CallsAre DEF OutcomeInv, Before, Posted, CallTypes, PostTypes,
     CardDelivered, Goto, callVars, rowVars, postVars
<1>9. ASSUME NEW o \in Sends, CardFails(o) PROVE OutcomeInv'
  BY <1>9, <1>a, <1>n, CallsAre DEF OutcomeInv, Before, Posted, CallTypes, PostTypes, CardFails,
     Posts, Goto, callVars
<1>10. ASSUME NEW o \in Sends, UpdateApplied(o) PROVE OutcomeInv'
  BY <1>10, <1>a, <1>n, CallsAre DEF OutcomeInv, Before, Posted, CallTypes, PostTypes,
     UpdateApplied, CardOf, Goto, callVars, rowVars, postVars
<1>11. ASSUME NEW o \in Sends, CardSent(o) PROVE OutcomeInv'
  BY <1>11, <1>a, <1>n, CallsAre DEF OutcomeInv, Before, Posted, CallTypes, PostTypes, CardSent,
     Track, Late, Goto, callVars, rowVars, postVars
<1>12. ASSUME NEW o \in Sends, CardLost(o) PROVE OutcomeInv'
  BY <1>12, <1>a, <1>n, CallsAre DEF OutcomeInv, Before, Posted, CallTypes, PostTypes, CardLost,
     Posts, Goto, callVars, Updating
<1>13. ASSUME NEW o \in Sends, Accept(o) PROVE OutcomeInv'
  BY <1>13, <1>a, <1>n, CallsAre DEF OutcomeInv, Before, Posted, CallTypes, PostTypes, Accept,
     callVars, cardVars
<1>14. ASSUME NEW o \in Sends, Reject(o) PROVE OutcomeInv'
  BY <1>14, <1>a, <1>n, CallsAre DEF OutcomeInv, Before, Posted, CallTypes, PostTypes, Reject,
     callVars, rowVars, cardVars
<1>15. ASSUME NEW o \in Sends, PostDelivered(o) PROVE OutcomeInv'
  BY <1>15, <1>a, <1>n, CallsAre DEF OutcomeInv, Before, Posted, CallTypes, PostTypes,
     PostDelivered, RememberWebhook, Forget, Goto, callVars, postVars, cardVars
<1>16. ASSUME NEW o \in Sends, PostRejected(o) PROVE OutcomeInv'
  BY <1>16, <1>a, <1>n, CallsAre DEF OutcomeInv, Before, Posted, CallTypes, PostTypes,
     PostRejected, Forget, Goto, callVars, rowVars, postVars, cardVars
<1>17. ASSUME NEW o \in Sends, PostMisread(o) PROVE OutcomeInv'
  BY <1>17, <1>a, <1>n, CallsAre DEF OutcomeInv, Before, Posted, CallTypes, PostTypes,
     PostMisread, Forget, Goto, callVars, rowVars, cardVars
<1>18. ASSUME NEW o \in Sends, PostUnknown(o) PROVE OutcomeInv'
  BY <1>18, <1>a, <1>n, CallsAre DEF OutcomeInv, Before, Posted, CallTypes, PostTypes,
     PostUnknown, Forget, Goto, callVars, rowVars, postVars, cardVars
<1>19. CASE NoSendsStep
  BY <1>19, <1>a, <1>n DEF OutcomeInv, Before, Posted, CallTypes, PostTypes, NoSendsStep,
     rowVars, postVars, CardTypes
<1> QED
  BY <1>4, <1>5, <1>6, <1>7, <1>8, <1>9, <1>10, <1>11, <1>12, <1>13, <1>14, <1>15, <1>16, <1>17,
     <1>18, <1>19, OtherSteps DEF Next, StartSend, StepSend

\* A request whose message is not stored takes nothing with it.
LEMMA ForgetKeeps ==
  ASSUME Base, WindowInv, NEW o \in Sends, pc[o] = "posting", Forget(o),
         NEW place, place # "posting", pc' = [pc EXCEPT ![o] = place],
         UNCHANGED <<wire, accepted, now>>
  PROVE  WindowInv'
<1>a. CallTypes /\ PostTypes
  BY TypeParts DEF Base
<1>n. now \in Int /\ 0 <= now /\ \A s \in Sends : began[s] \in Int
  BY <1>a, DeliveryAssumption DEF PostTypes, Times
<1>1. \A s \in Sends \ {o} : pc'[s] = pc[s] /\ began'[s] = began[s] /\ stamped'[s] = stamped[s] /\ ended'[s] = ended[s]
  BY <1>a, CallsAre DEF CallTypes, PostTypes, Forget
<1>2. pc'[o] = place /\ began'[o] = 0
  BY <1>a, CallsAre DEF CallTypes, PostTypes, Forget
<1>3. kept' = kept /\ o \notin kept
  BY DEF Forget, WindowInv
<1>4. kept \subseteq Sends /\ accepted \subseteq Sends
  BY <1>a DEF PostTypes
<1>5. \A s \in Sends : began'[s] <= now'
  BY <1>1, <1>2, <1>n DEF WindowInv
<1>6. \A s \in accepted' : pc'[s] = "posting" => Within(began'[s], stamped'[s], now')
  BY <1>1, <1>2, <1>4 DEF WindowInv
<1>7. \A s \in kept' :
        /\ s \in accepted' /\ pc'[s] = "delivered"
        /\ began'[s] <= ended'[s] /\ Within(began'[s], stamped'[s], ended'[s])
  BY <1>1, <1>3, <1>4 DEF WindowInv
<1> QED
  BY <1>3, <1>5, <1>6, <1>7 DEF WindowInv, Within

\* So do the windows of the requests.
LEMMA WindowKept ==
  ASSUME Base, OutcomeInv, WindowInv, [Next]_vars
  PROVE  WindowInv'
<1>a. CallTypes /\ PostTypes /\ CardTypes
  BY TypeParts DEF Base
<1>n. /\ now \in Int /\ 0 <= now /\ Skew \in Nat
      /\ \A s \in Sends : began[s] \in Int /\ ended[s] \in Int /\ stamped[s] \in Int
  BY <1>a, DeliveryAssumption DEF PostTypes, Times
<1>m. now' \in Int
  BY StepBase DEF Base, TypeOK, Times
<1>4. ASSUME NEW o \in Sends, NEW ch \in Chats, NEW f \in BOOLEAN, SendRefused(o, ch, f) PROVE WindowInv'
  BY <1>4, <1>a, <1>n, CallsAre, FS_AddElement DEF WindowInv, Within, OutcomeInv, Before, Posted,
     CallTypes, PostTypes, SendRefused, Begin, Goto, rowVars, postVars, cardVars
<1>5. ASSUME NEW o \in Sends, NEW ch \in Chats, NEW f \in BOOLEAN, SendsCard(o, ch, f) PROVE WindowInv'
  BY <1>5, <1>a, <1>n, CallsAre, FS_AddElement DEF WindowInv, Within, OutcomeInv, Before, Posted,
     CallTypes, PostTypes, SendsCard, Begin, TakeCards, Goto, rowVars, postVars
<1>6. ASSUME NEW o \in Sends, NEW ch \in Chats, NEW f \in BOOLEAN, SendsPlain(o, ch, f) PROVE WindowInv'
  BY <1>6, <1>a, <1>n, CallsAre, FS_AddElement DEF WindowInv, Within, OutcomeInv, Before, Posted,
     CallTypes, PostTypes, SendsPlain, Begin, Posts, Goto, cardVars
<1>7. ASSUME NEW o \in Sends, SiblingsClosed(o) PROVE WindowInv'
  BY <1>7, <1>a, <1>n, CallsAre, FS_AddElement DEF WindowInv, Within, OutcomeInv, Before, Posted,
     CallTypes, PostTypes, SiblingsClosed, Goto, callVars, rowVars, postVars, cardVars
<1>8. ASSUME NEW o \in Sends, CardDelivered(o) PROVE WindowInv'
  BY <1>8, <1>a, <1>n, CallsAre, FS_AddElement DEF WindowInv, Within, OutcomeInv, Before, Posted,
     CallTypes, PostTypes, CardDelivered, Goto, callVars, rowVars, postVars
<1>9. ASSUME NEW o \in Sends, CardFails(o) PROVE WindowInv'
  BY <1>9, <1>a, <1>n, CallsAre, FS_AddElement DEF WindowInv, Within, OutcomeInv, Before, Posted,
     CallTypes, PostTypes, CardFails, Posts, Goto, callVars
<1>10. ASSUME NEW o \in Sends, UpdateApplied(o) PROVE WindowInv'
  BY <1>10, <1>a, <1>n, CallsAre, FS_AddElement DEF WindowInv, Within, OutcomeInv, Before, Posted,
     CallTypes, PostTypes, UpdateApplied, CardOf, Goto, callVars, rowVars, postVars
<1>11. ASSUME NEW o \in Sends, CardSent(o) PROVE WindowInv'
  BY <1>11, <1>a, <1>n, CallsAre, FS_AddElement DEF WindowInv, Within, OutcomeInv, Before, Posted,
     CallTypes, PostTypes, CardSent, Track, Late, Goto, callVars, rowVars, postVars
<1>12. ASSUME NEW o \in Sends, CardLost(o) PROVE WindowInv'
  BY <1>12, <1>a, <1>n, CallsAre, FS_AddElement DEF WindowInv, Within, OutcomeInv, Before, Posted,
     CallTypes, PostTypes, CardLost, Posts, Goto, callVars, Updating
<1>13. ASSUME NEW o \in Sends, Accept(o) PROVE WindowInv'
  <2>1. pc[o] = "posting" => \E k \in Int : -Skew <= k /\ k <= Skew /\ stamped' = [stamped EXCEPT ![o] = now + k]
    BY <1>13, <1>n DEF Accept
  <2>2. pc[o] = "posting" => Within(began[o], stamped'[o], now)
    BY <2>1, <1>a, <1>n DEF WindowInv, Within, PostTypes
  <2>3. \A s \in Sends \ {o} : stamped'[s] = stamped[s]
    BY <1>13, <1>a DEF Accept, PostTypes
  <2>4. o \notin kept /\ kept \subseteq Sends /\ accepted \subseteq Sends
    BY <1>13, <1>a DEF Accept, WindowInv, PostTypes
  <2>5. /\ pc' = pc /\ kept' = kept /\ began' = began /\ ended' = ended /\ now' = now
        /\ wire' = wire \ {o} /\ accepted' = accepted \union {o}
    BY <1>13 DEF Accept, rowVars
  <2>6. \A s \in accepted' : pc'[s] = "posting" => Within(began'[s], stamped'[s], now')
    BY <2>2, <2>3, <2>4, <2>5 DEF WindowInv
  <2>7. \A s \in kept' :
          /\ s \in accepted' /\ pc'[s] = "delivered"
          /\ began'[s] <= ended'[s] /\ Within(began'[s], stamped'[s], ended'[s])
    BY <2>3, <2>4, <2>5 DEF WindowInv
  <2> QED
    BY <2>5, <2>6, <2>7 DEF WindowInv
<1>14. ASSUME NEW o \in Sends, Reject(o) PROVE WindowInv'
  BY <1>14, <1>a, <1>n, CallsAre, FS_AddElement DEF WindowInv, Within, OutcomeInv, Before, Posted,
     CallTypes, PostTypes, Reject, callVars, rowVars, cardVars
<1>15. ASSUME NEW o \in Sends, PostDelivered(o) PROVE WindowInv'
  <2>0. pc[o] = "posting" /\ pc' = [pc EXCEPT ![o] = "delivered"] /\ UNCHANGED <<wire, accepted, now>>
    BY <1>15 DEF PostDelivered, Goto, postVars
  <2>1. CASE Forget(o)
    BY <2>0, <2>1, ForgetKeeps, Zenon
  <2>2. CASE /\ kept' = kept \union {o} /\ ended' = [ended EXCEPT ![o] = now]
             /\ UNCHANGED <<began, stamped>>
    <3>1. o \in accepted /\ accepted \subseteq Sends /\ kept \subseteq Sends /\ o \notin kept
      BY <2>0, <1>15, <1>a DEF PostDelivered, PostTypes, WindowInv
    <3>2. ended'[o] = now /\ pc'[o] = "delivered"
      BY <2>0, <2>2, <1>a, CallsAre DEF PostTypes, CallTypes
    <3>3. \A s \in Sends \ {o} : ended'[s] = ended[s] /\ pc'[s] = pc[s]
      BY <2>0, <2>2, <1>a, CallsAre DEF PostTypes, CallTypes
    <3>4. began[o] <= now /\ Within(began[o], stamped[o], now)
      BY <2>0, <3>1 DEF WindowInv
    <3>5. IsFiniteSet(kept')
      BY <2>2, FS_AddElement DEF WindowInv
    <3>6. \A s \in kept' :
            /\ s \in accepted' /\ pc'[s] = "delivered"
            /\ began'[s] <= ended'[s] /\ Within(began'[s], stamped'[s], ended'[s])
      BY <2>0, <2>2, <3>1, <3>2, <3>3, <3>4 DEF WindowInv
    <3>7. \A s \in accepted' : pc'[s] = "posting" => Within(began'[s], stamped'[s], now')
      BY <2>0, <2>2, <3>1, <3>2, <3>3 DEF WindowInv
    <3> QED
      BY <2>0, <2>2, <3>5, <3>6, <3>7 DEF WindowInv
  <2> QED
    BY <1>15, <2>1, <2>2 DEF PostDelivered, RememberWebhook
<1>16. ASSUME NEW o \in Sends, PostRejected(o) PROVE WindowInv'
  BY <1>16, ForgetKeeps DEF PostRejected, Goto, postVars
<1>17. ASSUME NEW o \in Sends, PostMisread(o) PROVE WindowInv'
  BY <1>17, ForgetKeeps DEF PostMisread, Goto
<1>18. ASSUME NEW o \in Sends, PostUnknown(o) PROVE WindowInv'
  BY <1>18, ForgetKeeps DEF PostUnknown, Goto, postVars
<1>19. CASE NoSendsStep
  <2>1. /\ UNCHANGED <<wire, accepted, kept, began, ended, stamped>> /\ now <= now'
        /\ \A s \in Sends : pc'[s] = pc[s]
    BY <1>19 DEF NoSendsStep, rowVars, postVars
  <2>2. accepted \subseteq Sends /\ kept \subseteq Sends
    BY <1>a DEF PostTypes
  <2>3. \A s \in Sends : Within(began[s], stamped[s], now) => Within(began[s], stamped[s], now')
    BY <2>1, <1>n, <1>m DEF Within
  <2>4. \A s \in Sends : began[s] <= now'
    BY <2>1, <1>n, <1>m DEF WindowInv
  <2> QED
    BY <2>1, <2>2, <2>3, <2>4 DEF WindowInv
<1> QED
  BY <1>4, <1>5, <1>6, <1>7, <1>8, <1>9, <1>10, <1>11, <1>12, <1>13, <1>14, <1>15, <1>16, <1>17,
     <1>18, <1>19, OtherSteps DEF Next, StartSend, StepSend

\* Nothing has been sent.
LEMMA InitOutcome == Init => OutcomeInv /\ WindowInv
  BY CallsAre, FS_EmptySet DEF Init, OutcomeInv, WindowInv, Within, Before, Posted

Rows(o) == {r \in kept : chat[r] = chat[o]}
Exact(o) == {r \in Rows(o) : began[r] <= stamped[o] /\ stamped[o] <= ended[r]}
Near(o) == {r \in Rows(o) : began[r] <= stamped[o] + Slop /\ stamped[o] - Slop <= ended[r]}

LEMMA CandidateIs ==
  \A o : Candidate(chat[o], stamped[o]) = IF Exact(o) # {} THEN TheOnly(Exact(o)) ELSE TheOnly(Near(o))
  BY DEF Candidate, Rows, Exact, Near

\* Where o is among the rows that come into question, it is found or nothing is.
LEMMA OneAmongRows ==
  ASSUME WindowInv, NEW rows \in SUBSET kept, NEW o \in rows
  PROVE  TheOnly(rows) \in {o, None}
<1>1. IsFiniteSet(rows)
  BY FS_Subset DEF WindowInv
<1>2. CASE Cardinality(rows) = 1
  <2>1. PICK r : rows = {r}
    BY <1>1, <1>2, FS_Singleton
  <2>2. rows = {o}
    BY <2>1
  <2>3. TheOnly(rows) = CHOOSE x \in rows : TRUE
    BY <1>2 DEF TheOnly
  <2> QED
    BY <2>2, <2>3
<1>3. CASE Cardinality(rows) # 1
  BY <1>3 DEF TheOnly
<1> QED
  BY <1>2, <1>3

LEMMA OnlyRow ==
  ASSUME NEW o
  PROVE  TheOnly({o}) = o
<1>1. Cardinality({o}) = 1
  BY FS_Singleton
<1>2. TheOnly({o}) = CHOOSE x \in {o} : TRUE
  BY <1>1 DEF TheOnly
<1> QED
  BY <1>2

\* A message whose text is stored is the only one its window finds, if one is
\* found, and with no other reply around it is found.
LEMMA FoundIsIt == Base /\ WindowInv => CandidateIsIt
<1> SUFFICES ASSUME Base, WindowInv, NEW o \in kept
             PROVE  LET found == Candidate(chat[o], stamped[o]) IN
                    /\ stamped[o] \in began[o]..ended[o] \/ Apart(o, Skew) => found \in {o, None}
                    /\ Apart(o, Skew + Slop) => found = o
  BY DEF CandidateIsIt
<1>n. /\ Skew \in Nat /\ Slop \in Nat /\ Skew <= Slop
      /\ \A r \in kept : began[r] \in Int /\ ended[r] \in Int /\ stamped[r] \in Int
  BY TypeParts, DeliveryAssumption DEF Base, PostTypes, Times
<1>w. began[o] - Skew <= stamped[o] /\ stamped[o] <= ended[o] + Skew /\ began[o] <= ended[o]
  BY DEF WindowInv, Within
<1>1. o \in Rows(o) /\ Rows(o) \subseteq kept /\ Exact(o) \subseteq Rows(o) /\ Near(o) \subseteq Rows(o)
  BY DEF Rows, Exact, Near
<1>2. o \in Near(o)
  BY <1>1, <1>n, <1>w DEF Near
<1>3. TheOnly(Near(o)) \in {o, None}
  BY <1>1, <1>2, OneAmongRows
<1>4. o \in Exact(o) => TheOnly(Exact(o)) \in {o, None}
  BY <1>1, OneAmongRows
<1>5. Exact(o) = {o} => TheOnly(Exact(o)) = o
  BY OnlyRow
<1>6. Near(o) = {o} => TheOnly(Near(o)) = o
  BY OnlyRow
<1>7. stamped[o] \in began[o]..ended[o] => Candidate(chat[o], stamped[o]) \in {o, None}
  <2>1. stamped[o] \in began[o]..ended[o] => o \in Exact(o)
    BY <1>1, <1>n DEF Exact
  <2> QED
    BY <2>1, <1>4, CandidateIs
<1>8. Apart(o, Skew) => Exact(o) \subseteq {o}
  BY <1>1, <1>n, <1>w DEF Apart, Exact, Rows
<1>9. Apart(o, Skew + Slop) => Near(o) = {o}
  BY <1>1, <1>2, <1>n, <1>w DEF Apart, Near, Rows
<1>10. Apart(o, Skew + Slop) => Apart(o, Skew)
  BY <1>n DEF Apart
<1>11. Exact(o) \subseteq {o} => Exact(o) = {} \/ Exact(o) = {o}
  OBVIOUS
<1> HIDE DEF Exact, Near
<1>12. Apart(o, Skew) => Candidate(chat[o], stamped[o]) \in {o, None}
  BY <1>3, <1>5, <1>8, <1>11, CandidateIs
<1>13. Apart(o, Skew + Slop) => Candidate(chat[o], stamped[o]) = o
  BY <1>5, <1>6, <1>8, <1>9, <1>10, <1>11, CandidateIs
<1> QED
  BY <1>7, <1>12, <1>13

\* Both invariants hold in every state.
LEMMA OutcomeCorrect == Spec => [](Base /\ OutcomeInv /\ WindowInv)
<1>1. Init => Base /\ OutcomeInv /\ WindowInv
  BY InitBase, InitOutcome
<1>2. Base /\ OutcomeInv /\ WindowInv /\ [Next]_vars => (Base /\ OutcomeInv /\ WindowInv)'
  BY StepBase, OutcomeKept, WindowKept
<1> QED
  BY <1>1, <1>2, PTL DEF Spec

\* What send() reports is what happened: delivered texts were shown, a rejected
\* text was not, and nobody reads a text twice, unless the answer about a card
\* was lost or somebody in between answered for DingTalk.
THEOREM OutcomesAreHonest == Spec => []OutcomesHonest
<1>1. OutcomeInv => OutcomesHonest
  BY DEF OutcomeInv, OutcomesHonest, Posted, Before
<1> QED
  BY <1>1, OutcomeCorrect, PTL

\* A quoted webhook message whose text is stored is found as itself or not at
\* all, also among replies sent at the same time, where DingTalk's time for it
\* lies in the window of its request or no other reply of the chat was sent
\* within the distance of the clocks; it is found where none was sent within that
\* distance and the slop together.
THEOREM QuotesFindTheirOwn == Spec => []CandidateIsIt
<1> QED
  BY FoundIsIt, OutcomeCorrect, PTL
===============================================================================
