---------------------------- MODULE ReplyDelivery ----------------------------
(***************************************************************************)
(* The DingTalk adapter: messages coming in, replies going out as AI cards *)
(* or through the chat's session webhook, edits of cards, and the store of *)
(* the originals that a quoted reply is looked up in.                      *)
(*                                                                         *)
(* Every handler is a coroutine of one event loop.  It runs alone up to an *)
(* await; at each await other handlers, and DingTalk, take their steps.  A *)
(* call is one send() or one edit_message(); the text it carries is named  *)
(* after the call, and the card a send creates is named after the send.    *)
(***************************************************************************)
EXTENDS Integers, Sequences, FiniteSets

CONSTANTS
  Chats,
  Messages,    \* inbound messages
  ChatOf,      \* message -> its chat
  Sends,       \* runs of send()
  Edits,       \* runs of edit_message()
  Plain,       \* sends whose content may rule a card out: @-mentions, recovery prompts
  Receipts,    \* calls of turns whose final reply is a failure receipt
  Off,         \* disconnect(), which closes cards like a send does
  None, NoRow, Blank,
  WebhookMax,  \* _SESSION_WEBHOOKS_MAX
  Slop,        \* _WEBHOOK_REPLY_MATCH_SLOP_MS
  Skew,        \* how far DingTalk's clock may be from the host's
  MaxTime      \* end of the modelled time (a bound of the model)

Calls == Sends \union Edits
Closers == Sends \union {Off}
Times == 0..MaxTime

ASSUME DeliveryAssumption ==
  /\ ChatOf \in [Messages -> Chats]
  /\ Sends \intersect Edits = {}
  /\ Plain \subseteq Sends
  /\ Receipts \subseteq Calls
  /\ Off \notin Sends
  /\ None \notin Calls \union Chats \union Messages
  /\ NoRow \notin Calls \union {None}
  /\ Blank \notin Calls \union {None, NoRow}
  /\ WebhookMax \in Nat \ {0}
  /\ Slop \in Nat
  /\ Skew \in 0..Slop  \* what the slop allows for
  /\ MaxTime \in Nat

VARIABLES
  conn,       \* "up", "closing" (disconnect is at work) or "down"
  toClose,    \* disconnect: chats whose cards it has not taken yet
  seen,       \* _dedup
  context,    \* _message_contexts: chat -> its newest message, or None
  fired,      \* _done_emoji_fired
  done,       \* message -> how often it was given the Done reaction
  webhooks,   \* keys of _session_webhooks, oldest insertion first
  stale,      \* chats whose cached webhook is at the end of its time
  pc,         \* call -> where it is
  chat,       \* send -> its chat, or None
  target,     \* edit -> the card it edits, or None
  final,      \* calls that are final: reply_to given, finalize=True
  siblings,   \* closer -> card -> the text it is about to close it with, or None
  streaming,  \* _streaming_cards: card -> last text, or None
  saved,      \* card_replies: card -> its saved original, Blank or NoRow
  kept,       \* sends with a row in webhook_replies
  began, ended, stamped,   \* send -> window of its request; createdAt, DingTalk's time
  shown,      \* card -> the text it shows, Blank, or None before it is delivered
  open,       \* cards that DingTalk shows as still being written
  wire,       \* sends whose webhook request DingTalk has not judged
  accepted,   \* sends whose webhook request DingTalk accepted
  carded,     \* history: calls whose text a card came to show
  loose,      \* history: cards with an update that failed, or late in disconnect
  misread,    \* history: sends whose request did arrive but was answered >= 300
  raced,      \* history: cards closed as a sibling while an edit of them ran
  now

inVars == <<seen, context, fired, done>>
hookVars == <<webhooks, stale>>
callVars == <<chat, target, final>>
rowVars == <<kept, began, ended, stamped>>
postVars == <<wire, accepted, misread>>
cardVars == <<siblings, streaming, saved, shown, open, carded, loose, raced>>
connVars == <<conn, toClose>>
vars == <<connVars, inVars, hookVars, pc, callVars, rowVars, postVars, cardVars, now>>

Updating == {"streaming", "applied"}
Places == {"idle", "closing", "creating", "posting", "editing", "delivered",
           "rejected", "unknown", "failed"} \union Updating

TypeOK ==
  /\ conn \in {"up", "closing", "down"}
  /\ toClose \subseteq Chats
  /\ seen \subseteq Messages
  /\ context \in [Chats -> Messages \union {None}]
  /\ fired \subseteq Chats
  /\ done \in [Messages -> Nat]
  /\ webhooks \in Seq(Chats) /\ Len(webhooks) <= WebhookMax
  /\ stale \subseteq Chats
  /\ pc \in [Calls -> Places]
  /\ chat \in [Sends -> Chats \union {None}]
  /\ target \in [Edits -> Sends \union {None}]
  /\ final \subseteq Calls
  /\ siblings \in [Closers -> [Sends -> Calls \union {None}]]
  /\ streaming \in [Sends -> Calls \union {None}]
  /\ saved \in [Sends -> Calls \union {Blank, NoRow}]
  /\ kept \subseteq Sends
  /\ began \in [Sends -> Times] /\ ended \in [Sends -> Times] /\ stamped \in [Sends -> Int]
  /\ shown \in [Sends -> Calls \union {Blank, None}]
  /\ open \subseteq Sends
  /\ wire \subseteq Sends /\ accepted \subseteq Sends /\ misread \subseteq Sends
  /\ carded \subseteq Calls
  /\ loose \subseteq Sends /\ raced \subseteq Sends
  /\ now \in Times

NoCards == [c \in Sends |-> None]

\* connect() has returned: the stream is open, nothing has arrived.
Init ==
  /\ conn = "up" /\ toClose = {}
  /\ seen = {}
  /\ context = [ch \in Chats |-> None] /\ fired = {}
  /\ done = [m \in Messages |-> 0]
  /\ webhooks = <<>> /\ stale = {}
  /\ pc = [o \in Calls |-> "idle"]
  /\ chat = [o \in Sends |-> None] /\ target = [e \in Edits |-> None] /\ final = {}
  /\ siblings = [x \in Closers |-> NoCards] /\ streaming = NoCards
  /\ saved = [c \in Sends |-> NoRow]
  /\ kept = {} /\ began = [o \in Sends |-> 0] /\ ended = began /\ stamped = began
  /\ shown = NoCards /\ open = {}
  /\ wire = {} /\ accepted = {} /\ misread = {}
  /\ carded = {} /\ loose = {} /\ raced = {}
  /\ now = 0

Goto(o, place) == pc' = [pc EXCEPT ![o] = place]
CardOf(o) == IF o \in Sends THEN o ELSE target[o]
Cached(ch) == \E i \in 1..Len(webhooks) : webhooks[i] = ch

\* An edit of the card has invalidated its saved original and not returned.
BeingEdited(c) == \E e \in Edits : target[e] = c /\ pc[e] \in Updating
BeingUpdated(c) == \E o \in Calls : CardOf(o) = c /\ pc[o] \in Updating
BeingClosed(c) == \E x \in Closers : siblings[x][c] # None

-----------------------------------------------------------------------------
(* The store of originals; each of its writes may fail, which send() and       *)
(* edit_message() notice only where they must not go on.                       *)

\* The delivery may name no carrier, and the database may refuse the row.
RememberDelivery(o) ==
  \E text \in {o, NoRow} : saved' = [saved EXCEPT ![o] = text]

UpdateContent(c, e) ==
  \/ saved' = [saved EXCEPT ![c] = IF @ = NoRow THEN NoRow ELSE e]
  \/ UNCHANGED saved

\* Mutant: the saved original stays until the new one is saved.
InvalidateNothing(c) == c \in Sends /\ UNCHANGED saved

InvalidateContent(c) == saved' = [saved EXCEPT ![c] = IF @ = NoRow THEN NoRow ELSE Blank]

\* A request whose message is not stored leaves no window.
Forget(o) ==
  /\ began' = [began EXCEPT ![o] = 0]
  /\ stamped' = [stamped EXCEPT ![o] = 0]
  /\ UNCHANGED <<kept, ended>>

\* The text and the window of its request.
RememberWebhook(o) ==
  \/ kept' = kept \union {o} /\ ended' = [ended EXCEPT ![o] = now] /\ UNCHANGED <<began, stamped>>
  \/ Forget(o)

-----------------------------------------------------------------------------
(* Inbound messages *)

\* A full cache drops its oldest entry first, also for a chat it already holds.
Remember(ch) ==
  LET room == IF Len(webhooks) >= WebhookMax THEN Tail(webhooks) ELSE webhooks
  IN  /\ webhooks' = IF \E i \in 1..Len(room) : room[i] = ch THEN room ELSE Append(room, ch)
      /\ stale' = stale \ {ch}

\* A message that was seen before is dropped without a trace.
Arrive(m, hook) ==
  /\ conn = "up"
  /\ m \notin seen
  /\ seen' = seen \union {m}
  /\ context' = [context EXCEPT ![ChatOf[m]] = m]
  /\ fired' = fired \ {ChatOf[m]}
  /\ IF hook THEN Remember(ChatOf[m]) ELSE UNCHANGED hookVars
  /\ UNCHANGED <<connVars, done, pc, callVars, rowVars, postVars, cardVars, now>>

\* Not an allowed user, or a group message that does not mention the bot.
Gated(m) ==
  /\ conn = "up"
  /\ m \notin seen
  /\ seen' = seen \union {m}
  /\ UNCHANGED <<connVars, context, fired, done, hookVars, pc, callVars, rowVars, postVars, cardVars, now>>

\* Only a send that is still to come looks at the end of its time.
WebhookExpires(ch) ==
  /\ Cached(ch)
  /\ \E o \in Sends : pc[o] = "idle"
  /\ ch \notin stale
  /\ stale' = stale \union {ch}
  /\ UNCHANGED <<connVars, inVars, webhooks, pc, callVars, rowVars, postVars, cardVars, now>>

-----------------------------------------------------------------------------
(* Reactions *)

\* The reaction goes to the newest message of the chat, once until the next one.
FireDone(o, ch) ==
  IF ch \in fired \/ o \in Receipts
  THEN UNCHANGED inVars
  ELSE /\ fired' = fired \union {ch}
       /\ done' = IF context[ch] = None THEN done
                  ELSE [done EXCEPT ![context[ch]] = @ + 1]
       /\ UNCHANGED <<seen, context>>

-----------------------------------------------------------------------------
(* send(): to a card when it can be one, through the webhook otherwise *)

PopAt(s, i) == SubSeq(s, 1, i - 1) \o SubSeq(s, i + 1, Len(s))

Begin(o, ch, f) ==
  /\ pc[o] = "idle"
  /\ chat' = [chat EXCEPT ![o] = ch]
  /\ final' = IF f THEN final \union {o} ELSE final
  /\ UNCHANGED target

\* No webhook for the chat, or only one that has expired and is forgotten now.
SendRefused(o, ch, f) ==
  /\ Begin(o, ch, f)
  /\ \/ ~Cached(ch) /\ UNCHANGED hookVars
     \/ /\ ch \in stale
        /\ \E i \in 1..Len(webhooks) :
             webhooks[i] = ch /\ webhooks' = PopAt(webhooks, i)
        /\ stale' = stale \ {ch}
  /\ Goto(o, "rejected")
  /\ UNCHANGED <<connVars, inVars, rowVars, postVars, cardVars, now>>

\* The cards of chat ch that are being written, as x takes them to close them.
TakeCards(x, ch) ==
  LET mine == {c \in Sends : chat[c] = ch /\ streaming[c] # None}
  IN  /\ siblings' = [siblings EXCEPT ![x] = [c \in Sends |-> IF c \in mine THEN streaming[c] ELSE None]]
      /\ streaming' = [c \in Sends |-> IF c \in mine THEN None ELSE streaming[c]]
      /\ raced' = raced \union {c \in mine : BeingEdited(c)}

SendsCard(o, ch, f) ==
  /\ Begin(o, ch, f)
  /\ conn # "down" /\ Cached(ch) /\ ch \notin stale
  /\ context[ch] # None
  /\ TakeCards(o, ch)
  /\ Goto(o, "closing")
  /\ UNCHANGED <<connVars, inVars, hookVars, rowVars, postVars, saved, shown, open, carded, loose, now>>

Posts(o) ==
  /\ Goto(o, "posting")
  /\ wire' = wire \union {o}
  /\ began' = [began EXCEPT ![o] = now]
  /\ UNCHANGED <<kept, ended, stamped, accepted, misread>>

SendsPlain(o, ch, f) ==
  /\ Begin(o, ch, f)
  /\ conn # "down" /\ Cached(ch) /\ ch \notin stale
  /\ o \in Plain \/ context[ch] = None
  /\ Posts(o)
  /\ UNCHANGED <<connVars, inVars, hookVars, cardVars, now>>

\* One card after the other is closed with the text it was last tracked with;
\* a failure, an access token that cannot be had included, goes unnoticed.
CloseSibling(x, c) ==
  /\ siblings[x][c] # None
  /\ siblings' = [siblings EXCEPT ![x][c] = None]
  /\ \/ /\ shown' = [shown EXCEPT ![c] = siblings[x][c]]
        /\ open' = open \ {c}
        /\ UNCHANGED loose
     \/ /\ loose' = loose \union {c}
        /\ UNCHANGED <<shown, open>>
  /\ UNCHANGED <<connVars, inVars, hookVars, pc, callVars, rowVars, postVars, streaming, saved, carded, raced, now>>

SiblingsClosed(o) ==
  /\ pc[o] = "closing"
  /\ siblings[o] = NoCards
  /\ Goto(o, "creating")
  /\ UNCHANGED <<connVars, inVars, hookVars, callVars, rowVars, postVars, cardVars, now>>

-----------------------------------------------------------------------------
(* The card of a send *)

\* Create and deliver: the card is in the chat, with no text yet.
CardDelivered(o) ==
  /\ pc[o] = "creating"
  /\ conn # "down"
  /\ shown' = [shown EXCEPT ![o] = Blank]
  /\ Goto(o, "streaming")
  /\ UNCHANGED <<connVars, inVars, hookVars, callVars, rowVars, postVars, siblings, streaming, saved, open, carded, loose, raced, now>>

\* No token, no staff id in a direct chat, or an exception from the SDK, which
\* may hide that the card was delivered: the webhook takes over.
CardFails(o) ==
  /\ pc[o] = "creating"
  /\ \/ UNCHANGED shown
     \/ conn # "down" /\ shown' = [shown EXCEPT ![o] = Blank]
  /\ Posts(o)
  /\ UNCHANGED <<connVars, inVars, hookVars, callVars, siblings, streaming, saved, open, carded, loose, raced, now>>

\* DingTalk carries out the update a send or an edit waits for.
UpdateApplied(o) ==
  LET c == CardOf(o) IN
  /\ pc[o] = "streaming"
  /\ shown[c] # None
  /\ shown' = [shown EXCEPT ![c] = o]
  /\ open' = IF o \in final THEN open \ {c} ELSE open \union {c}
  /\ carded' = carded \union {o}
  /\ Goto(o, "applied")
  /\ UNCHANGED <<connVars, inVars, hookVars, callVars, rowVars, postVars, siblings, streaming, saved, loose, raced, now>>

\* What is tracked while disconnect is at work may be forgotten with the rest.
Late(c) == IF conn = "up" THEN loose ELSE loose \union {c}

\* Mutant: only final cards are tracked.
TrackFinal(o, c) ==
  IF o \in final
  THEN streaming' = [streaming EXCEPT ![c] = o] /\ UNCHANGED loose
  ELSE UNCHANGED <<streaming, loose>>

\* A final update ends the tracking of its card, any other one starts it.
Track(o, c) ==
  IF o \in final
  THEN streaming' = [streaming EXCEPT ![c] = None] /\ UNCHANGED loose
  ELSE streaming' = [streaming EXCEPT ![c] = o] /\ loose' = Late(c)

\* The proposal that a final reply marks delivered is TaskWriteGate's.
Finish(o, ch) == IF o \in final THEN FireDone(o, ch) ELSE UNCHANGED inVars

CardSent(o) ==
  /\ o \in Sends /\ pc[o] = "applied"
  /\ RememberDelivery(o)
  /\ Track(o, o)
  /\ Finish(o, chat[o])
  /\ Goto(o, "delivered")
  /\ UNCHANGED <<connVars, hookVars, callVars, rowVars, postVars, siblings, shown, open, carded, raced, now>>

\* The update raises, carried out or not: the same text goes to the webhook.
CardLost(o) ==
  /\ o \in Sends /\ pc[o] \in Updating
  /\ loose' = loose \union {o}
  /\ Posts(o)
  /\ UNCHANGED <<connVars, inVars, hookVars, callVars, siblings, streaming, saved, shown, open, carded, raced, now>>

-----------------------------------------------------------------------------
(* The webhook *)

\* The message gets the time of DingTalk's clock, which tells something only
\* where its text is still to be stored.
Accept(o) ==
  /\ o \in wire
  /\ wire' = wire \ {o}
  /\ accepted' = accepted \union {o}
  /\ IF pc[o] = "posting"
     THEN \E k \in -Skew..Skew : stamped' = [stamped EXCEPT ![o] = now + k]
     ELSE UNCHANGED stamped
  /\ UNCHANGED <<connVars, inVars, hookVars, pc, callVars, kept, began, ended, misread, cardVars, now>>

Reject(o) ==
  /\ o \in wire
  /\ wire' = wire \ {o}
  /\ UNCHANGED <<connVars, inVars, hookVars, pc, callVars, rowVars, accepted, misread, cardVars, now>>

\* Status below 300 and no error code.
PostDelivered(o) ==
  /\ pc[o] = "posting" /\ o \in accepted
  /\ RememberWebhook(o)
  /\ Finish(o, chat[o])
  /\ Goto(o, "delivered")
  /\ UNCHANGED <<connVars, hookVars, callVars, postVars, cardVars, now>>

\* Mutant: the error code in the body is not looked at.
PostTrusted(o) ==
  /\ pc[o] = "posting" /\ o \notin wire \union accepted
  /\ Finish(o, chat[o])
  /\ Goto(o, "delivered")
  /\ UNCHANGED <<connVars, hookVars, callVars, rowVars, postVars, cardVars, now>>

\* An error code, or a status from 300 on.
PostRejected(o) ==
  /\ pc[o] = "posting" /\ o \notin wire \union accepted
  /\ Forget(o)
  /\ Goto(o, "rejected")
  /\ UNCHANGED <<connVars, inVars, hookVars, callVars, postVars, cardVars, now>>

\* A status from 300 on of somebody in between, about a request that goes through.
PostMisread(o) ==
  /\ pc[o] = "posting" /\ o \in wire \union accepted
  /\ misread' = misread \union {o}
  /\ Forget(o)
  /\ Goto(o, "rejected")
  /\ UNCHANGED <<connVars, inVars, hookVars, callVars, wire, accepted, cardVars, now>>

\* Timeout, connection reset, a closed client.
PostUnknown(o) ==
  /\ pc[o] = "posting"
  /\ Forget(o)
  /\ Goto(o, "unknown")
  /\ UNCHANGED <<connVars, inVars, hookVars, callVars, postVars, cardVars, now>>

-----------------------------------------------------------------------------
(* edit_message() *)

\* The gateway edits a message whose send succeeded, and awaits one edit of it
\* before it starts the next.
Edit(e, c, f) ==
  /\ pc[e] = "idle"
  /\ pc[c] = "delivered"
  /\ \A d \in Edits : target[d] = c => pc[d] \notin Updating \union {"editing"}
  /\ target' = [target EXCEPT ![e] = c]
  /\ final' = IF f THEN final \union {e} ELSE final
  /\ Goto(e, "editing")
  /\ UNCHANGED <<connVars, inVars, hookVars, chat, rowVars, postVars, cardVars, now>>

\* The saved original is taken back before the update leaves.
EditInvalidates(e) ==
  LET c == target[e] IN
  /\ pc[e] = "editing"
  /\ conn # "down"
  /\ InvalidateContent(c)
  /\ raced' = IF BeingClosed(c) THEN raced \union {c} ELSE raced
  /\ Goto(e, "streaming")
  /\ UNCHANGED <<connVars, inVars, hookVars, callVars, rowVars, postVars, siblings, streaming, shown, open, carded, loose, now>>

\* No token, or the invalidation cannot be committed.
EditRefused(e) ==
  /\ pc[e] = "editing"
  /\ Goto(e, "failed")
  /\ UNCHANGED <<connVars, inVars, hookVars, callVars, rowVars, postVars, cardVars, now>>

EditDone(e) ==
  LET c == target[e] IN
  /\ e \in Edits /\ pc[e] = "applied"
  /\ UpdateContent(c, e)
  /\ Track(e, c)
  /\ Finish(e, chat[c])
  /\ Goto(e, "delivered")
  /\ UNCHANGED <<connVars, hookVars, callVars, rowVars, postVars, siblings, shown, open, carded, raced, now>>

EditLost(e) ==
  /\ e \in Edits /\ pc[e] \in Updating
  /\ loose' = loose \union {target[e]}
  /\ Goto(e, "failed")
  /\ UNCHANGED <<connVars, inVars, hookVars, callVars, rowVars, postVars, siblings, streaming, saved, shown, open, carded, raced, now>>

-----------------------------------------------------------------------------
(* disconnect() *)

Disconnect ==
  /\ conn = "up"
  /\ conn' = "closing"
  /\ toClose' = {chat[c] : c \in {d \in Sends : streaming[d] # None}}
  /\ UNCHANGED <<inVars, hookVars, pc, callVars, rowVars, postVars, cardVars, now>>

DisconnectTakes(ch) ==
  /\ conn = "closing" /\ ch \in toClose /\ siblings[Off] = NoCards
  /\ toClose' = toClose \ {ch}
  /\ TakeCards(Off, ch)
  /\ UNCHANGED <<conn, inVars, hookVars, pc, callVars, rowVars, postVars, saved, shown, open, carded, loose, now>>

Disconnected ==
  /\ conn = "closing" /\ toClose = {} /\ siblings[Off] = NoCards
  /\ conn' = "down"
  /\ webhooks' = <<>> /\ stale' = {}
  /\ context' = [ch \in Chats |-> None] /\ fired' = {} /\ seen' = {}
  /\ streaming' = NoCards
  /\ loose' = loose \union {c \in Sends : streaming[c] # None}
  /\ UNCHANGED <<toClose, done, pc, callVars, rowVars, postVars, siblings, saved, shown, open, carded, raced, now>>

\* Only webhook requests read the clock: one that is out, or one that is still
\* to come after one whose window is stored.
Tick ==
  /\ now < MaxTime
  /\ \/ \E o \in Sends : pc[o] = "posting"
     \/ kept # {} /\ \E o \in Sends : pc[o] \in {"idle", "closing", "creating"} \union Updating
  /\ now' = now + 1
  /\ UNCHANGED <<connVars, inVars, hookVars, pc, callVars, rowVars, postVars, cardVars>>

Inbound ==
  \/ \E m \in Messages, hook \in BOOLEAN : Arrive(m, hook)
  \/ \E m \in Messages : Gated(m)
  \/ \E ch \in Chats : WebhookExpires(ch)

StartSend(o) ==
  \E ch \in Chats, f \in BOOLEAN :
    SendRefused(o, ch, f) \/ SendsCard(o, ch, f) \/ SendsPlain(o, ch, f)

StepSend(o) ==
  \/ SiblingsClosed(o) \/ CardDelivered(o) \/ CardFails(o)
  \/ UpdateApplied(o) \/ CardSent(o) \/ CardLost(o)
  \/ Accept(o) \/ Reject(o)
  \/ PostDelivered(o) \/ PostRejected(o) \/ PostMisread(o) \/ PostUnknown(o)

StepEdit(e) ==
  \/ \E c \in Sends, f \in BOOLEAN : Edit(e, c, f)
  \/ EditInvalidates(e) \/ EditRefused(e) \/ UpdateApplied(e) \/ EditDone(e) \/ EditLost(e)

Next ==
  \/ Inbound
  \/ \E o \in Sends : StartSend(o) \/ StepSend(o)
  \/ \E e \in Edits : StepEdit(e)
  \/ \E x \in Closers, c \in Sends : CloseSibling(x, c)
  \/ Disconnect \/ Disconnected \/ Tick
  \/ \E ch \in Chats : DisconnectTakes(ch)

Spec == Init /\ [][Next]_vars

-----------------------------------------------------------------------------
(* Properties *)

\* The saved original of a card is the text the card shows, or it is blank and
\* no text is returned for a quote; except where an edit of the card overlapped
\* with its being closed as a sibling.  A save that fails never revives the
\* text of before the edit.
OriginalsCurrent ==
  \A c \in Sends \ raced : saved[c] \in {NoRow, Blank, shown[c]}

\* A card that DingTalk shows as being written is tracked for the next send or
\* disconnect to close, or somebody is at work on it now; a card is left open
\* only by an update that failed or came while disconnect was at work.
OpenCardsTracked ==
  \A c \in open \ loose :
    \/ streaming[c] # None
    \/ BeingClosed(c)
    \/ BeingUpdated(c)

\* What send() reports is what happened: delivered texts were shown, a rejected
\* text was not, and nobody reads a text twice, unless the answer about a card
\* was lost or somebody in between answered for DingTalk.
OutcomesHonest ==
  \A o \in Sends :
    /\ pc[o] = "delivered" => o \in carded \union accepted
    /\ pc[o] = "rejected" => o \notin (carded \ loose) \union ((wire \union accepted) \ misread)
    /\ o \in carded \intersect accepted => o \in loose

\* A message is given the Done reaction at most once, however many replies and
\* final edits its chat sees and however often DingTalk delivers it.
DoneOnce == \A m \in Messages : done[m] <= 1

-----------------------------------------------------------------------------
(* Looking up a quoted webhook message by its time (_resolve_webhook) *)

\* Mutant: the newest of several candidates is taken.
TheOnlyNewest(rows) ==
  IF rows = {} THEN None ELSE CHOOSE r \in rows : \A q \in rows : began[q] <= began[r]

TheOnly(rows) == IF Cardinality(rows) = 1 THEN CHOOSE r \in rows : TRUE ELSE None

\* Windows that hold the time decide; only without any the slop is allowed for.
Candidate(ch, t) ==
  LET rows  == {r \in kept : chat[r] = ch}
      exact == {r \in rows : began[r] <= t /\ t <= ended[r]}
      near  == {r \in rows : began[r] <= t + Slop /\ t - Slop <= ended[r]}
  IN  IF exact # {} THEN TheOnly(exact) ELSE TheOnly(near)

\* No other stored reply of the chat was being sent within d of send o.
Apart(o, d) ==
  \A r \in kept \ {o} : chat[r] = chat[o] => began[r] > ended[o] + d \/ began[o] > ended[r] + d

\* A quoted webhook message whose text is stored is found as itself or not at
\* all, also among replies sent at the same time, where DingTalk's time for it
\* lies in the window of its request or no other reply of the chat was sent
\* within the distance of the clocks; it is found where none was sent within that
\* distance and the slop together.  (Otherwise the text of another reply may be
\* offered: "never an exact identity".)
CandidateIsIt ==
  \A o \in kept :
    LET found == Candidate(chat[o], stamped[o]) IN
    /\ stamped[o] \in began[o]..ended[o] \/ Apart(o, Skew) => found \in {o, None}
    /\ Apart(o, Skew + Slop) => found = o
=============================================================================
