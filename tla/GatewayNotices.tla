--------------------------- MODULE GatewayNotices ---------------------------
(* What the chats are told around restarts and updates.  A stop tells the chats
   with work in progress and the home channels; a start reports the result of an
   update, tells the chat that asked for the restart, and after a restart that
   no chat asked for the home channels.  `hermes update` runs detached; a watcher
   in the gateway follows it through marker files, forwards its questions to the
   chat that started it, and reports its result, across restarts of the gateway.

   Code: overlays/hermes/gateway/run.py.  External: the update process, the
   handlers of /restart and /update, adapters' sends.

   The draining between the notices of a stop and its end is left out (it is in
   GatewayRestart), and so is the output streamed by the watcher.  Code is atomic
   between awaits; the awaits here are sends. *)
EXTENDS Naturals, FiniteSets

CONSTANTS
    Sessions, Chats, Platforms,
    ChatOf,      \* the chat of each session
    PlatformOf,  \* the platform of each chat
    HomeOf,      \* the home channel of each platform, or NoChat
    Silenced,    \* platforms with gateway_restart_notification = false
    UpdateChat,  \* the chat that runs /update
    NoChat,
    MaxLives     \* bound: processes of the gateway

ASSUME NoticesAssumption ==
    /\ NoChat \notin Chats
    /\ ChatOf \in [Sessions -> Chats] /\ PlatformOf \in [Chats -> Platforms]
    /\ HomeOf \in [Platforms -> Chats \cup {NoChat}]
    /\ Silenced \subseteq Platforms /\ UpdateChat \in Chats
    /\ MaxLives \in Nat

VARIABLES
    stage,     \* where the gateway's process is
    lives,     \* processes so far
    online,    \* the keys of self.adapters
    crew,      \* those that the loop at work started with
    left,      \* sessions or platforms that the loop has still to visit
    sending,   \* the chat that a notice is being sent to, or NoChat
    notified,  \* this stop's notified
    heard,     \* history: notices of this stop that each chat got
    unsure,    \* history: those of them that the adapter reported as failed
    busy,      \* history: the chats of the sessions at work when the stop began
    askedIn,   \* history: the chat whose /restart is under way, until the next start is over
    restart,   \* _restart_requested
    asker,     \* _restart_command_source
    notify,    \* .restart_notify.json
    planned,   \* .restart_pending.json
    update,    \* the update process
    mark,      \* .update_pending.json, .update_pending.claimed.json
    exit,      \* .update_exit_code: "124" is the watcher's
    prompt,    \* .update_prompt.json
    response,  \* .update_response
    flag,      \* _update_prompt_pending of the chat's session
    watch,     \* the watcher task
    told       \* history: a final report was sent off, by this process or before the
               \* markers were removed

life == <<stage, lives, online>>
loop == <<crew, left, sending>>
history == <<unsure, busy, askedIn>>
stopping == <<notified, heard, restart, asker>>
markers == <<notify, planned>>
files == <<mark, exit, prompt, response>>
watcher == <<flag, watch, told>>
noticesVars == <<life, loop, stopping, history, markers, update, files, watcher>>

Stages == {"down", "connected", "reporting", "replying", "homes", "aborted", "up",
           "chats", "stopHomes"}
Watches == {"off", "scheduled", "stream", "prompting", "final", "timedOut", "fallback",
            "telling"}

NoticesTypeOK ==
    /\ stage \in Stages /\ lives \in Nat
    /\ online \subseteq Platforms /\ crew \subseteq Platforms
    /\ left \subseteq Sessions \cup Platforms
    /\ sending \in Chats \cup {NoChat}
    /\ notified \subseteq Chats /\ heard \in [Chats -> Nat]
    /\ unsure \in [Chats -> Nat] /\ busy \subseteq Chats
    /\ askedIn \in Chats \cup {NoChat}
    /\ restart \in BOOLEAN /\ asker \in Chats \cup {NoChat}
    /\ notify \in Chats \cup {NoChat} /\ planned \in BOOLEAN
    /\ update \in {"none", "working", "asking", "done"}
    /\ mark \in {"none", "pending", "claimed"} /\ exit \in {"none", "code", "124"}
    /\ prompt \in BOOLEAN /\ response \in BOOLEAN
    /\ flag \in BOOLEAN /\ watch \in Watches /\ told \in BOOLEAN

NoticesInit ==
    /\ stage = "down" /\ lives = 0 /\ online = {} /\ crew = {} /\ left = {}
    /\ sending = NoChat /\ notified = {}
    /\ heard = [c \in Chats |-> 0] /\ unsure = [c \in Chats |-> 0]
    /\ busy = {} /\ askedIn = NoChat
    /\ restart = FALSE /\ asker = NoChat /\ notify = NoChat /\ planned = FALSE
    /\ update = "none" /\ mark = "none" /\ exit = "none"
    /\ prompt = FALSE /\ response = FALSE
    /\ flag = FALSE /\ watch = "off" /\ told = FALSE

Running == stage \notin {"down", "aborted"}
Reachable(c) == PlatformOf[c] \in online
Muted(c) == PlatformOf[c] \in Silenced

-----------------------------------------------------------------------------
(* The process. *)

\* start() has connected some of the platforms.
Connect ==
    /\ stage = "down" /\ lives < MaxLives
    /\ stage' = "connected" /\ lives' = lives + 1
    /\ online' \in SUBSET Platforms
    /\ UNCHANGED <<loop, stopping, history, markers, update, files, watcher>>

\* The loops over chats and platforms only await while a notice is being sent.
Awaits == stage \in {"homes", "chats", "stopHomes"} => sending # NoChat

\* _handle_adapter_fatal_error pops an adapter; the reconnect watcher, which
\* runs once the start is over, brings it back.
AdapterLost(p) ==
    /\ Running /\ Awaits /\ p \in online /\ online' = online \ {p}
    /\ UNCHANGED <<stage, lives, loop, stopping, history, markers, update, files, watcher>>

AdapterBack(p) ==
    /\ stage = "up" /\ p \notin online /\ online' = online \cup {p}
    /\ UNCHANGED <<stage, lives, loop, stopping, history, markers, update, files, watcher>>

\* What a process loses with its memory.
Dies ==
    /\ stage' = "down" /\ online' = {}
    /\ crew' = {} /\ left' = {} /\ sending' = NoChat
    /\ notified' = {} /\ heard' = [c \in Chats |-> 0]
    /\ unsure' = [c \in Chats |-> 0] /\ busy' = {}
    /\ restart' = FALSE /\ asker' = NoChat
    /\ flag' = FALSE /\ watch' = "off"
    /\ told' = (told /\ mark = "none")
    /\ UNCHANGED <<lives, askedIn>>

Crash ==
    /\ stage # "down" /\ Dies
    /\ UNCHANGED <<markers, update, files>>

-----------------------------------------------------------------------------
(* The result of an update: _send_update_notification. *)

\* Mutant: a result whose platform is not connected yet counts as reported.
DroppedResult == mark' = "none" /\ UNCHANGED <<exit, prompt, response>>

\* The markers wait for the next poll, or the next start.
Deferred == mark' = "pending" /\ UNCHANGED <<exit, prompt, response>>

\* The marker is claimed, and the report sent off.
Claimed == mark' = "claimed" /\ told' = TRUE /\ UNCHANGED <<exit, prompt, response, flag>>

\* Sent or not, its files are removed; those of a question are not.
Reported == mark' = "none" /\ exit' = "none" /\ UNCHANGED <<prompt, response, flag, told>>

CanReport == mark # "none" /\ exit # "none" /\ Reachable(UpdateChat)
Undecided == mark # "none" /\ ~CanReport

\* start(): nothing to report, a report, or a watcher for what is to come.
StartReports ==
    /\ stage = "connected"
    /\ \/ mark = "none" /\ stage' = "replying" /\ UNCHANGED <<files, watcher>>
       \/ CanReport /\ stage' = "reporting" /\ Claimed /\ UNCHANGED watch
       \/ /\ Undecided /\ stage' = "replying" /\ Deferred
          /\ watch' = "scheduled" /\ UNCHANGED <<flag, told>>
    /\ UNCHANGED <<lives, online, loop, stopping, history, markers, update>>

StartReported ==
    /\ stage = "reporting" /\ stage' = "replying"
    /\ Reported /\ UNCHANGED watch
    /\ UNCHANGED <<lives, online, loop, stopping, history, markers, update>>

-----------------------------------------------------------------------------
(* The watcher: _watch_update_progress. *)

Watching == UNCHANGED <<life, loop, stopping, history, markers, update>>

\* The adapter is looked up once: without it only the result is waited for.
WatcherStarts ==
    /\ watch = "scheduled" /\ Watching
    /\ watch' = IF mark # "none" /\ Reachable(UpdateChat) THEN "stream" ELSE "fallback"
    /\ UNCHANGED <<files, flag, told>>

\* The process has ended: the rest of its output and the final status.
FinalStatus ==
    /\ watch = "stream" /\ exit # "none" /\ Watching
    /\ watch' = "final" /\ told' = TRUE
    /\ UNCHANGED <<files, flag>>

\* Mutant: the files go, but the session still waits for an answer.
RemovesFiles ==
    /\ mark' = "none" /\ exit' = "none" /\ prompt' = FALSE /\ response' = FALSE
    /\ UNCHANGED flag

\* Everything of this update is removed, sent or not.
Cleanup ==
    /\ mark' = "none" /\ exit' = "none" /\ prompt' = FALSE /\ response' = FALSE
    /\ flag' = FALSE

WatcherDone ==
    /\ watch \in {"final", "timedOut"} /\ Watching
    /\ watch' = "off" /\ Cleanup /\ UNCHANGED told

\* A question is forwarded once; its file stays until it is answered.
Forward ==
    /\ watch = "stream" /\ exit = "none" /\ prompt /\ ~flag /\ Watching
    /\ watch' = "prompting"
    /\ UNCHANGED <<files, flag, told>>

Forwarded ==
    /\ watch = "prompting" /\ Watching
    /\ watch' = "stream" /\ flag' = TRUE
    /\ UNCHANGED <<files, told>>

\* A send that raises ends the watcher.
ForwardFails ==
    /\ watch = "prompting" /\ Watching
    /\ watch' = "off"
    /\ UNCHANGED <<files, flag, told>>

\* Half an hour is over: a code is written for the process, and the chat told.
\* A code that came during the last poll is left to the next start.
WatcherTimesOut ==
    /\ watch = "stream" /\ Watching
    /\ IF exit = "none"
       THEN watch' = "timedOut" /\ exit' = "124" /\ told' = TRUE
       ELSE watch' = "off" /\ UNCHANGED <<exit, told>>
    /\ UNCHANGED <<mark, prompt, response, flag>>

\* Without the adapter: the result, as soon as it can be sent.
FallbackReports ==
    /\ watch = "fallback" /\ CanReport /\ Watching
    /\ watch' = "telling" /\ Claimed

FallbackDefers ==
    /\ watch = "fallback" /\ exit # "none" /\ Undecided /\ Watching
    /\ Deferred /\ UNCHANGED watcher

FallbackReported ==
    /\ watch = "telling" /\ Watching
    /\ watch' = "off" /\ Reported

FallbackTimesOut ==
    /\ watch = "fallback" /\ mark # "none" /\ Watching
    /\ \/ /\ exit # "none"
          /\ watch' = "off" /\ UNCHANGED <<files, flag, told>>
       \/ /\ exit = "none" /\ exit' = "124" /\ UNCHANGED <<prompt, response, flag>>
          /\ IF Reachable(UpdateChat)
             THEN watch' = "telling" /\ mark' = "claimed" /\ told' = TRUE
             ELSE watch' = "off" /\ mark' = "pending" /\ UNCHANGED told

-----------------------------------------------------------------------------
(* The update and its user. *)

\* External: /update writes the marker, spawns the process, schedules the watcher.
Update ==
    /\ stage = "up" /\ update = "none" /\ Reachable(UpdateChat)
    /\ update' = "working" /\ mark' = "pending"
    /\ watch' = "scheduled"
    /\ UNCHANGED <<life, loop, stopping, history, markers, exit, prompt, response, flag, told>>

Outside == UNCHANGED <<life, loop, stopping, history, markers, mark, watcher>>

\* External: the process asks, reads the answer, ends or is killed.
Ask ==
    /\ update = "working" /\ update' = "asking" /\ prompt' = TRUE
    /\ Outside /\ UNCHANGED <<exit, response>>

ReadAnswer ==
    /\ update = "asking" /\ response
    /\ update' = "working" /\ response' = FALSE
    /\ Outside /\ UNCHANGED <<exit, prompt>>

UpdateEnds ==
    /\ update = "working" /\ update' = "done"
    /\ exit' \in {"code", exit}
    /\ Outside /\ UNCHANGED <<prompt, response>>

\* _handle_message: the next message of the session answers the question; a
\* command cancels it.
Answer ==
    /\ Running /\ flag
    /\ response' = TRUE /\ prompt' = FALSE /\ flag' = FALSE
    /\ UNCHANGED <<life, loop, stopping, history, markers, update, mark, exit, watch, told>>

\* _clear_session_boundary_security_state: another conversation begins.
BoundaryClears ==
    /\ Running /\ flag /\ flag' = FALSE
    /\ UNCHANGED <<life, loop, stopping, history, markers, update, files, watch, told>>

-----------------------------------------------------------------------------
(* The start: the chat that asked, the home channels. *)

ChatsOnly == UNCHANGED <<update, files, watcher>>

\* The start is over, and with it the /restart of a chat.
RestartOver == askedIn' = NoChat /\ UNCHANGED <<unsure, busy>>

\* _send_restart_notification: the marker is gone afterwards, sent or not.
StartReplies ==
    /\ stage = "replying" /\ sending = NoChat
    /\ IF notify # NoChat /\ Reachable(notify) /\ ~Muted(notify)
       THEN sending' = notify /\ UNCHANGED <<stage, notify, crew, left, history>>
       ELSE /\ notify' = NoChat /\ UNCHANGED sending
            /\ \/ /\ planned /\ stage' = "homes"
                  /\ crew' = online /\ left' = online /\ UNCHANGED history
               \/ /\ ~planned /\ stage' = "up"
                  /\ RestartOver /\ UNCHANGED <<crew, left>>
    /\ UNCHANGED <<lives, online, stopping, planned>> /\ ChatsOnly

Replied ==
    /\ stage = "replying" /\ sending # NoChat
    /\ sending' = NoChat /\ notify' = NoChat
    /\ UNCHANGED <<life, crew, left, stopping, history, planned>> /\ ChatsOnly

\* _send_home_channel_startup_notifications, over the live dictionary.
SendHome(p) ==
    /\ stage = "homes" /\ sending = NoChat /\ online = crew /\ p \in left
    /\ left' = left \ {p}
    /\ sending' = IF p \in Silenced THEN NoChat ELSE HomeOf[p]
    /\ UNCHANGED <<life, crew, stopping, history, markers>> /\ ChatsOnly

HomeSent ==
    /\ stage = "homes" /\ sending # NoChat /\ sending' = NoChat
    /\ UNCHANGED <<life, crew, left, stopping, history, markers>> /\ ChatsOnly

HomesDone ==
    /\ stage = "homes" /\ sending = NoChat /\ online = crew /\ left = {}
    /\ stage' = "up" /\ planned' = FALSE /\ crew' = {} /\ RestartOver
    /\ UNCHANGED <<lives, online, left, sending, stopping, notify>> /\ ChatsOnly

\* The dictionary changed during the iteration: RuntimeError, out of start().
HomesRaise ==
    /\ stage = "homes" /\ sending = NoChat /\ online # crew
    /\ stage' = "aborted" /\ planned' = FALSE /\ RestartOver
    /\ UNCHANGED <<lives, online, loop, stopping, notify>> /\ ChatsOnly

-----------------------------------------------------------------------------
(* The stop: _notify_active_sessions_of_shutdown. *)

Target(s) == ChatOf[s]

\* A signal, a restart from the terminal, or (external) /restart in a chat.
StopBegins(r, c) ==
    /\ stage = "up"
    /\ c # NoChat => r /\ Reachable(c)
    /\ stage' = "chats" /\ restart' = r /\ asker' = c /\ askedIn' = c
    /\ notify' = IF c = NoChat THEN notify ELSE c
    /\ left' \in SUBSET Sessions /\ busy' = {Target(s) : s \in left'}
    /\ UNCHANGED <<lives, online, crew, sending, notified, heard, unsure, planned>>
    /\ ChatsOnly

\* Mutant: the home channels are told whoever was told before.
TellTwice(c) == sending' = IF c = NoChat \/ Muted(c) THEN NoChat ELSE c

\* A target is told once.
Tell(c) == sending' = IF c = NoChat \/ c \in notified \/ Muted(c) THEN NoChat ELSE c

TellChat(s) ==
    /\ stage = "chats" /\ sending = NoChat /\ s \in left
    /\ left' = left \ {s}
    /\ IF Reachable(Target(s)) THEN Tell(Target(s)) ELSE UNCHANGED sending
    /\ UNCHANGED <<life, crew, stopping, history, markers>> /\ ChatsOnly

Got(c) == heard' = [heard EXCEPT ![c] = @ + 1]

\* An adapter that reports a failure, or raises, may have shown the notice.
Sent ==
    /\ stage \in {"chats", "stopHomes"} /\ sending # NoChat
    /\ sending' = NoChat
    /\ \/ Got(sending) /\ notified' = notified \cup {sending} /\ UNCHANGED unsure
       \/ UNCHANGED <<notified, heard, unsure>>
       \/ /\ Got(sending) /\ unsure' = [unsure EXCEPT ![sending] = @ + 1]
          /\ UNCHANGED notified
    /\ UNCHANGED <<life, crew, left, restart, asker, busy, askedIn, markers>> /\ ChatsOnly

\* Home channels hear of a restart that no chat asked for.
PlannedRestart == restart /\ asker = NoChat

\* Mutant: every stop is announced at home.
EveryStop == online

\* A chat's /restart stays in the chat; else a snapshot of the adapters.
ToldAtHome == IF restart /\ asker # NoChat THEN {} ELSE online

ChatsTold ==
    /\ stage = "chats" /\ sending = NoChat /\ left = {}
    /\ stage' = "stopHomes" /\ left' = ToldAtHome
    /\ UNCHANGED <<lives, online, crew, sending, stopping, history, markers>> /\ ChatsOnly

TellHome(p) ==
    /\ stage = "stopHomes" /\ sending = NoChat /\ p \in left
    /\ left' = left \ {p}
    /\ Tell(HomeOf[p])
    /\ UNCHANGED <<life, crew, stopping, history, markers>> /\ ChatsOnly

\* The end of the stop writes the marker for the home channels.
Stopped ==
    /\ stage = "stopHomes" /\ sending = NoChat /\ left = {}
    /\ planned' = (planned \/ PlannedRestart)
    /\ Dies
    /\ UNCHANGED <<notify, update, files>>

-----------------------------------------------------------------------------
StartStep ==
    \/ StartReports \/ StartReported \/ StartReplies \/ Replied
    \/ HomeSent \/ HomesDone \/ HomesRaise
    \/ \E p \in Platforms : SendHome(p)

StopStep ==
    \/ ChatsTold \/ Sent \/ Stopped
    \/ \E s \in Sessions : TellChat(s)
    \/ \E p \in Platforms : TellHome(p)

WatchStep ==
    \/ WatcherStarts \/ FinalStatus \/ WatcherDone \/ WatcherTimesOut
    \/ Forward \/ Forwarded \/ ForwardFails
    \/ FallbackReports \/ FallbackDefers \/ FallbackReported
    \/ FallbackTimesOut

UpdateStep == Update \/ Ask \/ ReadAnswer \/ UpdateEnds \/ Answer \/ BoundaryClears

NoticesNext ==
    \/ Connect \/ Crash \/ StartStep \/ StopStep \/ WatchStep \/ UpdateStep
    \/ \E p \in Platforms : AdapterLost(p) \/ AdapterBack(p)
    \/ \E r \in BOOLEAN, c \in Chats \cup {NoChat} : StopBegins(r, c)

NoticesSpec == NoticesInit /\ [][NoticesNext]_noticesVars

-----------------------------------------------------------------------------
\* The markers of an update are only removed when a report of its result was
\* sent off: a crash, a restart, a platform that is not connected yet, two
\* reporters and a timeout do not lose it.
ResultNotLost == update # "none" /\ mark = "none" => told

\* A message is taken as an answer only while a question is on disk: the flag in
\* memory and the file agree, whatever ends the watcher, the process or the
\* conversation.
AnswersAQuestion == flag => prompt

\* "Deduplicate only identical delivery targets": a chat is told of a stop once,
\* however many of its sessions were at work, and if it is a home channel too.  A
\* notice that was shown although its send was reported as failed does not count:
\* the next session, or the loop over the home channels, tells the chat again.
ToldOnce == \A c \in Chats : heard[c] <= 1 + unsure[c]

\* A restart that a chat asked for stays in that chat: from its /restart to the end
\* of the next start, however often processes die in between, a notice goes to that
\* chat or to one whose work the stop interrupts, and to no home channel that is
\* neither.
InChatStaysInChat ==
    askedIn # NoChat /\ sending # NoChat => sending \in {askedIn} \cup busy

=============================================================================
