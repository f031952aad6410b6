# Hermes DingTalk Kit: specifications and proofs

This directory specifies the parts of the Hermes DingTalk Kit whose mistakes are
hard to find with tests: plugins that run tool calls on worker threads and talk to
a chat platform that may answer late, never, or after a restart; the adapter whose
coroutines interleave at every await; an installer that may fail at any file
operation; and the gateway the kit overlays, with its turns, queues, agent cache,
restarts and processes. `tlc` checks the modules on small instances, `tlapm` proves
theorems about them for every instance.

## 1. Inventory

Paths are relative to `src/`; `run.py` is `overlays/hermes/gateway/run.py`.

### product_confirmation (`overlays/hermes/plugins/product_confirmation`)

*State.* `store.py` keeps one row per task (`confirmations`: status, current
version, code hash and decision of each of the two gates), the versions ever
registered (never reusable), an outbox with one row per request
(`confirmation_requests`: CLAIMED, FAILED or DELIVERED, with the claim's id) and
a decision log. Each operation runs under one lock and in one
`BEGIN IMMEDIATE` transaction.

*Operations.* Draft, request, decide and advance of the product gate; draft,
request and decide of the technical-design gate; status. A request handler
(`tools.py`) runs on a worker thread: it reads the record, claims the outbox row,
composes a message with a fresh code, hands it to the adapter on the gateway's
event loop, waits up to 30 seconds, and releases or finalizes the claim.

*Hard.* Requests that race; drafts and decisions that arrive while a message is on
its way; a message accepted after the handler stopped waiting; a crash between
claim and settlement; a final store call that fails; answers that quote codes of
older versions, of the other gate or of another task.

*Correct when* DingTalk never has two messages about one version, the owner can
answer whatever the task waits for, a decision answers the message of exactly
the current version, no gate is skipped, and a claim of unknown outcome is never
taken over.

### h1_task_write and the fact store (`h1_task_write/tools.py`, `dingtalk/task_binding.py`)

*State*, in memory: declared proposals (delivered, state, retries, time), one
delivery slot per (chat, user), reply receipts; a binding in the host's session
metadata; boards and tasks in the host's Kanban database. *Operations:* declare,
mark delivered, consume, roll back, the write tools. *Hard:* two confirmations
at once, a write of unknown outcome that is replayed, expiry (900 s), eviction at
256 entries; slots keyed by (chat, user) and not by turn; queued messages that are
answered in the dispatch context of an earlier one; other outgoing messages that
look like a final reply. *Correct when* one proposal is written by one handler at
a time, only after it was shown, only by the user who declared it, with at most
three attempts and one card, and never again once it succeeded or was rejected.

### private send (`dingtalk/private_send.py`)

*State:* a table of previews (sender, session, message, code, consumed).
*Operations:* prepare, confirm, cancel. *Hard:* the confirm handler reads
`consumed`, sends, and writes `consumed` afterwards; ids may be empty. *Correct
when* only the administrator who prepared a preview confirms it, in a later turn,
and a token whose message may have arrived is not used for another.

### The DingTalk adapter (`adapter.py`, `reply_context.py`, `delivery_gate.py`, `incoming.py`)

*State:* message contexts, webhooks, streaming cards and done marks per chat, the
set of seen messages, the SQLite store of saved originals. *Operations:*
disconnect, inbound message, send, edit, sibling close, quoted-reply lookup.
*Hard:* everything runs on one event loop but interleaves at each await; answers
get lost; a proxy may answer for DingTalk. *Correct when* what `send` reports
happened, a saved original is what its card shows, no card stays open unobserved, a
message gets one done mark, a quoted reply is found as itself or not at all where
the clocks of DingTalk and the host let it be told apart.

### The installer (`scripts/install_dingtalk_kit.py`, `compat_patcher.py`, `post_install_verifier.py`)

*State:* three plugin trees and the core files of the host, their snapshots.
*Operations:* snapshot, staged switch by two renames, compat patching,
verification, rollback. *Hard:* a failure, interruption or crash at each file
operation, and a second run from what is left. *Correct when* a rollback that reports
success restored the host, success is complete, and nobody loses a plugin.

### The gateway (`overlays/hermes/gateway/run.py`, `session.py`)

One event loop per process. Five parts of it are modelled:

* *Process and signals.* Pid file, runtime lock, takeover and planned-stop markers;
  start, `--replace`, signal handlers, the planned-stop watcher, the stop task, the exit
  status. *Hard:* several processes at once; signals between awaits; markers that name
  another process. *Correct when* one gateway is connected, success is reported only
  for a meant end, and a stop ends.
* *Restarts and platforms.* The session index, the clean-shutdown marker, the
  stuck-loop counter, the startup gate, the reconnection queue. *Hard:* kills during
  the drain; resumed turns beside new messages. *Correct when* a conversation that
  was cut off is found again, held messages are replayed, no platform is forgotten.
* *Turns and queues.* The running-agent slot with its generations, the adapter's
  pending slot, the overflow list. *Hard:* /stop while the old turn unwinds, the
  recursion limit, a drain, the queue's cap. *Correct when* every message is in one place or
  ran once, in order, and the session unlocks.
* *Sessions and the agent cache.* Entries, resets, expiry, compression, hand-overs from the
  CLI, a cache of live agents with cap, idle sweep and a cross-process guard. *Hard:*
  teardown by six actors, on threads of their own, beside those of the turns. *Correct when*
  cached agents are usable, agents in slots are not torn down, foreign rows are noticed, and the
  conversations of two keys stay apart.
* *Notices and updates.* Who is told of a stop, a restart, an update and its result.
  *Hard:* marker files, two reporters and processes that come and go. *Correct when*
  results are not lost, answers answer questions, and chats are told once.

### How the parts meet

The adapter turns a chat message into an event; the gateway gives it a turn; hooks
of the two plugins capture sender, chat and gateway of that turn; the model's tool
calls run on worker threads with this context. `product_confirmation` sends through
`adapter.send` and reads the `delivery_outcome` it reports (`ReplyDelivery` says what
these outcomes are worth). `h1_task_write` stores its facts on the adapter, whose final
sends and edits mark proposals as delivered. `private_send` bypasses the adapter.
A stop of the process (`GatewayProcess`) drains turns (`GatewayTurns`), marks sessions
(`GatewayRestart`) and tells chats (`GatewayNotices`).

## 2. Modules

| module | models | with |
| --- | --- | --- |
| `ConfirmationStore`, `ConfirmationTools` | `store.py`, `tools.py`, what DingTalk and `send` may do | `TwoGateApproval` (abstract), `MCConfirmation`, `ConfirmationProofs` |
| `ProposalFacts`, `TaskWriteGate` | `task_binding.py`, `h1_task_write/tools.py`, the turns around them, Kanban | `ProposalLife` (abstract), `MCTaskWrite`, `TaskWriteProofs` |
| `PrivateSend` | `private_send.py` | `MCPrivateSend`, `PrivateSendProofs` |
| `ReplyDelivery` | `adapter.py`, `reply_context.py` | `MCReplyDelivery`, `ReplyDeliveryProofs` |
| `KitInstall` | installer, patcher, verifier | `MCKitInstall`, `KitInstallProofs` |
| `GatewayPlatforms`, `GatewayRestart` | platforms; start, stop, session index | `MCGatewayRestart`, `GatewayLifeProofs` |
| `GatewayTurns` | the queue and the slot of one session | `MCGatewayTurns`, `GatewayTurnsProofs` |
| `AgentCache` | sessions, agents, hand-overs | `MCAgentCache`, `GatewayUpkeepProofs` |
| `GatewayNotices` | notices, the update watcher | `MCGatewayNotices`, `GatewayUpkeepProofs` |
| `GatewayProcess` | `start_gateway`, signals, the stop task | `MCGatewayProcess`, `GatewayLifeProofs` |

`map` in `PROJECT.json` names the lines of each definition. `GatewayLifeProofs` and
`GatewayUpkeepProofs` are about two components each, so the definitions of `GatewayProcess` and
`GatewayNotices` carry names of their own (`ProcessInit`, `NoticesNext`, `Lives`, ...).

### ConfirmationStore, ConfirmationTools, TwoGateApproval

`rec`, `versions`, `req` and `log` are the tables. The two gates run the same
protocol with different columns and tables, so the operations are written once
for a gate `g` (`Redraft`, `Acquire`, `Complete`, `Apply`, `Repeat`) and each
method of the class is an instance with its own guards. An operation that
the code rejects is a disabled action. `DecisionAdmitted` keeps an oddity of the
code: in the draft state the quoted code is not compared, since there is none.

A *call* is one run of a request tool. Its identity, a member of `Claims`, stands
for the claim id, the code and the message it draws. `pc` follows the
handler from one external effect to the next:

    idle -> resolved -> claimed -> sending -> delivered -> finished
                 |          |          |           +-> conflict, unsettled
                 |          |          +-> undelivered -> released, conflict, unsettled
                 |          |          +-> unknown
                 |          +-> raised, undelivered
                 +-> busy, alreadyDelivered

`wire` holds messages that were handed to the adapter and not judged by DingTalk,
`chat` those it accepted. `Accept` is DingTalk's own step: it may come long after
the handler gave up (`ReportUnknown`) or died (`Crash`). Whoever decides may quote any
code that was ever shown in a chat; the code cannot be guessed, so no others. `Reject` is a definite
rejection, `Misread` one that the adapter reports although DingTalk took the message
(a proxy's 5xx): the claim is freed, the message stays in the chat, and `misread`
(history) names it for the properties. One simplification to know of: codes do not
collide (24 bits drawn from `secrets`).

`TwoGateApproval` has the questions that can be read in the chat, the verdicts, and the
gate of each task: one question is open per task, none is asked twice unless it was
disowned (`Disown`, the image of `Misread`), each verdict answers an open question, and
a task advances once its proposal is approved. `ConfirmationTools!KeepsPromise` is the
refinement.

### ProposalFacts, TaskWriteGate, ProposalLife

`known` is the set of ids in `facts["proposals"]`, `fact` the last value of each
record, `pending` the delivery slots. A record keeps its value after the store
dropped it, since a handler that looked it up goes on with the object. The operations
keep what differs between them: `DeclareProposal` sweeps records and slots and evicts
the oldest record, but not the slot that waits for it; `MarkDelivered` sweeps slots
only; `Consume` checks the age on the record; `Rollback` finds nothing when the record
was dropped meanwhile. `MaxKeys`, `TTL` and `MaxRetries` are 256, 900 s and 3 in the code.

A message is a turn of its (chat, user) slot:

    new -> running -> over                  (dispatched, answered)
    new -> queued (-> acked) -> running     (the slot was busy)

A queued message is dispatched when the slot is idle (`StartQueued`) or taken over by
the running turn (`FollowUp`): then no hook runs, and `scope` says that the turn lives
in the dispatch context of an earlier message. A *call* is one run of a write tool
that passes the gate:

    idle -> writing -> (carded ->) ok
               |          +-> unknown       (rolled back)
               +-> rejected, unknown, dead

What the adapter takes for a final reply is more than that: `SideReply` is the
acknowledgement or drain notice a queued message gets, `Command` the answer to a slash
command beside the running turn, `ProgressEdit` the finalized progress bubble. `aside`
(history) are the proposals that one of them flagged; `WrittenAfterConfirm` names them
as its exception, whatever the settings. Abstracted: the content of targets (`Reject` stands
for every permanent refusal), the receipts map, messages steered into a running turn.
`ProposalLife` has `phase` and `tries` of each proposal; `TaskWriteGate!KeepsLife` is the
refinement.

### PrivateSend

One variable per column that a check reads, plus the handlers' place. Each of the
SELECT, the HTTP request and the UPDATE is a step; `Accept` and `Reject` are
DingTalk's. Two overlapping confirms of one token do send twice (`private_send.py:410`
reads what `:425` writes after the send); the module says so and `UsedOnceInSequence`
states what does hold: once a confirm returned, or a cancel ran, none begins.

### ReplyDelivery

A *call* is one `send` or one `edit_message`; the text and the card of a send are
named after it. Each stretch of a coroutine between two awaits is a step. `shown` and
`open` are what DingTalk shows, `streaming` what the adapter tracks, `saved` the stored
originals, `kept` the webhook replies with the time window of their request on the host's clock.
DingTalk's time for a message (`stamped`) may differ from that clock by `Skew`, which the
module assumes to be at most `Slop`, the distance the code allows for. `loose`
marks cards whose update failed or whose answer was lost, `raced` cards whose edit
overlapped with a sibling close, `misread` posts that a proxy answered for: the
properties name these as their exceptions.

### KitInstall

Every file operation is a step that may also raise; one that is not atomic is two with
`torn` content between. `Killed` and `Interrupted` end a run between any two steps. The
text of a core file is the set of compat steps it satisfies. A second run starts from
what the first one left.

### GatewayPlatforms, GatewayRestart

`GatewayPlatforms` has the adapters and the reconnection queue, `GatewayRestart`
extends it with the process: `entry` is the session index on disk, `clean` the
clean-shutdown marker, `cut` (history) the conversation of a turn that was cut off.
The stop is the code's sequence of phases, each of which may be killed. A startup task
waits for the session's task of the adapter (`ResumeAndWait`, `awaited`), in which the
resumed turn runs; `ResumeLater` is the other outcome the code allows, in which the
resume event meets the sentinel that was put there for it (`run.py:8245`) and is parked.
The gate waits for both. The constant `FailWhileDraining` is described under *Seen while
modelling*.

### GatewayTurns

One session. `holder` is `_running_agents`, `slotPend` and `overflow` the queue, `gen`
the generation. A turn is named by the message that opened it and runs further
messages by recursion up to `MaxDepth`. `guard` is the adapter's own: between the
release of the slot and the hand-over a command that passes the guard starts at once
(`CommandStarts`), so the hand-over may find a busy session (`MeetsBusy`), and the guard
may be free beside a busy session (`LateFollowUp`); `Relay` stands for a task of the
adapter without a turn. `upset` (history) collects what the queue does not
make up for; each property names the members it excludes.

### AgentCache

An agent is named by the turn that built it, an entry by the session it was created
with. `Fetch` and `Finish` are the two stretches of a turn that run in its own thread;
everything else is event-loop code, atomic between awaits, and stands still while
the expiry watcher finalizes an entry (`closing`), whose two halves the threads may
come between. An agent that is taken to be torn down leaves `live` in the step of the
decision: the thread that tears it down may run at any time from then on. `exposed`
(history) are the agents taken without the slots protecting them. Merged: the steps of
one fetch (the database read at `:16004`, the locked look, the construction, the locked
insert at `:16118`).

### GatewayNotices

One home chat with two sessions, another platform with its home. The markers
`.restart_notify.json` and `.restart_pending.json` and the four files of an update
survive the process; `stage` is where start or stop is, `watch` where the update
watcher is. A send may be reported as failed although the chat got the notice (`unsure`);
`askedIn` and `busy` are histories of the restart under way.

### GatewayProcess

`pc` is where the main coroutine of a process is in `start_gateway`, `stop` where its
stop task is:

    none -> (mark -> term -> wait -> clean ->) ready -> checked -> locked
         -> discovering -> connecting -> up -> ok | failed | restart | config
    none -> draining -> disconnecting -> closed -> unnamed -> done

Between `ready` and `discovering`, and between `closed` and `done`, there is no await:
signals wait, but other processes step in. A signal before the handlers are installed
kills. `early` (history) are the processes whose stop began before they were running.
The reconnect watcher's attempt (`retrying`) is two steps, and no stop cancels it; `late`
(history) are the processes it connected after the adapters to disconnect were listed.
Under systemd the status of a service restart is 0, which the model calls `restart`.

## 3. Runs

Calls, versions, messages and process starts are used up, so a behaviour may
end: the runs check no deadlock.

| run | instance | distinct states | shows |
| --- | --- | --- | --- |
| `confirmation` | 1 task, 2 versions per gate, 3 calls, a proposal version spelled like a design's outbox key; fairness | 110,341 | one message per version but for misread ones, no lost draft, who waits can be answered, the refinement of `TwoGateApproval`, every claim settled or deliberately kept |
| `task_write` | 1 slot, 2 messages, 2 proposals in a store for 1, 3 calls, 2 attempts, age 1 | 1,165,216 | one writer, one card, the refinement of `ProposalLife` |
| `confirmed_turns` | the same with 2 calls and no clock; fairness | 459,775 | no write in the declaring turn but for proposals flagged by something else than a reply; every consumption ends |
| `kit_install` | 2 trees, 2 core files, 2 runs, every fault at every step | 1,054,265 | clean rollback, complete success, no plugin lost |
| `private_send` | 2 tokens, 2 confirms, 4 messages of 3 conversations, age 1, time 2 | 1,135,651 | only its administrator confirms; no confirm after a returned one |
| `reply_delivery` | 1 chat, 1 message, 2 sends (plain or card), 1 edit, a disconnect, time 2, slop and skew 1 | 3,886,784 | originals, open cards, reported outcomes, quoted replies |
| `gateway_restart` | 1 session, 1 platform, 3 starts, 1 held message; fairness | 145,225 | cut conversations are found, the gate opens after the resumed turns, platforms are accounted for and recover |
| `stuck_loop` | the same with 4 starts | | the finding below |
| `gateway_turns` | 4 messages, 1 stop or overtaking command, queue of 2, depth 1, a goal; fairness | 468,924 | accounting, order, slot, the queue drains, the session unlocks |
| `agent_cache` | 2 keys, cache of 1, 2 turns, 3 sessions, 3 events; fairness | 450,015 | cached agents usable, conversations of two keys apart, agents in slots kept, foreign rows noticed, hand-overs settle |
| `gateway_notices` | 2 sessions of a home chat, 2 platforms, 3 processes, sends misreported | 181,191 | results kept, answers answer, told once, in-chat restarts stay in the chat |
| `gateway_process` | 3 processes, 2 acts of the outside world; fairness | 875,723 | one gateway but for two named cases, meant successes, a stop ends |

*Why these bounds.* Confirmation: three calls race for one version, or ask, re-ask
after a revision, and ask at the technical gate; two versions per gate are what
"older" and "current" need. Write gate: two proposals in a store for one make every
declaration after the first an eviction; an age of one tick with a clock of two
values expires a record in any state; three calls with two attempts allow a retry, a
race with it and the refusal that follows. Installer: two trees and two files have a
first, a last and a "some done, some not"; the second run starts from every end of the
first. Private send: a race of two confirms, a replay, a cancel in between, expiry.
Delivery: a send that closes the card of the other while it is being edited, each card
or plain; a clock of three instants has two requests one after the other that are as far
apart as the clocks differ. Further apart they are covered by the theorem only. Restart: three starts are a run, a restart in which the resumed turn is cut
off again, and the one that must find it. Turns: with a cap of two, four messages are
one running, two waiting and one dropped; `MaxStops` counts overtaking commands too. Agent cache: two keys at a cap of one make every
second agent a surplus; three events are a stop, a reset and one more. Notices: three
processes are the one that is stopped, one that dies while reporting, and one that
reports; two sessions of one chat, which is a home channel too, could be told three times. Process: one that is replaced and two replacers; two outside acts are a
signal or kill and one that races it. Calls, proposals, sends and tokens are
interchangeable, and safety runs use this symmetry; runs with liveness do not.

*Fairness.* Always of code that goes on by itself, never of users, DingTalk or the
outside world. `confirmation`: each handler, whose wait is limited to
`_SEND_TIMEOUT_SECONDS`. `confirmed_turns`: each write handler, whose database waits are
bounded. `gateway_restart`: the startup coroutine, the replay, the connect steps, and
the promotion and the end of turns, which the gate waits for (weak); a retry that is possible again and again succeeds some time (strong: an outage
ends). `gateway_turns`, `agent_cache`: each turn, since the inactivity timeout ends an
agent that does not end; the hand-over and expiry watchers. `gateway_process`: main
coroutine, stop task and signal handlers of each process; discovery, connects, the
drain and the wait for a victim have time limits. One wait has none of its own: `stop()`
awaits `adapter.disconnect()` (`run.py:7099`), and `StopEnds` assumes that it returns.

*Each property has a mutant*, a plausible bug of the code (`\* Mutant:` in the modules)
under which its run fails; `PROJECT.json` lists them. No run checks types: they are
proved for each of the ten components.

### Finding

* `stuck_loop`: `_suspend_stuck_loop_sessions` unlinks the counter file at every start
  (`run.py:5197`), whatever the counts are, so no count exceeds 1 and the threshold of
  3 is never reached. The comments say "If a session hits the threshold (3 consecutive
  restarts while active), the next startup auto-suspends it" (`run.py:7219`) and
  "Persists to a JSON file so counters survive across restarts" (`run.py:5130`).

### Seen while modelling

These behaviours are in the models as the code has them; no run states the opposite.

*Confirmation.* A request whose message cannot be composed raises after the claim was
taken (`tools.py:412`): the row stays CLAIMED for good (`pc = "raised"`, one of the ends
`ClaimsSettle` allows). Both gates share one outbox (`store.py:263`): after a proposal
version spelled `tech:d1` was delivered, a request for design `d1` answers
REQUEST_ALREADY_DELIVERED though nobody was asked. A proxy's 5xx about an accepted
message frees the claim (`adapter.py:873`, `tools.py:428`): the retry sends a second
message with another code, and an answer that quotes the first one's is refused.

*Write gate.* With AI Cards the gateway finalizes the tool-progress bubble
(`run.py:15446`) and the adapter takes it for the final reply (`adapter.py:1138`): a
proposal counts as delivered while its turn still runs. A follow-up turn
(`run.py:17548`) is compared with the id of the earlier message whose context it runs
in. The acknowledgement of a busy agent (`run.py:4784`), the notice of a drain (`:4563`,
sent before the setting for acknowledgements is read) and the answer to a slash command
during a turn (`:7962`, `:8048`, `:8202`) flag the proposal of the running turn. `last_delivered_reply` sweeps proposals although a comment says that
readers never purge (`task_binding.py:350`, `:416`).

*Delivery.* Where an edit overlaps with a sibling close, the saved original may differ
from the card (`raced`). The done reaction goes to the newest message of the chat. A
proxy's 5xx, or a card whose first update was lost, is reported "rejected" though shown.
A full webhook cache evicts the oldest chat even when it only refreshes another
(`adapter.py:609`). Cards tracked while disconnect closes others stay open. Where replies are sent closer to
each other than the clocks of DingTalk and host differ, the text of another one may be
the only candidate for a quoted reply: the code offers it as "never an exact identity"
(`reply_context.py:722`).

*Restart.* A graceful drain takes back the mark of a session whose resumed turn failed
during the drain (`run.py:6990`): the cut conversation is then not resumed.
`FailWhileDraining = FALSE` excludes this case from `CutIsResumable`, and the theorem
`CutConversationsAreKept` assumes it. A turn of more than 120 s without a store update is
not found after a kill. The reconnect watcher drops a platform for which no adapter can
be created.

*Turns.* Messages queued while the gateway drains are discarded though their senders
were told "queued" (`run.py:17408`); so is a message at the cap (`:4524`). At the recursion
limit a promoted head is lost (`:17436`). `/steer` while the slot holds the sentinel
overwrites the pending slot (`:8072`). The `finally` of a turn releases the slot whoever
is in it (`:8954`). A stale turn can take the pending message of a newer one (`:17297`).
Four messages may run in the order 1, 2, 4, 3 when the head is handed over while the
overflow is not empty. A /queue or /steer that arrives after the slot was released
(`run.py:17604`) and before the adapter hands over starts a turn at once, ahead of the
message that waits (`:8643`, `:8907`); the hand-over then finds a busy session, and at the
cap, or where its text goes to the running agent, the message does not run. The tags of
`upset` name these. `Stop` merges the generation bump (`:14284`), the adapter's interrupt
(`:14287`) and the release (`:14292`).

*Agent cache.* An agent that a turn has fetched and `track_agent` has not put in the slot
yet (it looks every 50 ms) is in no slot: the cap enforcer, the idle sweep or an eviction
may take it, and the thread that tears it down (`run.py:14393`, `:14530`, `:14578`) finds it
at work. A run that is stopped before it fetches its agent is not stopped: its
thread fetches, and (a) the guard may release the newer turn's agent (`run.py:16018`,
against the comment at `:16028`), (b) after /new it caches an agent of the old session
for the key, and if that agent compresses its session, `run.py:16678` points the key back to
the old conversation, against `:14220`. A current turn that shares this cached agent
does the same, so no property of the code excludes the case. The cap enforcer may
throw out an agent that was just built or fetched and is not yet in its slot
(`:14467`). A first turn's session row makes the guard rebuild the agent on the
second turn (`:10416` against `:14311`). An automatic reset leaves the cached agent.
Agents evicted mid-turn or overwritten on a signature mismatch are never released
(`:14348`). The cross-process guard compares counts for equality (`:16006`): when a stopped
run compacts the session in place, its result is dropped and the snapshot stays ahead of
the transcript; as many foreign rows as were dropped then go unnoticed, and after an automatic
reset the agent kept from the old session is reused if the counts happen to agree.
`ForeignWritesNoticed` speaks of the next use of an agent whose snapshot was not ahead. A hand-over row that was claimed by a process that dies stays "running".

*Notices.* The startup broadcast iterates over the live adapters, so one that is
popped meanwhile raises out of `start` (`:13185`; stage `aborted`). A prompt whose send
raises ends the watcher. A result may be sent twice after a crash; a restart notice
whose platform is not connected is dropped. A chat whose notice was shown although its send
was reported as failed is told again by its next session or as a home channel
(`:4934`, `:4991`). An exception before the report of an update is sent (files that cannot
be read or parsed, `:13031`, `:13088`) removes the markers as well; the model has readable
files.

*Process.* A stop that comes during tool discovery or `start` runs to its end and gives
the place back; `start` never looks at it and connects (`early` in `OneGateway`), against
"only the winner … will ever open Telegram polling" (`:18287`). A planned stop handled twice (watcher
and SIGTERM) is unexpected the second time and exits with 1. Two replacers overwrite
one takeover marker; a late one removes the winner's pid file (`:18041`). The branch
`if not success` after `start` is dead. The task of the reconnect watcher (`:6241`) is not
among those a stop cancels, and it installs the adapter it awaited (`:6758`, `:6762`) without
another look at `_running`: one that comes up after the adapters to disconnect were listed
(`:7092`) stays connected while pid file and lock are given back (`:7197`), until the process
ends (`late` in `OneGateway`).

## 4. Proofs

Eight modules. In each, the type invariant first, then an inductive invariant with one
lemma per action, one leaf per conjunct the action can disturb; the temporal steps are
`PTL` alone. A reader should start at the theorems listed in `PROJECT.json`.

`ConfirmationProofs`, for any sets of tasks, versions, calls and staff: `TypeCorrect`;
`ClaimsSound` (a handler at work holds the claim of the current draft, a submitted
message belongs to its row's claim or was misread, who has not sent has no message; `AtMostOneMessage`
is not inductive without it); `AtMostOnce`, `NoConflict`; `CodesSound`, from which
`Answerable` (`WaitingIsAnswerable`) and `DecisionsSound`. Two more invariants carry
the refinement `ToolsKeepPromise` (`KeepsPromise`): `RecordsAgree` says that the row of a
version that waits or was answered stays DELIVERED, that an answered version does not wait
again, that the status is what the log's approvals make of it, and that a message nobody
has answered is about the version at stake. That DingTalk may accept a message after its
handler gave up is why they speak of messages on the wire and not of calls.

`TaskWriteProofs`, for any capacity, age and retry limit and finite sets of proposals
and calls: `TypeCorrect`; `GateIsKept` (an open record has no handler at work or ended well,
a record still found is not that of a dead handler, `retries` counts the calls);
`OneWriterHolds`, `AttemptsAreBounded`; `GateKeepsLife`, the step refinement of
`ProposalLife`; `TurnsSound`, `SlotsSound`; `DeliveryShown` (what is
flagged was shown by a final reply or is in `aside`) and `LaterConfirmation`. `OnlyConfirmedWrites` finds for each card and binding the call that
made it, past the gate with the proposal it carries; hence `OneCardHolds`.

`KitInstallProofs`, for any number of trees, files and runs: `RunIsSound` says for each
point of a run what it may rely on; with it `RollbackRestores`, `SuccessIsComplete`,
`NoPluginLost` and `PatchIsAtomic`. The point of the invariant is that the copies taken
first stay whole and equal to the trees of the start until a rollback is over.

`PrivateSendProofs`: `PreviewsSound` (a call works on a preview its own administrator
prepared; an open token has no returned confirm), then `OnlyItsAdmin`, `SentIsTrue`,
`UsedOnce` (an action property).

`GatewayLifeProofs`, of `GatewayRestart`: `NoPlatformForgotten`, and `CutConversationsAreKept` under
`FailWhileDraining = FALSE`. The invariant ties `cut` to the marks on disk per phase
of the stop.

`GatewayTurnsProofs`: `WorkerKeepsSlot`, for any number of messages, stops, and any
depth. It needs that generations are distinct and that a current turn at work is the
last that claimed. `AccountCorrect` is the invariant of the queue, six parts: what waits
waits once and is "held"; a turn at work holds a message that is "taken"; a message has one
holder; without a stop or an overtaking command one turn is at work; and then what ran,
what it holds and what waits are increasing in this order. `AccountedCorrect` and `OrderCorrect` are its reading.

`ReplyDeliveryProofs`: `OriginalsAreCurrent`, `OpenCardsAreTracked`, `DoneAtMostOnce`, for
any number of chats, messages, sends and edits. The common base (`Base`) says that one
edit of a card is under way at a time and that a send's own text is applied before its
edits. `OutcomesAreHonest`: until a send has posted or returned nothing of it is on the
wire, and a card shows its text exactly when its update was applied. `QuotesFindTheirOwn`:
the time DingTalk gives a message is within `Skew` of the window of its request; in the
window itself, or with every other reply further away, a unique candidate is the quoted
one, and with every other one further than `Skew + Slop` it is found. This needs
`Skew <= Slop`.

The second half of `GatewayLifeProofs`, of `GatewayProcess` with any number of processes and acts: `PlacesSound` (whoever is
between its claim and the release of its lock holds the lock, and its flags,
connections, reconnects and stop task fit its place); `OneGatewayHolds` follows, since
only the holder of the lock or a process in `early` or `late` has connections; `SuccessIsMeant`, from the
facts that a marker names a process somebody meant to end and that a running stop task
without `unplanned` or a restart was meant.

`GatewayUpkeepProofs`, of `AgentCache` with any keys, cap, turns and sessions: `CacheInv` has nine
parts. `ClaimInv`: each claim has a generation of its own. `AgentInv`: an agent is in the cache,
in a slot and in the hands of turns under one key only; without it an eviction of one key
could tear down what another holds. `BuiltInv`: it was built by a turn that fetched it.
`SlotInv`: a current turn without an agent finds none in its slot; so what the guard takes
from a slot belongs to a stopped run's newer turn. `SparedInv`: what is cached, in a slot or on
its way there is live or exposed, which gives `RunningAgentsAreSpared`. `UsableInv` is `CachedIsLive` with
at most one entry being finalized. `ConversationsApart` and `CreatedInv` go together: a step gives
a key a session it reached before, or a new one, or the one the CLI handed over, which nobody
knew. `MissedInv`: as long as a write is missed, the snapshot is behind the transcript and no
turn of the key has fetched an agent; the guard then sees the difference, which is
`ForeignWritesAreNoticed`. TLC checked `CacheInv` on the instance of `agent_cache` before it was
proved.

Its second half, of `GatewayNotices` with any sessions, chats, platforms and number of processes:
`NoticesInv` says what each place of the reporters, of the watcher and of the stop may rely on:
which markers are on disk, what was reported when they go, who was told or may have been, whom a restart in a
chat concerns, and that a flag in memory belongs to a question. `ResultsAreKept`, `AnswersHaveQuestions`, `ChatsAreToldOnce`,
`InChatRestartsStay` are its reading.

The proofs assume the named assumptions of the modules and nothing else.

*Only model-checked.* `ClaimsSettle`, `ConsumptionEnds`, `GateOpens`, `PlatformsRecover`,
`QueueDrains`, `SessionUnlocks`, `HandoffSettles`, `StopEnds`: liveness under fairness, out of the
provers' reach. Every other property that a passing run checks is a theorem.

## 5. Plan

Done, in this order: the two confirmation modules, the write gate, `KitInstall`, `PrivateSend`,
`GatewayRestart`, `GatewayTurns`, `ReplyDelivery`, `AgentCache`, `GatewayNotices`,
`GatewayProcess`, each with its runs and the proofs of all its safety properties.

Next: `CutConversationsAreKept` without `~FailWhileDraining`, with the sessions named whose resumed turn
failed during the drain; the order of a queue after a stop; the technical-design
validator as operators over bounded inputs.

## 6. Not modelled

`components` in `PROJECT.json` has each part and the reason. In short:

* `_validate_tech_design_gate` in `tools.py`: a long pure check of arguments.
* Text, markdown, media and mention helpers; entry points; patches, docker, docs, tests.
* Of the adapter: connect and reconnect of the stream, images and files, the outbound
  gate of framework messages, a webhook given in the metadata, late application of a
  card update, a clock skew beyond the slop.
* Of the gateway: commands, prompts, voice, approvals, Kanban and process watchers; in
  the modelled parts: failures of the session database, pruning of the cache at
  shutdown, accepted /steer, streamed update output and native buttons, a second update,
  failed marker writes and the age limit of markers, scoped locks, the failure exit of
  retryable platforms (nearly unreachable: the platform was just queued), status
  files, Windows launchers.
* The parts of the gateway meet in the README only: their product is out of TLC's reach,
  and each module has the others' steps as free events (a stop, a kill, a turn that
  starts or ends).
