--------------------------- MODULE GatewayRestart ---------------------------
(* What becomes of the conversations when the gateway process is restarted,
   stopped or killed: the session index on disk (SessionStore), the graceful
   stop with its drain, the files a process leaves for the next one, and the
   startup that resumes interrupted sessions while new messages wait.

   Code: overlays/hermes/gateway/session.py (SessionStore) and
   overlays/hermes/gateway/run.py (start, stop, the startup restore, the
   stuck-loop counter).

   Of the clock only the age of a session entry is kept: "fresh" (touched
   within 120 s), "recent", or "idle" (the reset policy may expire it).  A
   conversation is named by the parity of the resets before it, enough to see
   that the entry has moved off the one that was cut. *)
EXTENDS GatewayPlatforms, Naturals, Sequences

CONSTANTS
    Sessions,         \* session keys
    None,             \* no entry, no conversation
    Threshold,        \* _STUCK_LOOP_THRESHOLD
    MaxBoots,         \* bound: process starts
    MaxHeld,          \* bound: messages that arrive during one startup restore
    PlatformOf(_),    \* the platform a session lives on (entry.origin)
    FailWhileDraining \* may a resumed turn fail while the gateway drains?

ASSUME RestartAssumption ==
    /\ Threshold \in Nat \ {0}
    /\ MaxBoots \in Nat /\ MaxHeld \in Nat
    /\ FailWhileDraining \in BOOLEAN
    /\ \A s \in Sessions : PlatformOf(s) \in Platforms
    /\ None \notin [suspended : BOOLEAN, pending : BOOLEAN]

VARIABLES
    \* on disk
    entry,     \* sessions.json: None or [suspended, pending (resume_pending)]
    convo,     \* the conversation (session_id) the entry points at
    age,       \* of entry.updated_at
    clean,     \* the file .clean_shutdown exists
    counts,    \* .restart_failure_counts
    \* the process
    phase,     \* "down", "connecting", "up", "notifying", "draining",
               \* "interrupting", "closing"
    gate,      \* _startup_restore_in_progress
    held,      \* _startup_restore_queue: the session of each held message
    slot,      \* _running_agents: "free", "sentinel" (turn is set up), "agent"
    arrived,   \* messages held since the process started (bounded)
    tasks,     \* sessions whose startup-resume task has not run yet
    parked,    \* sessions whose resume event waits in the adapter
    awaited,   \* sessions whose startup-resume task waits for the resumed turn
    preDrain,  \* _pre_drain_keys
    snapshot,  \* agents running when the drain began
    timedOut,  \* the drain timed out
    boots,
    \* history
    cut,       \* conversation whose turn the process cut off, or None
    unseen,    \* agents no marking loop had a chance to see
    streak     \* consecutive drains that met a running turn of the session

disk == <<entry, convo, age, clean, counts>>
drainVars == <<preDrain, snapshot, timedOut>>
intake == <<gate, held, arrived, tasks, parked>>
restore == <<intake, awaited>>
history == <<cut, unseen, streak>>
vars == <<platformVars, disk, drainVars, restore, history, phase, slot, boots>>

Phases == {"down", "connecting", "up", "notifying", "draining", "interrupting", "closing"}
Entry == [suspended : BOOLEAN, pending : BOOLEAN]
FreshEntry == [suspended |-> FALSE, pending |-> FALSE]

Alive == phase # "down"
Stopping == phase \in {"notifying", "draining", "interrupting", "closing"}
Agents == {s \in Sessions : slot[s] = "agent"}
Busy == {s \in Sessions : slot[s] # "free"}
Suspended(s) == entry[s] # None /\ entry[s].suspended
Pending(s) == entry[s] # None /\ entry[s].pending

TypeOK ==
    /\ PlatformTypeOK
    /\ entry \in [Sessions -> Entry \union {None}]
    /\ convo \in [Sessions -> {0, 1}]
    /\ age \in [Sessions -> {"fresh", "recent", "idle"}]
    /\ clean \in BOOLEAN
    /\ counts \in [Sessions -> Nat]
    /\ phase \in Phases
    /\ gate \in BOOLEAN
    /\ held \in Seq(Sessions)
    /\ arrived \in Nat
    /\ slot \in [Sessions -> {"free", "sentinel", "agent"}]
    /\ tasks \subseteq Sessions /\ parked \subseteq Sessions /\ awaited \subseteq Sessions
    /\ preDrain \subseteq Sessions /\ snapshot \subseteq Sessions
    /\ timedOut \in BOOLEAN
    /\ boots \in Nat
    /\ cut \in [Sessions -> {None, 0, 1}]
    /\ unseen \subseteq Sessions
    /\ streak \in [Sessions -> Nat]

Init ==
    /\ adapters = {} /\ failed = [p \in Platforms |-> "no"]
    /\ shown = [p \in Platforms |-> ""] /\ todo = Platforms
    /\ refused = FALSE /\ absent = {}
    /\ entry = [s \in Sessions |-> None]
    /\ convo = [s \in Sessions |-> 0]
    /\ age = [s \in Sessions |-> "idle"]
    /\ clean = FALSE
    /\ counts = [s \in Sessions |-> 0]
    /\ phase = "down" /\ gate = FALSE /\ held = <<>> /\ arrived = 0
    /\ slot = [s \in Sessions |-> "free"]
    /\ tasks = {} /\ parked = {} /\ awaited = {}
    /\ preDrain = {} /\ snapshot = {} /\ timedOut = FALSE
    /\ boots = 0
    /\ cut = [s \in Sessions |-> None]
    /\ unseen = {}
    /\ streak = [s \in Sessions |-> 0]

-----------------------------------------------------------------------------
(* SessionStore: every change is written to disk before the lock is released
   (_save replaces the file atomically), so memory and disk are one variable. *)

\* mark_resume_pending for a set of keys: never over an explicit suspension.
Mark(keys) ==
    [s \in Sessions |->
        IF s \in keys /\ entry[s] # None /\ ~entry[s].suspended
        THEN [entry[s] EXCEPT !.pending = TRUE] ELSE entry[s]]

\* clear_resume_pending
Unmark(keys) ==
    [s \in Sessions |->
        IF s \in keys /\ entry[s] # None
        THEN [entry[s] EXCEPT !.pending = FALSE] ELSE entry[s]]

\* suspend_recently_active(120): what a process finds after an unclean exit.
RecentlyActive ==
    {s \in Sessions : entry[s] # None /\ ~entry[s].suspended /\ age[s] = "fresh"}

\* _suspend_stuck_loop_sessions on the entries e
SuspendStuck(e) ==
    [s \in Sessions |->
        IF e[s] # None /\ counts[s] >= Threshold
        THEN [e[s] EXCEPT !.suspended = TRUE] ELSE e[s]]

\* A new entry, a new conversation: what was cut off is given up for good.
NewConversation(s) ==
    /\ entry' = [entry EXCEPT ![s] = FreshEntry]
    /\ convo' = [convo EXCEPT ![s] = 1 - @]
    /\ age' = [age EXCEPT ![s] = "fresh"]

SameConversation(s) ==
    /\ age' = [age EXCEPT ![s] = "fresh"]
    /\ UNCHANGED <<entry, convo>>

\* get_or_create_session: a suspended session is wiped, one to be resumed is
\* kept, and only then the reset policy decides; it may say no to an idle
\* session too (mode "none", a background process).
GetOrCreate(s) ==
    \/ /\ entry[s] = None \/ Suspended(s)
       /\ NewConversation(s)
       /\ cut' = [cut EXCEPT ![s] = None]
       /\ streak' = [streak EXCEPT ![s] = 0]
    \/ /\ entry[s] # None /\ ~Suspended(s)
       /\ SameConversation(s)
       /\ UNCHANGED <<cut, streak>>
    \/ /\ entry[s] # None /\ ~Suspended(s) /\ ~Pending(s) /\ age[s] = "idle"
       /\ NewConversation(s)
       /\ UNCHANGED <<cut, streak>>

Ages(s) ==
    /\ entry[s] # None
    /\ \/ age[s] = "fresh" /\ age' = [age EXCEPT ![s] = "recent"]
       \/ age[s] = "recent" /\ age' = [age EXCEPT ![s] = "idle"]
    /\ UNCHANGED <<platformVars, entry, convo, clean, counts, drainVars, restore,
                   history, phase, slot, boots>>

\* /stop on an idle session (suspend_session)
Suspend(s) ==
    /\ Alive /\ slot[s] = "free" /\ entry[s] # None /\ ~Suspended(s)
    /\ entry' = [entry EXCEPT ![s].suspended = TRUE]
    /\ UNCHANGED <<platformVars, convo, age, clean, counts, drainVars, restore,
                   history, phase, slot, boots>>

\* /new (reset_session) and /resume, a handoff (switch_session): the user
\* moves the key to another conversation; the new entry carries no flag.
UserMoves(s) ==
    /\ Alive /\ slot[s] = "free" /\ entry[s] # None
    /\ NewConversation(s)
    /\ cut' = [cut EXCEPT ![s] = None]
    /\ streak' = [streak EXCEPT ![s] = 0]
    /\ UNCHANGED <<platformVars, clean, counts, drainVars, restore, unseen,
                   phase, slot, boots>>

\* prune_old_entries: an idle entry is dropped unless it is suspended; a
\* pending one is dropped too, and the cut conversation with it.  (The age is
\* counted in days: no turn runs that long.)
Prune(s) ==
    /\ phase = "up" /\ ~gate /\ slot[s] = "free"
    /\ entry[s] # None /\ ~Suspended(s) /\ age[s] = "idle"
    /\ entry' = [entry EXCEPT ![s] = None]
    /\ cut' = [cut EXCEPT ![s] = None]
    /\ streak' = [streak EXCEPT ![s] = 0]
    /\ UNCHANGED <<platformVars, convo, age, clean, counts, drainVars, restore,
                   unseen, phase, slot, boots>>

-----------------------------------------------------------------------------
(* start() *)

\* The marker of a clean exit is consumed; without it the recently active
\* sessions are marked.  Then the stuck-loop counter is evaluated and its file
\* removed, whatever it said.  History: a turn no marking loop has seen, of an
\* entry that is no longer fresh, is given up here.
ReadTraces ==
    LET marked == IF clean THEN entry ELSE Mark(RecentlyActive)
        after == SuspendStuck(marked)
        found(s) == after[s] # None /\ (after[s].pending \/ after[s].suspended)
    IN
    /\ phase = "down" /\ boots < MaxBoots
    /\ entry' = after
    /\ counts' = [s \in Sessions |-> 0]
    /\ clean' = FALSE
    /\ cut' = [s \in Sessions |-> IF s \in unseen /\ ~found(s) THEN None ELSE cut[s]]
    /\ unseen' = {}
    /\ UNCHANGED streak

Boot ==
    /\ ReadTraces
    /\ PlatformsAtBoot
    /\ phase' = "connecting" /\ boots' = boots + 1
    /\ gate' = TRUE /\ held' = <<>> /\ arrived' = 0
    /\ tasks' = {} /\ parked' = {} /\ awaited' = {}
    /\ slot' = [s \in Sessions |-> "free"]
    /\ preDrain' = {} /\ snapshot' = {} /\ timedOut' = FALSE
    /\ UNCHANGED <<convo, age>>

ConnectPlatform(p) ==
    /\ phase = "connecting"
    /\ ConnectsAtStart(p) \/ FailsAtStart(p) \/ RefusedAtStart(p) \/ AbsentAtStart(p)
    /\ UNCHANGED <<disk, drainVars, restore, history, phase, slot, boots>>

\* _schedule_resume_pending_sessions for the platforms in ps: claim the slot of
\* each session before its task is spawned.  One whose mark is older than the
\* freshness window is left to the next message of the user.
Schedule(ps) ==
    \E sel \in SUBSET {s \in Sessions : /\ Pending(s) /\ ~Suspended(s)
                                        /\ slot[s] = "free"
                                        /\ PlatformOf(s) \in ps} :
        /\ slot' = [s \in Sessions |-> IF s \in sel THEN "sentinel" ELSE slot[s]]
        /\ tasks' = tasks \union sel

StartedUp ==
    /\ phase = "connecting" /\ todo = {} /\ ~GivesUpStarting
    /\ phase' = "up"
    /\ Schedule(adapters)
    /\ UNCHANGED <<platformVars, disk, drainVars, gate, held, arrived, parked,
                   awaited, history, boots>>

\* _request_clean_exit: the process ends without stop(), so without a marker.
StartGivesUp ==
    /\ phase = "connecting" /\ todo = {} /\ GivesUpStarting
    /\ phase' = "down" /\ gate' = FALSE
    /\ UNCHANGED <<platformVars, disk, drainVars, held, arrived, tasks, parked,
                   awaited, history, slot, boots>>

\* _run_startup_resume_event waits for the session's task of the adapter: the
\* resumed turn runs in it, under the claim made for it.
ResumeAndWait(s) ==
    /\ phase = "up" /\ PlatformOf(s) \in adapters
    /\ GetOrCreate(s)
    /\ awaited' = awaited \union {s}
    /\ UNCHANGED <<slot, parked>>

\* Or that task ends before the turn: the event met the sentinel that was put
\* there for it and _handle_message parked it with the adapter, or the adapter
\* raised.  Then the claim is released.
ResumeLater(s) ==
    /\ slot' = [slot EXCEPT ![s] = "free"]
    /\ parked' \in {parked, parked \union {s}}
    /\ UNCHANGED <<entry, convo, age, cut, streak, awaited>>

RunStartupResume(s) ==
    /\ Alive /\ s \in tasks
    /\ tasks' = tasks \ {s}
    /\ ResumeAndWait(s) \/ ResumeLater(s)
    /\ UNCHANGED <<platformVars, clean, counts, drainVars, gate, held, arrived,
                   unseen, phase, boots>>

\* _handle_message while the restore is in progress
Receive(s) ==
    /\ phase \in {"connecting", "up"} /\ gate
    /\ PlatformOf(s) \in adapters /\ arrived < MaxHeld
    /\ held' = Append(held, s)
    /\ arrived' = arrived + 1
    /\ UNCHANGED <<platformVars, disk, drainVars, gate, tasks, parked, awaited,
                   history, phase, slot, boots>>

-----------------------------------------------------------------------------
(* Turns, as far as restarts see them. *)

\* The slot is claimed and the entry looked up before the first await.
Claim(s) ==
    /\ phase = "up" /\ slot[s] = "free" /\ PlatformOf(s) \in adapters
    /\ slot' = [slot EXCEPT ![s] = "sentinel"]
    /\ GetOrCreate(s)

StartTurn(s) ==
    /\ ~gate
    /\ Claim(s)
    /\ UNCHANGED <<platformVars, clean, counts, drainVars, restore, unseen,
                   phase, boots>>

\* _finish_startup_restore gathers the startup-resume tasks first.
Resumed == Alive /\ phase # "connecting" /\ gate /\ tasks = {} /\ awaited = {}

\* Mutant: a message whose adapter is gone stays at the head.
ReplayHeldOrKeep ==
    /\ Resumed /\ held # <<>>
    /\ PlatformOf(Head(held)) \in adapters
    /\ held' = Tail(held)
    /\ \/ Claim(Head(held))
       \/ /\ phase # "up" \/ slot[Head(held)] # "free"
          /\ UNCHANGED <<entry, convo, age, cut, streak, slot>>
    /\ UNCHANGED <<platformVars, clean, counts, drainVars, gate, arrived, tasks,
                   parked, awaited, unseen, phase, boots>>

\* _drain_startup_restore_queue: the head is handed to its adapter; it starts a
\* turn, joins a running one, or is dropped when the adapter is gone or the
\* gateway stops.
ReplayHeld ==
    /\ Resumed /\ held # <<>>
    /\ held' = Tail(held)
    /\ \/ Claim(Head(held))
       \/ /\ \/ phase # "up"
             \/ slot[Head(held)] # "free"
             \/ PlatformOf(Head(held)) \notin adapters
          /\ UNCHANGED <<entry, convo, age, cut, streak, slot>>
    /\ UNCHANGED <<platformVars, clean, counts, drainVars, gate, arrived, tasks,
                   parked, awaited, unseen, phase, boots>>

\* _finish_startup_restore
FinishRestore ==
    /\ Resumed /\ held = <<>>
    /\ gate' = FALSE
    /\ UNCHANGED <<platformVars, disk, drainVars, held, arrived, tasks, parked,
                   awaited, history, phase, slot, boots>>

\* The adapter hands out the parked event; a stopping gateway refuses it.
RunParked(s) ==
    /\ Alive /\ s \in parked
    /\ parked' = parked \ {s}
    /\ \/ Claim(s)
       \/ /\ phase # "up" \/ PlatformOf(s) \notin adapters
          /\ UNCHANGED <<entry, convo, age, cut, streak, slot>>
    /\ UNCHANGED <<platformVars, clean, counts, drainVars, gate, held, arrived,
                   tasks, awaited, unseen, phase, boots>>

\* track_agent; nothing keeps it from running while the gateway stops.
Promote(s) ==
    /\ Alive /\ slot[s] = "sentinel" /\ s \notin tasks
    /\ slot' = [slot EXCEPT ![s] = "agent"]
    /\ unseen' = IF phase \in {"interrupting", "closing"} THEN unseen \union {s} ELSE unseen
    /\ UNCHANGED <<platformVars, disk, drainVars, restore, cut, streak, phase, boots>>

\* The turn ends, and with it the startup-resume task that waits for it.
Release(s) ==
    /\ Alive /\ slot[s] # "free" /\ s \notin tasks
    /\ slot' = [slot EXCEPT ![s] = "free"]
    /\ unseen' = unseen \ {s}
    /\ awaited' = awaited \ {s}

\* _clear_restart_failure_count
ClearCount(s) == counts' = [counts EXCEPT ![s] = 0]

\* A turn that completed: the recovery succeeded.
TurnCompletes(s) ==
    /\ slot[s] = "agent" /\ Release(s)
    /\ entry' = Unmark({s})
    /\ age' = [age EXCEPT ![s] = "fresh"]
    /\ ClearCount(s)
    /\ cut' = [cut EXCEPT ![s] = None]
    /\ streak' = [streak EXCEPT ![s] = 0]
    /\ UNCHANGED <<platformVars, convo, clean, drainVars, intake, phase, boots>>

\* One that failed: every mark stays.
TurnFails(s) ==
    /\ Release(s)
    /\ FailWhileDraining \/ cut[s] = None \/ phase # "draining"
    /\ age' \in {age, [age EXCEPT ![s] = "fresh"]}
    /\ UNCHANGED <<platformVars, entry, convo, clean, counts, drainVars, intake,
                   cut, streak, phase, boots>>

\* One the stopping gateway interrupted.
TurnInterrupted(s) ==
    /\ phase \in {"interrupting", "closing"} /\ timedOut
    /\ slot[s] = "agent" /\ s \notin unseen
    /\ Release(s)
    /\ cut' = [cut EXCEPT ![s] = convo[s]]
    /\ streak' = [streak EXCEPT ![s] = IF s \in snapshot THEN @ + 1 ELSE @]
    /\ UNCHANGED <<platformVars, disk, drainVars, intake, phase, boots>>

TurnEnds(s) == TurnCompletes(s) \/ TurnFails(s) \/ TurnInterrupted(s)

-----------------------------------------------------------------------------
(* stop() *)

\* _running = False, _draining = True, and the active chats are told.
StopBegins ==
    /\ phase = "up"
    /\ phase' = "notifying"
    /\ UNCHANGED <<platformVars, disk, drainVars, restore, history, slot, boots>>

\* Mark the running sessions before waiting for them: the process may be
\* killed while it drains.
\* Mutant: the marks are left to the end of the drain.
DrainUnmarked ==
    /\ phase = "notifying"
    /\ phase' = "draining"
    /\ preDrain' = Agents /\ snapshot' = Agents
    /\ UNCHANGED <<platformVars, disk, timedOut, restore, history, slot, boots>>

PreMark ==
    /\ phase = "notifying"
    /\ phase' = "draining"
    /\ entry' = Mark(Agents)
    /\ preDrain' = Agents /\ snapshot' = Agents
    /\ UNCHANGED <<platformVars, convo, age, clean, counts, timedOut, restore,
                   history, slot, boots>>

\* Every turn is over: take the marks back.
DrainDone ==
    /\ phase = "draining" /\ Busy = {}
    /\ phase' = "closing"
    /\ entry' = Unmark(preDrain)
    /\ UNCHANGED <<platformVars, convo, age, clean, counts, drainVars, restore,
                   history, slot, boots>>

\* The deadline passed: mark whoever runs now, and interrupt it.
DrainTimesOut ==
    /\ phase = "draining" /\ Busy # {}
    /\ phase' = "interrupting"
    /\ timedOut' = TRUE
    /\ entry' = Mark(Agents)
    /\ UNCHANGED <<platformVars, convo, age, clean, counts, preDrain, snapshot,
                   restore, history, slot, boots>>

\* At most 5 s later the adapters are disconnected.
InterruptEnds ==
    /\ phase = "interrupting"
    /\ phase' = "closing"
    /\ UNCHANGED <<platformVars, disk, drainVars, restore, history, slot, boots>>

\* What stop() leaves on disk: the marker only if no turn was interrupted, and the
\* counter of the sessions that ran when the drain began.
LeaveTraces ==
    /\ clean' = ~timedOut
    /\ counts' = IF snapshot = {} THEN counts
                 ELSE [s \in Sessions |-> IF s \in snapshot THEN counts[s] + 1 ELSE 0]

\* What still runs is cancelled with the adapters.
CutOff(ss) ==
    /\ cut' = [s \in Sessions |-> IF s \in ss THEN convo[s] ELSE cut[s]]
    /\ slot' = [s \in Sessions |-> "free"]
    /\ tasks' = {} /\ parked' = {} /\ awaited' = {} /\ held' = <<>> /\ gate' = FALSE
    /\ adapters' = {}
    /\ phase' = "down"

Finish ==
    /\ phase = "closing"
    /\ CutOff(Agents)
    /\ LeaveTraces
    /\ streak' = [s \in Sessions |-> IF s \in snapshot \intersect Agents
                                     THEN streak[s] + 1 ELSE streak[s]]
    /\ UNCHANGED <<failed, shown, todo, refused, absent, entry, convo, age,
                   drainVars, arrived, unseen, boots>>

\* The process is killed at any point.
Crash ==
    /\ Alive
    /\ CutOff(Agents)
    /\ unseen' = CASE phase \in {"connecting", "up", "notifying"} -> Agents
                   [] phase = "draining" -> Agents \ preDrain
                   [] OTHER -> unseen
    /\ UNCHANGED <<failed, shown, todo, refused, absent, disk, drainVars, arrived,
                   streak, boots>>

-----------------------------------------------------------------------------
(* The platforms while the process runs. *)

\* Also after the last adapter died: then the gateway stops itself.
PlatformDies(p) ==
    \E retryable, off \in BOOLEAN :
        /\ phase = "up"
        /\ AdapterFatal(p, retryable, off)
        /\ phase' = IF NothingLeft THEN "notifying" ELSE phase
        /\ UNCHANGED <<disk, drainVars, restore, history, slot, boots>>

Watching == phase = "up" /\ ~gate

Reconnected(p) ==
    /\ Watching
    /\ Reconnects(p)
    /\ Schedule({p})
    /\ UNCHANGED <<disk, drainVars, gate, held, arrived, parked, awaited, history,
                   phase, boots>>

OperatorOrTimer(p) ==
    /\ \/ Watching /\ (RetryFails(p) \/ RetryRefused(p) \/ RetryAbsent(p))
       \/ phase = "up" /\ (Pause(p) \/ ResumePaused(p))
    /\ UNCHANGED <<disk, drainVars, restore, history, phase, slot, boots>>

TimePasses(p) ==
    /\ phase = "up"
    /\ BackoffPasses(p)
    /\ UNCHANGED <<disk, drainVars, restore, history, phase, slot, boots>>

-----------------------------------------------------------------------------
Next ==
    \/ Boot \/ StartedUp \/ StartGivesUp \/ ReplayHeld \/ FinishRestore
    \/ StopBegins \/ PreMark \/ DrainDone \/ DrainTimesOut \/ InterruptEnds
    \/ Finish \/ Crash
    \/ \E s \in Sessions :
        \/ RunStartupResume(s) \/ Receive(s) \/ StartTurn(s) \/ RunParked(s)
        \/ Promote(s) \/ TurnEnds(s)
        \/ Ages(s) \/ Suspend(s) \/ UserMoves(s) \/ Prune(s)
    \/ \E p \in Platforms :
        \/ ConnectPlatform(p) \/ PlatformDies(p) \/ Reconnected(p)
        \/ OperatorOrTimer(p) \/ TimePasses(p)

\* start() and the watcher are coroutines of one loop that keeps turning; a
\* turn ends, if only by its inactivity timeout; an outage ends: a platform
\* retried for ever connects.
Fairness ==
    /\ WF_vars(StartedUp) /\ WF_vars(StartGivesUp)
    /\ WF_vars(ReplayHeld) /\ WF_vars(FinishRestore)
    /\ \A s \in Sessions :
        WF_vars(RunStartupResume(s)) /\ WF_vars(Promote(s)) /\ WF_vars(TurnEnds(s))
    /\ \A p \in Platforms :
        /\ WF_vars(ConnectPlatform(p)) /\ WF_vars(TimePasses(p))
        /\ SF_vars(Reconnected(p))

Spec == Init /\ [][Next]_vars
FairSpec == Spec /\ Fairness

-----------------------------------------------------------------------------
\* The conversation of a turn that the gateway cut off is not lost: the next
\* process finds its session marked for resumption (or suspended on purpose),
\* still pointing at that conversation, until a turn completes or the user
\* moves on.  A clean-shutdown marker, which switches the search for
\* interrupted sessions off, is only left when nothing had to be found
\* (stop, start, SessionStore).
CutIsResumable ==
    Alive \/ clean =>
        \A s \in Sessions : cut[s] # None =>
            /\ Pending(s) \/ Suspended(s)
            /\ convo[s] = cut[s]

\* A platform is never silently dead, and a live one is never retried
\* (_handle_adapter_fatal_error, _platform_reconnect_watcher).
PlatformsAccounted == Alive => NoneForgotten /\ QueuedIsDown

\* "If a session hits the threshold (3 consecutive restarts while active), the
\* next startup auto-suspends it - breaking the loop" (run.py:7217, 5911).
StuckLoopsEnd ==
    phase \in {"connecting", "up"} =>
        \A s \in Sessions : streak[s] >= Threshold => Suspended(s)

\* The startup restore, which waits for the turns it resumes, ends: held
\* messages are replayed and the watchers start, whatever becomes of those turns,
\* of the platforms and of the gateway meanwhile (_finish_startup_restore).
GateOpens == gate ~> ~gate

\* A platform lost to a transient failure comes back, or is given up for good,
\* or is paused by the operator, unless the gateway stops first.
PlatformsRecover ==
    \A p \in Platforms :
        failed[p] \in {"waiting", "due"} ~>
            failed[p] \in {"no", "paused"} \/ Stopping \/ ~Alive
=============================================================================
