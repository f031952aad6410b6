-------------------------- MODULE GatewayPlatforms --------------------------
(* The messaging platforms of the gateway: which of them are connected, which
   wait in the reconnection queue, and what the status file says of each.
   Every action of this module changes only the variables declared here; the
   process around them (start, stop, crash, sessions) is GatewayRestart.

   Code: overlays/hermes/gateway/run.py (start, _handle_adapter_fatal_error,
   _platform_reconnect_watcher, _pause_failed_platform,
   _resume_paused_platform).

   The attempt counter and the backoff it yields (30 s doubled up to 300 s)
   are abstracted to one bit: a queued platform is "waiting" until its next
   retry and "due" from then on. *)
EXTENDS FiniteSets

CONSTANT Platforms  \* the enabled platforms

VARIABLES
    adapters,  \* self.adapters: the platforms with a live adapter
    failed,    \* self._failed_platforms: "no", "waiting", "due" or "paused"
    shown,     \* the platform_state written to the runtime status file
    todo,      \* platforms the loop of start() has not come to yet
    refused,   \* start(): some platform failed for good (nonretryable error)
    absent     \* history: platforms for which no adapter could be created

platformVars == <<adapters, failed, shown, todo, refused, absent>>

PlatformTypeOK ==
    /\ adapters \subseteq Platforms
    /\ failed \in [Platforms -> {"no", "waiting", "due", "paused"}]
    /\ shown \in [Platforms -> {"", "connected", "retrying", "fatal", "disabled", "paused"}]
    /\ todo \subseteq Platforms
    /\ refused \in BOOLEAN
    /\ absent \subseteq Platforms

\* A process that has just started knows no adapter and has nothing queued;
\* the status file still says what the last process wrote.
PlatformsAtBoot ==
    /\ adapters' = {}
    /\ failed' = [p \in Platforms |-> "no"]
    /\ todo' = Platforms
    /\ refused' = FALSE
    /\ absent' = {}
    /\ shown' = shown

Queue(p, how) == failed' = [failed EXCEPT ![p] = how]
Show(p, state) == shown' = [shown EXCEPT ![p] = state]

-----------------------------------------------------------------------------
(* start(): connect every enabled platform, one after the other. *)

ConnectsAtStart(p) ==
    /\ p \in todo
    /\ todo' = todo \ {p}
    /\ adapters' = adapters \union {p}
    /\ Show(p, "connected")
    /\ UNCHANGED <<failed, refused, absent>>

\* A transient failure, an exception included, is queued for the watcher.
FailsAtStart(p) ==
    /\ p \in todo
    /\ todo' = todo \ {p}
    /\ Queue(p, "waiting")
    /\ Show(p, "retrying")
    /\ UNCHANGED <<adapters, refused, absent>>

RefusedAtStart(p) ==
    /\ p \in todo
    /\ todo' = todo \ {p}
    /\ refused' = TRUE
    /\ Show(p, "fatal")
    /\ UNCHANGED <<adapters, failed, absent>>

\* _create_adapter() returns nothing: the loop goes on with the next platform.
AbsentAtStart(p) ==
    /\ p \in todo
    /\ todo' = todo \ {p}
    /\ absent' = absent \union {p}
    /\ UNCHANGED <<adapters, failed, shown, refused>>

\* start() gives up when nothing connected and some error was for good, also
\* when other platforms are queued.
GivesUpStarting == adapters = {} /\ refused

-----------------------------------------------------------------------------
(* _handle_adapter_fatal_error: a live adapter reports that it is dead. *)

AdapterFatal(p, retryable, off) ==
    /\ p \in adapters
    /\ off => ~retryable
    /\ adapters' = adapters \ {p}
    /\ Show(p, IF off THEN "disabled" ELSE IF retryable THEN "retrying" ELSE "fatal")
    /\ IF retryable /\ failed[p] = "no" THEN Queue(p, "due") ELSE UNCHANGED failed
    /\ UNCHANGED <<todo, refused, absent>>

\* Then the gateway stops when nothing is connected and nothing is queued.
NothingLeft == adapters' = {} /\ \A p \in Platforms : failed'[p] = "no"

-----------------------------------------------------------------------------
(* _platform_reconnect_watcher and the operator's /platform commands. *)

\* Mutant: the watcher runs only while something is connected.
BackoffBesideAdapter(p) ==
    /\ failed[p] = "waiting" /\ adapters # {}
    /\ Queue(p, "due")
    /\ UNCHANGED <<adapters, shown, todo, refused, absent>>

BackoffPasses(p) ==
    /\ failed[p] = "waiting"
    /\ Queue(p, "due")
    /\ UNCHANGED <<adapters, shown, todo, refused, absent>>

Reconnects(p) ==
    /\ failed[p] = "due"
    /\ adapters' = adapters \union {p}
    /\ Queue(p, "no")
    /\ Show(p, "connected")
    /\ UNCHANGED <<todo, refused, absent>>

\* Mutant: a failed retry drops the platform from the queue.
DropsOnRetry(p) ==
    /\ failed[p] = "due"
    /\ Queue(p, "no")
    /\ Show(p, "retrying")
    /\ UNCHANGED <<adapters, todo, refused, absent>>

RetryFails(p) ==
    /\ failed[p] = "due"
    /\ Queue(p, "waiting")
    /\ Show(p, "retrying")
    /\ UNCHANGED <<adapters, todo, refused, absent>>

RetryRefused(p) ==
    /\ failed[p] = "due"
    /\ Queue(p, "no")
    /\ Show(p, "fatal")
    /\ UNCHANGED <<adapters, todo, refused, absent>>

\* _create_adapter() returns nothing on a retry: the entry is deleted and the
\* status stays what it was.
RetryAbsent(p) ==
    /\ failed[p] = "due"
    /\ Queue(p, "no")
    /\ absent' = absent \union {p}
    /\ UNCHANGED <<adapters, shown, todo, refused>>

Pause(p) ==
    /\ failed[p] \in {"waiting", "due"}
    /\ Queue(p, "paused")
    /\ Show(p, "paused")
    /\ UNCHANGED <<adapters, todo, refused, absent>>

ResumePaused(p) ==
    /\ failed[p] = "paused"
    /\ Queue(p, "due")
    /\ Show(p, "retrying")
    /\ UNCHANGED <<adapters, todo, refused, absent>>

-----------------------------------------------------------------------------
\* No platform is silently dead: once start() is past it, a platform is
\* connected, or queued for the watcher (or paused by the operator), or shown
\* as failed for good, or never had an adapter to create.
NoneForgotten ==
    \A p \in Platforms \ todo :
        \/ p \in adapters
        \/ failed[p] # "no"
        \/ shown[p] \in {"fatal", "disabled"}
        \/ p \in absent

\* The queue holds no platform that is connected, so the watcher never brings
\* up a second adapter beside a live one.
QueuedIsDown == \A p \in adapters : failed[p] = "no"
=============================================================================
