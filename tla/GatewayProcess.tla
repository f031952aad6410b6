--------------------------- MODULE GatewayProcess ---------------------------
(***************************************************************************)
(* The gateway as a process among processes (gateway/run.py): how          *)
(* start_gateway replaces a running gateway, claims the place and brings   *)
(* the runner up, how signals and the planned-stop watcher stop it, and    *)
(* with what status it ends.  Several processes may be started at once;    *)
(* they share the pid file, the runtime lock and two marker files, each of *)
(* which names the process it is meant for.                                *)
(*                                                                         *)
(* pc is where the main coroutine of a process is, stop where its stop     *)
(* task is.  Both run on one event loop: the main coroutine can be         *)
(* overtaken only at its awaits, the tail of the stop task not at all.     *)
(* Other processes step in between always.  The status files and markers   *)
(* (gateway.status) and the operator's command line are outside src/.      *)
(***************************************************************************)
EXTENDS Integers, FiniteSets

CONSTANTS
  MaxProcs,  \* how many gateway processes are ever started
  MaxCalls   \* bound on what the outside world does to them

ASSUME ProcsAssumption == MaxProcs \in Nat /\ MaxCalls \in Nat

VARIABLES
  pc,        \* where each process is in start_gateway
  victim,    \* whom a process replaces
  stop,      \* where its stop task is
  running,   \* _running
  conn,      \* it has connected adapters
  retrying,  \* processes whose reconnect watcher awaits a connection
  restart,   \* the restart that was requested of it
  unplanned, \* _signal_initiated_shutdown
  poll,      \* its planned-stop watcher
  sig,       \* signals that its loop has not handled yet
  pidFile, lock,      \* gateway.pid and the runtime lock
  takeover, planned,  \* the process the takeover and planned-stop markers name
  asked,     \* history: processes somebody meant to end
  early,     \* history: processes told to stop before they had come up
  late,      \* history: processes that reconnected behind their own stop
  calls      \* how often the outside world has acted

stopVars == <<stop, running, conn, retrying, restart, unplanned>>
markers == <<takeover, planned>>
processHistory == <<asked, early, late, calls>>
processVars == <<pc, victim, stopVars, poll, sig, pidFile, lock, markers, processHistory>>

Procs == 1 .. MaxProcs
Nobody == 0
Signals == {"INT", "TERM", "USR1"}

Replacing == {"mark", "term", "wait", "clean"}
Claiming == {"ready", "checked", "locked"}
Starting == {"discovering", "connecting"}
Ended == {"ok", "failed", "restart", "config", "killed"}

ProcessTypeOK ==
  /\ pc \in [Procs -> {"none"} \cup Replacing \cup Claiming \cup Starting \cup {"up"} \cup Ended]
  /\ victim \in [Procs -> Procs \cup {Nobody}]
  /\ stop \in [Procs -> {"none", "draining", "disconnecting", "closed", "unnamed", "done"}]
  /\ restart \in [Procs -> {"no", "service", "detached"}]
  /\ poll \in [Procs -> {"watching", "called", "ended"}]
  /\ sig \in [Procs -> SUBSET Signals]
  /\ running \in [Procs -> BOOLEAN]
  /\ conn \in [Procs -> BOOLEAN]
  /\ unplanned \in [Procs -> BOOLEAN]
  /\ pidFile \in Procs \cup {Nobody} /\ lock \in Procs \cup {Nobody}
  /\ takeover \in Procs \cup {Nobody} /\ planned \in Procs \cup {Nobody}
  /\ asked \subseteq Procs /\ early \subseteq Procs
  /\ retrying \subseteq Procs /\ late \subseteq Procs
  /\ calls \in 0 .. MaxCalls

ProcessInit ==
  /\ pc = [p \in Procs |-> "none"]
  /\ victim = [p \in Procs |-> Nobody]
  /\ stop = [p \in Procs |-> "none"]
  /\ restart = [p \in Procs |-> "no"]
  /\ poll = [p \in Procs |-> "watching"]
  /\ sig = [p \in Procs |-> {}]
  /\ running = [p \in Procs |-> FALSE]
  /\ conn = [p \in Procs |-> FALSE]
  /\ unplanned = [p \in Procs |-> FALSE]
  /\ pidFile = Nobody /\ lock = Nobody
  /\ takeover = Nobody /\ planned = Nobody
  /\ asked = {} /\ early = {}
  /\ retrying = {} /\ late = {}
  /\ calls = 0

Lives(p) == pc[p] \notin Ended \cup {"none"}

\* The loop runs callbacks: the main coroutine awaits, the stop task is not in
\* its tail, which has no await.
AtAwait(p) == pc[p] \in Starting \cup {"up"} /\ stop[p] \notin {"closed", "unnamed"}

\* get_running_pid: the live process that the pid file names.
RunningPid == IF \E p \in Procs : p = pidFile /\ Lives(p) THEN pidFile ELSE Nobody

\* The outside world acts once more.
Acts == calls < MaxCalls /\ calls' = calls + 1

Goto(p, label) == pc' = [pc EXCEPT ![p] = label]

\* The process is gone: what it held in memory with it, the system frees its
\* lock and closes its connections.
\* A process that returns or raises also removes the pid file if it is its own.
Gone(p, how) ==
  /\ Goto(p, how)
  /\ conn' = [conn EXCEPT ![p] = FALSE]
  /\ running' = [running EXCEPT ![p] = FALSE]
  /\ stop' = [stop EXCEPT ![p] = "none"]
  /\ restart' = [restart EXCEPT ![p] = "no"]
  /\ unplanned' = [unplanned EXCEPT ![p] = FALSE]
  /\ victim' = [victim EXCEPT ![p] = Nobody]
  /\ poll' = [poll EXCEPT ![p] = "watching"]
  /\ sig' = [sig EXCEPT ![p] = {}]
  /\ lock' = IF lock = p THEN Nobody ELSE lock
  /\ early' = early \ {p}
  /\ late' = late \ {p}
  /\ retrying' = retrying \ {p}
  /\ UNCHANGED asked

Return(p, how) ==
  /\ Gone(p, how)
  /\ UNCHANGED calls
  /\ pidFile' = IF pidFile = p THEN Nobody ELSE pidFile

-----------------------------------------------------------------------------
(* The duplicate-instance guard and --replace.                             *)

Launch(p) ==
  /\ pc[p] = "none"
  /\ \A q \in Procs : q < p => pc[q] # "none"
  /\ pidFile' = RunningPid
  /\ \/ /\ RunningPid = Nobody
        /\ Goto(p, "ready")
        /\ UNCHANGED victim
     \/ /\ RunningPid # Nobody
        /\ Goto(p, "mark")
        /\ victim' = [victim EXCEPT ![p] = RunningPid]
     \/ /\ RunningPid # Nobody
        /\ Goto(p, "failed")
        /\ UNCHANGED victim
  /\ UNCHANGED <<stopVars, poll, sig, lock, markers, processHistory>>

\* The marker is written before the signal.
MarkTakeover(p) ==
  /\ pc[p] = "mark"
  /\ Goto(p, "term")
  /\ takeover' = victim[p]
  /\ asked' = asked \cup {victim[p]}
  /\ UNCHANGED <<victim, stopVars, poll, sig, pidFile, lock, planned, early, late, calls>>

\* Only claimed processes are victims, so the signal finds handlers.
Terminate(p) ==
  /\ pc[p] = "term"
  /\ Goto(p, "wait")
  /\ sig' = IF Lives(victim[p]) THEN [sig EXCEPT ![victim[p]] = @ \cup {"TERM"}] ELSE sig
  /\ UNCHANGED <<victim, stopVars, poll, pidFile, lock, markers, processHistory>>

\* The victim is another user's, or survives even SIGKILL.
GiveUp(p) ==
  /\ pc[p] \in {"term", "wait"}
  /\ Lives(victim[p])
  /\ Return(p, "failed")
  /\ takeover' = Nobody
  /\ UNCHANGED planned

VictimGone(p) ==
  /\ pc[p] = "wait"
  /\ ~ Lives(victim[p])
  /\ Goto(p, "clean")
  /\ victim' = [victim EXCEPT ![p] = Nobody]
  /\ UNCHANGED <<stopVars, poll, sig, pidFile, lock, markers, processHistory>>

\* Ten seconds are over.
Escalate(p) ==
  /\ pc[p] = "wait"
  /\ Lives(victim[p])
  /\ Gone(victim[p], "killed")
  /\ UNCHANGED <<pidFile, markers, calls>>

\* Whatever the pid file and the marker say by now, they are removed.
CleanUp(p) ==
  /\ pc[p] = "clean"
  /\ Goto(p, "ready")
  /\ pidFile' = Nobody
  /\ takeover' = Nobody
  /\ UNCHANGED <<victim, stopVars, poll, sig, lock, planned, processHistory>>

-----------------------------------------------------------------------------
(* Claiming the place: the second look, the lock, the pid file.  There is  *)
(* no await in between, signals wait.                                      *)

CheckAgain(p) ==
  /\ pc[p] = "ready"
  /\ IF RunningPid \in {Nobody, p}
     THEN /\ Goto(p, "checked")
          /\ pidFile' = RunningPid
          /\ UNCHANGED <<victim, stopVars, poll, sig, lock, processHistory>>
     ELSE Return(p, "failed")
  /\ UNCHANGED markers

AcquireLock(p) ==
  /\ pc[p] = "checked"
  /\ IF lock = Nobody
     THEN /\ Goto(p, "locked")
          /\ lock' = p
          /\ UNCHANGED <<victim, stopVars, poll, sig, pidFile, processHistory>>
     ELSE Return(p, "failed")
  /\ UNCHANGED markers

WritePidFile(p) ==
  /\ pc[p] = "locked"
  /\ IF pidFile = Nobody
     THEN /\ Goto(p, "discovering")
          /\ pidFile' = p
          /\ UNCHANGED <<victim, stopVars, poll, sig, lock, processHistory>>
     ELSE Return(p, "failed")
  /\ UNCHANGED markers

-----------------------------------------------------------------------------
(* Bringing the runner up.  None of these steps looks at the stop task.    *)

\* discover_mcp_tools has returned, runner.start() begins.
Discovered(p) ==
  /\ pc[p] = "discovering" /\ AtAwait(p)
  /\ Goto(p, "connecting")
  /\ UNCHANGED <<victim, stopVars, poll, sig, pidFile, lock, markers, processHistory>>

\* start() connects an adapter.
Connect(p) ==
  /\ pc[p] = "connecting" /\ AtAwait(p)
  /\ ~ conn[p]
  /\ conn' = [conn EXCEPT ![p] = TRUE]
  /\ UNCHANGED <<pc, victim, stop, running, retrying, restart, unplanned,
                 poll, sig, pidFile, lock, markers, processHistory>>

\* A configuration that cannot work ends the start with a status of its own,
\* also when it shows only after a platform has connected.
FatalConfig(p) ==
  /\ pc[p] = "connecting" /\ AtAwait(p)
  /\ Return(p, "config")
  /\ UNCHANGED markers

Started(p) ==
  /\ pc[p] = "connecting" /\ AtAwait(p)
  /\ Goto(p, "up")
  /\ running' = [running EXCEPT ![p] = TRUE]
  /\ UNCHANGED <<victim, stop, conn, retrying, restart, unplanned,
                 poll, sig, pidFile, lock, markers, processHistory>>

\* A platform has failed and was queued: the reconnect watcher of a running
\* gateway tries it, and awaits the connection.
BeginReconnect(p) ==
  /\ Acts
  /\ AtAwait(p) /\ running[p]
  /\ p \notin retrying
  /\ retrying' = retrying \cup {p}
  /\ UNCHANGED <<pc, victim, stop, running, conn, restart, unplanned,
                 poll, sig, pidFile, lock, markers, asked, early, late>>

\* It fails, or the adapter is connected whatever has become of the gateway
\* by then: no stop cancels the watcher, and it does not look again.
EndReconnect(p) ==
  /\ AtAwait(p)
  /\ p \in retrying
  /\ retrying' = retrying \ {p}
  /\ \/ UNCHANGED <<conn, late>>
     \/ /\ conn' = [conn EXCEPT ![p] = TRUE]
        /\ late' = IF stop[p] \in {"disconnecting", "done"} THEN late \cup {p} ELSE late
  /\ UNCHANGED <<pc, victim, stop, running, restart, unplanned,
                 poll, sig, pidFile, lock, markers, asked, early, calls>>

\* Mutant: the process waits for the flag instead of the event.
NotRunning(p) == stop[p] # "none" /\ ~ running[p]

\* _shutdown_event is set just before the tail of the stop task.
ShutdownSet(p) == stop[p] \in {"closed", "unnamed", "done"}

\* A planned restart for a service manager ends with 75, or with 0 under
\* systemd, whose unit restarts the gateway whatever the status: both are
\* "restart" here.
ExitStatus(p) ==
  IF restart[p] = "service" THEN "restart"
  ELSE IF unplanned[p] /\ restart[p] = "no" THEN "failed"
  ELSE "ok"

Exit(p) ==
  /\ pc[p] = "up" /\ AtAwait(p)
  /\ ShutdownSet(p)
  /\ Return(p, ExitStatus(p))
  /\ UNCHANGED markers

-----------------------------------------------------------------------------
(* Stopping.                                                               *)

\* stop(): the first call starts the stop task, later calls wait for it.
BeginStop(p) ==
  /\ IF stop[p] = "none"
     THEN /\ stop' = [stop EXCEPT ![p] = "draining"]
          /\ running' = [running EXCEPT ![p] = FALSE]
          /\ early' = IF running[p] THEN early ELSE early \cup {p}
     ELSE UNCHANGED <<stop, running, early>>
  /\ UNCHANGED <<pc, victim, conn, retrying, late, pidFile, lock>>

\* Mutant: a marker counts for whoever finds it.
AnyMarker(marker, p) == marker # Nobody

\* consume_..._marker_for_self: a marker that names another process stays.
Names(marker, p) == marker = p

Consumed(marker, p) == IF Names(marker, p) THEN Nobody ELSE marker

\* shutdown_signal_handler; the watcher calls it without a signal.
Shutdown(p, s) ==
  LET taken == Names(takeover, p)
      meant == Names(planned, p)
  IN /\ takeover' = Consumed(takeover, p)
     /\ planned' = IF s = "INT" \/ taken THEN planned ELSE Consumed(planned, p)
     /\ unplanned' = [unplanned EXCEPT ![p] = @ \/ ~ (s = "INT" \/ taken \/ meant)]
     /\ BeginStop(p)
     /\ UNCHANGED <<restart>>

\* request_restart; its second call is refused.
RequestRestart(p, how) ==
  /\ IF restart[p] = "no"
     THEN /\ restart' = [restart EXCEPT ![p] = how]
          /\ BeginStop(p)
     ELSE UNCHANGED <<restart, stop, running, early, late, pc, victim, conn, retrying, pidFile, lock>>
  /\ UNCHANGED <<unplanned, markers>>

HandleSignal(p) ==
  /\ AtAwait(p)
  /\ \E s \in sig[p] :
       /\ sig' = [sig EXCEPT ![p] = @ \ {s}]
       /\ IF s = "USR1" THEN RequestRestart(p, "service") ELSE Shutdown(p, s)
  /\ UNCHANGED <<poll, asked, calls>>

\* The watcher thread sees the marker and has the loop call the handler.
\* It removes a marker that is not for this process.
Watch(p) ==
  /\ poll[p] = "watching"
  /\ running[p] /\ stop[p] \in {"none", "done"} /\ Lives(p)
  /\ planned # Nobody
  /\ IF Names(planned, p)
     THEN /\ poll' = [poll EXCEPT ![p] = "called"]
          /\ UNCHANGED planned
     ELSE /\ planned' = Nobody
          /\ UNCHANGED poll
  /\ UNCHANGED <<pc, victim, stopVars, sig, pidFile, lock, takeover, processHistory>>

HandleWatch(p) ==
  /\ AtAwait(p)
  /\ poll[p] = "called"
  /\ poll' = [poll EXCEPT ![p] = "ended"]
  /\ Shutdown(p, "none")
  /\ UNCHANGED <<sig, asked, calls>>

\* /restart in a chat, which no manager serves: a helper that outlives the
\* process runs `hermes gateway restart` when it is gone.  The command's
\* handler is outside src/.
InChatRestart(p) ==
  /\ Acts
  /\ pc[p] = "up" /\ stop[p] = "none"
  /\ RequestRestart(p, "detached")
  /\ asked' = asked \cup {p}
  /\ UNCHANGED <<poll, sig>>

\* The last adapter failed for good and no platform is queued for a retry.
LastPlatformLost(p) ==
  /\ Acts
  /\ AtAwait(p) /\ running[p] /\ conn[p] /\ p \notin retrying
  /\ asked' = asked \cup {p}
  /\ conn' = [conn EXCEPT ![p] = FALSE]
  /\ IF stop[p] = "none"
     THEN /\ stop' = [stop EXCEPT ![p] = "draining"]
          /\ running' = [running EXCEPT ![p] = FALSE]
     ELSE UNCHANGED <<stop, running>>
  /\ UNCHANGED <<pc, victim, retrying, restart, unplanned,
                 poll, sig, pidFile, lock, markers, early, late>>

\* Notify and drain.  From here on it is settled which adapters are to be
\* disconnected.
Drain(p) ==
  /\ Lives(p)
  /\ stop[p] = "draining"
  /\ stop' = [stop EXCEPT ![p] = "disconnecting"]
  /\ UNCHANGED <<pc, victim, running, conn, retrying, restart, unplanned,
                 poll, sig, pidFile, lock, markers, processHistory>>

\* Mutant: the adapters are forgotten, not disconnected.
Forget(p) ==
  /\ Lives(p)
  /\ stop[p] = "disconnecting"
  /\ stop' = [stop EXCEPT ![p] = "closed"]
  /\ UNCHANGED <<pc, victim, running, conn, retrying, restart, unplanned,
                 poll, sig, pidFile, lock, markers, processHistory>>

\* They are, the event is set.  One that has come since stays connected until
\* the process ends.
Disconnect(p) ==
  /\ Lives(p)
  /\ stop[p] = "disconnecting"
  /\ stop' = [stop EXCEPT ![p] = "closed"]
  /\ conn' = [conn EXCEPT ![p] = p \in late]
  /\ UNCHANGED <<pc, victim, running, retrying, restart, unplanned,
                 poll, sig, pidFile, lock, markers, processHistory>>

RemovePidFile(p) ==
  /\ Lives(p)
  /\ stop[p] = "closed"
  /\ stop' = [stop EXCEPT ![p] = "unnamed"]
  /\ pidFile' = IF pidFile = p THEN Nobody ELSE pidFile
  /\ UNCHANGED <<pc, victim, running, conn, retrying, restart, unplanned,
                 poll, sig, lock, markers, processHistory>>

ReleaseLock(p) ==
  /\ Lives(p)
  /\ stop[p] = "unnamed"
  /\ stop' = [stop EXCEPT ![p] = "done"]
  /\ lock' = IF lock = p THEN Nobody ELSE lock
  /\ UNCHANGED <<pc, victim, running, conn, retrying, restart, unplanned,
                 poll, sig, pidFile, markers, processHistory>>

-----------------------------------------------------------------------------
(* The outside world.                                                      *)

\* `hermes gateway stop` names the process before it signals it.
AskToStop(p) ==
  /\ Acts
  /\ RunningPid = p
  /\ planned' = p
  /\ asked' = asked \cup {p}
  /\ UNCHANGED <<pc, victim, stopVars, poll, sig, pidFile, lock, takeover, early, late>>

Signal(p, s) ==
  /\ Acts
  /\ Lives(p)
  /\ s \notin sig[p]
  /\ IF pc[p] \in Replacing
     THEN /\ Gone(p, "killed")
          /\ UNCHANGED <<pidFile, markers>>
     ELSE /\ sig' = [sig EXCEPT ![p] = @ \cup {s}]
          /\ asked' = IF s = "INT" THEN asked \cup {p} ELSE asked
          /\ UNCHANGED <<pc, victim, stopVars, poll, pidFile, lock, markers, early, late>>

Kill(p) ==
  /\ Acts
  /\ Lives(p)
  /\ Gone(p, "killed")
  /\ UNCHANGED <<pidFile, markers>>

-----------------------------------------------------------------------------
Main(p) ==
  \/ MarkTakeover(p) \/ Terminate(p) \/ GiveUp(p) \/ VictimGone(p) \/ Escalate(p) \/ CleanUp(p)
  \/ CheckAgain(p) \/ AcquireLock(p) \/ WritePidFile(p)
  \/ Discovered(p) \/ FatalConfig(p) \/ Started(p) \/ Exit(p)
StopTask(p) == Drain(p) \/ Disconnect(p) \/ RemovePidFile(p) \/ ReleaseLock(p)
Loop(p) == HandleSignal(p) \/ HandleWatch(p)
Outside(p) ==
  \/ Launch(p) \/ Connect(p) \/ BeginReconnect(p) \/ EndReconnect(p)
  \/ Watch(p) \/ LastPlatformLost(p)
  \/ InChatRestart(p) \/ AskToStop(p) \/ Kill(p)
  \/ \E s \in Signals : Signal(p, s)

ProcessNext == \E p \in Procs : Main(p) \/ StopTask(p) \/ Loop(p) \/ Outside(p)

ProcessSpec == ProcessInit /\ [][ProcessNext]_processVars

\* A process that can go on goes on: what it waits for (tool discovery, a
\* connection, the drain, a victim) has a time limit, and its loop runs what
\* is ready.
FairProcessSpec ==
  /\ ProcessSpec
  /\ \A p \in Procs : WF_processVars(Main(p) \/ StopTask(p) \/ Loop(p))

-----------------------------------------------------------------------------
(* Two gateways are connected at once in two cases only.  One of them was  *)
(* told to stop before it had come up: its stop task gives the place back, *)
(* and the start that goes on connects all the same.  Or its reconnect     *)
(* watcher was awaiting a connection when the stop set about disconnecting *)
(* the adapters, and that connection came after the others were listed.    *)
OneGateway ==
  \A p, q \in Procs \ (early \cup late) : conn[p] /\ conn[q] => p = q

(* A gateway ends with success, for which no manager starts it again, only *)
(* when somebody meant it to end: the operator, its own restart, the       *)
(* gateway that replaces it, or a platform that is lost for good.          *)
OkExitIsMeant == \A p \in Procs : pc[p] = "ok" => p \in asked

(* A gateway that was told to stop ends, also one that was told so while   *)
(* it was still starting.  (A process that has ended is stopped no more,   *)
(* and none comes back, so one formula speaks for all of them.)            *)
StopEnds == []<>(\A p \in Procs : stop[p] = "none")
=============================================================================
