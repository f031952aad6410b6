-------------------------- MODULE GatewayLifeProofs --------------------------
(* Proofs about the life of a gateway: its restarts (GatewayRestart) and its
   place among other processes (GatewayProcess).  No platform is forgotten, and
   a conversation cut off by a stop or a crash can be resumed, for any number
   of sessions, platforms, restarts and held messages.  Two gateways are
   connected at once only when one of them was told to stop early, and a
   gateway ends with success only when somebody meant it to end, for any number
   of processes, signals, requests and crashes. *)
EXTENDS GatewayRestart, GatewayProcess, SequenceTheorems, TLAPS

-----------------------------------------------------------------------------
(* Restarts and platforms. *)

Marked(s) == Pending(s) \/ Suspended(s)

\* A platform start() has not come to is neither connected nor queued.
TodoUntouched == \A p \in todo : p \notin adapters /\ failed[p] = "no"

PlatformsInv == TodoUntouched /\ QueuedIsDown /\ (Alive => NoneForgotten)

\* What one session needs for its cut conversation to be found again.
SessionInv(s) ==
    /\ slot[s] # "free" => entry[s] # None
    /\ s \in tasks => slot[s] = "sentinel"
    /\ cut[s] # None => convo[s] = cut[s]
    /\ cut[s] # None => Marked(s) \/ (s \in unseen /\ ~Alive /\ ~clean)
    /\ phase \in {"interrupting", "closing"} /\ slot[s] = "agent" => Marked(s) \/ s \in unseen
    /\ phase = "draining" /\ s \in preDrain =>
        /\ slot[s] # "sentinel"
        /\ slot[s] = "agent" => Marked(s)
        /\ slot[s] = "free" => cut[s] = None
    /\ phase = "closing" /\ ~timedOut => slot[s] = "free"

ProcessInv ==
    /\ Alive => ~clean
    /\ phase = "interrupting" => timedOut

RestartInv ==
    /\ ProcessInv
    /\ \A s \in Sessions : SessionInv(s)

-----------------------------------------------------------------------------
\* Marking, unmarking and suspending yield entries.
LEMMA EntryTypes ==
  ASSUME NEW e \in [Sessions -> Entry \union {None}], entry = e, NEW K
  PROVE  /\ Mark(K) \in [Sessions -> Entry \union {None}]
         /\ Unmark(K) \in [Sessions -> Entry \union {None}]
  BY DEF Mark, Unmark, Entry

LEMMA StuckTypes ==
  ASSUME NEW e \in [Sessions -> Entry \union {None}]
  PROVE  SuspendStuck(e) \in [Sessions -> Entry \union {None}]
  BY DEF SuspendStuck, Entry

LEMMA NewTypes ==
  ASSUME TypeOK, NEW s \in Sessions, NewConversation(s)
  PROVE  /\ entry' \in [Sessions -> Entry \union {None}]
         /\ convo' \in [Sessions -> {0, 1}]
         /\ age' \in [Sessions -> {"fresh", "recent", "idle"}]
<1>1. convo' = [convo EXCEPT ![s] = 1 - @] /\ convo \in [Sessions -> {0, 1}]
  BY DEF TypeOK, NewConversation
<1>2. convo' \in [Sessions -> {0, 1}]
  <2>1. convo[s] = 0 \/ convo[s] = 1
    BY <1>1
  <2>2. CASE convo[s] = 0
    BY <1>1, <2>2
  <2>3. CASE convo[s] = 1
    BY <1>1, <2>3
  <2> QED
    BY <2>1, <2>2, <2>3
<1>3. FreshEntry \in Entry
  BY DEF FreshEntry, Entry
<1> QED
  BY <1>2, <1>3 DEF TypeOK, NewConversation

\* What a lookup of a session (get_or_create_session) and the claim of its slot
\* leave behind.
LEMMA LookupTypes ==
  ASSUME TypeOK, NEW s \in Sessions, GetOrCreate(s)
  PROVE  /\ entry' \in [Sessions -> Entry \union {None}]
         /\ convo' \in [Sessions -> {0, 1}]
         /\ age' \in [Sessions -> {"fresh", "recent", "idle"}]
         /\ cut' \in [Sessions -> {None, 0, 1}]
         /\ streak' \in [Sessions -> Nat]
<1>1. CASE NewConversation(s) /\ cut' = [cut EXCEPT ![s] = None] /\ streak' = [streak EXCEPT ![s] = 0]
  BY <1>1, NewTypes DEF TypeOK
<1>2. CASE NewConversation(s) /\ UNCHANGED <<cut, streak>>
  BY <1>2, NewTypes DEF TypeOK
<1>3. CASE SameConversation(s) /\ UNCHANGED <<cut, streak>>
  BY <1>3 DEF TypeOK, SameConversation
<1> QED
  BY <1>1, <1>2, <1>3 DEF GetOrCreate

LEMMA ScheduleTypes ==
  ASSUME TypeOK, NEW P, Schedule(P)
  PROVE  /\ slot' \in [Sessions -> {"free", "sentinel", "agent"}]
         /\ tasks' \subseteq Sessions
  BY DEF TypeOK, Schedule

\* The initial state has the declared types.
LEMMA TypeInit == Init => TypeOK
<1> SUFFICES ASSUME Init PROVE TypeOK
  OBVIOUS
<1>1. PlatformTypeOK
  BY DEF Init, PlatformTypeOK
<1>2. held \in Seq(Sessions)
  BY EmptySeq DEF Init
<1>3. /\ entry \in [Sessions -> Entry \union {None}] /\ convo \in [Sessions -> {0, 1}]
      /\ counts \in [Sessions -> Nat] /\ streak \in [Sessions -> Nat]
      /\ cut \in [Sessions -> {None, 0, 1}]
  BY DEF Init
<1> QED
  BY <1>1, <1>2, <1>3 DEF Init, TypeOK, Phases

\* Every step keeps the types.
LEMMA TypeStep == TypeOK /\ [Next]_vars => TypeOK'
<1> SUFFICES ASSUME TypeOK, [Next]_vars PROVE TypeOK'
  OBVIOUS
<1> USE DEF TypeOK, PlatformTypeOK, Phases, Entry, FreshEntry, platformVars, disk, drainVars, restore, intake, history
<1>t. /\ held \in Seq(Sessions) /\ arrived \in Nat /\ boots \in Nat /\ clean \in BOOLEAN /\ timedOut \in BOOLEAN
      /\ counts \in [Sessions -> Nat] /\ streak \in [Sessions -> Nat] /\ unseen \subseteq Sessions
      /\ convo \in [Sessions -> {0, 1}] /\ cut \in [Sessions -> {None, 0, 1}]
      /\ age \in [Sessions -> {"fresh", "recent", "idle"}]
  OBVIOUS
<1>1. CASE Boot
  <2>1. entry' \in [Sessions -> Entry \union {None}]
    BY <1>1, EntryTypes, StuckTypes DEF Boot, ReadTraces
  <2>2. cut' \in [Sessions -> {None, 0, 1}]
    BY <1>1 DEF Boot, ReadTraces
  <2>3. counts' \in [Sessions -> Nat] /\ clean' \in BOOLEAN /\ unseen' \subseteq Sessions /\ streak' = streak
    BY <1>1 DEF Boot, ReadTraces
  <2>4. PlatformTypeOK'
    BY <1>1 DEF Boot, PlatformsAtBoot
  <2> QED
    <3>1. held' \in Seq(Sessions)
      BY <1>1, EmptySeq DEF Boot
    <3>3. arrived' \in Nat /\ boots' \in Nat
      <4> HIDE DEF TypeOK
      <4> QED
        BY <1>1, <1>t DEF Boot
    <3>2. slot' \in [Sessions -> {"free", "sentinel", "agent"}]
      BY <1>1 DEF Boot
    <3> QED
      BY <1>1, <2>1, <2>2, <2>3, <2>4, <3>1, <3>2, <3>3 DEF Boot
<1>2. CASE StartedUp
  BY <1>2, ScheduleTypes DEF StartedUp
<1>3. CASE StartGivesUp
  BY <1>3 DEF StartGivesUp
<1>4. CASE ReplayHeld
  <2>1. held \in Seq(Sessions) /\ held # <<>>
    BY <1>4 DEF ReplayHeld
  <2>2. Head(held) \in Sessions /\ Tail(held) \in Seq(Sessions)
    <3> HIDE DEF TypeOK
    <3> QED
      BY <2>1
  <2>3. CASE Claim(Head(held))
    BY <1>4, <2>2, <2>3, LookupTypes DEF ReplayHeld, Claim
  <2>4. CASE UNCHANGED <<entry, convo, age, cut, streak, slot>>
    BY <1>4, <2>2, <2>4 DEF ReplayHeld
  <2> QED
    BY <1>4, <2>3, <2>4 DEF ReplayHeld
<1>5. CASE FinishRestore
  BY <1>5 DEF FinishRestore
<1>6. CASE StopBegins
  BY <1>6 DEF StopBegins
<1>7. CASE PreMark
  BY <1>7, EntryTypes DEF PreMark, Agents
<1>8. CASE DrainDone
  BY <1>8, EntryTypes DEF DrainDone
<1>9. CASE DrainTimesOut
  BY <1>9, EntryTypes DEF DrainTimesOut
<1>10. CASE InterruptEnds
  BY <1>10 DEF InterruptEnds
<1>11. CASE Finish
  <2>1. cut' \in [Sessions -> {None, 0, 1}] /\ slot' \in [Sessions -> {"free", "sentinel", "agent"}]
    BY <1>11 DEF Finish, CutOff
  <2>2. counts' \in [Sessions -> Nat] /\ streak' \in [Sessions -> Nat] /\ clean' \in BOOLEAN
    <3> HIDE DEF TypeOK
    <3> QED
      BY <1>11, <1>t DEF Finish, LeaveTraces
  <2>3. /\ held' \in Seq(Sessions) /\ tasks' \subseteq Sessions /\ parked' \subseteq Sessions
        /\ awaited' \subseteq Sessions /\ gate' \in BOOLEAN
    <3> HIDE DEF TypeOK
    <3> QED
      BY <1>11, EmptySeq DEF Finish, CutOff
  <2> QED
    BY <1>11, <2>1, <2>2, <2>3 DEF Finish, CutOff
<1>12. CASE Crash
  <2>1. cut' \in [Sessions -> {None, 0, 1}] /\ slot' \in [Sessions -> {"free", "sentinel", "agent"}]
    BY <1>12 DEF Crash, CutOff
  <2>2. unseen' \subseteq Sessions
    BY <1>12 DEF Crash, Agents
  <2>3. /\ held' \in Seq(Sessions) /\ tasks' \subseteq Sessions /\ parked' \subseteq Sessions
        /\ awaited' \subseteq Sessions /\ gate' \in BOOLEAN
    <3> HIDE DEF TypeOK
    <3> QED
      BY <1>12, EmptySeq DEF Crash, CutOff
  <2> QED
    BY <1>12, <2>1, <2>2, <2>3 DEF Crash, CutOff
<1>13. ASSUME NEW s \in Sessions, RunStartupResume(s) PROVE TypeOK'
  <2>1. CASE ResumeAndWait(s)
    BY <1>13, <2>1, LookupTypes DEF RunStartupResume, ResumeAndWait
  <2>2. CASE ResumeLater(s)
    BY <1>13, <2>2 DEF RunStartupResume, ResumeLater
  <2> QED
    BY <1>13, <2>1, <2>2 DEF RunStartupResume
<1>14. ASSUME NEW s \in Sessions, Receive(s) PROVE TypeOK'
  <2>1. held' \in Seq(Sessions)
    <3> HIDE DEF TypeOK
    <3> QED
      BY <1>14, <1>t DEF Receive
  <2>2. arrived' \in Nat
    <3> HIDE DEF TypeOK
    <3> QED
      BY <1>14, <1>t DEF Receive
  <2> QED
    BY <1>14, <2>1, <2>2 DEF Receive
<1>15. ASSUME NEW s \in Sessions, StartTurn(s) PROVE TypeOK'
  BY <1>15, LookupTypes DEF StartTurn, Claim
<1>16. ASSUME NEW s \in Sessions, RunParked(s) PROVE TypeOK'
  <2>1. CASE Claim(s)
    BY <1>16, <2>1, LookupTypes DEF RunParked, Claim
  <2>2. CASE UNCHANGED <<entry, convo, age, cut, streak, slot>>
    BY <1>16, <2>2 DEF RunParked
  <2> QED
    BY <1>16, <2>1, <2>2 DEF RunParked
<1>17. ASSUME NEW s \in Sessions, Promote(s) PROVE TypeOK'
  BY <1>17 DEF Promote, Alive
<1>18. ASSUME NEW s \in Sessions, TurnCompletes(s) PROVE TypeOK'
  <2>1. entry' \in [Sessions -> Entry \union {None}]
    BY <1>18, EntryTypes DEF TurnCompletes
  <2>2. counts' \in [Sessions -> Nat] /\ streak' \in [Sessions -> Nat] /\ cut' \in [Sessions -> {None, 0, 1}]
    BY <1>18 DEF TurnCompletes, ClearCount
  <2> QED
    BY <1>18, <2>1, <2>2 DEF TurnCompletes, Release
<1>19. ASSUME NEW s \in Sessions, TurnFails(s) PROVE TypeOK'
  BY <1>19 DEF TurnFails, Release, Alive
<1>20. ASSUME NEW s \in Sessions, TurnInterrupted(s) PROVE TypeOK'
  <2>1. cut' \in [Sessions -> {None, 0, 1}]
    BY <1>20 DEF TurnInterrupted
  <2>2. streak' \in [Sessions -> Nat]
    <3> HIDE DEF TypeOK
    <3> QED
      BY <1>20, <1>t DEF TurnInterrupted
  <2> QED
    BY <1>20, <2>1, <2>2 DEF TurnInterrupted, Release
<1>21. ASSUME NEW s \in Sessions, Ages(s) PROVE TypeOK'
  BY <1>21 DEF Ages
<1>22. ASSUME NEW s \in Sessions, Suspend(s) PROVE TypeOK'
  BY <1>22 DEF Suspend, Suspended
<1>23. ASSUME NEW s \in Sessions, UserMoves(s) PROVE TypeOK'
  <2>1. /\ entry' \in [Sessions -> Entry \union {None}]
        /\ convo' \in [Sessions -> {0, 1}]
        /\ age' \in [Sessions -> {"fresh", "recent", "idle"}]
    <3> HIDE DEF TypeOK
    <3> QED
      BY <1>23, <1>t, NewTypes DEF UserMoves
  <2>2. cut' \in [Sessions -> {None, 0, 1}] /\ streak' \in [Sessions -> Nat]
    BY <1>23 DEF UserMoves
  <2> QED
    BY <1>23, <2>1, <2>2 DEF UserMoves
<1>24. ASSUME NEW s \in Sessions, Prune(s) PROVE TypeOK'
  BY <1>24 DEF Prune, Suspended
<1>25. ASSUME NEW p \in Platforms, ConnectPlatform(p) PROVE TypeOK'
  BY <1>25 DEF ConnectPlatform, ConnectsAtStart, FailsAtStart, RefusedAtStart, AbsentAtStart, Queue, Show
<1>26. ASSUME NEW p \in Platforms, PlatformDies(p) PROVE TypeOK'
  <2>1. PICK retryable \in BOOLEAN, off \in BOOLEAN : AdapterFatal(p, retryable, off)
    BY <1>26 DEF PlatformDies
  <2>2. PlatformTypeOK'
    BY <2>1 DEF AdapterFatal, Queue, Show
  <2>3. phase' \in Phases
    BY <1>26 DEF PlatformDies
  <2> QED
    BY <1>26, <2>2, <2>3, ZenonT(60) DEF PlatformDies
<1>27. ASSUME NEW p \in Platforms, Reconnected(p) PROVE TypeOK'
  <2>1. PlatformTypeOK'
    BY <1>27 DEF Reconnected, Reconnects, Queue, Show
  <2> QED
    BY <1>27, <2>1, ScheduleTypes DEF Reconnected
<1>28. ASSUME NEW p \in Platforms, OperatorOrTimer(p) PROVE TypeOK'
  BY <1>28, ZenonT(60) DEF OperatorOrTimer, RetryFails, RetryRefused, RetryAbsent, Pause, ResumePaused, Queue, Show
<1>29. ASSUME NEW p \in Platforms, TimePasses(p) PROVE TypeOK'
  BY <1>29 DEF TimePasses, BackoffPasses, Queue
<1>30. CASE UNCHANGED vars
  BY <1>30 DEF vars
<1> QED
  BY <1>1, <1>2, <1>3, <1>4, <1>5, <1>6, <1>7, <1>8, <1>9, <1>10, <1>11, <1>12, <1>13, <1>14, <1>15, <1>16, <1>17, <1>18, <1>19, <1>20, <1>21, <1>22, <1>23, <1>24, <1>25, <1>26, <1>27, <1>28, <1>29, <1>30 DEF Next, TurnEnds

\* Every reachable state has the declared types.
THEOREM TypeCorrect == Spec => []TypeOK
  BY TypeInit, TypeStep, PTL DEF Spec

-----------------------------------------------------------------------------
\* Every step keeps each platform accounted for.
LEMMA PlatformsStep == TypeOK /\ PlatformsInv /\ [Next]_vars => PlatformsInv'
<1> SUFFICES ASSUME TypeOK, PlatformsInv, [Next]_vars PROVE PlatformsInv'
  OBVIOUS
<1> USE DEF TypeOK, PlatformTypeOK, PlatformsInv, TodoUntouched, QueuedIsDown, NoneForgotten, Alive, CutOff, platformVars, disk, drainVars, restore, intake, history
<1>1. CASE Boot
  BY <1>1 DEF Boot, PlatformsAtBoot
<1>2. CASE StartedUp
  BY <1>2 DEF StartedUp
<1>3. CASE StartGivesUp
  BY <1>3 DEF StartGivesUp
<1>4. CASE ReplayHeld
  BY <1>4 DEF ReplayHeld
<1>5. CASE FinishRestore
  BY <1>5 DEF FinishRestore
<1>6. CASE StopBegins
  BY <1>6 DEF StopBegins
<1>7. CASE PreMark
  BY <1>7 DEF PreMark
<1>8. CASE DrainDone
  BY <1>8 DEF DrainDone
<1>9. CASE DrainTimesOut
  BY <1>9 DEF DrainTimesOut
<1>10. CASE InterruptEnds
  BY <1>10 DEF InterruptEnds
<1>11. CASE Finish
  BY <1>11 DEF Finish
<1>12. CASE Crash
  BY <1>12 DEF Crash
<1>13. ASSUME NEW s \in Sessions, RunStartupResume(s) PROVE PlatformsInv'
  BY <1>13 DEF RunStartupResume
<1>14. ASSUME NEW s \in Sessions, Receive(s) PROVE PlatformsInv'
  BY <1>14 DEF Receive
<1>15. ASSUME NEW s \in Sessions, StartTurn(s) PROVE PlatformsInv'
  BY <1>15 DEF StartTurn
<1>16. ASSUME NEW s \in Sessions, RunParked(s) PROVE PlatformsInv'
  BY <1>16 DEF RunParked
<1>17. ASSUME NEW s \in Sessions, Promote(s) PROVE PlatformsInv'
  BY <1>17 DEF Promote, Alive
<1>18. ASSUME NEW s \in Sessions, TurnCompletes(s) PROVE PlatformsInv'
  BY <1>18 DEF TurnCompletes
<1>19. ASSUME NEW s \in Sessions, TurnFails(s) PROVE PlatformsInv'
  BY <1>19 DEF TurnFails, Release, Alive
<1>20. ASSUME NEW s \in Sessions, TurnInterrupted(s) PROVE PlatformsInv'
  BY <1>20 DEF TurnInterrupted, Release, Alive
<1>21. ASSUME NEW s \in Sessions, Ages(s) PROVE PlatformsInv'
  BY <1>21 DEF Ages
<1>22. ASSUME NEW s \in Sessions, Suspend(s) PROVE PlatformsInv'
  BY <1>22 DEF Suspend, Suspended
<1>23. ASSUME NEW s \in Sessions, UserMoves(s) PROVE PlatformsInv'
  BY <1>23 DEF UserMoves
<1>24. ASSUME NEW s \in Sessions, Prune(s) PROVE PlatformsInv'
  BY <1>24 DEF Prune, Suspended
<1>25. ASSUME NEW p \in Platforms, ConnectPlatform(p) PROVE PlatformsInv'
  <2>1. CASE ConnectsAtStart(p)
    BY <1>25, <2>1 DEF ConnectPlatform, ConnectsAtStart, Queue, Show
  <2>2. CASE FailsAtStart(p)
    BY <1>25, <2>2, ZenonT(60) DEF ConnectPlatform, FailsAtStart, Queue, Show
  <2>3. CASE RefusedAtStart(p)
    BY <1>25, <2>3 DEF ConnectPlatform, RefusedAtStart, Queue, Show
  <2>4. CASE AbsentAtStart(p)
    BY <1>25, <2>4 DEF ConnectPlatform, AbsentAtStart, Queue, Show
  <2> QED
    BY <1>25, <2>1, <2>2, <2>3, <2>4 DEF ConnectPlatform
<1>26. ASSUME NEW p \in Platforms, PlatformDies(p) PROVE PlatformsInv'
  <2>a. failed \in [Platforms -> {"no", "waiting", "due", "paused"}] /\ TodoUntouched /\ QueuedIsDown /\ NoneForgotten
        /\ todo \subseteq Platforms /\ adapters \subseteq Platforms
        /\ shown \in [Platforms -> {"", "connected", "retrying", "fatal", "disabled", "paused"}]
    BY <1>26 DEF PlatformDies
  <2>1. PICK retryable \in BOOLEAN, off \in BOOLEAN : AdapterFatal(p, retryable, off)
    BY <1>26 DEF PlatformDies
  <2>2. p \in Platforms /\ p \notin todo /\ p \in adapters /\ failed[p] = "no"
    BY <2>1 DEF AdapterFatal
  <2>3. PICK x \in {"disabled", "retrying", "fatal"} :
           /\ shown' = [shown EXCEPT ![p] = x]
           /\ x = "retrying" => retryable
    BY <2>1 DEF AdapterFatal, Show
  <2>4. PICK y \in {"no", "due"} :
           /\ failed' = [failed EXCEPT ![p] = y]
           /\ retryable => y = "due"
    <3>1. CASE retryable
      BY <2>1, <2>2, <3>1 DEF AdapterFatal, Queue
    <3>2. CASE ~retryable
      <4>1. failed' = [failed EXCEPT ![p] = "no"]
        BY <2>1, <2>2, <2>a, <3>2 DEF AdapterFatal
      <4> QED
        BY <3>2, <4>1
    <3> QED
      BY <3>1, <3>2
  <2>5. adapters' = adapters \ {p} /\ todo' = todo /\ absent' = absent
    BY <2>1 DEF AdapterFatal
  <2> HIDE DEF TypeOK, PlatformTypeOK
  <2>6. TodoUntouched'
    BY <2>2, <2>4, <2>5, <2>a
  <2>7. QueuedIsDown'
    BY <2>2, <2>4, <2>5, <2>a
  <2>8. NoneForgotten'
    <3> SUFFICES ASSUME NEW q \in Platforms \ todo
                 PROVE  q \in adapters' \/ failed'[q] # "no" \/ shown'[q] \in {"fatal", "disabled"} \/ q \in absent'
      BY <2>5
    <3>1. CASE q = p
      BY <2>3, <2>4, <3>1, <2>a
    <3>2. CASE q # p
      BY <2>a, <2>3, <2>4, <2>5, <3>2
    <3> QED
      BY <3>1, <3>2
  <2> QED
    BY <2>6, <2>7, <2>8
<1>27. ASSUME NEW p \in Platforms, Reconnected(p) PROVE PlatformsInv'
  <2>1. /\ failed[p] = "due" /\ phase' = phase
        /\ adapters' = adapters \cup {p} /\ failed' = [failed EXCEPT ![p] = "no"]
        /\ shown' = [shown EXCEPT ![p] = "connected"] /\ UNCHANGED <<todo, absent>>
    BY <1>27 DEF Reconnected, Reconnects, Queue, Show, history
  <2>2. /\ failed \in [Platforms -> {"no", "waiting", "due", "paused"}]
        /\ shown \in [Platforms -> {"", "connected", "retrying", "fatal", "disabled", "paused"}]
        /\ todo \subseteq Platforms /\ adapters \subseteq Platforms
    OBVIOUS
  <2> HIDE DEF TypeOK, PlatformTypeOK
  <2>3. TodoUntouched'
    BY <2>1, <2>2 DEF PlatformsInv
  <2>4. QueuedIsDown'
    BY <2>1, <2>2 DEF PlatformsInv
  <2>5. Alive' => NoneForgotten'
    BY <2>1, <2>2 DEF PlatformsInv, Alive
  <2> QED
    BY <2>3, <2>4, <2>5 DEF PlatformsInv
<1>28. ASSUME NEW p \in Platforms, OperatorOrTimer(p) PROVE PlatformsInv'
  <2>1. CASE RetryFails(p)
    BY <1>28, <2>1 DEF OperatorOrTimer, Watching, RetryFails, Queue, Show
  <2>2. CASE RetryRefused(p)
    BY <1>28, <2>2 DEF OperatorOrTimer, Watching, RetryRefused, Queue, Show
  <2>3. CASE RetryAbsent(p)
    BY <1>28, <2>3 DEF OperatorOrTimer, Watching, RetryAbsent, Queue, Show
  <2>4. CASE Pause(p)
    BY <1>28, <2>4 DEF OperatorOrTimer, Watching, Pause, Queue, Show
  <2>5. CASE ResumePaused(p)
    BY <1>28, <2>5 DEF OperatorOrTimer, Watching, ResumePaused, Queue, Show
  <2> QED
    BY <1>28, <2>1, <2>2, <2>3, <2>4, <2>5 DEF OperatorOrTimer
<1>29. ASSUME NEW p \in Platforms, TimePasses(p) PROVE PlatformsInv'
  BY <1>29 DEF TimePasses, BackoffPasses, Queue
<1>30. CASE UNCHANGED vars
  BY <1>30 DEF vars
<1> QED
  BY <1>1, <1>2, <1>3, <1>4, <1>5, <1>6, <1>7, <1>8, <1>9, <1>10, <1>11, <1>12, <1>13, <1>14, <1>15, <1>16, <1>17, <1>18, <1>19, <1>20, <1>21, <1>22, <1>23, <1>24, <1>25, <1>26, <1>27, <1>28, <1>29, <1>30 DEF Next, TurnEnds

\* While the process runs no platform is silently dead and no live one is
\* retried (_handle_adapter_fatal_error, _platform_reconnect_watcher).
THEOREM NoPlatformForgotten == Spec => []PlatformsAccounted
<1>1. Init => PlatformsInv
  BY RestartAssumption, ZenonT(60) DEF RestartAssumption, Init, PlatformsInv, TodoUntouched, QueuedIsDown, NoneForgotten, Alive
<1>2. PlatformsInv => PlatformsAccounted
  BY DEF PlatformsInv, PlatformsAccounted
<1> QED
  BY <1>1, <1>2, PlatformsStep, TypeInit, TypeStep, PTL DEF Spec

-----------------------------------------------------------------------------
\* A running process finds no marker, and interrupts only after a timeout.
LEMMA ProcessStep == ProcessInv /\ [Next]_vars => ProcessInv'
<1> SUFFICES ASSUME ProcessInv, [Next]_vars PROVE ProcessInv'
  OBVIOUS
<1> USE DEF ProcessInv, Alive, platformVars, disk, drainVars, restore, intake, history
<1>1. CASE Boot
  BY <1>1 DEF Boot, ReadTraces
<1>2. CASE StartedUp
  BY <1>2 DEF StartedUp
<1>3. CASE StartGivesUp
  BY <1>3 DEF StartGivesUp
<1>4. CASE ReplayHeld
  BY <1>4 DEF ReplayHeld
<1>5. CASE FinishRestore
  BY <1>5 DEF FinishRestore
<1>6. CASE StopBegins
  BY <1>6 DEF StopBegins
<1>7. CASE PreMark
  BY <1>7 DEF PreMark
<1>8. CASE DrainDone
  BY <1>8 DEF DrainDone
<1>9. CASE DrainTimesOut
  BY <1>9 DEF DrainTimesOut
<1>10. CASE InterruptEnds
  BY <1>10 DEF InterruptEnds
<1>11. CASE Finish
  BY <1>11 DEF Finish, CutOff
<1>12. CASE Crash
  BY <1>12 DEF Crash, CutOff
<1>13. ASSUME NEW s \in Sessions, RunStartupResume(s) PROVE ProcessInv'
  BY <1>13 DEF RunStartupResume
<1>14. ASSUME NEW s \in Sessions, Receive(s) PROVE ProcessInv'
  BY <1>14 DEF Receive
<1>15. ASSUME NEW s \in Sessions, StartTurn(s) PROVE ProcessInv'
  BY <1>15 DEF StartTurn
<1>16. ASSUME NEW s \in Sessions, RunParked(s) PROVE ProcessInv'
  BY <1>16 DEF RunParked
<1>17. ASSUME NEW s \in Sessions, Promote(s) PROVE ProcessInv'
  BY <1>17 DEF Promote
<1>18. ASSUME NEW s \in Sessions, TurnCompletes(s) PROVE ProcessInv'
  BY <1>18 DEF TurnCompletes, Release
<1>19. ASSUME NEW s \in Sessions, TurnFails(s) PROVE ProcessInv'
  BY <1>19 DEF TurnFails, Release
<1>20. ASSUME NEW s \in Sessions, TurnInterrupted(s) PROVE ProcessInv'
  BY <1>20 DEF TurnInterrupted, Release
<1>21. ASSUME NEW s \in Sessions, Ages(s) PROVE ProcessInv'
  BY <1>21 DEF Ages
<1>22. ASSUME NEW s \in Sessions, Suspend(s) PROVE ProcessInv'
  BY <1>22 DEF Suspend
<1>23. ASSUME NEW s \in Sessions, UserMoves(s) PROVE ProcessInv'
  BY <1>23 DEF UserMoves
<1>24. ASSUME NEW s \in Sessions, Prune(s) PROVE ProcessInv'
  BY <1>24 DEF Prune
<1>25. ASSUME NEW p \in Platforms, ConnectPlatform(p) PROVE ProcessInv'
  BY <1>25 DEF ConnectPlatform
<1>26. ASSUME NEW p \in Platforms, PlatformDies(p) PROVE ProcessInv'
  BY <1>26 DEF PlatformDies
<1>27. ASSUME NEW p \in Platforms, Reconnected(p) PROVE ProcessInv'
  BY <1>27 DEF Reconnected
<1>28. ASSUME NEW p \in Platforms, OperatorOrTimer(p) PROVE ProcessInv'
  BY <1>28 DEF OperatorOrTimer
<1>29. ASSUME NEW p \in Platforms, TimePasses(p) PROVE ProcessInv'
  BY <1>29 DEF TimePasses
<1>30. CASE UNCHANGED vars
  BY <1>30 DEF vars
<1> QED
  BY <1>1, <1>2, <1>3, <1>4, <1>5, <1>6, <1>7, <1>8, <1>9, <1>10, <1>11, <1>12, <1>13, <1>14, <1>15, <1>16, <1>17, <1>18, <1>19, <1>20, <1>21, <1>22, <1>23, <1>24, <1>25, <1>26, <1>27, <1>28, <1>29, <1>30 DEF Next, TurnEnds

\* None is no entry, and an entry stays one when a flag of it is set.
LEMMA Entries ==
  /\ FreshEntry \in Entry /\ None \notin Entry
  /\ \A e \in Entry : [e EXCEPT !.pending = TRUE] \in Entry /\ [e EXCEPT !.suspended = TRUE] \in Entry
  BY RestartAssumption DEF RestartAssumption, FreshEntry, Entry

\* Marking keeps every entry and every flag, and flags the given ones.
LEMMA MarkKeeps ==
  ASSUME TypeOK, NEW q \in Sessions, NEW K
  PROVE  /\ entry[q] # None => Mark(K)[q] # None
         /\ Marked(q) => Mark(K)[q] # None /\ (Mark(K)[q].pending \/ Mark(K)[q].suspended)
         /\ q \in K /\ entry[q] # None => Mark(K)[q].pending \/ Mark(K)[q].suspended
<1>1. entry[q] = None \/ entry[q] \in Entry
  BY DEF TypeOK
<1>2. CASE Mark(K)[q] = entry[q] /\ (q \in K /\ entry[q] # None => entry[q].suspended)
  BY <1>1, <1>2 DEF Marked, Pending, Suspended
<1>3. CASE entry[q] \in Entry /\ Mark(K)[q] = [entry[q] EXCEPT !.pending = TRUE]
  <2>1. Mark(K)[q] # None
    BY <1>3, Entries
  <2>2. Mark(K)[q].pending
    BY <1>3 DEF Entry
  <2> QED
    BY <2>1, <2>2
<1>4. /\ q \in K /\ entry[q] # None /\ ~entry[q].suspended => Mark(K)[q] = [entry[q] EXCEPT !.pending = TRUE]
      /\ ~(q \in K /\ entry[q] # None /\ ~entry[q].suspended) => Mark(K)[q] = entry[q]
  BY DEF Mark
<1> QED
  BY <1>1, <1>2, <1>3, <1>4

LEMMA StuckKeeps ==
  ASSUME NEW e \in [Sessions -> Entry \union {None}], NEW q \in Sessions, e[q] # None
  PROVE  /\ SuspendStuck(e)[q] # None
         /\ e[q].pending \/ e[q].suspended =>
              SuspendStuck(e)[q].pending \/ SuspendStuck(e)[q].suspended
<1>1. e[q] \in Entry
  OBVIOUS
<1>2. SuspendStuck(e)[q] = e[q] \/ SuspendStuck(e)[q] = [e[q] EXCEPT !.suspended = TRUE]
  BY DEF SuspendStuck
<1>3. [e[q] EXCEPT !.suspended = TRUE] # None /\ [e[q] EXCEPT !.suspended = TRUE].suspended
  <2>1. [e[q] EXCEPT !.suspended = TRUE] # None
    BY <1>1, Entries
  <2>2. [e[q] EXCEPT !.suspended = TRUE].suspended
    BY <1>1 DEF Entry
  <2> QED
    BY <2>1, <2>2
<1> QED
  BY <1>1, <1>2, <1>3

\* A lookup in a claimed slot keeps what is known of every session.
LEMMA LookupKeeps ==
  ASSUME TypeOK, ProcessInv, NEW q \in Sessions, SessionInv(q), NEW s, GetOrCreate(s),
         slot'[q] = (IF s = q THEN "sentinel" ELSE slot[q]), phase = "up",
         s = q => slot[q] # "agent",
         tasks' \subseteq tasks, UNCHANGED <<clean, preDrain, timedOut, unseen, phase>>
  PROVE  SessionInv(q)'
<1> USE DEF SessionInv, Marked, Pending, Suspended, Alive, ProcessInv, FreshEntry
<1>1. /\ slot'[q] = (IF s = q THEN "sentinel" ELSE slot[q]) /\ phase = "up"
      /\ s = q => slot[q] # "agent"
  OBVIOUS
<1>2. slot \in [Sessions -> {"free", "sentinel", "agent"}]
      /\ entry \in [Sessions -> Entry \union {None}] /\ convo \in [Sessions -> {0, 1}]
      /\ cut \in [Sessions -> {None, 0, 1}]
  BY DEF TypeOK
<1>3. CASE s # q
  <2>1. slot'[q] = slot[q] /\ entry'[q] = entry[q] /\ convo'[q] = convo[q] /\ cut'[q] = cut[q]
    BY <1>1, <1>2, <1>3 DEF GetOrCreate, NewConversation, SameConversation
  <2> QED
    BY <1>1, <2>1
<1>4. CASE s = q
  <2>1. CASE (entry[s] = None \/ Suspended(s)) /\ NewConversation(s) /\ cut' = [cut EXCEPT ![s] = None]
    BY <1>1, <1>2, <1>4, <2>1, Entries DEF NewConversation
  <2>2. CASE entry[s] # None /\ SameConversation(s) /\ UNCHANGED cut
    BY <1>1, <1>2, <1>4, <2>2 DEF SameConversation
  <2>3. CASE ~Suspended(s) /\ ~Pending(s) /\ NewConversation(s) /\ UNCHANGED cut
    BY <1>1, <1>2, <1>4, <2>3, Entries DEF NewConversation
  <2> QED
    BY <2>1, <2>2, <2>3 DEF GetOrCreate
<1> QED
  BY <1>3, <1>4

\* So does a lookup that claims the slot itself.
LEMMA ClaimKeeps ==
  ASSUME TypeOK, ProcessInv, NEW q \in Sessions, SessionInv(q), NEW s, Claim(s),
         UNCHANGED <<clean, preDrain, timedOut, unseen, tasks, phase>>
  PROVE  SessionInv(q)'
<1>1. /\ slot'[q] = (IF s = q THEN "sentinel" ELSE slot[q]) /\ phase = "up"
      /\ s = q => slot[q] # "agent"
  BY DEF Claim, TypeOK
<1> QED
  BY <1>1, LookupKeeps DEF Claim

\* Every step keeps what a cut conversation needs.
LEMMA SessionStep ==
  ASSUME TypeOK, ProcessInv, NEW q \in Sessions, SessionInv(q), ~FailWhileDraining, [Next]_vars
  PROVE  SessionInv(q)'
<1> USE DEF TypeOK, Entry, SessionInv, Marked, Pending, Suspended, Alive, ProcessInv, platformVars, disk, drainVars, restore, intake, history
<1>1. CASE Boot
  <2>1. phase' = "connecting" /\ slot'[q] = "free" /\ convo' = convo /\ preDrain' = {} /\ tasks' = {}
    BY <1>1 DEF Boot
  <2>2. entry' = SuspendStuck(IF clean THEN entry ELSE Mark(RecentlyActive))
    BY <1>1 DEF Boot, ReadTraces
  <2>3. Marked(q) => entry'[q] # None /\ (entry'[q].pending \/ entry'[q].suspended)
    <3>1. Mark(RecentlyActive) \in [Sessions -> Entry \union {None}] /\ entry \in [Sessions -> Entry \union {None}]
      BY EntryTypes
    <3>2. CASE clean
      BY <2>2, <3>1, <3>2, StuckKeeps
    <3>3. CASE ~clean
      BY <2>2, <3>1, <3>3, StuckKeeps, MarkKeeps
    <3> QED
      BY <3>2, <3>3
  <2>4. cut'[q] = cut[q] \/ cut'[q] = None
    BY <1>1 DEF Boot, ReadTraces
  <2>5. ASSUME cut'[q] # None, q \in unseen
        PROVE  entry'[q] # None /\ (entry'[q].pending \/ entry'[q].suspended)
    BY <1>1, <2>5 DEF Boot, ReadTraces
  <2> QED
    BY <2>1, <2>3, <2>4, <2>5
<1>2. CASE StartedUp
  BY <1>2 DEF StartedUp, Schedule
<1>3. CASE StartGivesUp
  BY <1>3 DEF StartGivesUp
<1>4. CASE ReplayHeld
  <2>1. CASE Claim(Head(held))
    BY <1>4, <2>1, ClaimKeeps DEF ReplayHeld
  <2>2. CASE UNCHANGED <<entry, convo, age, cut, streak, slot>>
    BY <1>4, <2>2 DEF ReplayHeld
  <2> QED
    BY <1>4, <2>1, <2>2 DEF ReplayHeld
<1>5. CASE FinishRestore
  BY <1>5 DEF FinishRestore
<1>6. CASE StopBegins
  BY <1>6 DEF StopBegins
<1>7. CASE PreMark
  <2>1. /\ phase = "notifying" /\ phase' = "draining" /\ entry' = Mark(Agents) /\ preDrain' = Agents
        /\ UNCHANGED <<slot, convo, cut, clean, unseen, timedOut, tasks>>
    BY <1>7 DEF PreMark
  <2> HIDE DEF TypeOK
  <2> QED
    BY <2>1, MarkKeeps DEF Agents
<1>8. CASE DrainDone
  BY <1>8 DEF DrainDone, Unmark, Busy
<1>9. CASE DrainTimesOut
  <2>1. /\ phase = "draining" /\ phase' = "interrupting" /\ entry' = Mark(Agents) /\ timedOut'
        /\ UNCHANGED <<slot, convo, cut, clean, unseen, tasks>>
    BY <1>9 DEF DrainTimesOut
  <2> HIDE DEF TypeOK
  <2> QED
    BY <2>1, MarkKeeps DEF Agents
<1>10. CASE InterruptEnds
  BY <1>10 DEF InterruptEnds
<1>11. CASE Finish
  BY <1>11 DEF Finish, CutOff, LeaveTraces, Agents
<1>12. CASE Crash
  <2>1. /\ phase # "down" /\ phase' = "down" /\ slot' = [r \in Sessions |-> "free"] /\ ~clean
        /\ cut' = [r \in Sessions |-> IF r \in Agents THEN convo[r] ELSE cut[r]]
        /\ UNCHANGED <<entry, convo, clean, preDrain, timedOut>>
        /\ tasks' = {}
    BY <1>12 DEF Crash, CutOff
  <2>2. q \in Agents => Marked(q) \/ q \in unseen'
    <3>1. CASE phase \in {"connecting", "up", "notifying"}
      BY <1>12, <3>1 DEF Crash
    <3>2. CASE phase = "draining"
      BY <1>12, <3>2 DEF Crash, Agents
    <3>3. CASE phase \in {"interrupting", "closing"}
      BY <1>12, <3>3 DEF Crash, Agents
    <3> QED
      BY <2>1, <3>1, <3>2, <3>3 DEF Phases
  <2> QED
    BY <2>1, <2>2
<1>13. ASSUME NEW s \in Sessions, RunStartupResume(s) PROVE SessionInv(q)'
  <2>1. /\ phase # "down" /\ s \in tasks /\ tasks' = tasks \ {s}
        /\ UNCHANGED <<clean, unseen, preDrain, timedOut, phase>>
    BY <1>13 DEF RunStartupResume
  <2>2. CASE ResumeAndWait(s)
    <3>1. s = q => slot[q] = "sentinel"
      BY <2>1
    <3>2. slot' = slot /\ phase = "up" /\ GetOrCreate(s)
      BY <2>2 DEF ResumeAndWait
    <3> QED
      <4> HIDE DEF SessionInv, ProcessInv, TypeOK
      <4> QED
        BY <2>1, <3>1, <3>2, LookupKeeps
  <2>3. CASE ResumeLater(s)
    BY <2>1, <2>3 DEF ResumeLater
  <2> QED
    BY <1>13, <2>2, <2>3 DEF RunStartupResume
<1>14. ASSUME NEW s \in Sessions, Receive(s) PROVE SessionInv(q)'
  BY <1>14 DEF Receive
<1>15. ASSUME NEW s \in Sessions, StartTurn(s) PROVE SessionInv(q)'
  BY <1>15, ClaimKeeps DEF StartTurn
<1>16. ASSUME NEW s \in Sessions, RunParked(s) PROVE SessionInv(q)'
  <2>1. CASE Claim(s)
    BY <1>16, <2>1, ClaimKeeps DEF RunParked
  <2>2. CASE UNCHANGED <<entry, convo, age, cut, streak, slot>>
    BY <1>16, <2>2 DEF RunParked
  <2> QED
    BY <1>16, <2>1, <2>2 DEF RunParked
<1>17. ASSUME NEW s \in Sessions, Promote(s) PROVE SessionInv(q)'
  BY <1>17 DEF Promote
<1>18. ASSUME NEW s \in Sessions, TurnCompletes(s) PROVE SessionInv(q)'
  BY <1>18 DEF TurnCompletes, Release, Unmark
<1>19. ASSUME NEW s \in Sessions, TurnFails(s) PROVE SessionInv(q)'
  BY <1>19 DEF TurnFails, Release
<1>20. ASSUME NEW s \in Sessions, TurnInterrupted(s) PROVE SessionInv(q)'
  BY <1>20 DEF TurnInterrupted, Release
<1>21. ASSUME NEW s \in Sessions, Ages(s) PROVE SessionInv(q)'
  BY <1>21 DEF Ages
<1>22. ASSUME NEW s \in Sessions, Suspend(s) PROVE SessionInv(q)'
  <2>1. s # q => entry'[q] = entry[q]
    BY <1>22 DEF Suspend
  <2>2. s = q => entry'[q] # None /\ entry'[q].suspended
    <3>1. entry[s] \in Entry /\ entry' = [entry EXCEPT ![s] = [entry[s] EXCEPT !.suspended = TRUE]]
      BY <1>22 DEF Suspend
    <3>2. [entry[s] EXCEPT !.suspended = TRUE] # None /\ [entry[s] EXCEPT !.suspended = TRUE].suspended
      <4>1. [entry[s] EXCEPT !.suspended = TRUE] # None
        BY <3>1, Entries, ZenonT(60)
      <4>2. [entry[s] EXCEPT !.suspended = TRUE].suspended
        BY <3>1 DEF Entry
      <4> QED
        BY <4>1, <4>2
    <3> QED
      BY <3>1, <3>2
  <2> QED
    BY <1>22, <2>1, <2>2 DEF Suspend
<1>23. ASSUME NEW s \in Sessions, UserMoves(s) PROVE SessionInv(q)'
  BY <1>23 DEF UserMoves, NewConversation, FreshEntry
<1>24. ASSUME NEW s \in Sessions, Prune(s) PROVE SessionInv(q)'
  BY <1>24 DEF Prune
<1>25. ASSUME NEW p \in Platforms, ConnectPlatform(p) PROVE SessionInv(q)'
  BY <1>25 DEF ConnectPlatform
<1>26. ASSUME NEW p \in Platforms, PlatformDies(p) PROVE SessionInv(q)'
  BY <1>26 DEF PlatformDies
<1>27. ASSUME NEW p \in Platforms, Reconnected(p) PROVE SessionInv(q)'
  BY <1>27 DEF Reconnected, Watching, Schedule
<1>28. ASSUME NEW p \in Platforms, OperatorOrTimer(p) PROVE SessionInv(q)'
  BY <1>28 DEF OperatorOrTimer, Watching
<1>29. ASSUME NEW p \in Platforms, TimePasses(p) PROVE SessionInv(q)'
  BY <1>29 DEF TimePasses
<1>30. CASE UNCHANGED vars
  BY <1>30 DEF vars
<1> QED
  BY <1>1, <1>2, <1>3, <1>4, <1>5, <1>6, <1>7, <1>8, <1>9, <1>10, <1>11, <1>12, <1>13, <1>14, <1>15, <1>16, <1>17, <1>18, <1>19, <1>20, <1>21, <1>22, <1>23, <1>24, <1>25, <1>26, <1>27, <1>28, <1>29, <1>30 DEF Next, TurnEnds

\* RestartInv is inductive.
LEMMA RestartStep == ~FailWhileDraining /\ TypeOK /\ RestartInv /\ [Next]_vars => RestartInv'
<1> SUFFICES ASSUME ~FailWhileDraining, TypeOK, RestartInv, [Next]_vars PROVE RestartInv'
  OBVIOUS
<1>1. ProcessInv'
  BY ProcessStep DEF RestartInv
<1>2. ASSUME NEW q \in Sessions PROVE SessionInv(q)'
  BY SessionStep DEF RestartInv
<1> QED
  BY <1>1, <1>2 DEF RestartInv

\* If no resumed turn fails on its own while the gateway drains, the
\* conversation of a turn cut off by a stop, a timeout of the drain or a crash
\* is marked for resumption in the next process, and its session still points
\* at it (stop, start, SessionStore).
THEOREM CutConversationsAreKept == ~FailWhileDraining => (Spec => []CutIsResumable)
<1> SUFFICES ASSUME ~FailWhileDraining PROVE Spec => []CutIsResumable
  OBVIOUS
<1>1. Init => RestartInv
  BY DEF Init, RestartInv, ProcessInv, SessionInv, Alive
<1>2. TypeOK /\ RestartInv /\ [Next]_vars => RestartInv'
  BY RestartStep
<1>3. RestartInv => CutIsResumable
  BY DEF RestartInv, ProcessInv, SessionInv, Marked, CutIsResumable
<1> QED
  BY <1>1, <1>2, <1>3, TypeInit, TypeStep, PTL DEF Spec

-----------------------------------------------------------------------------
(* Processes. *)

\* A process that waits for a victim has one.
HasVictim == \A p \in Procs : pc[p] \in {"mark", "term", "wait"} => victim[p] \in Procs

Typed == ProcessTypeOK /\ HasVictim

\* The place of one process: who is past the claim holds the lock until its
\* stop task has given it back; adapters are connected by the start and by a
\* running gateway; and a gateway that was not told to stop early is stopped
\* when it is up, once.  What it had connected is disconnected before the lock
\* is given back, but for a reconnect that came late.
PlaceInv(p) ==
  /\ pc[p] \in {"locked", "discovering", "connecting", "up"} /\ stop[p] # "done" => lock = p
  /\ conn[p] => pc[p] \in {"connecting", "up"}
  /\ running[p] \/ p \in retrying \cup late => pc[p] = "up"
  /\ stop[p] # "none" => pc[p] \in Starting \cup {"up"}
  /\ p \notin early /\ stop[p] # "none" => pc[p] = "up" /\ ~running[p]
  /\ p \notin early \cup late /\ stop[p] \in {"closed", "unnamed", "done"} => ~conn[p]

\* A marker names a process that somebody meant to end.
MarkersMeant ==
  /\ takeover # Nobody => takeover \in asked
  /\ planned # Nobody => planned \in asked

\* So does whatever may let one process end with success.
MeantInv(p) ==
  /\ "INT" \in sig[p] => p \in asked
  /\ restart[p] = "detached" => p \in asked
  /\ stop[p] # "none" /\ ~unplanned[p] /\ restart[p] = "no" => p \in asked
  /\ pc[p] = "ok" => p \in asked

-----------------------------------------------------------------------------
\* The first call of stop() starts the stop task, the others change nothing.
LEMMA StopTypes ==
  ASSUME Typed, NEW p \in Procs, BeginStop(p)
  PROVE  /\ stop' \in [Procs -> {"none", "draining", "disconnecting", "closed", "unnamed", "done"}]
         /\ running' \in [Procs -> BOOLEAN]
         /\ early' \subseteq Procs
         /\ UNCHANGED <<pc, victim, conn, retrying, late, pidFile, lock>>
<1>1. CASE stop[p] = "none"
  <2>1. /\ stop' = [stop EXCEPT ![p] = "draining"]
        /\ running' = [running EXCEPT ![p] = FALSE]
        /\ early' = IF running[p] THEN early ELSE early \cup {p}
    BY <1>1 DEF BeginStop
  <2>2. stop' \in [Procs -> {"none", "draining", "disconnecting", "closed", "unnamed", "done"}]
    BY <2>1 DEF Typed, ProcessTypeOK
  <2>3. running' \in [Procs -> BOOLEAN]
    BY <2>1 DEF Typed, ProcessTypeOK
  <2>4. early' \subseteq Procs
    BY <2>1 DEF Typed, ProcessTypeOK
  <2> QED
    BY <2>2, <2>3, <2>4 DEF BeginStop
<1>2. CASE stop[p] # "none"
  BY <1>2 DEF BeginStop, Typed, ProcessTypeOK
<1> QED
  BY <1>1, <1>2

\* A process that returns keeps the types.
LEMMA ReturnTyped ==
  ASSUME Typed, NEW p \in Procs, Return(p, "failed"), UNCHANGED markers
  PROVE  Typed'
  BY ProcsAssumption DEF Typed, ProcessTypeOK, HasVictim, Return, Gone, Goto, Nobody, markers, Ended, Signals,
     Replacing

\* What the handler of a signal leaves behind.
LEMMA ShutdownTypes ==
  ASSUME Typed, NEW p \in Procs, NEW s, Shutdown(p, s)
  PROVE  /\ stop' \in [Procs -> {"none", "draining", "disconnecting", "closed", "unnamed", "done"}]
         /\ running' \in [Procs -> BOOLEAN]
         /\ unplanned' \in [Procs -> BOOLEAN]
         /\ takeover' \in Procs \cup {Nobody} /\ planned' \in Procs \cup {Nobody}
         /\ early' \subseteq Procs
         /\ UNCHANGED <<pc, victim, conn, retrying, late, restart, pidFile, lock>>
<1>1. BeginStop(p) /\ UNCHANGED restart
  BY DEF Shutdown
<1>2. unplanned' \in [Procs -> BOOLEAN]
  BY DEF Shutdown, Typed, ProcessTypeOK
<1>3. takeover' \in Procs \cup {Nobody} /\ planned' \in Procs \cup {Nobody}
  BY DEF Shutdown, Consumed, Names, Typed, ProcessTypeOK
<1> QED
  BY <1>1, <1>2, <1>3, StopTypes

\* What a request for a restart leaves behind.
LEMMA RestartTypes ==
  ASSUME Typed, NEW p \in Procs, NEW how \in {"service", "detached"}, RequestRestart(p, how)
  PROVE  /\ stop' \in [Procs -> {"none", "draining", "disconnecting", "closed", "unnamed", "done"}]
         /\ running' \in [Procs -> BOOLEAN]
         /\ restart' \in [Procs -> {"no", "service", "detached"}]
         /\ early' \subseteq Procs
         /\ UNCHANGED <<pc, victim, conn, retrying, late, unplanned, pidFile, lock, markers>>
<1>1. CASE restart[p] = "no"
  <2>1. BeginStop(p) /\ restart' = [restart EXCEPT ![p] = how] /\ UNCHANGED <<unplanned, markers>>
    BY <1>1 DEF RequestRestart
  <2> QED
    BY <2>1, StopTypes DEF Typed, ProcessTypeOK
<1>2. CASE restart[p] # "no"
  BY <1>2 DEF RequestRestart, Typed, ProcessTypeOK
<1> QED
  BY <1>1, <1>2

\* Every step keeps the types.
LEMMA TypedStep ==
  ASSUME Typed, [ProcessNext]_processVars
  PROVE  Typed'
<1>1. ASSUME NEW p \in Procs, Launch(p) PROVE Typed'
  BY <1>1, ProcsAssumption DEF Typed, HasVictim, ProcessTypeOK, Signals, Nobody, Replacing, Claiming,
     Starting, Ended, Launch, Goto, RunningPid, Lives, stopVars, markers, processHistory
<1>2. ASSUME NEW p \in Procs, MarkTakeover(p) PROVE Typed'
  BY <1>2, ProcsAssumption DEF Typed, HasVictim, ProcessTypeOK, Signals, Nobody, Replacing, Claiming,
     Starting, Ended, MarkTakeover, Goto, stopVars
<1>3. ASSUME NEW p \in Procs, Terminate(p) PROVE Typed'
  BY <1>3, ProcsAssumption DEF Typed, HasVictim, ProcessTypeOK, Signals, Nobody, Replacing, Claiming,
     Starting, Ended, Terminate, Goto, Lives, stopVars, markers, processHistory
<1>4. ASSUME NEW p \in Procs, GiveUp(p) PROVE Typed'
  BY <1>4, ProcsAssumption DEF Typed, HasVictim, ProcessTypeOK, Signals, Nobody, Replacing, Claiming,
     Starting, Ended, GiveUp, Return, Lives, Gone, Goto
<1>5. ASSUME NEW p \in Procs, VictimGone(p) PROVE Typed'
  BY <1>5, ProcsAssumption DEF Typed, HasVictim, ProcessTypeOK, Signals, Nobody, Replacing, Claiming,
     Starting, Ended, VictimGone, Goto, Lives, stopVars, markers, processHistory
<1>6. ASSUME NEW p \in Procs, Escalate(p) PROVE Typed'
  BY <1>6, ProcsAssumption DEF Typed, HasVictim, ProcessTypeOK, Signals, Nobody, Replacing, Claiming,
     Starting, Ended, Escalate, Gone, Lives, Goto, markers
<1>7. ASSUME NEW p \in Procs, CleanUp(p) PROVE Typed'
  BY <1>7, ProcsAssumption DEF Typed, HasVictim, ProcessTypeOK, Signals, Nobody, Replacing, Claiming,
     Starting, Ended, CleanUp, Goto, stopVars, processHistory
<1>8. ASSUME NEW p \in Procs, CheckAgain(p) PROVE Typed'
  <2>1. CASE RunningPid \in {Nobody, p}
    <3>1. /\ Goto(p, "checked") /\ pidFile' = RunningPid
          /\ UNCHANGED <<victim, stopVars, poll, sig, lock, markers, processHistory>>
      BY <1>8, <2>1 DEF CheckAgain
    <3> QED
      BY <3>1, ProcsAssumption DEF Typed, ProcessTypeOK, HasVictim, Goto, Nobody, markers, processHistory, stopVars, Claiming, Starting, RunningPid
  <2>2. CASE RunningPid \notin {Nobody, p}
    <3>1. Return(p, "failed") /\ UNCHANGED markers
      BY <1>8, <2>2 DEF CheckAgain
    <3> QED
      BY <3>1, ReturnTyped
  <2> QED
    BY <2>1, <2>2
<1>9. ASSUME NEW p \in Procs, AcquireLock(p) PROVE Typed'
  <2>1. CASE lock = Nobody
    <3>1. /\ Goto(p, "locked") /\ lock' = p
          /\ UNCHANGED <<victim, stopVars, poll, sig, pidFile, markers, processHistory>>
      BY <1>9, <2>1 DEF AcquireLock
    <3> QED
      BY <3>1, ProcsAssumption DEF Typed, ProcessTypeOK, HasVictim, Goto, Nobody, markers, processHistory, stopVars, Claiming, Starting, RunningPid
  <2>2. CASE lock # Nobody
    <3>1. Return(p, "failed") /\ UNCHANGED markers
      BY <1>9, <2>2 DEF AcquireLock
    <3> QED
      BY <3>1, ReturnTyped
  <2> QED
    BY <2>1, <2>2
<1>10. ASSUME NEW p \in Procs, WritePidFile(p) PROVE Typed'
  <2>1. CASE pidFile = Nobody
    <3>1. /\ Goto(p, "discovering") /\ pidFile' = p
          /\ UNCHANGED <<victim, stopVars, poll, sig, lock, markers, processHistory>>
      BY <1>10, <2>1 DEF WritePidFile
    <3> QED
      BY <3>1, ProcsAssumption DEF Typed, ProcessTypeOK, HasVictim, Goto, Nobody, markers, processHistory, stopVars, Claiming, Starting, RunningPid
  <2>2. CASE pidFile # Nobody
    <3>1. Return(p, "failed") /\ UNCHANGED markers
      BY <1>10, <2>2 DEF WritePidFile
    <3> QED
      BY <3>1, ReturnTyped
  <2> QED
    BY <2>1, <2>2
<1>11. ASSUME NEW p \in Procs, Discovered(p) PROVE Typed'
  BY <1>11, ProcsAssumption DEF Typed, HasVictim, ProcessTypeOK, Signals, Nobody, Replacing, Claiming,
     Starting, Ended, Discovered, Goto, AtAwait, stopVars, markers, processHistory
<1>12. ASSUME NEW p \in Procs, Connect(p) PROVE Typed'
  BY <1>12, ProcsAssumption DEF Typed, HasVictim, ProcessTypeOK, Signals, Nobody, Replacing, Claiming,
     Starting, Ended, Connect, AtAwait, markers, processHistory
<1>13. ASSUME NEW p \in Procs, FatalConfig(p) PROVE Typed'
  BY <1>13, ProcsAssumption DEF Typed, HasVictim, ProcessTypeOK, Signals, Nobody, Replacing, Claiming,
     Starting, Ended, FatalConfig, Return, AtAwait, Gone, Goto, markers
<1>14. ASSUME NEW p \in Procs, Started(p) PROVE Typed'
  BY <1>14, ProcsAssumption DEF Typed, HasVictim, ProcessTypeOK, Signals, Nobody, Replacing, Claiming,
     Starting, Ended, Started, Goto, AtAwait, markers, processHistory
<1>15. ASSUME NEW p \in Procs, Exit(p) PROVE Typed'
  BY <1>15, ProcsAssumption DEF Typed, HasVictim, ProcessTypeOK, Signals, Nobody, Replacing, Claiming,
     Starting, Ended, Exit, Return, AtAwait, ShutdownSet, ExitStatus, Gone, Goto, markers
<1>16. ASSUME NEW p \in Procs, HandleSignal(p) PROVE Typed'
  <2> PICK s \in sig[p] :
         /\ sig' = [sig EXCEPT ![p] = @ \ {s}]
         /\ IF s = "USR1" THEN RequestRestart(p, "service") ELSE Shutdown(p, s)
    BY <1>16 DEF HandleSignal
  <2>1. CASE s = "USR1"
    BY <1>16, <2>1, RestartTypes, ProcsAssumption DEF Typed, HasVictim, ProcessTypeOK, Signals, Nobody, Replacing, Claiming, Starting, Ended, HandleSignal, AtAwait, markers
  <2>2. CASE s # "USR1"
    BY <1>16, <2>2, ShutdownTypes, ProcsAssumption DEF Typed, HasVictim, ProcessTypeOK, Signals, Nobody, Replacing, Claiming, Starting, Ended, HandleSignal, AtAwait, markers
  <2> QED
    BY <2>1, <2>2
<1>17. ASSUME NEW p \in Procs, Watch(p) PROVE Typed'
  BY <1>17, ProcsAssumption DEF Typed, HasVictim, ProcessTypeOK, Signals, Nobody, Replacing, Claiming,
     Starting, Ended, Watch, Names, Lives, stopVars, processHistory
<1>18. ASSUME NEW p \in Procs, HandleWatch(p) PROVE Typed'
  BY <1>18, ShutdownTypes, ProcsAssumption DEF Typed, HasVictim, ProcessTypeOK, Signals, Nobody, Replacing,
     Claiming, Starting, Ended, HandleWatch, AtAwait
<1>19. ASSUME NEW p \in Procs, InChatRestart(p) PROVE Typed'
  BY <1>19, RestartTypes, ProcsAssumption DEF Typed, HasVictim, ProcessTypeOK, Signals, Nobody, Replacing,
     Claiming, Starting, Ended, InChatRestart, Acts, markers
<1>20. ASSUME NEW p \in Procs, LastPlatformLost(p) PROVE Typed'
  <2>1. stop' \in [Procs -> {"none", "draining", "disconnecting", "closed", "unnamed", "done"}]
    <3>1. CASE stop[p] = "none"
      <4>1. stop' = [stop EXCEPT ![p] = "draining"]
        BY <1>20, <3>1 DEF LastPlatformLost
      <4> QED
        BY <4>1 DEF Typed, ProcessTypeOK
    <3>2. CASE stop[p] # "none"
      BY <1>20, <3>2 DEF LastPlatformLost, Typed, ProcessTypeOK
    <3> QED
      BY <3>1, <3>2
  <2>2. running' \in [Procs -> BOOLEAN]
    <3>1. CASE stop[p] = "none"
      <4>1. running' = [running EXCEPT ![p] = FALSE]
        BY <1>20, <3>1 DEF LastPlatformLost
      <4> QED
        BY <4>1 DEF Typed, ProcessTypeOK
    <3>2. CASE stop[p] # "none"
      BY <1>20, <3>2 DEF LastPlatformLost, Typed, ProcessTypeOK
    <3> QED
      BY <3>1, <3>2
  <2>3. /\ conn' = [conn EXCEPT ![p] = FALSE] /\ asked' = asked \cup {p}
        /\ calls < MaxCalls /\ calls' = calls + 1
        /\ UNCHANGED <<pc, victim, retrying, restart, unplanned, poll, sig, pidFile, lock, markers, early, late>>
    BY <1>20 DEF LastPlatformLost, Acts
  <2> QED
    BY <2>1, <2>2, <2>3, ProcsAssumption DEF Typed, ProcessTypeOK, HasVictim, markers
<1>21. ASSUME NEW p \in Procs, Drain(p) PROVE Typed'
  BY <1>21, ProcsAssumption DEF Typed, HasVictim, ProcessTypeOK, Signals, Nobody, Replacing, Claiming,
     Starting, Ended, Drain, Lives, markers, processHistory
<1>22. ASSUME NEW p \in Procs, RemovePidFile(p) PROVE Typed'
  BY <1>22, ProcsAssumption DEF Typed, HasVictim, ProcessTypeOK, Signals, Nobody, Replacing, Claiming,
     Starting, Ended, RemovePidFile, Lives, markers, processHistory
<1>23. ASSUME NEW p \in Procs, ReleaseLock(p) PROVE Typed'
  BY <1>23, ProcsAssumption DEF Typed, HasVictim, ProcessTypeOK, Signals, Nobody, Replacing, Claiming,
     Starting, Ended, ReleaseLock, Lives, markers, processHistory
<1>24. ASSUME NEW p \in Procs, AskToStop(p) PROVE Typed'
  BY <1>24, ProcsAssumption DEF Typed, HasVictim, ProcessTypeOK, Signals, Nobody, Replacing, Claiming,
     Starting, Ended, AskToStop, Acts, RunningPid, Lives, stopVars
<1>25. ASSUME NEW p \in Procs, NEW s \in Signals, Signal(p, s) PROVE Typed'
  <2>1. CASE pc[p] \in Replacing
    <3>1. Gone(p, "killed") /\ UNCHANGED <<pidFile, markers>> /\ Acts
      BY <1>25, <2>1 DEF Signal
    <3> QED
      BY <3>1, ProcsAssumption DEF Typed, ProcessTypeOK, HasVictim, Gone, Goto, Nobody, Acts, markers, Ended, Signals, Replacing
  <2>2. CASE pc[p] \notin Replacing
    BY <1>25, <2>2, ProcsAssumption DEF Typed, HasVictim, ProcessTypeOK, Signals, Nobody, Replacing, Claiming, Starting, Ended, Signal, Gone, Acts, Lives, Goto, stopVars, markers
  <2> QED
    BY <2>1, <2>2
<1>26. ASSUME NEW p \in Procs, Kill(p) PROVE Typed'
  BY <1>26, ProcsAssumption DEF Typed, HasVictim, ProcessTypeOK, Signals, Nobody, Replacing, Claiming,
     Starting, Ended, Kill, Gone, Acts, Lives, Goto, markers
<1>27. ASSUME NEW p \in Procs, BeginReconnect(p) PROVE Typed'
  BY <1>27, ProcsAssumption DEF Typed, HasVictim, ProcessTypeOK, Signals, Nobody, Replacing, Claiming,
     Starting, Ended, BeginReconnect, Acts, AtAwait, markers
<1>28. ASSUME NEW p \in Procs, EndReconnect(p) PROVE Typed'
  BY <1>28, ProcsAssumption DEF Typed, HasVictim, ProcessTypeOK, Signals, Nobody, Replacing, Claiming,
     Starting, Ended, EndReconnect, AtAwait, markers, processHistory
<1>29. ASSUME NEW p \in Procs, Disconnect(p) PROVE Typed'
  BY <1>29, ProcsAssumption DEF Typed, HasVictim, ProcessTypeOK, Signals, Nobody, Replacing, Claiming,
     Starting, Ended, Disconnect, Lives, markers, processHistory
<1>30. CASE UNCHANGED processVars
  BY <1>30 DEF Typed, HasVictim, ProcessTypeOK, Signals, Nobody, Replacing, Claiming, Starting, Ended,
     processVars, stopVars, markers, processHistory
<1> QED
  BY <1>1, <1>2, <1>3, <1>4, <1>5, <1>6, <1>7, <1>8, <1>9, <1>10, <1>11, <1>12, <1>13, <1>14, <1>15, <1>16, <1>17, <1>18, <1>19, <1>20, <1>21, <1>22, <1>23, <1>24, <1>25, <1>26, <1>27, <1>28, <1>29, <1>30 DEF
     ProcessNext, Main, StopTask, Loop, Outside

\* Every step keeps the place of every process.
LEMMA PlaceStep ==
  ASSUME Typed, \A r \in Procs : PlaceInv(r), NEW q \in Procs, [ProcessNext]_processVars
  PROVE  PlaceInv(q)'
<1>1. ASSUME NEW p \in Procs, Launch(p) PROVE PlaceInv(q)'
  BY <1>1 DEF Typed, ProcessTypeOK, PlaceInv, Starting, Nobody, Launch, Goto, RunningPid, Lives, stopVars,
     markers, processHistory
<1>2. ASSUME NEW p \in Procs, MarkTakeover(p) PROVE PlaceInv(q)'
  BY <1>2 DEF Typed, ProcessTypeOK, PlaceInv, Starting, Nobody, MarkTakeover, Goto, stopVars
<1>3. ASSUME NEW p \in Procs, Terminate(p) PROVE PlaceInv(q)'
  BY <1>3 DEF Typed, ProcessTypeOK, PlaceInv, Starting, Nobody, Terminate, Goto, Lives, stopVars, markers, processHistory
<1>4. ASSUME NEW p \in Procs, GiveUp(p) PROVE PlaceInv(q)'
  BY <1>4 DEF Typed, ProcessTypeOK, PlaceInv, Starting, Nobody, GiveUp, Return, Lives, Gone, Goto
<1>5. ASSUME NEW p \in Procs, VictimGone(p) PROVE PlaceInv(q)'
  BY <1>5 DEF Typed, ProcessTypeOK, PlaceInv, Starting, Nobody, VictimGone, Goto, Lives, stopVars, markers, processHistory
<1>6. ASSUME NEW p \in Procs, Escalate(p) PROVE PlaceInv(q)'
  BY <1>6 DEF Typed, ProcessTypeOK, PlaceInv, Starting, Nobody, Escalate, Gone, Lives, Goto, markers
<1>7. ASSUME NEW p \in Procs, CleanUp(p) PROVE PlaceInv(q)'
  BY <1>7 DEF Typed, ProcessTypeOK, PlaceInv, Starting, Nobody, CleanUp, Goto, stopVars, processHistory
<1>8. ASSUME NEW p \in Procs, CheckAgain(p) PROVE PlaceInv(q)'
  BY <1>8 DEF Typed, ProcessTypeOK, PlaceInv, Starting, Nobody, CheckAgain, Goto, Return, RunningPid,
     Lives, Gone, stopVars, markers, processHistory
<1>9. ASSUME NEW p \in Procs, AcquireLock(p) PROVE PlaceInv(q)'
  <2>1. CASE lock = Nobody
    <3>1. pc[p] = "checked" /\ Goto(p, "locked") /\ lock' = p /\ UNCHANGED <<stopVars, processHistory>>
      BY <1>9, <2>1 DEF AcquireLock
    <3>2. CASE q = p
      BY <3>1, <3>2 DEF Typed, ProcessTypeOK, PlaceInv, Goto, Starting, stopVars, processHistory
    <3>3. CASE q # p
      BY <2>1, <3>1, <3>3 DEF Typed, ProcessTypeOK, PlaceInv, Goto, Starting, Nobody, Procs, stopVars, processHistory
    <3> QED
      BY <3>2, <3>3
  <2>2. CASE lock # Nobody
    BY <1>9, <2>2 DEF Typed, ProcessTypeOK, PlaceInv, Starting, Nobody, AcquireLock, Goto, Return, Gone, stopVars, markers, processHistory
  <2> QED
    BY <2>1, <2>2
<1>10. ASSUME NEW p \in Procs, WritePidFile(p) PROVE PlaceInv(q)'
  BY <1>10 DEF Typed, ProcessTypeOK, PlaceInv, Starting, Nobody, WritePidFile, Goto, Return, Gone,
     stopVars, markers, processHistory
<1>11. ASSUME NEW p \in Procs, Discovered(p) PROVE PlaceInv(q)'
  BY <1>11 DEF Typed, ProcessTypeOK, PlaceInv, Starting, Nobody, Discovered, Goto, AtAwait, stopVars,
     markers, processHistory
<1>12. ASSUME NEW p \in Procs, Connect(p) PROVE PlaceInv(q)'
  BY <1>12 DEF Typed, ProcessTypeOK, PlaceInv, Starting, Nobody, Connect, AtAwait, markers, processHistory
<1>13. ASSUME NEW p \in Procs, FatalConfig(p) PROVE PlaceInv(q)'
  BY <1>13 DEF Typed, ProcessTypeOK, PlaceInv, Starting, Nobody, FatalConfig, Return, AtAwait, Gone, Goto, markers
<1>14. ASSUME NEW p \in Procs, Started(p) PROVE PlaceInv(q)'
  BY <1>14 DEF Typed, ProcessTypeOK, PlaceInv, Starting, Nobody, Started, Goto, AtAwait, markers, processHistory
<1>15. ASSUME NEW p \in Procs, Exit(p) PROVE PlaceInv(q)'
  BY <1>15 DEF Typed, ProcessTypeOK, PlaceInv, Starting, Nobody, Exit, Return, AtAwait, ShutdownSet,
     ExitStatus, Gone, Goto, markers
<1>16. ASSUME NEW p \in Procs, HandleSignal(p) PROVE PlaceInv(q)'
  BY <1>16 DEF Typed, ProcessTypeOK, PlaceInv, Starting, Nobody, HandleSignal, Shutdown, RequestRestart,
     AtAwait, BeginStop, Consumed, Names, markers
<1>17. ASSUME NEW p \in Procs, Watch(p) PROVE PlaceInv(q)'
  BY <1>17 DEF Typed, ProcessTypeOK, PlaceInv, Starting, Nobody, Watch, Names, Lives, stopVars, processHistory
<1>18. ASSUME NEW p \in Procs, HandleWatch(p) PROVE PlaceInv(q)'
  BY <1>18 DEF Typed, ProcessTypeOK, PlaceInv, Starting, Nobody, HandleWatch, Shutdown, AtAwait, BeginStop,
     Consumed, Names
<1>19. ASSUME NEW p \in Procs, InChatRestart(p) PROVE PlaceInv(q)'
  BY <1>19 DEF Typed, ProcessTypeOK, PlaceInv, Starting, Nobody, InChatRestart, Acts, RequestRestart,
     BeginStop, markers
<1>20. ASSUME NEW p \in Procs, LastPlatformLost(p) PROVE PlaceInv(q)'
  BY <1>20 DEF Typed, ProcessTypeOK, PlaceInv, Starting, Nobody, LastPlatformLost, Acts, AtAwait, markers
<1>21. ASSUME NEW p \in Procs, Drain(p) PROVE PlaceInv(q)'
  BY <1>21 DEF Typed, ProcessTypeOK, PlaceInv, Starting, Nobody, Drain, Lives, markers, processHistory
<1>22. ASSUME NEW p \in Procs, RemovePidFile(p) PROVE PlaceInv(q)'
  BY <1>22 DEF Typed, ProcessTypeOK, PlaceInv, Starting, Nobody, RemovePidFile, Lives, markers, processHistory
<1>23. ASSUME NEW p \in Procs, ReleaseLock(p) PROVE PlaceInv(q)'
  BY <1>23 DEF Typed, ProcessTypeOK, PlaceInv, Starting, Nobody, ReleaseLock, Lives, markers, processHistory
<1>24. ASSUME NEW p \in Procs, AskToStop(p) PROVE PlaceInv(q)'
  BY <1>24 DEF Typed, ProcessTypeOK, PlaceInv, Starting, Nobody, AskToStop, Acts, RunningPid, Lives, stopVars
<1>25. ASSUME NEW p \in Procs, NEW s \in Signals, Signal(p, s) PROVE PlaceInv(q)'
  BY <1>25 DEF Typed, ProcessTypeOK, PlaceInv, Starting, Nobody, Signal, Gone, Acts, Lives, Goto, stopVars, markers
<1>26. ASSUME NEW p \in Procs, Kill(p) PROVE PlaceInv(q)'
  BY <1>26 DEF Typed, ProcessTypeOK, PlaceInv, Starting, Nobody, Kill, Gone, Acts, Lives, Goto, markers
<1>27. ASSUME NEW p \in Procs, BeginReconnect(p) PROVE PlaceInv(q)'
  BY <1>27 DEF Typed, ProcessTypeOK, PlaceInv, Starting, Nobody, BeginReconnect,
     Acts, AtAwait, markers
<1>28. ASSUME NEW p \in Procs, EndReconnect(p) PROVE PlaceInv(q)'
  BY <1>28 DEF Typed, ProcessTypeOK, PlaceInv, Starting, Nobody, EndReconnect,
     AtAwait, markers, processHistory
<1>29. ASSUME NEW p \in Procs, Disconnect(p) PROVE PlaceInv(q)'
  <2>1. /\ stop[p] = "disconnecting"
        /\ stop' = [stop EXCEPT ![p] = "closed"] /\ conn' = [conn EXCEPT ![p] = p \in late]
        /\ UNCHANGED <<pc, running, retrying, lock, early, late>>
    BY <1>29 DEF Disconnect, processHistory
  <2>2. CASE q = p
    <3>1. stop'[p] = "closed" /\ (conn'[p] => p \in late)
      BY <2>1, <2>2 DEF Typed, ProcessTypeOK
    <3>2. conn'[p] => pc[p] \in {"connecting", "up"}
      BY <2>1, <2>2, <3>1 DEF PlaceInv
    <3> QED
      BY <2>1, <2>2, <3>1, <3>2 DEF PlaceInv, Starting
  <2>3. CASE q # p
    BY <2>1, <2>3 DEF PlaceInv, Typed, ProcessTypeOK
  <2> QED
    BY <2>2, <2>3
<1>30. CASE UNCHANGED processVars
  BY <1>30 DEF Typed, ProcessTypeOK, PlaceInv, Starting, Nobody, processVars, stopVars, markers, processHistory
<1> QED
  BY <1>1, <1>2, <1>3, <1>4, <1>5, <1>6, <1>7, <1>8, <1>9, <1>10, <1>11, <1>12, <1>13, <1>14, <1>15, <1>16, <1>17, <1>18, <1>19, <1>20, <1>21, <1>22, <1>23, <1>24, <1>25, <1>26, <1>27, <1>28, <1>29, <1>30 DEF
     ProcessNext, Main, StopTask, Loop, Outside

\* Every step keeps the markers meant.
LEMMA MarkersStep ==
  ASSUME Typed, MarkersMeant, [ProcessNext]_processVars
  PROVE  MarkersMeant'
<1>1. ASSUME NEW p \in Procs, Launch(p) PROVE MarkersMeant'
  BY <1>1 DEF Typed, HasVictim, ProcessTypeOK, MarkersMeant, Nobody, Launch, Goto, RunningPid, Lives,
     stopVars, markers, processHistory
<1>2. ASSUME NEW p \in Procs, MarkTakeover(p) PROVE MarkersMeant'
  BY <1>2 DEF Typed, HasVictim, ProcessTypeOK, MarkersMeant, Nobody, MarkTakeover, Goto, stopVars
<1>3. ASSUME NEW p \in Procs, Terminate(p) PROVE MarkersMeant'
  BY <1>3 DEF Typed, HasVictim, ProcessTypeOK, MarkersMeant, Nobody, Terminate, Goto, Lives, stopVars,
     markers, processHistory
<1>4. ASSUME NEW p \in Procs, GiveUp(p) PROVE MarkersMeant'
  BY <1>4 DEF Typed, HasVictim, ProcessTypeOK, MarkersMeant, Nobody, GiveUp, Return, Lives, Gone, Goto
<1>5. ASSUME NEW p \in Procs, VictimGone(p) PROVE MarkersMeant'
  BY <1>5 DEF Typed, HasVictim, ProcessTypeOK, MarkersMeant, Nobody, VictimGone, Goto, Lives, stopVars,
     markers, processHistory
<1>6. ASSUME NEW p \in Procs, Escalate(p) PROVE MarkersMeant'
  BY <1>6 DEF Typed, HasVictim, ProcessTypeOK, MarkersMeant, Nobody, Escalate, Gone, Lives, Goto, markers
<1>7. ASSUME NEW p \in Procs, CleanUp(p) PROVE MarkersMeant'
  BY <1>7 DEF Typed, HasVictim, ProcessTypeOK, MarkersMeant, Nobody, CleanUp, Goto, stopVars, processHistory
<1>8. ASSUME NEW p \in Procs, CheckAgain(p) PROVE MarkersMeant'
  BY <1>8 DEF Typed, HasVictim, ProcessTypeOK, MarkersMeant, Nobody, CheckAgain, Goto, Return, RunningPid,
     Lives, Gone, stopVars, markers, processHistory
<1>9. ASSUME NEW p \in Procs, AcquireLock(p) PROVE MarkersMeant'
  BY <1>9 DEF Typed, HasVictim, ProcessTypeOK, MarkersMeant, Nobody, AcquireLock, Goto, Return, Gone,
     stopVars, markers, processHistory
<1>10. ASSUME NEW p \in Procs, WritePidFile(p) PROVE MarkersMeant'
  BY <1>10 DEF Typed, HasVictim, ProcessTypeOK, MarkersMeant, Nobody, WritePidFile, Goto, Return, Gone,
     stopVars, markers, processHistory
<1>11. ASSUME NEW p \in Procs, Discovered(p) PROVE MarkersMeant'
  BY <1>11 DEF Typed, HasVictim, ProcessTypeOK, MarkersMeant, Nobody, Discovered, Goto, AtAwait, stopVars,
     markers, processHistory
<1>12. ASSUME NEW p \in Procs, Connect(p) PROVE MarkersMeant'
  BY <1>12 DEF Typed, HasVictim, ProcessTypeOK, MarkersMeant, Nobody, Connect, AtAwait, markers, processHistory
<1>13. ASSUME NEW p \in Procs, FatalConfig(p) PROVE MarkersMeant'
  BY <1>13 DEF Typed, HasVictim, ProcessTypeOK, MarkersMeant, Nobody, FatalConfig, Return, AtAwait, Gone,
     Goto, markers
<1>14. ASSUME NEW p \in Procs, Started(p) PROVE MarkersMeant'
  BY <1>14 DEF Typed, HasVictim, ProcessTypeOK, MarkersMeant, Nobody, Started, Goto, AtAwait, markers, processHistory
<1>15. ASSUME NEW p \in Procs, Exit(p) PROVE MarkersMeant'
  BY <1>15 DEF Typed, HasVictim, ProcessTypeOK, MarkersMeant, Nobody, Exit, Return, AtAwait, ShutdownSet,
     ExitStatus, Gone, Goto, markers
<1>16. ASSUME NEW p \in Procs, HandleSignal(p) PROVE MarkersMeant'
  BY <1>16 DEF Typed, HasVictim, ProcessTypeOK, MarkersMeant, Nobody, HandleSignal, Shutdown,
     RequestRestart, AtAwait, BeginStop, Consumed, Names, markers
<1>17. ASSUME NEW p \in Procs, Watch(p) PROVE MarkersMeant'
  BY <1>17 DEF Typed, HasVictim, ProcessTypeOK, MarkersMeant, Nobody, Watch, Names, Lives, stopVars, processHistory
<1>18. ASSUME NEW p \in Procs, HandleWatch(p) PROVE MarkersMeant'
  BY <1>18 DEF Typed, HasVictim, ProcessTypeOK, MarkersMeant, Nobody, HandleWatch, Shutdown, AtAwait,
     BeginStop, Consumed, Names
<1>19. ASSUME NEW p \in Procs, InChatRestart(p) PROVE MarkersMeant'
  BY <1>19 DEF Typed, HasVictim, ProcessTypeOK, MarkersMeant, Nobody, InChatRestart, Acts, RequestRestart,
     BeginStop, markers
<1>20. ASSUME NEW p \in Procs, LastPlatformLost(p) PROVE MarkersMeant'
  BY <1>20 DEF Typed, HasVictim, ProcessTypeOK, MarkersMeant, Nobody, LastPlatformLost, Acts, AtAwait, markers
<1>21. ASSUME NEW p \in Procs, Drain(p) PROVE MarkersMeant'
  BY <1>21 DEF Typed, HasVictim, ProcessTypeOK, MarkersMeant, Nobody, Drain, Lives, markers, processHistory
<1>22. ASSUME NEW p \in Procs, RemovePidFile(p) PROVE MarkersMeant'
  BY <1>22 DEF Typed, HasVictim, ProcessTypeOK, MarkersMeant, Nobody, RemovePidFile, Lives, markers, processHistory
<1>23. ASSUME NEW p \in Procs, ReleaseLock(p) PROVE MarkersMeant'
  BY <1>23 DEF Typed, HasVictim, ProcessTypeOK, MarkersMeant, Nobody, ReleaseLock, Lives, markers, processHistory
<1>24. ASSUME NEW p \in Procs, AskToStop(p) PROVE MarkersMeant'
  BY <1>24 DEF Typed, HasVictim, ProcessTypeOK, MarkersMeant, Nobody, AskToStop, Acts, RunningPid, Lives, stopVars
<1>25. ASSUME NEW p \in Procs, NEW s \in Signals, Signal(p, s) PROVE MarkersMeant'
  BY <1>25 DEF Typed, HasVictim, ProcessTypeOK, MarkersMeant, Nobody, Signal, Gone, Acts, Lives, Goto,
     stopVars, markers
<1>26. ASSUME NEW p \in Procs, Kill(p) PROVE MarkersMeant'
  BY <1>26 DEF Typed, HasVictim, ProcessTypeOK, MarkersMeant, Nobody, Kill, Gone, Acts, Lives, Goto, markers
<1>27. ASSUME NEW p \in Procs, BeginReconnect(p) PROVE MarkersMeant'
  BY <1>27 DEF Typed, HasVictim, ProcessTypeOK, MarkersMeant, Nobody, BeginReconnect,
     Acts, AtAwait, markers
<1>28. ASSUME NEW p \in Procs, EndReconnect(p) PROVE MarkersMeant'
  BY <1>28 DEF Typed, HasVictim, ProcessTypeOK, MarkersMeant, Nobody, EndReconnect,
     AtAwait, markers, processHistory
<1>29. ASSUME NEW p \in Procs, Disconnect(p) PROVE MarkersMeant'
  BY <1>29 DEF Typed, HasVictim, ProcessTypeOK, MarkersMeant, Nobody, Disconnect,
     Lives, markers, processHistory
<1>30. CASE UNCHANGED processVars
  BY <1>30 DEF Typed, HasVictim, ProcessTypeOK, MarkersMeant, Nobody, processVars, stopVars, markers, processHistory
<1> QED
  BY <1>1, <1>2, <1>3, <1>4, <1>5, <1>6, <1>7, <1>8, <1>9, <1>10, <1>11, <1>12, <1>13, <1>14, <1>15, <1>16, <1>17, <1>18, <1>19, <1>20, <1>21, <1>22, <1>23, <1>24, <1>25, <1>26, <1>27, <1>28, <1>29, <1>30 DEF
     ProcessNext, Main, StopTask, Loop, Outside

\* A handler that finds the stop planned has found a reason why it is meant.
LEMMA ShutdownMeant ==
  ASSUME Typed, MarkersMeant, NEW q \in Procs, MeantInv(q), NEW p \in Procs, NEW s,
         Shutdown(p, s), s = "INT" => s \in sig[p], MeantInv(p),
         \A r \in Procs : sig'[r] \subseteq sig[r], UNCHANGED asked
  PROVE  MeantInv(q)'
<1>1. pc' = pc /\ restart' = restart
  BY DEF Shutdown, BeginStop
<1>2. CASE q # p
  <2>1. stop'[q] = stop[q] /\ unplanned'[q] = unplanned[q]
    <3>1. CASE stop[p] = "none"
      BY <1>2, <3>1 DEF Shutdown, BeginStop, Typed, ProcessTypeOK
    <3>2. CASE stop[p] # "none"
      BY <1>2, <3>2 DEF Shutdown, BeginStop, Typed, ProcessTypeOK
    <3> QED
      BY <3>1, <3>2
  <2> QED
    BY <1>1, <2>1 DEF MeantInv
<1>3. CASE q = p
  <2>1. unplanned'[p] = (unplanned[p] \/ ~(s = "INT" \/ takeover = p \/ planned = p))
    BY DEF Shutdown, Names, Typed, ProcessTypeOK
  <2>2. ~unplanned'[p] => p \in asked
    <3> SUFFICES ASSUME ~unplanned'[p] PROVE p \in asked
      OBVIOUS
    <3>1. s = "INT" \/ takeover = p \/ planned = p
      BY <2>1
    <3>2. p # Nobody
      BY DEF Procs, Nobody
    <3> QED
      BY <3>1, <3>2 DEF MarkersMeant, MeantInv
  <2> QED
    BY <1>1, <1>3, <2>2 DEF MeantInv
<1> QED
  BY <1>2, <1>3

\* Every step keeps what lets a process end with success.
LEMMA MeantStep ==
  ASSUME Typed, MarkersMeant, \A r \in Procs : PlaceInv(r) /\ MeantInv(r), NEW q \in Procs, [ProcessNext]_processVars
  PROVE  MeantInv(q)'
<1>1. ASSUME NEW p \in Procs, Launch(p) PROVE MeantInv(q)'
  BY <1>1 DEF Typed, ProcessTypeOK, PlaceInv, MarkersMeant, MeantInv, Starting, Nobody, Launch, Goto,
     RunningPid, Lives, stopVars, markers, processHistory
<1>2. ASSUME NEW p \in Procs, MarkTakeover(p) PROVE MeantInv(q)'
  BY <1>2 DEF Typed, ProcessTypeOK, PlaceInv, MarkersMeant, MeantInv, Starting, Nobody, MarkTakeover, Goto, stopVars
<1>3. ASSUME NEW p \in Procs, Terminate(p) PROVE MeantInv(q)'
  BY <1>3 DEF Typed, ProcessTypeOK, PlaceInv, MarkersMeant, MeantInv, Starting, Nobody, Terminate, Goto,
     Lives, stopVars, markers, processHistory
<1>4. ASSUME NEW p \in Procs, GiveUp(p) PROVE MeantInv(q)'
  BY <1>4 DEF Typed, ProcessTypeOK, PlaceInv, MarkersMeant, MeantInv, Starting, Nobody, GiveUp, Return,
     Lives, Gone, Goto
<1>5. ASSUME NEW p \in Procs, VictimGone(p) PROVE MeantInv(q)'
  BY <1>5 DEF Typed, ProcessTypeOK, PlaceInv, MarkersMeant, MeantInv, Starting, Nobody, VictimGone, Goto,
     Lives, stopVars, markers, processHistory
<1>6. ASSUME NEW p \in Procs, Escalate(p) PROVE MeantInv(q)'
  BY <1>6 DEF Typed, ProcessTypeOK, PlaceInv, MarkersMeant, MeantInv, Starting, Nobody, Escalate, Gone,
     Lives, Goto, markers
<1>7. ASSUME NEW p \in Procs, CleanUp(p) PROVE MeantInv(q)'
  BY <1>7 DEF Typed, ProcessTypeOK, PlaceInv, MarkersMeant, MeantInv, Starting, Nobody, CleanUp, Goto,
     stopVars, processHistory
<1>8. ASSUME NEW p \in Procs, CheckAgain(p) PROVE MeantInv(q)'
  BY <1>8 DEF Typed, ProcessTypeOK, PlaceInv, MarkersMeant, MeantInv, Starting, Nobody, CheckAgain, Goto,
     Return, RunningPid, Lives, Gone, stopVars, markers, processHistory
<1>9. ASSUME NEW p \in Procs, AcquireLock(p) PROVE MeantInv(q)'
  BY <1>9 DEF Typed, ProcessTypeOK, PlaceInv, MarkersMeant, MeantInv, Starting, Nobody, AcquireLock, Goto,
     Return, Gone, stopVars, markers, processHistory
<1>10. ASSUME NEW p \in Procs, WritePidFile(p) PROVE MeantInv(q)'
  BY <1>10 DEF Typed, ProcessTypeOK, PlaceInv, MarkersMeant, MeantInv, Starting, Nobody, WritePidFile,
     Goto, Return, Gone, stopVars, markers, processHistory
<1>11. ASSUME NEW p \in Procs, Discovered(p) PROVE MeantInv(q)'
  BY <1>11 DEF Typed, ProcessTypeOK, PlaceInv, MarkersMeant, MeantInv, Starting, Nobody, Discovered, Goto,
     AtAwait, stopVars, markers, processHistory
<1>12. ASSUME NEW p \in Procs, Connect(p) PROVE MeantInv(q)'
  BY <1>12 DEF Typed, ProcessTypeOK, PlaceInv, MarkersMeant, MeantInv, Starting, Nobody, Connect, AtAwait,
     markers, processHistory
<1>13. ASSUME NEW p \in Procs, FatalConfig(p) PROVE MeantInv(q)'
  BY <1>13 DEF Typed, ProcessTypeOK, PlaceInv, MarkersMeant, MeantInv, Starting, Nobody, FatalConfig,
     Return, AtAwait, Gone, Goto, markers
<1>14. ASSUME NEW p \in Procs, Started(p) PROVE MeantInv(q)'
  BY <1>14 DEF Typed, ProcessTypeOK, PlaceInv, MarkersMeant, MeantInv, Starting, Nobody, Started, Goto,
     AtAwait, markers, processHistory
<1>15. ASSUME NEW p \in Procs, Exit(p) PROVE MeantInv(q)'
  BY <1>15 DEF Typed, ProcessTypeOK, PlaceInv, MarkersMeant, MeantInv, Starting, Nobody, Exit, Return,
     AtAwait, ShutdownSet, ExitStatus, Gone, Goto, markers
<1>16. ASSUME NEW p \in Procs, HandleSignal(p) PROVE MeantInv(q)'
  <2> PICK s \in sig[p] :
         /\ sig' = [sig EXCEPT ![p] = @ \ {s}]
         /\ IF s = "USR1" THEN RequestRestart(p, "service") ELSE Shutdown(p, s)
    BY <1>16 DEF HandleSignal
  <2>u. UNCHANGED <<poll, asked>>
    BY <1>16 DEF HandleSignal
  <2>1. CASE s = "USR1"
    BY <1>16, <2>u, <2>1 DEF MeantInv, PlaceInv, Typed, ProcessTypeOK, RequestRestart, BeginStop
  <2>2. CASE s # "USR1"
    BY <2>2, <2>u, ShutdownMeant
  <2> QED
    BY <2>1, <2>2
<1>17. ASSUME NEW p \in Procs, Watch(p) PROVE MeantInv(q)'
  BY <1>17 DEF Typed, ProcessTypeOK, PlaceInv, MarkersMeant, MeantInv, Starting, Nobody, Watch, Names,
     Lives, stopVars, processHistory
<1>18. ASSUME NEW p \in Procs, HandleWatch(p) PROVE MeantInv(q)'
  <2>1. Shutdown(p, "none") /\ UNCHANGED <<sig, asked>>
    BY <1>18 DEF HandleWatch
  <2> QED
    BY <2>1, ShutdownMeant
<1>19. ASSUME NEW p \in Procs, InChatRestart(p) PROVE MeantInv(q)'
  BY <1>19 DEF Typed, ProcessTypeOK, PlaceInv, MarkersMeant, MeantInv, Starting, Nobody, InChatRestart,
     Acts, RequestRestart, BeginStop, markers
<1>20. ASSUME NEW p \in Procs, LastPlatformLost(p) PROVE MeantInv(q)'
  BY <1>20 DEF Typed, ProcessTypeOK, PlaceInv, MarkersMeant, MeantInv, Starting, Nobody, LastPlatformLost,
     Acts, AtAwait, markers
<1>21. ASSUME NEW p \in Procs, Drain(p) PROVE MeantInv(q)'
  BY <1>21 DEF Typed, ProcessTypeOK, PlaceInv, MarkersMeant, MeantInv, Starting, Nobody, Drain, Lives,
     markers, processHistory
<1>22. ASSUME NEW p \in Procs, RemovePidFile(p) PROVE MeantInv(q)'
  BY <1>22 DEF Typed, ProcessTypeOK, PlaceInv, MarkersMeant, MeantInv, Starting, Nobody, RemovePidFile,
     Lives, markers, processHistory
<1>23. ASSUME NEW p \in Procs, ReleaseLock(p) PROVE MeantInv(q)'
  BY <1>23 DEF Typed, ProcessTypeOK, PlaceInv, MarkersMeant, MeantInv, Starting, Nobody, ReleaseLock,
     Lives, markers, processHistory
<1>24. ASSUME NEW p \in Procs, AskToStop(p) PROVE MeantInv(q)'
  BY <1>24 DEF Typed, ProcessTypeOK, PlaceInv, MarkersMeant, MeantInv, Starting, Nobody, AskToStop, Acts,
     RunningPid, Lives, stopVars
<1>25. ASSUME NEW p \in Procs, NEW s \in Signals, Signal(p, s) PROVE MeantInv(q)'
  BY <1>25 DEF Typed, ProcessTypeOK, PlaceInv, MarkersMeant, MeantInv, Starting, Nobody, Signal, Gone,
     Acts, Lives, Goto, stopVars, markers
<1>26. ASSUME NEW p \in Procs, Kill(p) PROVE MeantInv(q)'
  BY <1>26 DEF Typed, ProcessTypeOK, PlaceInv, MarkersMeant, MeantInv, Starting, Nobody, Kill, Gone, Acts,
     Lives, Goto, markers
<1>27. ASSUME NEW p \in Procs, BeginReconnect(p) PROVE MeantInv(q)'
  BY <1>27 DEF Typed, ProcessTypeOK, PlaceInv, MarkersMeant, MeantInv, Starting, Nobody, BeginReconnect,
     Acts, AtAwait, markers
<1>28. ASSUME NEW p \in Procs, EndReconnect(p) PROVE MeantInv(q)'
  BY <1>28 DEF Typed, ProcessTypeOK, PlaceInv, MarkersMeant, MeantInv, Starting, Nobody, EndReconnect,
     AtAwait, markers, processHistory
<1>29. ASSUME NEW p \in Procs, Disconnect(p) PROVE MeantInv(q)'
  BY <1>29 DEF Typed, ProcessTypeOK, PlaceInv, MarkersMeant, MeantInv, Starting, Nobody, Disconnect,
     Lives, markers, processHistory
<1>30. CASE UNCHANGED processVars
  BY <1>30 DEF Typed, ProcessTypeOK, PlaceInv, MarkersMeant, MeantInv, Starting, Nobody, processVars, stopVars,
     markers, processHistory
<1> QED
  BY <1>1, <1>2, <1>3, <1>4, <1>5, <1>6, <1>7, <1>8, <1>9, <1>10, <1>11, <1>12, <1>13, <1>14, <1>15, <1>16, <1>17, <1>18, <1>19, <1>20, <1>21, <1>22, <1>23, <1>24, <1>25, <1>26, <1>27, <1>28, <1>29, <1>30 DEF
     ProcessNext, Main, StopTask, Loop, Outside

-----------------------------------------------------------------------------
PlacesInv == \A p \in Procs : PlaceInv(p)
MeantsInv == MarkersMeant /\ \A p \in Procs : MeantInv(p)

\* Each variable keeps the type that TypeOK states, whoever is started,
\* signalled or killed when.
THEOREM ProcessTypeCorrect == ProcessSpec => []ProcessTypeOK
<1>1. ProcessInit => Typed
  BY ProcsAssumption DEF ProcessInit, Typed, HasVictim, ProcessTypeOK, Signals, Nobody, Replacing, Claiming, Starting, Ended
<1>2. Typed /\ [ProcessNext]_processVars => Typed'
  BY TypedStep
<1>3. Typed => ProcessTypeOK
  BY DEF Typed
<1> QED
  BY <1>1, <1>2, <1>3, PTL DEF ProcessSpec

THEOREM PlacesSound == ProcessSpec => [](Typed /\ PlacesInv)
<1>1. ProcessInit => Typed /\ PlacesInv
  BY ProcsAssumption DEF ProcessInit, Typed, HasVictim, ProcessTypeOK, PlacesInv, PlaceInv, Signals, Nobody,
     Replacing, Claiming, Starting, Ended
<1>2. Typed /\ PlacesInv /\ [ProcessNext]_processVars => (Typed /\ PlacesInv)'
  BY TypedStep, PlaceStep DEF PlacesInv
<1> QED
  BY <1>1, <1>2, PTL DEF ProcessSpec

\* The lock alone keeps gateways apart: the pid file may be lost to a late
\* replacer and the markers may be stale.
THEOREM OneGatewayHolds == ProcessSpec => []OneGateway
<1>1. PlacesInv => OneGateway
  <2> SUFFICES ASSUME PlacesInv, NEW p \in Procs \ (early \cup late), NEW q \in Procs \ (early \cup late),
                      conn[p], conn[q]
               PROVE  p = q
    BY DEF OneGateway
  <2>1. ASSUME NEW r \in Procs \ (early \cup late), conn[r] PROVE lock = r
    <3>1. pc[r] \in {"connecting", "up"} /\ stop[r] # "done"
      BY <2>1 DEF PlacesInv, PlaceInv
    <3> QED
      BY <3>1 DEF PlacesInv, PlaceInv
  <2> QED
    BY <2>1
<1> QED
  BY <1>1, PlacesSound, PTL

\* start_gateway returns success only to those who asked for an end: a marker
\* is consumed by the process it names and by nobody else.
THEOREM SuccessIsMeant == ProcessSpec => []OkExitIsMeant
<1>1. ProcessInit => MeantsInv
  BY DEF ProcessInit, MeantsInv, MarkersMeant, MeantInv
<1>2. Typed /\ PlacesInv /\ MeantsInv /\ [ProcessNext]_processVars => MeantsInv'
  BY MarkersStep, MeantStep DEF PlacesInv, MeantsInv
<1>3. MeantsInv => OkExitIsMeant
  BY DEF MeantsInv, MeantInv, OkExitIsMeant
<1> QED
  BY <1>1, <1>2, <1>3, PlacesSound, PTL DEF ProcessSpec
=============================================================================
