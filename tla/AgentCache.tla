----------------------------- MODULE AgentCache -----------------------------
(* Conversations and the agents that carry them.  A session key points to an
   entry of the session store, the entry to a session of the database (its
   transcript).  A turn runs in an AIAgent that is kept in a cache between
   turns and reused while its configuration is the same and nobody else wrote
   to the transcript.  An agent is bound to a session, which compression may
   rotate; /new, automatic resets and hand-overs from the CLI start another
   conversation; the cache's cap, the idle sweep, the session expiry watcher
   and every eviction tear agents down.

   Code: overlays/hermes/gateway/run.py, overlays/hermes/gateway/session.py.
   External: AIAgent, the session database, the /new handler, the CLI.

   Turns are numbered in the order they open.  An agent is named by the turn
   that built it, an entry by the session it was created with; 0 is none.
   Event-loop code is atomic between its awaits; a turn's agent runs in a thread
   of its own. *)
EXTENDS Naturals, FiniteSets

CONSTANTS
    Keys,        \* session keys
    Home,        \* the key of the home channel, where hand-overs arrive
    Cap,         \* _AGENT_CACHE_MAX_SIZE
    Tried,       \* bound: the keys that are stopped, expire or are written to
    MaxTurns,    \* bound: turns
    MaxSids,     \* bound: sessions
    MaxEvents    \* bound: stops, expiries, foreign writes, hand-overs, compressions,
                 \* sweeps, failures, evictions by a fallback model or /moa

ASSUME CacheAssumption ==
    /\ Home \in Keys /\ Tried \subseteq Keys
    /\ Cap \in Nat /\ MaxTurns \in Nat /\ MaxSids \in Nat
    /\ MaxEvents \in Nat

Turns == 1 .. MaxTurns
Sids == 0 .. MaxSids  \* 0 is none
Sentinel == MaxTurns + 1  \* _AGENT_PENDING_SENTINEL

VARIABLES
    entry,    \* _entries: the entry of each key
    sidOf,    \* per entry: its session_id
    due,      \* per key: the reset policy says that the entry has expired
    final,    \* per key: the entry's expiry_finalized
    nsid,     \* sessions so far
    rows,     \* per session: message_count
    cached, count, \* _agent_cache: the agent of each key and its snapshot
    older,    \* the cache's order: <<x, y>> if y was used after x
    born,     \* per agent: its session_id
    live,     \* the agents that nobody has taken to tear them down
    running,  \* _running_agents: an agent, Sentinel or 0
    gen,      \* _session_run_generation
    pc, key, genOf, obj, sid, agent, blank, \* the turns
    closing,  \* the keys the expiry watcher is finalizing: at most one
    handoff,  \* handoff_state of the CLI's session and the handler's progress
    handed,   \* the session and the turn of the hand-over
    events,   \* how many of them there were
    missed,   \* history: the agents that have not seen a foreign row of a session
              \* and were not used since
    exposed   \* history: the agents taken to be torn down while nothing kept them
              \* out of a slot, or without a look at the slots

store == <<entry, sidOf, due, final>>
base == <<nsid, rows>>
cache == <<cached, count, older>>
agents == <<born, live, exposed>>
slots == <<running, gen>>
turns == <<pc, key, genOf, obj, sid, agent, blank>>
handover == <<handoff, handed>>
vars == <<store, base, cache, agents, slots, turns, closing, handover,
          events, missed>>

Places == {"none", "opened", "ready", "working", "back", "ended", "over"}
Handoffs == {"none", "pending", "running", "bound", "turn", "completed", "failed"}

TypeOK ==
    /\ entry \in [Keys -> Sids] /\ sidOf \in [Sids -> Sids]
    /\ due \in [Keys -> BOOLEAN] /\ final \in [Keys -> BOOLEAN]
    /\ nsid \in Sids /\ rows \in [Sids -> Nat]
    /\ cached \in [Keys -> 0 .. MaxTurns] /\ count \in [Keys -> Nat]
    /\ older \subseteq Keys \X Keys
    /\ born \in [0 .. MaxTurns -> Sids] /\ live \subseteq Turns
    /\ running \in [Keys -> 0 .. Sentinel] /\ gen \in [Keys -> Nat]
    /\ pc \in [Turns -> Places] /\ key \in [Turns -> Keys]
    /\ genOf \in [Turns -> Nat]
    /\ obj \in [Turns -> Sids] /\ sid \in [Turns -> Sids]
    /\ agent \in [Turns -> 0 .. MaxTurns] /\ blank \in [Turns -> BOOLEAN]
    /\ closing \subseteq Keys
    /\ handoff \in Handoffs /\ handed \in Sids \X (0 .. MaxTurns)
    /\ events \in Nat
    /\ missed \subseteq Turns \X Sids
    /\ exposed \subseteq Turns

Init ==
    /\ entry = [k \in Keys |-> 0] /\ sidOf = [s \in Sids |-> 0]
    /\ due = [k \in Keys |-> FALSE] /\ final = [k \in Keys |-> FALSE]
    /\ nsid = 0 /\ rows = [s \in Sids |-> 0]
    /\ cached = [k \in Keys |-> 0] /\ count = [k \in Keys |-> 0] /\ older = {}
    /\ born = [a \in 0 .. MaxTurns |-> 0] /\ live = {}
    /\ running = [k \in Keys |-> 0] /\ gen = [k \in Keys |-> 0]
    /\ pc = [t \in Turns |-> "none"] /\ key = [t \in Turns |-> Home]
    /\ genOf = [t \in Turns |-> 0] /\ obj = [t \in Turns |-> 0]
    /\ sid = [t \in Turns |-> 0] /\ agent = [t \in Turns |-> 0]
    /\ blank = [t \in Turns |-> FALSE]
    /\ closing = {} /\ handoff = "none" /\ handed = <<0, 0>>
    /\ events = 0 /\ missed = {} /\ exposed = {}

-----------------------------------------------------------------------------
(* The cache. *)

Current(t) == gen[key[t]] = genOf[t]
AtWork == {t \in Turns : pc[t] \in {"opened", "ready", "working", "back", "ended"}}
InSlots == {a \in Turns : \E k \in Keys : running[k] = a}
Loop == closing = {}  \* the event loop is free

Event == events < MaxEvents /\ events' = events + 1

\* A turn that is current has the agent and will put it in its slot
\* (track_agent looks every 50 ms).
Fetched(a) == \E t \in Turns :
    pc[t] = "working" /\ agent[t] = a /\ Current(t) /\ running[key[t]] # a

\* _release_evicted_agent_soft on a daemon thread, _cleanup_agent_resources in
\* place: from here on the agents may be torn down at any time.
Release(A) ==
    /\ live' = live \ A
    /\ exposed' = exposed \cup {a \in A \cap Turns : Fetched(a)}

\* The same without a look at the slots.
ReleaseAnyway(A) == live' = live \ A /\ exposed' = exposed \cup (A \cap Turns)

Out(K) ==
    /\ cached' = [k \in Keys |-> IF k \in K THEN 0 ELSE cached[k]]
    /\ count' = [k \in Keys |-> IF k \in K THEN 0 ELSE count[k]]
    /\ older' = {p \in older : p[1] \notin K /\ p[2] \notin K}

Idle(K) == {cached[k] : k \in K} \ InSlots

\* Mutant: the agent is released but keeps its place in the cache.
ReleaseInPlace(k) == Release(Idle({k})) /\ UNCHANGED <<cache, born>>

\* _evict_cached_agent: out of the cache, and released unless it is mid-turn.
Evict(k) == Out({k}) /\ Release(Idle({k})) /\ UNCHANGED born

EvictedOrNot(k) == (Evict(k) /\ Event) \/ UNCHANGED <<cache, agents, events>>

\* The activity of an agent that a current turn just fetched is fresh.
\* Mutant: idle is decided by the clock alone.
SweptByClock(k) == ~Fetched(cached[k])

\* _sweep_idle_cached_agents: of those idle for an hour, none in a slot.
Swept(k) == cached[k] \notin InSlots /\ ~Fetched(cached[k])

SweepIdle(k) ==
    /\ Loop /\ Event /\ cached[k] # 0 /\ Swept(k)
    /\ Out({k}) /\ Release({cached[k]}) /\ UNCHANGED born
    /\ UNCHANGED <<store, base, slots, turns, closing, handover, missed>>

\* `k` was used last.
Touched(k) == {p \in older : p[1] # k /\ p[2] # k}
              \cup {<<x, k>> : x \in {x \in Keys \ {k} : cached[x] # 0}}

\* _enforce_agent_cache_cap on a cache that now holds `c` in the order `ord`: of
\* the least recently used beyond the cap, those not in a slot.
Surplus(c, ord) == {x \in Keys :
    c[x] # 0 /\ Cardinality({p \in ord : p[1] = x}) >= Cap /\ c[x] \notin InSlots}

-----------------------------------------------------------------------------
(* Conversations. *)

Fresh == nsid + 1
SidLeft == nsid < MaxSids
\* The bound keeps a turn for a hand-over that was asked for.
TurnsLeft(t) == t + (IF handoff \in {"pending", "running", "bound"} THEN 1 ELSE 0) <= MaxTurns

\* Mutant: the id is the time alone, and two sessions begin in one second.
SameSecond(k) ==
    /\ entry' = [entry EXCEPT ![k] = Fresh]
    /\ sidOf' = [sidOf EXCEPT ![Fresh] = IF nsid = 0 THEN Fresh ELSE nsid]
    /\ nsid' = Fresh
    /\ due' = [due EXCEPT ![k] = FALSE] /\ final' = [final EXCEPT ![k] = FALSE]

\* get_or_create_session, reset_session: another entry, another session.
NewEntry(k) ==
    /\ entry' = [entry EXCEPT ![k] = Fresh]
    /\ sidOf' = [sidOf EXCEPT ![Fresh] = Fresh]
    /\ nsid' = Fresh
    /\ due' = [due EXCEPT ![k] = FALSE] /\ final' = [final EXCEPT ![k] = FALSE]

\* get_or_create_session: an expired entry is replaced, a live one refreshed.
\* Its cached agent stays where it is.
GetOrCreate(k) ==
    IF entry[k] = 0 \/ due[k]
    THEN SidLeft /\ NewEntry(k)
    ELSE due' = [due EXCEPT ![k] = FALSE] /\ UNCHANGED <<entry, sidOf, final, nsid>>

Opened == Cardinality({t \in Turns : pc[t] # "none"})
ToCome == Opened < MaxTurns  \* another turn will see what happens now

TimePasses(k) ==
    /\ entry[k] # 0 /\ ~due[k] /\ handoff # "bound"
    /\ (ToCome \/ cached[k] # 0 \/ running[k] # 0)
    /\ due' = [due EXCEPT ![k] = TRUE]
    /\ Event
    /\ UNCHANGED <<entry, sidOf, final, base, cache, agents, slots, turns, closing,
                   handover, missed>>

\* _begin_session_run_generation
NextGen(k) == gen' = [gen EXCEPT ![k] = @ + 1]

\* /stop: the slot is free at once; the agent's thread is still unwinding.
Stop(k) ==
    /\ Loop /\ running[k] # 0
    /\ running' = [running EXCEPT ![k] = 0] /\ NextGen(k)
    /\ Event
    /\ UNCHANGED <<store, base, cache, agents, turns, closing, handover, missed>>

\* /new: _interrupt_and_clear_session, then the (external) reset handler.
NewConversation(k) ==
    /\ Loop /\ entry[k] # 0 /\ SidLeft
    /\ running' = [running EXCEPT ![k] = 0] /\ NextGen(k)
    /\ NewEntry(k) /\ UNCHANGED rows
    /\ Out({k}) /\ Release({cached[k]}) /\ UNCHANGED born
    /\ Event
    /\ UNCHANGED <<turns, closing, handover, missed>>

\* The expiry watcher finalizes an entry without an await: it closes the cached
\* agent, else the one in the slot ...
Finalized(k) == IF cached[k] # 0 THEN cached[k] ELSE running[k]

ExpiryCloses(k) ==
    /\ Loop /\ entry[k] # 0 /\ due[k] /\ ~final[k]
    /\ ReleaseAnyway({Finalized(k)}) /\ UNCHANGED born
    /\ closing' = {k}
    /\ UNCHANGED <<store, base, cache, slots, turns, handover, events, missed>>

\* ... then drops it from the cache and marks the entry; threads may run in between.
ExpiryMarks(k) ==
    /\ k \in closing
    /\ Evict(k)
    /\ final' = [final EXCEPT ![k] = TRUE]
    /\ closing' = {}
    /\ UNCHANGED <<entry, sidOf, due, base, slots, turns, handover, events, missed>>

\* The dashboard, or another process, appends to a transcript.  `missed` keeps
\* the writes that an agent may still learn of: no turn of the key is at work,
\* and the snapshot is not ahead of the transcript, as it is after a stopped run
\* compacted the session in place.
Quiet(k) == \A t \in AtWork : key[t] # k

InStep(k) ==
    /\ Quiet(k) /\ cached[k] # 0 /\ born[cached[k]] = sidOf[entry[k]]
    /\ count[k] <= rows[sidOf[entry[k]]]

ForeignWrite(k) ==
    /\ entry[k] # 0 /\ (ToCome \/ ~Quiet(k))
    /\ rows' = [rows EXCEPT ![sidOf[entry[k]]] = @ + 1]
    /\ Event
    /\ missed' = IF InStep(k)
                 THEN missed \cup {<<cached[k], sidOf[entry[k]]>>} ELSE missed
    /\ UNCHANGED <<store, nsid, cache, agents, slots, turns, closing, handover>>

-----------------------------------------------------------------------------
(* Turns. *)

\* The slot is claimed, the session looked up, its transcript loaded.
Open(t, k) ==
    /\ Loop /\ t = Opened + 1 /\ t <= MaxTurns
    /\ running[k] = 0
    /\ running' = [running EXCEPT ![k] = Sentinel] /\ NextGen(k)
    /\ GetOrCreate(k) /\ UNCHANGED rows
    /\ pc' = [pc EXCEPT ![t] = "opened"] /\ key' = [key EXCEPT ![t] = k]
    /\ genOf' = [genOf EXCEPT ![t] = gen[k] + 1]
    /\ obj' = [obj EXCEPT ![t] = entry'[k]]
    /\ sid' = [sid EXCEPT ![t] = sidOf'[entry'[k]]]
    /\ blank' = [blank EXCEPT ![t] = rows[sidOf'[entry'[k]]] = 0]
    /\ UNCHANGED <<agent, cache, agents, closing, events, missed>>

\* The turn is over; its locals are gone.
Over(t) ==
    /\ pc' = [pc EXCEPT ![t] = "over"]
    /\ obj' = [obj EXCEPT ![t] = 0] /\ sid' = [sid EXCEPT ![t] = 0]
    /\ agent' = [agent EXCEPT ![t] = 0] /\ blank' = [blank EXCEPT ![t] = FALSE]
    /\ key' = [key EXCEPT ![t] = Home] /\ genOf' = [genOf EXCEPT ![t] = 0]

\* The adapter keeps a session busy until its current turn is over; it does not
\* know of a turn that the hand-over runs.
UserTurn(t, k) ==
    /\ TurnsLeft(t)
    /\ \A u \in AtWork : key[u] = k /\ u # handed[2] => ~Current(u)
    /\ Open(t, k) /\ UNCHANGED handover

\* The transcript is too large for the model, or for the hard limit (a guess).
TooLarge(t) == pc[t] = "opened" /\ ~blank[t]

\* A large transcript is compressed by an agent of its own before the turn:
\* into a new session, in place, or not at all.  Meanwhile another turn may
\* have moved the entry to another session; then the entry goes back.
Hygiene(t) ==
    /\ Loop /\ TooLarge(t) /\ Event
    /\ pc' = [pc EXCEPT ![t] = "ready"]
    /\ \/ /\ SidLeft
          /\ nsid' = Fresh
          /\ sidOf' = [sidOf EXCEPT ![obj[t]] = Fresh]
          /\ rows' = [rows EXCEPT ![Fresh] = 1]
       \/ /\ sidOf' = [sidOf EXCEPT ![obj[t]] = sid[t]]
          /\ rows' = [rows EXCEPT ![sid[t]] = 1]
          /\ UNCHANGED nsid
       \/ /\ sidOf[obj[t]] = sid[t]
          /\ UNCHANGED <<sidOf, base>>
    /\ Evict(key[t])
    /\ UNCHANGED <<entry, due, final, slots, key, genOf, obj, sid, agent, blank, closing,
                   handover, missed>>

\* Mutant: an agent is reused whatever was written meanwhile.
NobodyWrote(k, s) == TRUE

\* The cross-process guard: message_count is what it was.
Unchanged(k, s) == count[k] = rows[s]

Reuse(t, k, s) ==
    /\ cached[k] # 0 /\ Unchanged(k, s)
    /\ agent' = [agent EXCEPT ![t] = cached[k]]
    /\ older' = Touched(k)
    /\ UNCHANGED <<cached, count, agents>>

\* A new agent takes the place of `gone`, which is released, or 0.  The cap
\* enforcer may throw it out at once: it is in no slot yet.  The guard of a run
\* that was stopped before it had an agent may take the agent of the next one.
Enter(t, k, s, order, gone) ==
    LET built == [cached EXCEPT ![k] = t]
        out == Surplus(built, order)
    IN /\ agent' = [agent EXCEPT ![t] = t]
       /\ born' = [born EXCEPT ![t] = s]
       /\ cached' = [x \in Keys |-> IF x \in out THEN 0 ELSE built[x]]
       /\ count' = [x \in Keys |-> IF x \in out THEN 0 ELSE IF x = k THEN rows[s] ELSE count[x]]
       /\ older' = {p \in order : p[1] \notin out /\ p[2] \notin out}
       /\ LET taken == {built[x] : x \in out} \cup {gone} IN
           /\ live' = (live \cup {t}) \ taken
           /\ exposed' = exposed \cup {a \in taken \cap Turns :
                  a = t \/ Fetched(a) \/ (a = gone /\ ~Current(t))}

\* There was none.
BuildFirst(t, k, s) == cached[k] = 0 /\ Enter(t, k, s, Touched(k), 0)

\* Another process wrote: the old agent is popped and released, slot or not.
Rebuild(t, k, s) ==
    cached[k] # 0 /\ ~Unchanged(k, s) /\ Enter(t, k, s, Touched(k), cached[k])

\* The configuration or the user is another one (a guess in every state): the
\* old agent is overwritten where it stands, and not released.
Overwrite(t, k, s) == cached[k] # 0 /\ Enter(t, k, s, older, 0)

\* run_sync, in a thread: the agent of this turn.
Fetch(t) ==
    /\ pc[t] \in {"opened", "ready"}
    /\ LET s == sidOf[obj[t]] IN
        /\ sid' = [sid EXCEPT ![t] = s]
        /\ \/ Reuse(t, key[t], s) \/ BuildFirst(t, key[t], s)
           \/ Rebuild(t, key[t], s) \/ Overwrite(t, key[t], s)
    /\ pc' = [pc EXCEPT ![t] = "working"]
    /\ missed' = {p \in missed : p[1] # agent'[t]}
    /\ UNCHANGED <<store, base, slots, key, genOf, obj, blank, closing, handover, events>>

\* The agent could not be built: the message is kept, the slot released.
FailsEarly(t) ==
    /\ Loop /\ Event /\ pc[t] \in {"opened", "ready"}
    /\ Over(t)
    /\ rows' = [rows EXCEPT ![sidOf[obj[t]]] = @ + 1]
    /\ running' = [running EXCEPT ![key[t]] = 0]
    /\ UNCHANGED <<store, nsid, cache, agents, gen, closing, handover, missed>>

\* track_agent: the sentinel becomes the agent, unless the run is stale.
Promote(t) ==
    /\ Loop /\ pc[t] = "working" /\ Current(t) /\ running[key[t]] # agent[t]
    /\ running' = [running EXCEPT ![key[t]] = agent[t]]
    /\ UNCHANGED <<store, base, cache, agents, gen, turns, closing, handover, events, missed>>

\* The agent compresses its session: into a new one, or in place.
Rotate(t) ==
    /\ pc[t] = "working" /\ SidLeft /\ Event
    /\ nsid' = Fresh
    /\ born' = [born EXCEPT ![agent[t]] = Fresh]
    /\ rows' = [rows EXCEPT ![Fresh] = 1]
    /\ UNCHANGED <<store, cache, live, exposed, slots, turns, closing, handover, missed>>

CompactInPlace(t) ==
    /\ pc[t] = "working" /\ rows[born[agent[t]]] > 1 /\ Event
    /\ rows' = [rows EXCEPT ![born[agent[t]]] = 1]
    /\ UNCHANGED <<store, nsid, cache, agents, slots, turns, closing, handover,
                   missed>>

\* run_conversation returns, in the thread: the agent has written its rows; if
\* it is not in the session of the turn, the key's entry follows it.
Finish(t) ==
    LET a == agent[t]  k == key[t] IN
    /\ pc[t] = "working"
    /\ pc' = [pc EXCEPT ![t] = "back"]
    /\ rows' = [rows EXCEPT ![born[a]] = @ + 1]
    /\ sid' = [sid EXCEPT ![t] = born[a]]
    /\ sidOf' = IF born[a] # sid[t] /\ entry[k] # 0
                THEN [sidOf EXCEPT ![entry[k]] = born[a]] ELSE sidOf
    /\ UNCHANGED <<entry, due, final, nsid, cache, agents, slots, key, genOf, obj,
                   agent, blank, closing, handover, events, missed>>

\* The rest of _run_agent: a run that fell back to another model drops its
\* agent from the cache; the slot is released if the run is current.
EndRun(t) ==
    LET k == key[t] IN
    /\ Loop /\ pc[t] = "back"
    /\ pc' = [pc EXCEPT ![t] = "ended"]
    /\ EvictedOrNot(k)
    /\ running' = IF Current(t) THEN [running EXCEPT ![k] = 0] ELSE running
    /\ UNCHANGED <<store, base, gen, key, genOf, obj, sid, agent, blank, closing, handover,
                   missed>>

\* A result whose run is no longer current is dropped.  The `finally` of the
\* turn releases the slot, whoever is in it.
Released(k) == running' = [running EXCEPT ![k] = 0] /\ UNCHANGED gen

Discard(t) ==
    /\ Loop /\ pc[t] = "ended" /\ ~Current(t)
    /\ Over(t)
    /\ EvictedOrNot(key[t])
    /\ Released(key[t])
    /\ UNCHANGED <<store, base, closing, handover, missed>>

\* _refresh_agent_cache_message_count, whichever agent is cached by now.
Baseline(t) ==
    IF cached[key[t]] = 0 THEN count
    ELSE [count EXCEPT ![key[t]] = rows[sidOf[obj[t]]]]

\* The agent persisted its rows itself; a first turn adds one that describes the
\* session.
Written(t) == IF blank[t] THEN [rows EXCEPT ![sid[t]] = @ + 1] ELSE rows

\* The turn's result is taken: the snapshot is renewed, the entry follows the
\* session of the result, the transcript is completed, the entry refreshed.  A
\* one-shot /moa turn drops the cached agent.
Settle(t) ==
    LET k == key[t] IN
    /\ Loop /\ pc[t] = "ended" /\ Current(t)
    /\ Over(t)
    /\ sidOf' = [sidOf EXCEPT ![obj[t]] = sid[t]]
    /\ rows' = Written(t)
    /\ due' = [due EXCEPT ![k] = FALSE]
    /\ \/ count' = Baseline(t) /\ UNCHANGED <<cached, older, agents, events>>
       \/ Evict(k) /\ Event
    /\ Released(k)
    /\ UNCHANGED <<entry, final, nsid, closing, handover, missed>>

\* The session is too large and cannot be compressed: another one begins.
Exhausted(t) ==
    LET k == key[t] IN
    /\ Loop /\ pc[t] = "ended" /\ Current(t) /\ SidLeft /\ Event
    /\ Over(t)
    /\ NewEntry(k) /\ UNCHANGED rows
    /\ Evict(k) /\ Released(k)
    /\ UNCHANGED <<closing, handover, missed>>

-----------------------------------------------------------------------------
(* Hand-over of a CLI session to the home channel. *)

CliSession == handed[1]
HandoffIs(h) == handoff' = h /\ UNCHANGED handed
HandoffOnly == UNCHANGED <<base, gen, turns, closing, events, missed>>

\* External: /handoff in the CLI marks its session as pending.
Request ==
    /\ handoff = "none" /\ SidLeft /\ ToCome /\ Event
    /\ nsid' = Fresh
    /\ rows' = [rows EXCEPT ![Fresh] = 1]
    /\ handoff' = "pending" /\ handed' = <<Fresh, 0>>
    /\ UNCHANGED <<store, cache, agents, slots, turns, closing, missed>>

\* claim_handoff
Claim ==
    /\ Loop /\ handoff = "pending" /\ HandoffIs("running")
    /\ HandoffOnly /\ UNCHANGED <<store, cache, agents, running>>

\* Mutant: the row of a hand-over that failed stays as it was claimed.
LeftRunning == "running"

\* fail_handoff
Failure == "failed"

\* No adapter, no home channel.
Refuse ==
    /\ Loop /\ handoff = "running" /\ HandoffIs(Failure)
    /\ HandoffOnly /\ UNCHANGED <<store, cache, agents, running>>

\* switch_session, eviction, and the slot is freed: the generation stays.  The
\* entry that get_or_create_session may have made just before is left out.
Bind ==
    /\ Loop /\ handoff = "running" /\ HandoffIs("bound")
    /\ entry' = [entry EXCEPT ![Home] = CliSession]
    /\ sidOf' = [sidOf EXCEPT ![CliSession] = CliSession]
    /\ due' = [due EXCEPT ![Home] = FALSE] /\ final' = [final EXCEPT ![Home] = FALSE]
    /\ Evict(Home)
    /\ running' = [running EXCEPT ![Home] = 0]
    /\ HandoffOnly

\* The synthetic turn goes through _handle_message like any other, ...
Synthetic(t) ==
    /\ handoff = "bound" /\ Open(t, Home)
    /\ handoff' = "turn" /\ handed' = <<CliSession, t>>

\* ... which queues or refuses it when somebody was faster.
Overtaken ==
    /\ Loop /\ handoff = "bound" /\ running[Home] # 0
    /\ HandoffIs("completed") \/ HandoffIs(Failure)
    /\ HandoffOnly /\ UNCHANGED <<store, cache, agents, running>>

\* complete_handoff, or the reply could not be sent.
Report ==
    /\ Loop /\ handoff = "turn" /\ pc[handed[2]] = "over"
    /\ HandoffIs("completed") \/ HandoffIs(Failure)
    /\ HandoffOnly /\ UNCHANGED <<store, cache, agents, running>>

-----------------------------------------------------------------------------
TurnStep(t) ==
    Fetch(t) \/ FailsEarly(t) \/ Finish(t) \/ EndRun(t) \/ Discard(t) \/ Settle(t)

AgentStep(t) ==
    Hygiene(t) \/ Promote(t) \/ Rotate(t) \/ CompactInPlace(t) \/ Exhausted(t)

HandoffStep ==
    \/ Claim \/ Refuse \/ Bind \/ Overtaken \/ Report
    \/ \E t \in Turns : Synthetic(t)

KeyStep(k) ==
    \/ k \in Tried /\ (TimePasses(k) \/ Stop(k) \/ NewConversation(k) \/ ForeignWrite(k))
    \/ SweepIdle(k) \/ ExpiryCloses(k) \/ ExpiryMarks(k)
    \/ \E t \in Turns : UserTurn(t, k)

Next ==
    \/ \E k \in Keys : KeyStep(k)
    \/ \E t \in Turns : TurnStep(t) \/ AgentStep(t)
    \/ Request \/ HandoffStep

Spec == Init /\ [][Next]_vars

\* A turn goes on: its agent ends, or the inactivity timeout ends it.  The
\* watchers go on as long as the gateway runs.
FairSpec ==
    /\ Spec
    /\ \A t \in Turns : WF_vars(TurnStep(t))
    /\ WF_vars(HandoffStep)
    /\ \A k \in Keys : WF_vars(ExpiryMarks(k))

-----------------------------------------------------------------------------
\* A turn that has an agent in its hands.
Holding(t) == pc[t] \in {"working", "back", "ended"}

\* Nobody finds an agent in the cache whose clients were released or whose tools
\* were closed, or are about to be on a thread, however evictions, the cap, the sweep, the expiry watcher and
\* /new interleave with turns; except while its own entry is being finalized.
CachedIsLive ==
    \A k \in Keys \ closing : cached[k] # 0 => cached[k] \in live

\* The entries and the sessions that a key can reach: its entry and those of its
\* turns; the sessions of these, of its turns and of its agents.
Enters(k, e) == e = entry[k] \/ \E t \in AtWork : key[t] = k /\ e = obj[t]
Reaches(k, s) ==
    \/ \E e \in Sids : Enters(k, e) /\ s = sidOf[e]
    \/ cached[k] # 0 /\ (s = born[cached[k]] \/ <<cached[k], s>> \in missed)
    \/ \E t \in AtWork : key[t] = k /\ s = sid[t]
    \/ \E t \in Turns : Holding(t) /\ key[t] = k /\ s = born[agent[t]]
Unbound == handoff \in {"pending", "running"}

\* Conversations of two keys never meet, whatever late threads, compressions and
\* hand-overs write into entries: neither entries nor sessions are shared, nor is
\* what the CLI hands over known to a key before it is bound.
ConversationsApart ==
    /\ \A j, k \in Keys : \A e \in Sids \ {0} : Enters(j, e) /\ Enters(k, e) => j = k
    /\ \A j, k \in Keys : \A s \in Sids \ {0} : Reaches(j, s) /\ Reaches(k, s) => j = k
    /\ Unbound => \A k \in Keys : ~Enters(k, CliSession) /\ ~Reaches(k, CliSession)

\* An agent in a slot is neither torn down nor in the hands of a thread that is
\* to tear it down: the cap enforcer, the idle sweep and _evict_cached_agent skip
\* it, and nobody puts an agent in a slot that they have taken.  The exceptions
\* are `exposed`: an agent taken after a turn had fetched it and before it was in
\* the turn's slot, and those of two who do not look at the slots, the expiry
\* watcher and the cross-process guard of a run stopped before it had an agent.
RunningNotReleased == InSlots \subseteq live \cup exposed

\* The cross-process guard: an agent that was cached, its snapshot not ahead of
\* the transcript, while another process wrote to its session and no turn was at
\* work, is not the next one to be used in that session.
ForeignWritesNoticed ==
    [][\A t \in Turns :
        pc[t] \in {"opened", "ready"} /\ pc'[t] = "working"
        => <<agent'[t], sid'[t]>> \notin missed]_vars

\* A hand-over that the CLI waits for is completed or failed in the end.
HandoffSettles == handoff = "pending" ~> handoff \in {"completed", "failed"}
=============================================================================
