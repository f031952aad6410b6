--------------------------- MODULE ProposalFacts ---------------------------
(***************************************************************************)
(* The fact store of the DingTalk adapter: the proposals the agent         *)
(* declared, and for each (chat, user) slot the proposal whose delivery is *)
(* outstanding.  It lives in memory, is bounded by a capacity and by an    *)
(* age, and every operation runs under one lock, so it is one atomic step. *)
(* The module has no Next: TaskWriteGate decides when an operation runs.   *)
(*                                                                         *)
(* A record keeps its last value here after the store dropped it, because  *)
(* a handler that holds the object goes on using it; "known" says which    *)
(* records the store still finds.  The receipts map of the store only      *)
(* feeds a line of the prompt and is left out.                             *)
(***************************************************************************)
EXTENDS Naturals, FiniteSets

CONSTANTS
  Proposals,   \* proposal ids; every declaration draws a fresh one
  Slots,       \* (chat, triggering user) pairs
  MaxKeys,     \* _H1_FACT_MAX_KEYS
  TTL,         \* _H1_FACT_TTL_SECONDS, in ticks
  MaxRetries,  \* _H1_WRITE_MAX_RETRIES
  MaxTime,     \* bound on the clock
  None

\* create_task and new_project create a card, bind_task and switch_task bind an
\* existing one.
Kinds == {"create", "bind", "unbind"}

ASSUME BoundsAssumption ==
  /\ MaxKeys \in Nat \ {0}
  /\ TTL \in Nat \ {0}
  /\ MaxRetries \in Nat
  /\ MaxTime \in Nat
  /\ IsFiniteSet(Proposals)
VARIABLES
  known,    \* ids found in facts["proposals"]
  fact,     \* the record of each id, None before it is declared
  pending,  \* facts["pending_delivery"]: the outstanding proposal of a slot
  now       \* the clock

factVars == <<known, fact, pending, now>>

Record == [slot : Slots, kind : Kinds, ts : 0..MaxTime, order : Nat,
           delivered : BOOLEAN, state : {"declared", "consumed"},
           retries : 0..MaxRetries]

ASSUME NoneAssumption == None \notin Proposals \union Record

FactsTypeOK ==
  /\ known \subseteq {p \in Proposals : fact[p] # None}
  /\ fact \in [Proposals -> Record \union {None}]
  /\ pending \in [Slots -> Proposals \union {None}]
  /\ \A s \in Slots : pending[s] # None => fact[pending[s]] # None
  /\ now \in 0..MaxTime

FactsInit ==
  /\ known = {}
  /\ fact = [p \in Proposals |-> None]
  /\ pending = [s \in Slots |-> None]
  /\ now = 0

----------------------------------------------------------------------------
(* Age and capacity.                                                       *)

Stale(p) == fact[p].ts + TTL <= now

FreshKnown == {p \in known : ~ Stale(p)}
FreshPending ==
  [s \in Slots |-> IF pending[s] # None /\ Stale(pending[s]) THEN None ELSE pending[s]]

Sweep == known' = FreshKnown /\ pending' = FreshPending /\ UNCHANGED <<fact, now>>

\* The dict yields its keys in the order they were inserted.
Oldest(ps) == CHOOSE p \in ps : \A q \in ps : fact[p].order <= fact[q].order

Evict(ps) == IF Cardinality(ps) >= MaxKeys THEN ps \ {Oldest(ps)} ELSE ps

----------------------------------------------------------------------------
(* The operations.                                                         *)

\* The eviction takes the record, never the slot that waits for it.
DeclareProposal(p, s, k) ==
  /\ fact[p] = None
  /\ FreshPending[s] = None
  /\ known' = Evict(FreshKnown) \union {p}
  /\ fact' = [fact EXCEPT ![p] =
       [slot |-> s, kind |-> k, ts |-> now,
        order |-> Cardinality({q \in Proposals : fact[q] # None}),
        delivered |-> FALSE, state |-> "declared", retries |-> 0]]
  /\ pending' = [FreshPending EXCEPT ![s] = p]
  /\ UNCHANGED now

\* proposal_in_flight: the sweep has happened all the same.
DeclareRefused(s) == FreshPending[s] # None /\ Sweep

\* Marked are the records a delivery to slot s flags; a failure receipt only
\* releases the slot.
Marked(s, failed) ==
  {p \in known : p = FreshPending[s] /\ ~ failed}

\* Expired proposals are not swept here, only expired slots.
MarkDelivered(s, failed) ==
  /\ pending' = [FreshPending EXCEPT ![s] = None]
  /\ fact' = [p \in Proposals |->
       IF p \in Marked(s, failed) THEN [fact[p] EXCEPT !.delivered = TRUE] ELSE fact[p]]
  /\ UNCHANGED <<known, now>>

\* Mutants: a check of the three-state consumption is missing.
ConsumableUndelivered(p) ==
  p \in known /\ ~ Stale(p) /\ fact[p].state = "declared" /\ fact[p].retries < MaxRetries
ConsumableTwice(p) ==
  p \in known /\ fact[p].delivered /\ ~ Stale(p) /\ fact[p].retries < MaxRetries

Consumable(p) ==
  /\ p \in known
  /\ fact[p].delivered
  /\ ~ Stale(p)
  /\ fact[p].state = "declared"
  /\ fact[p].retries < MaxRetries

Consume(p) ==
  /\ Consumable(p)
  /\ fact' = [fact EXCEPT ![p] =
       [fact[p] EXCEPT !.state = "consumed", !.retries = fact[p].retries + 1]]
  /\ UNCHANGED <<known, pending, now>>

\* Mutant: the rollback is forgotten.
RollbackLost(p) == fact[p] # None /\ UNCHANGED factVars

\* A record the store dropped in the meantime stays as it is.
Rollback(p) ==
  /\ fact' = IF p \in known THEN [fact EXCEPT ![p] = [fact[p] EXCEPT !.state = "declared"]]
             ELSE fact
  /\ UNCHANGED <<known, pending, now>>

\* The process restarts with an empty store.
Forget ==
  /\ known' = {}
  /\ pending' = [s \in Slots |-> None]
  /\ UNCHANGED <<fact, now>>

Tick == now < MaxTime /\ now' = now + 1 /\ UNCHANGED <<known, fact, pending>>
============================================================================
