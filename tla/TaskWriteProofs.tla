-------------------------- MODULE TaskWriteProofs --------------------------
(***************************************************************************)
(* Theorems about TaskWriteGate, for every set of proposals, messages,     *)
(* slots and users, every finite set of calls, and every capacity, age and *)
(* retry limit of the store.                                               *)
(***************************************************************************)
EXTENDS TaskWriteGate, FiniteSetTheorems, TLAPS

----------------------------------------------------------------------------
(* What the operations of the store do to a record.                        *)

\* The fields nobody writes after the declaration, and those the gate reads.
SameGateFields(p) ==
  /\ fact'[p] = None <=> fact[p] = None
  /\ fact[p] # None =>
       /\ fact'[p].slot = fact[p].slot
       /\ fact'[p].kind = fact[p].kind
       /\ fact'[p].state = fact[p].state
       /\ fact'[p].retries = fact[p].retries

\* A sweep drops records and slots and touches nothing else.
LEMMA SweepFacts ==
  ASSUME FactsTypeOK, Sweep
  PROVE  /\ FactsTypeOK'
         /\ known' \subseteq known
         /\ fact' = fact
         /\ \A s \in Slots : pending'[s] # None => pending'[s] = pending[s]
  BY DEF FactsTypeOK, Sweep, FreshKnown, FreshPending

\* A delivery flags the proposal its slot waited for, or nothing.
LEMMA MarkFacts ==
  ASSUME FactsTypeOK, NEW s \in Slots, NEW failed \in BOOLEAN, MarkDelivered(s, failed)
  PROVE  /\ FactsTypeOK'
         /\ known' = known
         /\ \A p \in Proposals : SameGateFields(p)
         /\ \A p \in Proposals : fact[p] # None /\ fact[p].delivered => fact'[p].delivered
         /\ \A p \in Proposals : fact'[p] # None /\ fact'[p].delivered =>
              fact[p].delivered \/ (p = pending[s] /\ ~ failed)
         /\ pending'[s] = None
         /\ \A t \in Slots : pending'[t] # None => pending'[t] = pending[t]
  <1>1. \A p \in Marked(s, failed) : p \in known /\ p = pending[s] /\ ~ failed
    BY NoneAssumption DEF Marked, FreshPending, FactsTypeOK
  <1>2. \A p \in Proposals : fact'[p] =
          IF p \in Marked(s, failed) THEN [fact[p] EXCEPT !.delivered = TRUE] ELSE fact[p]
    BY DEF MarkDelivered
  <1>3. \A p \in Proposals : fact[p] # None => fact[p] \in Record
    BY DEF FactsTypeOK
  <1>4. \A p \in Marked(s, failed) :
          /\ fact[p] \in Record
          /\ fact'[p] \in Record
          /\ fact'[p].slot = fact[p].slot /\ fact'[p].kind = fact[p].kind
          /\ fact'[p].state = fact[p].state /\ fact'[p].retries = fact[p].retries
          /\ fact'[p].delivered = TRUE
    <2> SUFFICES ASSUME NEW p \in Marked(s, failed)
                 PROVE  /\ fact[p] \in Record
                        /\ fact'[p] \in Record
                        /\ fact'[p].slot = fact[p].slot /\ fact'[p].kind = fact[p].kind
                        /\ fact'[p].state = fact[p].state
                        /\ fact'[p].retries = fact[p].retries
                        /\ fact'[p].delivered = TRUE
      OBVIOUS
    <2>1. p \in Proposals /\ fact[p] \in Record
      BY <1>1, <1>3 DEF FactsTypeOK
    <2>2. fact'[p] = [fact[p] EXCEPT !.delivered = TRUE]
      BY <1>2, <2>1
    <2> QED BY <2>1, <2>2 DEF Record
  <1>5. \A p \in Proposals \ Marked(s, failed) : fact'[p] = fact[p]
    BY <1>2
  <1>6. \A p \in Proposals : SameGateFields(p)
    <2>1. \A p \in Marked(s, failed) : fact[p] # None /\ fact'[p] # None
      BY <1>4, NoneAssumption
    <2>2. \A p \in Marked(s, failed) : SameGateFields(p)
      BY <1>4, <2>1 DEF SameGateFields
    <2>3. \A p \in Proposals \ Marked(s, failed) : SameGateFields(p)
      BY <1>5 DEF SameGateFields
    <2> QED BY <2>2, <2>3
  <1>7. /\ pending' \in [Slots -> Proposals \union {None}]
        /\ pending'[s] = None
        /\ \A t \in Slots : pending'[t] # None => pending'[t] = pending[t]
    BY DEF MarkDelivered, FreshPending, FactsTypeOK
  <1>8. fact' \in [Proposals -> Record \union {None}]
    <2>1. \A p \in Proposals : fact'[p] \in Record \union {None}
      BY <1>4, <1>5 DEF FactsTypeOK
    <2> QED BY <2>1 DEF MarkDelivered
  <1>9. FactsTypeOK'
    <2>1. known' \subseteq {p \in Proposals : fact'[p] # None}
      BY <1>6 DEF MarkDelivered, FactsTypeOK, SameGateFields
    <2>2. \A t \in Slots : pending'[t] # None => fact'[pending'[t]] # None
      BY <1>6, <1>7 DEF FactsTypeOK, SameGateFields
    <2> QED BY <1>7, <1>8, <2>1, <2>2 DEF MarkDelivered, FactsTypeOK
  <1> QED BY <1>1, <1>4, <1>5, <1>6, <1>7, <1>9 DEF MarkDelivered

\* A declaration adds one open, undelivered record of the sender's slot.
LEMMA DeclareFacts ==
  ASSUME FactsTypeOK, NEW p \in Proposals, NEW s \in Slots, NEW k \in Kinds,
         DeclareProposal(p, s, k)
  PROVE  /\ FactsTypeOK'
         /\ known' \subseteq known \union {p}
         /\ fact[p] = None
         /\ fact'[p] \in Record
         /\ fact'[p].slot = s /\ fact'[p].retries = 0
         /\ fact'[p].state = "declared" /\ ~ fact'[p].delivered
         /\ \A q \in Proposals \ {p} : fact'[q] = fact[q]
         /\ pending'[s] = p
         /\ \A t \in Slots \ {s} : pending'[t] # None => pending'[t] = pending[t]
  <1> DEFINE r == [slot |-> s, kind |-> k, ts |-> now,
                   order |-> Cardinality({q \in Proposals : fact[q] # None}),
                   delivered |-> FALSE, state |-> "declared", retries |-> 0]
  <1>1. r \in Record
    <2>1. Cardinality({q \in Proposals : fact[q] # None}) \in Nat
      BY FS_Subset, FS_CardinalityType, BoundsAssumption
    <2> QED BY <2>1, BoundsAssumption DEF Record, FactsTypeOK
  <1>2. fact' = [fact EXCEPT ![p] = r]
    BY DEF DeclareProposal
  <1>3. r.slot = s /\ r.retries = 0 /\ r.state = "declared" /\ ~ r.delivered
    OBVIOUS
  <1> HIDE DEF r
  <1>4. /\ fact'[p] = r
        /\ \A q \in Proposals \ {p} : fact'[q] = fact[q]
        /\ fact' \in [Proposals -> Record \union {None}]
    BY <1>1, <1>2 DEF FactsTypeOK
  <1>5. r # None
    BY <1>1, NoneAssumption
  <1>6. known' \subseteq known \union {p}
    BY DEF DeclareProposal, Evict, FreshKnown
  <1>7. /\ pending' \in [Slots -> Proposals \union {None}]
        /\ pending'[s] = p
        /\ \A t \in Slots \ {s} : pending'[t] # None => pending'[t] = pending[t]
    BY DEF DeclareProposal, FreshPending, FactsTypeOK
  <1>8. FactsTypeOK'
    <2>1. known' \subseteq {q \in Proposals : fact'[q] # None}
      BY <1>4, <1>5, <1>6 DEF FactsTypeOK
    <2>2. \A t \in Slots : pending'[t] # None => fact'[pending'[t]] # None
      BY <1>4, <1>5, <1>7 DEF FactsTypeOK
    <2> QED BY <1>4, <1>7, <2>1, <2>2 DEF DeclareProposal, FactsTypeOK
  <1> QED BY <1>1, <1>3, <1>4, <1>6, <1>7, <1>8 DEF DeclareProposal

\* The consumption flips one delivered open record and counts the attempt.
LEMMA ConsumeFacts ==
  ASSUME FactsTypeOK, NEW p \in Proposals, Consume(p)
  PROVE  /\ FactsTypeOK'
         /\ p \in known /\ fact[p] \in Record
         /\ fact[p].state = "declared" /\ fact[p].delivered
         /\ fact[p].retries < MaxRetries
         /\ fact'[p] \in Record
         /\ fact'[p].slot = fact[p].slot /\ fact'[p].kind = fact[p].kind
         /\ fact'[p].delivered /\ fact'[p].state = "consumed"
         /\ fact'[p].retries = fact[p].retries + 1
         /\ \A q \in Proposals \ {p} : fact'[q] = fact[q]
  <1> DEFINE r == [fact[p] EXCEPT !.state = "consumed", !.retries = fact[p].retries + 1]
  <1>1. p \in known /\ fact[p].state = "declared" /\ fact[p].delivered
        /\ fact[p].retries < MaxRetries
    BY DEF Consume, Consumable
  <1>2. fact[p] \in Record
    BY <1>1 DEF FactsTypeOK
  <1>3. /\ r \in Record
        /\ r.slot = fact[p].slot /\ r.kind = fact[p].kind
        /\ r.delivered = fact[p].delivered
        /\ r.state = "consumed" /\ r.retries = fact[p].retries + 1
    <2>1. /\ r.slot = fact[p].slot /\ r.kind = fact[p].kind
          /\ r.delivered = fact[p].delivered /\ r.ts = fact[p].ts /\ r.order = fact[p].order
          /\ r.state = "consumed" /\ r.retries = fact[p].retries + 1
      BY <1>2 DEF Record
    <2>2. fact[p].retries + 1 \in 0..MaxRetries
      <3>1. fact[p].retries \in 0..MaxRetries /\ fact[p].retries < MaxRetries
        BY <1>1, <1>2 DEF Record
      <3> QED BY <3>1, BoundsAssumption
    <2>3. r \in Record
      BY <1>2, <2>2 DEF Record
    <2> QED BY <2>1, <2>3
  <1>4. fact' = [fact EXCEPT ![p] = r]
    BY DEF Consume
  <1> HIDE DEF r
  <1>5. /\ fact'[p] = r
        /\ \A q \in Proposals \ {p} : fact'[q] = fact[q]
        /\ fact' \in [Proposals -> Record \union {None}]
    BY <1>3, <1>4 DEF FactsTypeOK
  <1>6. FactsTypeOK'
    <2>1. \A q \in Proposals : fact[q] # None => fact'[q] # None
      BY <1>3, <1>5, NoneAssumption
    <2> QED BY <1>5, <2>1 DEF FactsTypeOK, Consume
  <1>7. fact'[p].delivered
    <2>1. fact'[p].delivered = fact[p].delivered
      BY <1>3, <1>5
    <2> QED BY <1>1, <2>1, Zenon
  <1> QED BY <1>1, <1>2, <1>3, <1>5, <1>6, <1>7

\* A rollback opens the record again, if the store still has it.
LEMMA RollbackFacts ==
  ASSUME FactsTypeOK, NEW p \in Proposals, fact[p] # None, Rollback(p)
  PROVE  /\ FactsTypeOK'
         /\ known' = known
         /\ fact'[p] \in Record
         /\ fact'[p].slot = fact[p].slot /\ fact'[p].kind = fact[p].kind
         /\ fact'[p].delivered = fact[p].delivered
         /\ fact'[p].retries = fact[p].retries
         /\ p \in known => fact'[p].state = "declared"
         /\ p \notin known => fact'[p] = fact[p]
         /\ \A q \in Proposals \ {p} : fact'[q] = fact[q]
  <1> DEFINE r == [fact[p] EXCEPT !.state = "declared"]
  <1>1. fact[p] \in Record
    BY DEF FactsTypeOK
  <1>2. /\ r \in Record
        /\ r.slot = fact[p].slot /\ r.kind = fact[p].kind
        /\ r.delivered = fact[p].delivered
        /\ r.state = "declared" /\ r.retries = fact[p].retries
    BY <1>1 DEF Record
  <1>3. fact' = IF p \in known THEN [fact EXCEPT ![p] = r] ELSE fact
    BY DEF Rollback
  <1> HIDE DEF r
  <1>4. /\ p \in known => fact'[p] = r
        /\ p \notin known => fact'[p] = fact[p]
        /\ \A q \in Proposals \ {p} : fact'[q] = fact[q]
        /\ fact' \in [Proposals -> Record \union {None}]
    BY <1>2, <1>3 DEF FactsTypeOK
  <1>5. FactsTypeOK'
    <2>1. \A q \in Proposals : fact[q] # None => fact'[q] # None
      BY <1>2, <1>4, NoneAssumption
    <2> QED BY <1>4, <2>1 DEF FactsTypeOK, Rollback
  <1> QED BY <1>1, <1>2, <1>4, <1>5 DEF Rollback
----------------------------------------------------------------------------
(* The steps, sorted by what they do to the records and the handlers.      *)

TurnTypes == at \in [Msgs -> Turns] /\ scope \in [Msgs -> Msgs \union {None}]
HistoryGrows ==
  shown' \subseteq Proposals /\ aside' \subseteq Proposals /\ aside \subseteq aside'

\* Turns and the clock: no handler moves, no card or binding is written, and
\* records are at most dropped or flagged.
QuietStep ==
  /\ FactsTypeOK'
  /\ known' \subseteq known
  /\ \A p \in Proposals : SameGateFields(p)
  /\ \A p \in Proposals : fact[p] # None /\ fact[p].delivered => fact'[p].delivered
  /\ UNCHANGED <<pc, job, cards, binding, origin>>
  /\ TurnTypes'
  /\ HistoryGrows

\* Records that do not change keep what the gate reads of them.
LEMMA SameFactQuiet ==
  ASSUME fact' = fact
  PROVE  /\ \A p \in Proposals : SameGateFields(p)
         /\ \A p \in Proposals : fact[p] # None /\ fact[p].delivered => fact'[p].delivered
  BY DEF SameGateFields

\* No step of a turn but a declaration touches what the gate decides on.
LEMMA TurnStepIsQuiet ==
  ASSUME TypeOK, NEW m \in Msgs, TurnStep(m)
  PROVE  QuietStep
  <1>1. SlotOf[m] \in Slots
    BY RoutingAssumption
  <1>2. FactsTypeOK
    BY DEF TypeOK
  <1>3. CASE Arrive(m)
    <2>1. UNCHANGED <<pc, job, cards, binding, origin>>
          /\ TurnTypes' /\ HistoryGrows
      BY <1>3 DEF TypeOK, Arrive, Dispatch, SetTurn, Turns, TurnTypes, HistoryGrows
    <2>2. FactsTypeOK' /\ known' \subseteq known /\ fact' = fact
      <3>1. CASE Sweep
        BY <1>2, <3>1, SweepFacts
      <3>2. CASE UNCHANGED factVars
        BY <1>2, <3>2 DEF factVars, FactsTypeOK
      <3> QED BY <1>3, <3>1, <3>2 DEF Arrive
    <2> QED BY <2>1, <2>2, SameFactQuiet DEF QuietStep
  <1>4. ASSUME NEW failed \in BOOLEAN, MarkDelivered(SlotOf[m], failed),
               UNCHANGED <<pc, job, cards, binding, origin>>,
               TurnTypes', HistoryGrows
        PROVE  QuietStep
    BY <1>1, <1>2, <1>4, MarkFacts DEF QuietStep
  <1>5. CASE SideReply(m) \/ Command(m) \/ ProgressEdit(m)
    <2>1. Marked(SlotOf[m], FALSE) \subseteq Proposals
      BY <1>2 DEF Marked, FactsTypeOK
    <2>2. TurnTypes' /\ HistoryGrows
      BY <1>5, <2>1
         DEF SideReply, Command, ProgressEdit, MarkAside, SetTurn, TypeOK, Turns, TurnTypes,
             HistoryGrows
    <2> QED BY <1>4, <1>5, <2>2 DEF SideReply, Command, ProgressEdit, MarkAside
  <1>7. CASE Reply(m)
    <2>1. TurnTypes' /\ HistoryGrows
      BY <1>7 DEF Reply, SetTurn, Dispatch, TypeOK, Turns, TurnTypes, HistoryGrows
    <2> QED BY <1>4, <1>7, <2>1 DEF Reply
  <1>8. CASE ReplyWithReceipt(m)
    <2>1. TurnTypes' /\ HistoryGrows
      BY <1>8 DEF ReplyWithReceipt, SetTurn, Dispatch, TypeOK, Turns, TurnTypes,
                    HistoryGrows
    <2> QED BY <1>4, <1>8, <2>1 DEF ReplyWithReceipt
  <1>9. CASE DeclareAgain(m)
    <2>1. FactsTypeOK' /\ known' \subseteq known /\ fact' = fact
      BY <1>2, <1>9, SweepFacts DEF DeclareAgain, DeclareRefused
    <2> QED BY <1>9, <2>1, SameFactQuiet 
            DEF QuietStep, DeclareAgain, gateVars, TypeOK, TurnTypes, HistoryGrows
  <1>10. CASE StartQueued(m) \/ ReplyLost(m)
    <2>1. FactsTypeOK' /\ known' \subseteq known /\ fact' = fact
      BY <1>2, <1>10 DEF StartQueued, ReplyLost, FactsTypeOK
    <2>2. UNCHANGED <<pc, job, cards, binding, origin>>
          /\ TurnTypes' /\ HistoryGrows
      BY <1>10 DEF StartQueued, ReplyLost, SetTurn, Dispatch, TypeOK, Turns, TurnTypes,
                     HistoryGrows
    <2> QED BY <2>1, <2>2, SameFactQuiet DEF QuietStep
  <1> QED BY <1>3, <1>5, <1>7, <1>8, <1>9, <1>10 DEF TurnStep

\* Every step is quiet, a declaration, a consumption, a handler's or a restart.
LEMMA StepKinds ==
  ASSUME TypeOK, [Next]_vars
  PROVE  \/ QuietStep
         \/ \E m \in Msgs, p \in Proposals, k \in Kinds : Declare(m, p, k)
         \/ \E c \in Calls, m \in Msgs, p \in Proposals : Write(c, m, p)
         \/ \E c \in Calls : CallStep(c)
         \/ Restart
  <1>1. CASE PassTime
    <2>1. FactsTypeOK' /\ known' \subseteq known /\ fact' = fact
      BY <1>1, BoundsAssumption DEF PassTime, Tick, TypeOK, FactsTypeOK
    <2> QED BY <1>1, <2>1, SameFactQuiet 
            DEF QuietStep, PassTime, gateVars, TypeOK, TurnTypes, HistoryGrows
  <1>2. CASE UNCHANGED vars
    <2>1. FactsTypeOK' /\ known' \subseteq known /\ fact' = fact
      BY <1>2 DEF vars, TypeOK, FactsTypeOK
    <2> QED BY <1>2, <2>1, SameFactQuiet DEF QuietStep, vars, TypeOK, TurnTypes, HistoryGrows
  <1>3. ASSUME NEW m \in Msgs, NEW n \in Msgs, FollowUp(m, n)
        PROVE  QuietStep
    <2>1. FactsTypeOK' /\ known' \subseteq known /\ fact' = fact
      BY <1>3 DEF FollowUp, TypeOK, FactsTypeOK
    <2>2. UNCHANGED <<pc, job, cards, binding, origin>>
          /\ TurnTypes' /\ HistoryGrows
      BY <1>3 DEF FollowUp, TypeOK, Turns, TurnTypes, HistoryGrows
    <2> QED BY <2>1, <2>2, SameFactQuiet DEF QuietStep
  <1> QED BY <1>1, <1>2, <1>3, TurnStepIsQuiet DEF Next

----------------------------------------------------------------------------
(* Types.                                                                  *)

\* What one step of a handler leaves alone, and where it leads.
LEMMA CallFacts ==
  ASSUME TypeOK, NEW c \in Calls, CallStep(c)
  PROVE  /\ pc[c] \in Live /\ job[c] \in Job /\ fact[Prop(c)] \in Record
         /\ pc' \in [Calls -> PCs]
         /\ pc'[c] \in {"carded", "ok", "rejected", "unknown"}
         /\ \A d \in Calls \ {c} : pc'[d] = pc[d]
         /\ pc'[c] # "unknown" => UNCHANGED factVars
         /\ pc'[c] = "unknown" => Rollback(Prop(c))
         /\ UNCHANGED <<at, scope, job, origin, shown, aside>>
  <1>1. pc[c] \in Live
    BY DEF CallStep, CreateCard, WriteBinding, ReadyToBind, Reject, Fail, Live
  <1>2. job[c] \in Job /\ Prop(c) \in Proposals /\ fact[Prop(c)] # None
    BY <1>1 DEF TypeOK, Live, Prop, Job
  <1>3. fact[Prop(c)] \in Record
    BY <1>2 DEF TypeOK, FactsTypeOK
  <1>4. \/ Goto(c, "carded") /\ UNCHANGED factVars
        \/ Goto(c, "ok") /\ UNCHANGED factVars
        \/ Goto(c, "rejected") /\ UNCHANGED factVars
        \/ Goto(c, "unknown") /\ Rollback(Prop(c))
    BY DEF CallStep, CreateCard, WriteBinding, Reject, Fail, factVars
  <1>5. UNCHANGED <<at, scope, job, origin, shown, aside>>
    BY DEF CallStep, CreateCard, WriteBinding, Reject, Fail
  <1>6. pc \in [Calls -> PCs]
    BY DEF TypeOK
  <1> QED BY <1>1, <1>2, <1>3, <1>4, <1>5, <1>6 DEF Goto, PCs, Live, Settled

\* The types of cards and bindings survive a step of a handler.
LEMMA EffectTypes ==
  ASSUME TypeOK, NEW c \in Calls, CallStep(c)
  PROVE  /\ cards' \subseteq Proposals \X (Proposals \union Calls)
         /\ binding' \in [Slots -> Proposals \union {None}]
  <1>1. job[c] \in Job
    BY CallFacts
  <1>2. Prop(c) \in Proposals /\ Target(c) \in Slots
    BY <1>1, RoutingAssumption DEF Prop, Target, Job
  <1>3. MakeCard(c) => cards' \subseteq Proposals \X (Proposals \union Calls)
    BY <1>2 DEF MakeCard, OperationId, TypeOK
  <1>4. SetBinding(c) => binding' \in [Slots -> Proposals \union {None}]
    BY <1>2 DEF SetBinding, TypeOK
  <1> QED BY <1>3, <1>4 DEF CallStep, CreateCard, WriteBinding, Reject, Fail, TypeOK

\* Every reachable state has the types the model declares: in particular a
\* handler past the gate always has the record of its proposal.
THEOREM TypeCorrect == Spec => []TypeOK
  <1>1. Init => TypeOK
    BY BoundsAssumption
    DEF Init, FactsInit, TypeOK, FactsTypeOK, Turns, PCs
  <1>2. TypeOK /\ [Next]_vars => TypeOK'
    <2> SUFFICES ASSUME TypeOK, [Next]_vars PROVE TypeOK'
      OBVIOUS
    <2>1. CASE QuietStep
      <3>1. \A c \in Calls : pc'[c] # "idle" => job'[c] \in Job /\ fact'[job'[c].prop] # None
        BY <2>1 DEF QuietStep, TypeOK, SameGateFields, Job
      <3> QED BY <2>1, <3>1 DEF QuietStep, TypeOK, TurnTypes, HistoryGrows
    <2>2. ASSUME NEW m \in Msgs, NEW p \in Proposals, NEW k \in Kinds, Declare(m, p, k)
          PROVE  TypeOK'
      <3>1. SlotOf[m] \in Slots
        BY RoutingAssumption
      <3>2. /\ FactsTypeOK' /\ fact[p] = None
            /\ \A q \in Proposals \ {p} : fact'[q] = fact[q]
        BY <2>2, <3>1, DeclareFacts DEF Declare, TypeOK
      <3>3. \A c \in Calls : pc'[c] # "idle" => job'[c] \in Job /\ fact'[job'[c].prop] # None
        BY <2>2, <3>2 DEF Declare, TypeOK, Job
      <3> QED BY <2>2, <3>2, <3>3 DEF Declare, TypeOK
    <2>3. ASSUME NEW c \in Calls, NEW m \in Msgs, NEW p \in Proposals, Write(c, m, p)
          PROVE  TypeOK'
      <3>1. /\ FactsTypeOK' /\ fact'[p] # None
            /\ \A q \in Proposals \ {p} : fact'[q] = fact[q]
        BY <2>3, ConsumeFacts, NoneAssumption DEF Write, TypeOK
      <3>2. /\ pc' \in [Calls -> PCs] /\ job' \in [Calls -> Job \union {None}]
            /\ job'[c] = [msg |-> m, prop |-> p]
            /\ \A d \in Calls \ {c} : pc'[d] = pc[d] /\ job'[d] = job[d]
        BY <2>3 DEF Write, Goto, TypeOK, PCs, Live, Job
      <3>3. \A d \in Calls : pc'[d] # "idle" => job'[d] \in Job /\ fact'[job'[d].prop] # None
        BY <3>1, <3>2 DEF TypeOK, Job
      <3> QED BY <2>3, <3>1, <3>2, <3>3 DEF Write, TypeOK
    <2>4. ASSUME NEW c \in Calls, CallStep(c)
          PROVE  TypeOK'
      <3>1. FactsTypeOK' /\ \A q \in Proposals : fact[q] # None => fact'[q] # None
        <4>1. CASE UNCHANGED factVars
          BY <4>1 DEF factVars, TypeOK, FactsTypeOK
        <4>2. CASE Rollback(Prop(c))
          <5>1. Prop(c) \in Proposals /\ fact[Prop(c)] # None
            BY <2>4, CallFacts, NoneAssumption DEF Prop, Job
          <5> QED BY <4>2, <5>1, RollbackFacts, NoneAssumption DEF TypeOK
        <4> QED BY <2>4, <4>1, <4>2, CallFacts
      <3>2. \A d \in Calls : pc'[d] # "idle" => job'[d] \in Job /\ fact'[job'[d].prop] # None
        BY <2>4, <3>1, CallFacts DEF TypeOK, Job, Live
      <3> QED BY <2>4, <3>1, <3>2, CallFacts, EffectTypes DEF TypeOK
    <2>5. CASE Restart
      <3>1. FactsTypeOK' /\ fact' = fact
        BY <2>5 DEF Restart, Forget, TypeOK, FactsTypeOK
      <3>2. at' \in [Msgs -> Turns] /\ pc' \in [Calls -> PCs]
        BY <2>5 DEF Restart, TypeOK, Turns, PCs
      <3>3. \A c \in Calls : pc'[c] # "idle" => pc[c] # "idle"
        BY <2>5 DEF Restart, TypeOK, Live
      <3> QED BY <2>5, <3>1, <3>2, <3>3 DEF Restart, TypeOK
    <2> QED BY <2>1, <2>2, <2>3, <2>4, <2>5, StepKinds
  <1> QED BY <1>1, <1>2, PTL DEF Spec
----------------------------------------------------------------------------
(* One writer, and a bounded number of attempts.                           *)

Attempts(p) == {c \in Calls : pc[c] # "idle" /\ Prop(c) = p}

\* The attempts of a proposal are finitely many calls.
LEMMA AttemptsFinite ==
  ASSUME NEW p
  PROVE  IsFiniteSet(Attempts(p))
  BY FS_Subset, FiniteAssumption DEF Attempts

\* What GateInv says, with the sets spelled out.
LEMMA GateInvMeaning ==
  ASSUME TypeOK
  PROVE  GateInv <=>
    /\ \A c, d \in Calls :
         pc[c] \in Live /\ pc[d] \in Live \union Settled \union {"dead"}
           /\ Prop(c) = Prop(d) => c = d
    /\ \A c \in Calls : pc[c] \in Live \union Settled =>
         fact[Prop(c)] = None \/ fact[Prop(c)].state # "declared"
    /\ \A c \in Calls : pc[c] = "dead" => Prop(c) \notin known
    /\ \A p \in Proposals : Cardinality(Attempts(p)) = Tries(p)
  <1>1. \A c \in Calls : pc[c] \in Live \union Settled => Prop(c) \in Proposals
    BY DEF TypeOK, Live, Settled, Prop, Job
  <1>2. (\A p \in Proposals : fact[p] # None /\ fact[p].state = "declared" =>
           LiveCalls(p) = {} /\ ~ EndedWell(p))
        <=> \A c \in Calls : pc[c] \in Live \union Settled =>
              fact[Prop(c)] = None \/ fact[Prop(c)].state # "declared"
    BY <1>1 DEF LiveCalls, EndedWell
  <1> QED BY <1>2 DEF GateInv, OneWriter, Attempts

\* The same of the state after a step.
LEMMA GateInvNext ==
  ASSUME TypeOK',
         \A c, d \in Calls :
           pc'[c] \in Live /\ pc'[d] \in Live \union Settled \union {"dead"}
             /\ Prop(c)' = Prop(d)' => c = d,
         \A c \in Calls : pc'[c] \in Live \union Settled =>
           fact'[Prop(c)'] = None \/ fact'[Prop(c)'].state # "declared",
         \A c \in Calls : pc'[c] = "dead" => Prop(c)' \notin known',
         \A p \in Proposals : Cardinality(Attempts(p)') = Tries(p)'
  PROVE  GateInv'
  <1>1. OneWriter'
    BY DEF OneWriter
  <1>2. \A p \in Proposals : fact'[p] # None /\ fact'[p].state = "declared" =>
          LiveCalls(p)' = {} /\ ~ EndedWell(p)'
    BY DEF LiveCalls, EndedWell
  <1> QED BY <1>1, <1>2 DEF GateInv, Attempts

\* A step that moves no handler and leaves the gate's fields alone.
LEMMA QuietKeepsGate ==
  ASSUME TypeOK, TypeOK', GateInv, QuietStep
  PROVE  GateInv'
  <1>1. \A c \in Calls : pc'[c] = pc[c] /\ Prop(c)' = Prop(c)
    BY DEF QuietStep, Prop
  <1>2. \A c \in Calls : pc[c] # "idle" => Prop(c) \in Proposals
    BY DEF TypeOK, Prop, Job
  <1>3. \A p \in Proposals : Attempts(p)' = Attempts(p) /\ Tries(p)' = Tries(p)
    BY <1>1 DEF QuietStep, Attempts, Tries, SameGateFields
  <1>4. \A c \in Calls : pc[c] \in Live \union Settled =>
          fact'[Prop(c)] = None \/ fact'[Prop(c)].state # "declared"
    BY <1>2, GateInvMeaning DEF QuietStep, SameGateFields, Live, Settled
  <1> QED BY <1>1, <1>3, <1>4, GateInvMeaning, GateInvNext DEF QuietStep

\* A fresh declaration: no handler knows the proposal yet.
LEMMA DeclareKeepsGate ==
  ASSUME TypeOK, TypeOK', GateInv,
         NEW m \in Msgs, NEW p \in Proposals, NEW k \in Kinds, Declare(m, p, k)
  PROVE  GateInv'
  <1>1. /\ fact[p] = None /\ fact'[p] \in Record /\ fact'[p].retries = 0
        /\ known' \subseteq known \union {p}
        /\ \A q \in Proposals \ {p} : fact'[q] = fact[q]
    BY DeclareFacts, RoutingAssumption DEF Declare, TypeOK
  <1>2. pc' = pc /\ job' = job
    BY DEF Declare
  <1>3. \A c \in Calls : pc[c] # "idle" => Prop(c) \in Proposals \ {p}
    BY <1>1 DEF TypeOK, Prop, Job
  <1>4. \A q \in Proposals : Attempts(q)' = Attempts(q)
    BY <1>2 DEF Attempts, Prop
  <1>5. \A q \in Proposals : Tries(q)' = Tries(q)
    BY <1>1, NoneAssumption DEF Tries
  <1> QED BY <1>1, <1>2, <1>3, <1>4, <1>5, GateInvMeaning, GateInvNext DEF Prop, Live, Settled

\* The consumption admits a handler only to a proposal nobody has.
LEMMA WriteKeepsGate ==
  ASSUME TypeOK, TypeOK', GateInv,
         NEW c \in Calls, NEW m \in Msgs, NEW p \in Proposals, Write(c, m, p)
  PROVE  GateInv'
  <1>1. /\ p \in known /\ fact[p] \in Record /\ fact[p].state = "declared"
        /\ fact'[p] \in Record /\ fact'[p].state = "consumed"
        /\ fact'[p].retries = fact[p].retries + 1
        /\ \A q \in Proposals \ {p} : fact'[q] = fact[q]
        /\ known' = known
    BY ConsumeFacts DEF Write, TypeOK, Consume
  <1>2. fact[p] # None /\ fact'[p] # None
    BY <1>1, NoneAssumption
  <1>3. /\ pc[c] = "idle" /\ pc'[c] = "writing" /\ Prop(c)' = p
        /\ \A d \in Calls \ {c} : pc'[d] = pc[d] /\ Prop(d)' = Prop(d)
    BY DEF Write, Goto, TypeOK, Prop
  <1>4. \A d \in Calls : pc[d] \in Live \union Settled \union {"dead"} => Prop(d) # p
    BY <1>1, <1>2, GateInvMeaning
  <1>5. \A q \in Proposals : Cardinality(Attempts(q)') = Tries(q)'
    <2>1. Attempts(p)' = Attempts(p) \union {c}
      BY <1>3 DEF Attempts
    <2>2. c \notin Attempts(p)
      BY <1>3 DEF Attempts
    <2>3. Cardinality(Attempts(p)') = Cardinality(Attempts(p)) + 1
      BY <2>1, <2>2, AttemptsFinite, FS_AddElement
    <2>4. Tries(p)' = Tries(p) + 1
      BY <1>1, <1>2 DEF Tries
    <2>5. \A q \in Proposals \ {p} : Attempts(q)' = Attempts(q) /\ Tries(q)' = Tries(q)
      BY <1>1, <1>3 DEF Attempts, Tries
    <2> QED BY <2>3, <2>4, <2>5, GateInvMeaning
  <1>6. \A d, e \in Calls : pc'[d] \in Live /\ pc'[e] \in Live \union Settled \union {"dead"}
          /\ Prop(d)' = Prop(e)' => d = e
    BY <1>3, <1>4, GateInvMeaning
  <1>7. \A d \in Calls : pc'[d] \in Live \union Settled =>
          fact'[Prop(d)'] = None \/ fact'[Prop(d)'].state # "declared"
    BY <1>1, <1>3, GateInvMeaning DEF TypeOK, Prop, Job, Live, Settled
  <1>8. \A d \in Calls : pc'[d] = "dead" => Prop(d)' \notin known'
    BY <1>1, <1>3, GateInvMeaning
  <1> QED BY <1>5, <1>6, <1>7, <1>8, GateInvMeaning, GateInvNext

\* A handler moves on, or leaves and opens its own proposal again.
LEMMA CallKeepsGate ==
  ASSUME TypeOK, TypeOK', GateInv, NEW c \in Calls, CallStep(c)
  PROVE  GateInv'
  <1>1. /\ pc[c] \in Live /\ job[c] \in Job /\ fact[Prop(c)] \in Record
        /\ pc'[c] \in {"carded", "ok", "rejected", "unknown"}
        /\ \A d \in Calls \ {c} : pc'[d] = pc[d]
        /\ job' = job
    BY CallFacts
  <1>2. Prop(c) \in Proposals /\ fact[Prop(c)] # None
    BY <1>1, NoneAssumption DEF Prop, Job
  <1>3. \A d \in Calls : Prop(d)' = Prop(d)
    BY <1>1 DEF Prop
  <1>4. \A q \in Proposals : Attempts(q)' = Attempts(q)
    BY <1>1, <1>3 DEF Attempts, Live
  <1>5. \A d \in Calls \ {c} :
          pc[d] \in Live \union Settled \union {"dead"} => Prop(d) # Prop(c)
    BY <1>1, GateInvMeaning
  <1>6. \A d, e \in Calls : pc'[d] \in Live /\ pc'[e] \in Live \union Settled \union {"dead"}
          /\ Prop(d)' = Prop(e)' => d = e
    BY <1>1, <1>3, <1>5, GateInvMeaning DEF Live
  <1>7. CASE UNCHANGED factVars /\ pc'[c] # "unknown"
    <2>1. \A q \in Proposals : Tries(q)' = Tries(q)
      BY <1>7 DEF Tries, factVars
    <2>2. \A d \in Calls : pc'[d] \in Live \union Settled =>
            fact'[Prop(d)'] = None \/ fact'[Prop(d)'].state # "declared"
      BY <1>1, <1>3, <1>7, GateInvMeaning DEF factVars
    <2>3. \A d \in Calls : pc'[d] = "dead" => Prop(d)' \notin known'
      BY <1>1, <1>3, <1>7, GateInvMeaning DEF factVars
    <2> QED BY <1>4, <1>6, <2>1, <2>2, <2>3, GateInvMeaning, GateInvNext
  <1>8. CASE Rollback(Prop(c)) /\ pc'[c] = "unknown"
    <2>1. /\ known' = known
          /\ fact'[Prop(c)] \in Record
          /\ fact'[Prop(c)].retries = fact[Prop(c)].retries
          /\ \A q \in Proposals \ {Prop(c)} : fact'[q] = fact[q]
      BY <1>2, <1>8, RollbackFacts DEF TypeOK
    <2>2. fact'[Prop(c)] # None
      BY <2>1, NoneAssumption
    <2>3. \A q \in Proposals : Tries(q)' = Tries(q)
      BY <1>2, <2>1, <2>2 DEF Tries
    <2>4. \A d \in Calls : pc'[d] \in Live \union Settled =>
            d # c /\ Prop(d) \in Proposals \ {Prop(c)}
      BY <1>1, <1>5, <1>8 DEF TypeOK, Prop, Job, Live, Settled
    <2>5. \A d \in Calls : pc'[d] \in Live \union Settled =>
            fact'[Prop(d)'] = None \/ fact'[Prop(d)'].state # "declared"
      BY <1>1, <1>3, <2>1, <2>4, GateInvMeaning
    <2>6. \A d \in Calls : pc'[d] = "dead" => Prop(d)' \notin known'
      BY <1>1, <1>3, <2>1, GateInvMeaning
    <2> QED BY <1>4, <1>6, <2>3, <2>5, <2>6, GateInvMeaning, GateInvNext
  <1> QED BY <1>1, <1>7, <1>8, CallFacts

\* A restart ends the handlers and empties the store together.
LEMMA RestartKeepsGate ==
  ASSUME TypeOK, TypeOK', GateInv, Restart
  PROVE  GateInv'
  <1>1. /\ job' = job /\ fact' = fact /\ known' = {}
        /\ \A c \in Calls : pc'[c] = IF pc[c] \in Live THEN "dead" ELSE pc[c]
    BY DEF Restart, Forget
  <1>2. \A c \in Calls : Prop(c)' = Prop(c)
    BY <1>1 DEF Prop
  <1>3. \A c \in Calls : /\ pc'[c] # "idle" <=> pc[c] # "idle"
                         /\ pc'[c] \notin Live
                         /\ pc'[c] \in Settled => pc[c] \in Settled
    BY <1>1 DEF Live, Settled
  <1>4. \A p \in Proposals : Attempts(p)' = Attempts(p) /\ Tries(p)' = Tries(p)
    BY <1>1, <1>2, <1>3 DEF Attempts, Tries
  <1> QED BY <1>1, <1>2, <1>3, <1>4, GateInvMeaning, GateInvNext

\* However turns, deliveries, evictions, expiry, retries and restarts
\* interleave, the store's records and the handlers agree.
THEOREM GateIsKept == Spec => []GateInv
  <1>1. Init => TypeOK /\ GateInv
    <2> SUFFICES ASSUME Init PROVE TypeOK /\ GateInv
      OBVIOUS
    <2>1. TypeOK
      BY BoundsAssumption DEF Init, FactsInit, TypeOK, FactsTypeOK, Turns, PCs
    <2>2. \A c \in Calls : pc[c] = "idle"
      BY DEF Init
    <2>3. \A p \in Proposals : Attempts(p) = {} /\ Tries(p) = 0
      BY <2>2 DEF Attempts, Tries, Init, FactsInit
    <2> QED BY <2>1, <2>2, <2>3, FS_EmptySet, GateInvMeaning DEF Live, Settled
  <1>2. TypeOK /\ TypeOK' /\ GateInv /\ [Next]_vars => GateInv'
    BY StepKinds, QuietKeepsGate, DeclareKeepsGate, WriteKeepsGate, CallKeepsGate,
       RestartKeepsGate
  <1> QED BY <1>1, <1>2, TypeCorrect, PTL DEF Spec

\* At most one handler executes a proposal, and none once it ended.
THEOREM OneWriterHolds == Spec => []OneWriter
  <1>1. GateInv => OneWriter
    BY DEF GateInv
  <1> QED BY <1>1, GateIsKept, PTL

\* No proposal is executed more than MaxRetries times.
THEOREM AttemptsAreBounded == Spec => []AttemptsBounded
  <1>1. TypeOK /\ GateInv => AttemptsBounded
    <2> SUFFICES ASSUME TypeOK, GateInv, NEW p \in Proposals
                 PROVE  Cardinality(Attempts(p)) <= MaxRetries
      BY DEF AttemptsBounded, Attempts
    <2>1. Cardinality(Attempts(p)) = Tries(p)
      BY GateInvMeaning
    <2>2. fact[p] # None => fact[p].retries \in 0..MaxRetries
      BY DEF TypeOK, FactsTypeOK, Record
    <2> QED BY <2>1, <2>2, BoundsAssumption DEF Tries
  <1> QED BY <1>1, TypeCorrect, GateIsKept, PTL
----------------------------------------------------------------------------
(* The gate implements ProposalLife.                                       *)

\* A proposal whose handlers stand where they stood is in the phase it was in.
LEMMA SamePhases ==
  ASSUME pc' = pc, job' = job
  PROVE  \A p \in Proposals : PhaseOf(p)' = PhaseOf(p)
  BY DEF PhaseOf, LiveCalls, Prop

\* A proposal none of whose handlers moves stays in its phase.
LEMMA OtherPhases ==
  ASSUME NEW c \in Calls, NEW p, job'[c].prop # p, pc[c] # "idle" => Prop(c) # p,
         pc[c] \notin {"ok", "rejected", "dead"}, pc'[c] # "idle",
         \A d \in Calls \ {c} : pc'[d] = pc[d] /\ Prop(d)' = Prop(d)
  PROVE  PhaseOf(p)' = PhaseOf(p)
  <1>1. \A d \in Calls, S \in SUBSET PCs : "idle" \notin S =>
          ((pc'[d] \in S /\ Prop(d)' = p) <=> (pc[d] \in S /\ Prop(d) = p))
    BY DEF Prop
  <1>2. LiveCalls(p)' = LiveCalls(p)
    <2>1. Live \in SUBSET PCs /\ "idle" \notin Live
      BY DEF Live, PCs
    <2> QED BY <1>1, <2>1 DEF LiveCalls
  <1>3. \A l \in {"ok", "rejected", "dead"} :
          (\E d \in Calls : pc'[d] = l /\ Prop(d)' = p)
            <=> (\E d \in Calls : pc[d] = l /\ Prop(d) = p)
    <2> SUFFICES ASSUME NEW l \in {"ok", "rejected", "dead"}
                 PROVE  (\E d \in Calls : pc'[d] = l /\ Prop(d)' = p)
                          <=> (\E d \in Calls : pc[d] = l /\ Prop(d) = p)
      OBVIOUS
    <2>1. {l} \in SUBSET PCs /\ "idle" \notin {l}
      BY DEF PCs, Settled
    <2>2. \A d \in Calls : (pc'[d] = l /\ Prop(d)' = p) <=> (pc[d] = l /\ Prop(d) = p)
      BY <1>1, <2>1
    <2> QED BY <2>2
  <1> QED BY <1>2, <1>3 DEF PhaseOf

\* Each admitted call begins an attempt on a proposal that is open.
LEMMA WriteBegins ==
  ASSUME TypeOK, GateInv,
         NEW c \in Calls, NEW m \in Msgs, NEW p \in Proposals, Write(c, m, p)
  PROVE  Life!Begin(p)
  <1>1. /\ p \in known /\ fact[p] \in Record /\ fact[p].state = "declared"
        /\ fact[p].retries < MaxRetries
        /\ fact'[p] \in Record /\ fact'[p].retries = fact[p].retries + 1
        /\ \A q \in Proposals \ {p} : fact'[q] = fact[q]
    BY ConsumeFacts DEF Write, TypeOK
  <1>2. fact[p] # None /\ fact'[p] # None
    BY <1>1, NoneAssumption
  <1>3. /\ pc[c] = "idle" /\ pc'[c] = "writing" /\ job'[c].prop = p
        /\ \A d \in Calls \ {c} : pc'[d] = pc[d] /\ Prop(d)' = Prop(d)
    BY DEF Write, Goto, TypeOK, Prop
  <1>4. \A d \in Calls : pc[d] \in Live \union Settled \union {"dead"} => Prop(d) # p
    BY <1>1, <1>2, GateInvMeaning
  <1>5. PhaseOf(p) = "open"
    BY <1>4 DEF PhaseOf, LiveCalls, Live, Settled
  <1>6. PhaseOf(p)' = "writing"
    <2>1. c \in LiveCalls(p)'
      BY <1>3 DEF LiveCalls, Live, Prop
    <2> QED BY <2>1 DEF PhaseOf
  <1>7. \A q \in Proposals \ {p} : PhaseOf(q)' = PhaseOf(q)
    BY <1>3, OtherPhases
  <1>8. \A q \in Proposals : Tries(q)' = IF q = p THEN Tries(p) + 1 ELSE Tries(q)
    BY <1>1, <1>2 DEF Tries
  <1>9. Tries(p) < MaxRetries
    BY <1>1, <1>2 DEF Tries
  <1> QED BY <1>5, <1>6, <1>7, <1>8, <1>9 DEF Life!Begin

\* A step of a handler ends the attempt, opens the proposal again, or is
\* invisible.
LEMMA CallEndsOrReopens ==
  ASSUME TypeOK, GateInv, NEW c \in Calls, CallStep(c)
  PROVE  Life!Next \/ UNCHANGED Life!vars
  <1>0. Prop(c) \in Proposals
    BY CallFacts DEF Prop, Job
  <1> PICK p \in Proposals : p = Prop(c)
    BY <1>0
  <1>1. /\ pc[c] \in Live /\ job[c] \in Job /\ fact[p] \in Record
        /\ pc'[c] \in {"carded", "ok", "rejected", "unknown"}
        /\ \A d \in Calls \ {c} : pc'[d] = pc[d]
        /\ job' = job
    BY CallFacts
  <1>2. fact[p] # None
    BY <1>1, NoneAssumption
  <1>3. \A d \in Calls : Prop(d)' = Prop(d)
    BY <1>1 DEF Prop
  <1>4. \A d \in Calls \ {c} : pc[d] \in Live \union Settled \union {"dead"} => Prop(d) # p
    BY <1>1, GateInvMeaning
  <1>5. PhaseOf(p) = "writing"
    <2>1. c \in LiveCalls(p)
      BY <1>1 DEF LiveCalls
    <2> QED BY <2>1 DEF PhaseOf
  <1>6. \A q \in Proposals \ {p} : PhaseOf(q)' = PhaseOf(q)
    <2> SUFFICES ASSUME NEW q \in Proposals \ {p} PROVE PhaseOf(q)' = PhaseOf(q)
      OBVIOUS
    <2>1. job'[c].prop # q /\ Prop(c) # q
      BY <1>1 DEF Prop
    <2>2. pc[c] \notin {"ok", "rejected", "dead"} /\ pc'[c] # "idle"
      BY <1>1 DEF Live
    <2> QED BY <1>1, <1>3, <2>1, <2>2, OtherPhases
  <1>7. \A q \in Proposals : Tries(q)' = Tries(q)
    <2>1. CASE UNCHANGED factVars
      BY <2>1 DEF Tries, factVars
    <2>2. CASE Rollback(p)
      <3>1. /\ fact'[p] \in Record /\ fact'[p].retries = fact[p].retries
            /\ \A q \in Proposals \ {p} : fact'[q] = fact[q]
        BY <1>2, <2>2, RollbackFacts DEF TypeOK
      <3> QED BY <1>2, <3>1, NoneAssumption DEF Tries
    <2> QED BY <2>1, <2>2, CallFacts
  <1>8. PhaseOf(p)' = CASE pc'[c] = "carded" -> "writing"
                        [] pc'[c] = "ok" -> "done"
                        [] pc'[c] = "rejected" -> "void"
                        [] pc'[c] = "unknown" -> "open"
    <2>1. \A d \in Calls \ {c} :
            pc'[d] \in Live \union Settled \union {"dead"} => Prop(d)' # p
      BY <1>1, <1>3, <1>4
    <2>2. CASE pc'[c] = "carded"
      <3>1. c \in LiveCalls(p)'
        BY <1>3, <2>2 DEF LiveCalls, Live
      <3> QED BY <2>2, <3>1 DEF PhaseOf
    <2>3. CASE pc'[c] \in {"ok", "rejected", "unknown"}
      <3>1. LiveCalls(p)' = {}
        BY <2>1, <2>3 DEF LiveCalls, Live
      <3>2. \A l \in {"ok", "rejected", "dead"} :
              (\E d \in Calls : pc'[d] = l /\ Prop(d)' = p) <=> pc'[c] = l
        BY <1>3, <2>1 DEF Settled
      <3> QED BY <2>3, <3>1, <3>2 DEF PhaseOf
    <2> QED BY <1>1, <2>2, <2>3
  <1>9. CASE pc'[c] = "carded"
    <2>1. \A q \in Proposals : PhaseOf(q)' = PhaseOf(q)
      BY <1>5, <1>6, <1>8, <1>9
    <2> QED BY <1>7, <2>1 DEF Life!vars
  <1>10. CASE pc'[c] \in {"ok", "rejected"}
    <2>1. PhaseOf(p)' \in {"done", "void"}
      BY <1>8, <1>10
    <2>2. Life!End(p)
      BY <1>2, <1>5, <1>6, <1>7, <2>1 DEF Life!End
    <2> QED BY <1>2, <2>2 DEF Life!Next
  <1>11. CASE pc'[c] = "unknown"
    <2>1. PhaseOf(p)' = "open"
      BY <1>8, <1>11
    <2>2. Life!Reopen(p)
      BY <1>2, <1>5, <1>6, <1>7, <2>1 DEF Life!Reopen
    <2> QED BY <1>2, <2>2 DEF Life!Next
  <1> QED BY <1>1, <1>9, <1>10, <1>11

\* A restart loses exactly the attempts that are under way.
LEMMA RestartLoses ==
  ASSUME TypeOK, GateInv, Restart
  PROVE  Life!Restart
  <1>1. /\ job' = job /\ fact' = fact
        /\ \A c \in Calls : pc'[c] = IF pc[c] \in Live THEN "dead" ELSE pc[c]
    BY DEF Restart, Forget
  <1>2. \A c \in Calls : Prop(c)' = Prop(c)
    BY <1>1 DEF Prop
  <1>3. \A p \in Proposals : Tries(p)' = Tries(p)
    BY <1>1 DEF Tries
  <1>4. ASSUME NEW p \in Proposals
        PROVE  PhaseOf(p)' = IF PhaseOf(p) = "writing" THEN "lost" ELSE PhaseOf(p)
    <2>1. LiveCalls(p)' = {}
      BY <1>1 DEF LiveCalls, Live
    <2>2. \A l \in {"ok", "rejected"} :
            (\E d \in Calls : pc'[d] = l /\ Prop(d)' = p)
              <=> (\E d \in Calls : pc[d] = l /\ Prop(d) = p)
      BY <1>1, <1>2 DEF Live
    <2>3. CASE LiveCalls(p) # {}
      <3>1. PICK c \in Calls : pc[c] \in Live /\ Prop(c) = p
        BY <2>3 DEF LiveCalls
      <3>2. pc'[c] = "dead" /\ Prop(c)' = p
        BY <1>1, <1>2, <3>1
      <3>3. \A d \in Calls : pc[d] \in Settled => Prop(d) # p
        BY <3>1, GateInvMeaning DEF Live, Settled
      <3> QED BY <2>1, <2>2, <2>3, <3>2, <3>3 DEF PhaseOf, Settled
    <2>4. CASE LiveCalls(p) = {}
      <3>1. (\E d \in Calls : pc'[d] = "dead" /\ Prop(d)' = p)
              <=> (\E d \in Calls : pc[d] = "dead" /\ Prop(d) = p)
        BY <1>1, <1>2, <2>4 DEF LiveCalls
      <3> QED BY <2>1, <2>2, <2>4, <3>1 DEF PhaseOf
    <2> QED BY <2>3, <2>4
  <1> QED BY <1>3, <1>4 DEF Life!Restart

\* Every behaviour of the gate over its bounded, forgetful store is a life of
\* each proposal: one writer at a time, bounded attempts, nothing after the end.
THEOREM GateKeepsLife == Spec => KeepsLife
  <1>1. Init => Life!Init
    <2> SUFFICES ASSUME Init PROVE Life!Init
      OBVIOUS
    <2>1. \A p \in Proposals : PhaseOf(p) = "open" /\ Tries(p) = 0
      BY DEF Init, FactsInit, PhaseOf, LiveCalls, Live, Tries
    <2> QED BY <2>1 DEF Life!Init
  <1>2. TypeOK /\ GateInv /\ [Next]_vars => [Life!Next]_(Life!vars)
    <2> SUFFICES ASSUME TypeOK, GateInv, [Next]_vars
                 PROVE  Life!Next \/ UNCHANGED Life!vars
      OBVIOUS
    <2>1. CASE QuietStep
      <3>1. \A p \in Proposals : Tries(p)' = Tries(p)
        BY <2>1 DEF QuietStep, SameGateFields, Tries
      <3> QED BY <2>1, <3>1, SamePhases DEF QuietStep, Life!vars
    <2>2. ASSUME NEW m \in Msgs, NEW p \in Proposals, NEW k \in Kinds, Declare(m, p, k)
          PROVE  UNCHANGED Life!vars
      <3>1. /\ fact[p] = None /\ fact'[p] \in Record /\ fact'[p].retries = 0
            /\ \A q \in Proposals \ {p} : fact'[q] = fact[q]
        BY <2>2, DeclareFacts, RoutingAssumption DEF Declare, TypeOK
      <3>2. \A q \in Proposals : Tries(q)' = Tries(q)
        BY <3>1, NoneAssumption DEF Tries
      <3> QED BY <2>2, <3>2, SamePhases DEF Declare, Life!vars
    <2>3. ASSUME NEW c \in Calls, NEW m \in Msgs, NEW p \in Proposals, Write(c, m, p)
          PROVE  Life!Next
      BY <2>3, WriteBegins DEF Life!Next
    <2>4. CASE Restart
      BY <2>4, RestartLoses DEF Life!Next
    <2> QED BY <2>1, <2>2, <2>3, <2>4, StepKinds, CallEndsOrReopens
  <1> QED BY <1>1, <1>2, TypeCorrect, GateIsKept, PTL DEF Spec, KeepsLife, Life!Spec
----------------------------------------------------------------------------
(* Turns and the slots they share.                                         *)

\* What no step ever does to a record: lose it, move it to another slot, or
\* take back that it was delivered.
RecordsKept ==
  \A p \in Proposals : fact[p] # None =>
    /\ fact'[p] # None
    /\ fact'[p].slot = fact[p].slot
    /\ fact[p].delivered => fact'[p].delivered

\* Quiet steps add no record and keep those there are.
LEMMA QuietKeepsRecords ==
  ASSUME QuietStep
  PROVE  RecordsKept /\ \A p \in Proposals : fact'[p] # None => fact[p] # None
  BY DEF QuietStep, RecordsKept, SameGateFields

\* A handler's steps change at most the state of a record.
LEMMA CallKeepsRecords ==
  ASSUME TypeOK, NEW c \in Calls, CallStep(c)
  PROVE  /\ RecordsKept
         /\ \A p \in Proposals : fact'[p] # None =>
              fact[p] # None /\ (fact'[p].delivered => fact[p].delivered)
         /\ pending' = pending
  <1>1. CASE UNCHANGED factVars
    BY <1>1 DEF factVars, RecordsKept
  <1>2. CASE Rollback(Prop(c))
    <2>1. Prop(c) \in Proposals /\ fact[Prop(c)] # None
      BY CallFacts, NoneAssumption DEF Prop, Job
    <2>2. pending' = pending
      BY <1>2 DEF Rollback
    <2> QED BY <1>2, <2>1, <2>2, RollbackFacts, NoneAssumption DEF TypeOK, RecordsKept
  <1> QED BY <1>1, <1>2, CallFacts

\* A turn starts in an idle slot, waits, or ends.
LEMMA TurnStepKeepsTurns ==
  ASSUME TypeOK, TurnInv, NEW m \in Msgs, TurnStep(m)
  PROVE  TurnInv'
  <1>1. QuietStep
    BY TurnStepIsQuiet
  <1>2. /\ origin' = origin /\ RecordsKept
        /\ \A p \in Proposals : fact'[p] # None => fact[p] # None
    BY <1>1, QuietKeepsRecords DEF QuietStep
  <1>3. at \in [Msgs -> Turns] /\ scope \in [Msgs -> Msgs \union {None}]
        /\ shown \subseteq Proposals
    BY DEF TypeOK
  <1>4. ASSUME at[m] \in {"new", "queued", "acked"}, ~ Busy(SlotOf[m]), Dispatch(m),
               shown' = shown
        PROVE  TurnInv'
    BY <1>2, <1>3, <1>4 DEF TurnInv, RecordsKept, Dispatch, SetTurn, Busy
  <1>5. ASSUME at[m] \in {"new", "queued"}, NEW l \in {"queued", "acked", "over"}, SetTurn(m, l),
               UNCHANGED <<scope, shown>>
        PROVE  TurnInv'
    BY <1>2, <1>3, <1>5 DEF TurnInv, RecordsKept, SetTurn
  <1>6. ASSUME at[m] = "running", SetTurn(m, "over"), scope' = scope,
               shown' \subseteq shown \union
                 {p \in Proposals : fact[p] # None /\ fact[p].slot = SlotOf[m]}
        PROVE  TurnInv'
    <2>1. \A n \in Msgs : at'[n] = IF n = m THEN "over" ELSE at[n]
      BY <1>3, <1>6 DEF SetTurn
    <2>2. \A p \in shown' : fact[p] # None /\ (at[origin[p]] = "over" \/ origin[p] = m)
      BY <1>6 DEF TurnInv
    <2>3. \A p \in shown' : p \in Proposals /\ origin[p] \in Msgs
      BY <1>3, <1>6, <2>2 DEF TurnInv
    <2>4. \A p \in shown' : fact'[p] # None /\ at'[origin'[p]] = "over"
      BY <1>2, <2>1, <2>2, <2>3 DEF RecordsKept
    <2> QED BY <1>2, <1>3, <1>6, <2>1, <2>4 DEF TurnInv, RecordsKept
  <1>7. ASSUME UNCHANGED <<at, scope, shown>>
        PROVE  TurnInv'
    BY <1>2, <1>3, <1>7 DEF TurnInv, RecordsKept
  <1>8. CASE Arrive(m)
    BY <1>4, <1>5, <1>8 DEF Arrive
  <1>9. CASE SideReply(m) \/ Command(m)
    BY <1>5, <1>9 DEF SideReply, Command
  <1>10. CASE StartQueued(m)
    BY <1>4, <1>10 DEF StartQueued
  <1>11. CASE DeclareAgain(m) \/ ProgressEdit(m)
    BY <1>7, <1>11 DEF DeclareAgain, ProgressEdit, gateVars
  <1>12. CASE Reply(m) \/ ReplyWithReceipt(m) \/ ReplyLost(m)
    BY <1>6, <1>12 DEF Reply, ReplyWithReceipt, ReplyLost
  <1> QED BY <1>8, <1>9, <1>10, <1>11, <1>12 DEF TurnStep

\* The turn that is followed up ends as the next one takes over its context.
LEMMA FollowUpKeepsTurns ==
  ASSUME TypeOK, TurnInv, NEW m \in Msgs, NEW n \in Msgs, FollowUp(m, n)
  PROVE  TurnInv'
  <1>1. \A k \in Msgs : at'[k] = IF k = m THEN "running" ELSE IF k = n THEN "over" ELSE at[k]
    BY DEF FollowUp, TypeOK
  <1>2. scope'[m] = scope[n] /\ \A k \in Msgs \ {m} : scope'[k] = scope[k]
    BY DEF FollowUp, TypeOK
  <1>3. /\ m # n /\ at[m] \notin {"running", "over"} /\ at[n] = "running"
        /\ SlotOf[m] = SlotOf[n]
        /\ UNCHANGED <<fact, origin, shown>>
    BY DEF FollowUp
  <1>4. \A p \in shown : origin[p] \in Msgs /\ origin[p] # m
    BY <1>3 DEF TurnInv, TypeOK
  <1> QED BY <1>1, <1>2, <1>3, <1>4 DEF TurnInv

\* A declaration belongs to the turn that runs.
LEMMA DeclareKeepsTurns ==
  ASSUME TypeOK, TurnInv, NEW m \in Msgs, NEW p \in Proposals, NEW k \in Kinds, Declare(m, p, k)
  PROVE  TurnInv'
  <1>1. SlotOf[m] \in Slots
    BY RoutingAssumption
  <1>2. /\ fact[p] = None /\ fact'[p] # None /\ fact'[p].slot = SlotOf[m]
        /\ \A q \in Proposals \ {p} : fact'[q] = fact[q]
    BY <1>1, DeclareFacts, NoneAssumption DEF Declare, TypeOK
  <1>3. /\ at[m] = "running" /\ UNCHANGED <<at, scope, shown>>
        /\ origin'[p] = m /\ \A q \in Proposals \ {p} : origin'[q] = origin[q]
    BY DEF Declare, TypeOK
  <1>4. \A q \in shown : q \in Proposals \ {p}
    BY <1>2 DEF TurnInv, TypeOK
  <1> QED BY <1>2, <1>3, <1>4 DEF TurnInv

\* Turns of one slot never overlap, each runs in a dispatch context of its own
\* slot, and what a final reply showed was declared in a turn that is over.
THEOREM TurnsSound == Spec => []TurnInv
  <1>1. Init => TurnInv
    BY DEF Init, FactsInit, TurnInv
  <1>2. TypeOK /\ TurnInv /\ [Next]_vars => TurnInv'
    <2> SUFFICES ASSUME TypeOK, TurnInv, [Next]_vars PROVE TurnInv'
      OBVIOUS
    <2>1. ASSUME UNCHANGED <<at, scope, origin, shown>>, RecordsKept,
                 \A p \in Proposals : fact'[p] # None => fact[p] # None
          PROVE  TurnInv'
      <3>1. shown \subseteq Proposals
        BY DEF TypeOK
      <3> QED BY <2>1, <3>1 DEF TurnInv, RecordsKept
    <2>2. ASSUME NEW c \in Calls, NEW m \in Msgs, NEW p \in Proposals, Write(c, m, p)
          PROVE  TurnInv'
      <3>1. /\ fact[p] # None /\ fact'[p] # None /\ fact'[p].slot = fact[p].slot
            /\ fact'[p].delivered
            /\ \A q \in Proposals \ {p} : fact'[q] = fact[q]
        BY <2>2, ConsumeFacts, NoneAssumption DEF Write, TypeOK
      <3> QED BY <2>1, <2>2, <3>1 DEF Write, RecordsKept
    <2>3. ASSUME NEW c \in Calls, CallStep(c)
          PROVE  TurnInv'
      BY <2>1, <2>3, CallFacts, CallKeepsRecords
    <2>4. CASE Restart
      <3>1. /\ \A n \in Msgs : at'[n] = IF at[n] = "new" THEN "new" ELSE "over"
            /\ UNCHANGED <<fact, scope, origin, shown>>
        BY <2>4 DEF Restart, Forget
      <3> QED BY <3>1 DEF TurnInv, TypeOK
    <2>5. CASE PassTime \/ UNCHANGED vars
      BY <2>1, <2>5 DEF PassTime, Tick, gateVars, vars, RecordsKept
    <2> QED BY <2>2, <2>3, <2>4, <2>5, TurnStepKeepsTurns, FollowUpKeepsTurns,
               DeclareKeepsTurns DEF Next
  <1> QED BY <1>1, <1>2, TypeCorrect, PTL DEF Spec

\* A step of a turn takes slots away and flags at most the proposal its own
\* slot waited for; a slot that keeps its proposal keeps it unflagged.
LEMMA TurnStepKeepsSlots ==
  ASSUME TypeOK, SlotInv, NEW m \in Msgs, TurnStep(m)
  PROVE  SlotInv'
  <1>1. QuietStep /\ FactsTypeOK /\ SlotOf[m] \in Slots
    BY TurnStepIsQuiet, RoutingAssumption DEF TypeOK
  <1>2. /\ pc' = pc /\ job' = job /\ RecordsKept
        /\ \A p \in Proposals : fact'[p] # None => fact[p] # None
    BY <1>1, QuietKeepsRecords DEF QuietStep
  <1>3. \A c \in Calls : Prop(c)' = Prop(c)
    BY <1>2 DEF Prop
  <1>4. ASSUME \A s \in Slots : pending'[s] # None =>
                 /\ pending'[s] = pending[s]
                 /\ fact'[pending[s]].delivered => fact[pending[s]].delivered
        PROVE  SlotInv'
    BY <1>1, <1>2, <1>3, <1>4 DEF SlotInv, RecordsKept, FactsTypeOK
  <1>5. ASSUME NEW failed \in BOOLEAN, MarkDelivered(SlotOf[m], failed)
        PROVE  SlotInv'
    <2>1. ASSUME NEW s \in Slots, pending'[s] # None
          PROVE  /\ pending'[s] = pending[s]
                 /\ fact'[pending[s]].delivered => fact[pending[s]].delivered
      <3>1. s # SlotOf[m] /\ pending'[s] = pending[s] /\ pending[s] \in Proposals
        BY <1>1, <1>5, <2>1, MarkFacts DEF FactsTypeOK
      <3>2. pending[s] # pending[SlotOf[m]]
        BY <1>1, <2>1, <3>1 DEF SlotInv
      <3>3. fact[pending[s]] # None
        BY <1>1, <2>1, <3>1 DEF FactsTypeOK
      <3>4. fact'[pending[s]].delivered => fact[pending[s]].delivered
        BY <1>1, <1>2, <1>5, <3>1, <3>2, <3>3, MarkFacts DEF RecordsKept
      <3> QED BY <3>1, <3>4
    <2> QED BY <1>4, <2>1
  <1>6. CASE Sweep
    BY <1>1, <1>4, <1>6, SweepFacts
  <1>7. CASE UNCHANGED factVars
    BY <1>4, <1>7 DEF factVars
  <1> QED BY <1>5, <1>6, <1>7
          DEF TurnStep, Arrive, SideReply, Command, MarkAside, StartQueued, DeclareAgain,
              DeclareRefused, ProgressEdit, Reply, ReplyWithReceipt, ReplyLost, factVars

\* Whatever a slot waits for was declared in this slot, has not been flagged
\* and is not being executed.
THEOREM SlotsSound == Spec => []SlotInv
  <1>1. Init => SlotInv
    BY DEF Init, FactsInit, SlotInv
  <1>2. TypeOK /\ SlotInv /\ [Next]_vars => SlotInv'
    <2> SUFFICES ASSUME TypeOK, SlotInv, [Next]_vars PROVE SlotInv'
      OBVIOUS
    <2>1. FactsTypeOK
      BY DEF TypeOK
    <2>2. ASSUME NEW m \in Msgs, NEW p \in Proposals, NEW k \in Kinds, Declare(m, p, k)
          PROVE  SlotInv'
      <3>1. /\ SlotOf[m] \in Slots /\ fact[p] = None
            /\ fact'[p].slot = SlotOf[m] /\ ~ fact'[p].delivered
            /\ \A q \in Proposals \ {p} : fact'[q] = fact[q]
            /\ pending'[SlotOf[m]] = p
            /\ \A t \in Slots \ {SlotOf[m]} : pending'[t] # None => pending'[t] = pending[t]
        BY <2>1, <2>2, RoutingAssumption, DeclareFacts DEF Declare
      <3>2. pc' = pc /\ \A c \in Calls : Prop(c)' = Prop(c)
        BY <2>2 DEF Declare, Prop
      <3>3. \A c \in Calls : pc[c] # "idle" => Prop(c) # p
        BY <3>1 DEF TypeOK, Prop
      <3>4. \A t \in Slots \ {SlotOf[m]} : pending'[t] # None => pending[t] \in Proposals \ {p}
        BY <2>1, <3>1 DEF FactsTypeOK
      <3> QED BY <3>1, <3>2, <3>3, <3>4 DEF SlotInv
    <2>3. ASSUME NEW c \in Calls, NEW m \in Msgs, NEW p \in Proposals, Write(c, m, p)
          PROVE  SlotInv'
      <3>1. /\ fact[p].delivered /\ pending' = pending
            /\ \A q \in Proposals \ {p} : fact'[q] = fact[q]
        BY <2>1, <2>3, ConsumeFacts DEF Write, Consume
      <3>2. \A s \in Slots : pending[s] # None => pending[s] \in Proposals \ {p}
        BY <2>1, <3>1 DEF SlotInv, FactsTypeOK
      <3>3. Prop(c)' = p /\ \A d \in Calls \ {c} : Prop(d)' = Prop(d) /\ pc'[d] = pc[d]
        BY <2>3 DEF Write, Goto, Prop, TypeOK
      <3> QED BY <3>1, <3>2, <3>3 DEF SlotInv
    <2>4. ASSUME NEW c \in Calls, CallStep(c)
          PROVE  SlotInv'
      <3>1. /\ RecordsKept /\ pending' = pending /\ job' = job
            /\ \A p \in Proposals : fact'[p] # None =>
                 fact[p] # None /\ (fact'[p].delivered => fact[p].delivered)
        BY <2>4, CallFacts, CallKeepsRecords
      <3>2. \A d \in Calls : Prop(d)' = Prop(d) /\ (pc'[d] # "idle" => pc[d] # "idle")
        BY <2>4, <3>1, CallFacts DEF Prop, Live
      <3> QED BY <2>1, <3>1, <3>2 DEF SlotInv, RecordsKept, FactsTypeOK
    <2>5. CASE Restart
      BY <2>5 DEF Restart, Forget, SlotInv
    <2>6. ASSUME UNCHANGED <<fact, pending, pc, job>>
          PROVE  SlotInv'
      BY <2>6 DEF SlotInv, Prop
    <2>7. CASE PassTime \/ UNCHANGED vars \/ \E m, n \in Msgs : FollowUp(m, n)
      BY <2>6, <2>7 DEF PassTime, Tick, FollowUp, gateVars, vars
    <2> QED BY <2>2, <2>3, <2>4, <2>5, <2>7, TurnStepKeepsSlots DEF Next
  <1> QED BY <1>1, <1>2, TypeCorrect, PTL DEF Spec

\* A proposal counts as delivered only after a final reply reached the chat it
\* was declared in, or something that passed for one did.
THEOREM DeliveryShown == Spec => []DeliveredMeansReplied
  <1>1. Init => DeliveredMeansReplied
    BY DEF Init, FactsInit, DeliveredMeansReplied
  <1>2. TypeOK /\ SlotInv /\ DeliveredMeansReplied /\ [Next]_vars => DeliveredMeansReplied'
    <2> SUFFICES ASSUME TypeOK, SlotInv, DeliveredMeansReplied, [Next]_vars
                 PROVE  DeliveredMeansReplied'
      OBVIOUS
    <2>1. FactsTypeOK
      BY DEF TypeOK
    <2>2. ASSUME shown \subseteq shown', aside \subseteq aside',
                 \A p \in Proposals : fact'[p] # None /\ fact'[p].delivered =>
                   fact[p] # None /\ fact[p].delivered
          PROVE  DeliveredMeansReplied'
      BY <2>2 DEF DeliveredMeansReplied
    <2>3. ASSUME NEW m \in Msgs, Reply(m)
          PROVE  DeliveredMeansReplied'
      <3>1. SlotOf[m] \in Slots
        BY RoutingAssumption
      <3>2. \A p \in Proposals : fact'[p] # None /\ fact'[p].delivered =>
              fact[p] # None /\ (fact[p].delivered \/ p = pending[SlotOf[m]])
        BY <2>1, <2>3, <3>1, MarkFacts DEF Reply, SameGateFields
      <3>3. \A p \in Proposals : p = pending[SlotOf[m]] => fact[p].slot = SlotOf[m]
        BY <3>1, NoneAssumption DEF SlotInv
      <3> QED BY <2>3, <3>2, <3>3 DEF Reply, DeliveredMeansReplied
    <2>10. ASSUME NEW m \in Msgs, SideReply(m) \/ Command(m) \/ ProgressEdit(m)
           PROVE  DeliveredMeansReplied'
      <3>1. SlotOf[m] \in Slots /\ MarkAside(SlotOf[m]) /\ shown' = shown
        BY <2>10, RoutingAssumption DEF SideReply, Command, ProgressEdit
      <3>2. \A p \in Proposals : fact'[p] # None => fact[p] # None
        BY <2>1, <3>1, MarkFacts DEF MarkAside, SameGateFields
      <3>3. \A p \in Proposals :
              fact'[p] # None /\ fact'[p].delivered /\ ~ fact[p].delivered =>
                p \in Marked(SlotOf[m], FALSE)
        BY <3>1 DEF MarkAside, MarkDelivered
      <3> QED BY <3>1, <3>2, <3>3 DEF MarkAside, DeliveredMeansReplied
    <2>4. ASSUME NEW m \in Msgs, ReplyWithReceipt(m)
          PROVE  DeliveredMeansReplied'
      <3>1. SlotOf[m] \in Slots
        BY RoutingAssumption
      <3> QED BY <2>1, <2>2, <2>4, <3>1, MarkFacts, ZenonT(60) DEF ReplyWithReceipt, SameGateFields
    <2>5. ASSUME NEW m \in Msgs,
                 Arrive(m) \/ StartQueued(m) \/ DeclareAgain(m) \/ ReplyLost(m)
          PROVE  DeliveredMeansReplied'
      BY <2>2, <2>5
         DEF Arrive, StartQueued, DeclareAgain, DeclareRefused, ReplyLost, Sweep, factVars,
             gateVars
    <2>6. ASSUME NEW m \in Msgs, NEW p \in Proposals, NEW k \in Kinds, Declare(m, p, k)
          PROVE  DeliveredMeansReplied'
      <3>1. SlotOf[m] \in Slots
        BY RoutingAssumption
      <3> QED BY <2>1, <2>2, <2>6, <3>1, DeclareFacts DEF Declare
    <2>7. ASSUME NEW c \in Calls, NEW m \in Msgs, NEW p \in Proposals, Write(c, m, p)
          PROVE  DeliveredMeansReplied'
      <3>1. fact[p] # None /\ fact[p].delivered
        BY <2>1, <2>7, ConsumeFacts, NoneAssumption DEF Write
      <3> QED BY <2>1, <2>2, <2>7, <3>1, ConsumeFacts DEF Write
    <2>8. ASSUME NEW c \in Calls, CallStep(c)
          PROVE  DeliveredMeansReplied'
      BY <2>2, <2>8, CallFacts, CallKeepsRecords
    <2>9. CASE \/ Restart \/ PassTime \/ UNCHANGED vars
               \/ \E m, n \in Msgs : FollowUp(m, n)
      BY <2>2, <2>9 DEF Restart, Forget, PassTime, Tick, FollowUp, gateVars, vars
    <2> QED BY <2>3, <2>4, <2>5, <2>6, <2>7, <2>8, <2>9, <2>10 DEF Next, TurnStep
  <1> QED BY <1>1, <1>2, TypeCorrect, SlotsSound, PTL DEF Spec

\* Nothing is written for a proposal in the turn that declared it, unless
\* something passed for its final reply: the confirmation is a later message.
THEOREM LaterConfirmation == Spec => []WrittenAfterConfirm
  <1>1. Init => WrittenAfterConfirm
    BY DEF Init, WrittenAfterConfirm
  <1>2. TypeOK /\ TurnInv /\ DeliveredMeansReplied /\ WrittenAfterConfirm /\ [Next]_vars
          => WrittenAfterConfirm'
    <2> SUFFICES ASSUME TypeOK, TurnInv, DeliveredMeansReplied, WrittenAfterConfirm,
                        [Next]_vars
                 PROVE  WrittenAfterConfirm'
      OBVIOUS
    <2>1. ASSUME job' = job, origin' = origin, aside \subseteq aside',
                 \A c \in Calls : pc'[c] # "idle" => pc[c] # "idle"
          PROVE  WrittenAfterConfirm'
      BY <2>1 DEF WrittenAfterConfirm, Prop
    <2>2. ASSUME NEW m \in Msgs, NEW p \in Proposals, NEW k \in Kinds, Declare(m, p, k)
          PROVE  WrittenAfterConfirm'
      <3>1. fact[p] = None /\ UNCHANGED <<pc, job, aside>>
        BY <2>2 DEF Declare, DeclareProposal
      <3>2. \A c \in Calls : pc[c] # "idle" => Prop(c) \in Proposals \ {p}
        BY <3>1 DEF TypeOK, Prop, Job
      <3>3. \A q \in Proposals \ {p} : origin'[q] = origin[q]
        BY <2>2 DEF Declare, TypeOK
      <3> QED BY <3>1, <3>2, <3>3 DEF WrittenAfterConfirm, Prop
    <2>3. ASSUME NEW c \in Calls, NEW m \in Msgs, NEW p \in Proposals, Write(c, m, p)
          PROVE  WrittenAfterConfirm'
      <3>1. fact[p] # None /\ fact[p].delivered /\ at[m] = "running" /\ UNCHANGED <<origin, aside>>
        BY <2>3, ConsumeFacts, NoneAssumption DEF Write, TypeOK
      <3>2. at[origin[p]] = "over" \/ p \in aside
        BY <3>1 DEF DeliveredMeansReplied, TurnInv
      <3>3. /\ job'[c].msg = m /\ job'[c].prop = p
            /\ \A d \in Calls \ {c} : job'[d] = job[d] /\ pc'[d] = pc[d]
        BY <2>3 DEF Write, Goto, TypeOK
      <3> QED BY <3>1, <3>2, <3>3 DEF WrittenAfterConfirm, Prop
    <2>4. ASSUME NEW c \in Calls, CallStep(c)
          PROVE  WrittenAfterConfirm'
      BY <2>1, <2>4, CallFacts DEF Live
    <2>5. CASE Restart
      BY <2>1, <2>5 DEF Restart, Live
    <2>6. CASE QuietStep
      BY <2>1, <2>6 DEF QuietStep, HistoryGrows
    <2> QED BY <2>2, <2>3, <2>4, <2>5, <2>6, StepKinds
  <1> QED BY <1>1, <1>2, TypeCorrect, TurnsSound, DeliveryShown, PTL DEF Spec
----------------------------------------------------------------------------
(* What is written was confirmed.                                          *)

\* A call past the gate executes a proposal that was delivered, for a user it
\* was declared for.  Each card has the key of its proposal and was made by such
\* a call; so was each binding, for the slot the call came from.
\* (verify_and_consume_h1_proposal, _apply_write)
CallsConfirmed ==
  \A c \in Calls : pc[c] # "idle" =>
    fact[Prop(c)].delivered /\ UserOf[fact[Prop(c)].slot] = UserOf[Target(c)]
CardsConfirmed ==
  \A x \in cards :
    /\ x[2] = x[1]
    /\ \E c \in Calls : pc[c] # "idle" /\ Prop(c) = x[1] /\ KindOf(c) = "create"
BindingsConfirmed ==
  \A s \in Slots : binding[s] # None =>
    \E c \in Calls :
      pc[c] # "idle" /\ Prop(c) = binding[s] /\ Target(c) = s /\ KindOf(c) # "unbind"
EffectInv == CallsConfirmed /\ CardsConfirmed /\ BindingsConfirmed

\* No step takes back what a call past the gate relies on.
CallsKept ==
  \A c \in Calls : pc[c] # "idle" =>
    /\ pc'[c] # "idle" /\ job'[c] = job[c]
    /\ fact'[Prop(c)].slot = fact[Prop(c)].slot
    /\ fact'[Prop(c)].kind = fact[Prop(c)].kind
    /\ fact[Prop(c)].delivered => fact'[Prop(c)].delivered

\* The parts of the invariant, where calls are kept.
LEMMA KeptEffects ==
  ASSUME CallsKept, EffectInv,
         \A c \in Calls : pc[c] = "idle" /\ pc'[c] # "idle" =>
           fact'[Prop(c)'].delivered /\ UserOf[fact'[Prop(c)'].slot] = UserOf[Target(c)']
  PROVE  /\ CallsConfirmed'
         /\ cards' = cards => CardsConfirmed'
         /\ binding' = binding => BindingsConfirmed'
  <1>1. \A c \in Calls : pc[c] # "idle" =>
          Prop(c)' = Prop(c) /\ Target(c)' = Target(c) /\ KindOf(c)' = KindOf(c) /\ pc'[c] # "idle"
    BY DEF CallsKept, Prop, Target, KindOf
  <1>2. CallsConfirmed'
    <2> SUFFICES ASSUME NEW c \in Calls, pc'[c] # "idle"
                 PROVE  fact'[Prop(c)'].delivered /\ UserOf[fact'[Prop(c)'].slot] = UserOf[Target(c)']
      BY DEF CallsConfirmed
    <2>1. CASE pc[c] = "idle"
      BY <2>1
    <2>2. CASE pc[c] # "idle"
      <3>1. fact[Prop(c)].delivered /\ UserOf[fact[Prop(c)].slot] = UserOf[Target(c)]
        BY <2>2 DEF EffectInv, CallsConfirmed
      <3>2. fact'[Prop(c)].slot = fact[Prop(c)].slot /\ fact'[Prop(c)].delivered
        BY <2>2, <3>1 DEF CallsKept
      <3> QED BY <1>1, <2>2, <3>1, <3>2
    <2> QED BY <2>1, <2>2
  <1>3. cards' = cards => CardsConfirmed'
    BY <1>1 DEF EffectInv, CardsConfirmed
  <1>4. binding' = binding => BindingsConfirmed'
    BY <1>1 DEF EffectInv, BindingsConfirmed
  <1> QED BY <1>2, <1>3, <1>4

\* Turns, deliveries, sweeps and the clock leave calls and what they wrote alone.
LEMMA QuietKeepsEffects ==
  ASSUME TypeOK, EffectInv, QuietStep
  PROVE  EffectInv'
  <1>1. \A c \in Calls : pc[c] # "idle" => Prop(c) \in Proposals /\ fact[Prop(c)] # None
    BY DEF TypeOK, Prop, Job
  <1>2. CallsKept
    BY <1>1 DEF CallsKept, QuietStep, SameGateFields
  <1> QED BY <1>2, KeptEffects DEF QuietStep, EffectInv

\* So does a declaration, which adds a record.
LEMMA DeclareKeepsEffects ==
  ASSUME TypeOK, EffectInv, NEW m \in Msgs, NEW p \in Proposals, NEW k \in Kinds, Declare(m, p, k)
  PROVE  EffectInv'
  <1>1. \A c \in Calls : pc[c] # "idle" => Prop(c) \in Proposals /\ fact[Prop(c)] # None
    BY DEF TypeOK, Prop, Job
  <1>2. fact[p] = None /\ \A q \in Proposals \ {p} : fact'[q] = fact[q]
    BY DeclareFacts, RoutingAssumption DEF TypeOK, Declare
  <1>3. CallsKept
    BY <1>1, <1>2 DEF CallsKept, Declare
  <1> QED BY <1>3, KeptEffects DEF Declare, EffectInv

\* A restart ends calls and leaves what they wrote.
LEMMA RestartKeepsEffects ==
  ASSUME TypeOK, EffectInv, Restart
  PROVE  EffectInv'
  <1>1. /\ UNCHANGED <<fact, job, cards, binding>>
        /\ \A c \in Calls : pc'[c] # "idle" <=> pc[c] # "idle"
    BY DEF Restart, Forget, Live
  <1>2. CallsKept
    BY <1>1 DEF CallsKept
  <1> QED BY <1>1, <1>2, KeptEffects DEF EffectInv

\* The gate lets a call pass for a delivered proposal of the same user.
LEMMA WriteKeepsEffects ==
  ASSUME TypeOK, EffectInv, NEW c \in Calls, NEW m \in Msgs, NEW p \in Proposals, Write(c, m, p)
  PROVE  EffectInv'
  <1>1. \A d \in Calls : pc[d] # "idle" => Prop(d) \in Proposals /\ fact[Prop(d)] # None
    BY DEF TypeOK, Prop, Job
  <1>2. /\ fact'[p].slot = fact[p].slot /\ fact'[p].kind = fact[p].kind /\ fact'[p].delivered
        /\ \A q \in Proposals \ {p} : fact'[q] = fact[q]
    BY ConsumeFacts DEF TypeOK, Write
  <1>3. /\ \A d \in Calls \ {c} : pc'[d] = pc[d] /\ job'[d] = job[d]
        /\ pc[c] = "idle" /\ job'[c].msg = m /\ job'[c].prop = p
        /\ UNCHANGED <<cards, binding>>
    BY DEF Write, Goto, TypeOK
  <1>4. CallsKept
    BY <1>1, <1>2, <1>3 DEF CallsKept
  <1>5. Prop(c)' = p /\ Target(c)' = SlotOf[m]
    BY <1>3 DEF Prop, Target
  <1>6. UserOf[fact'[p].slot] = UserOf[SlotOf[m]]
    BY <1>2 DEF Write, SameUser
  <1> QED BY <1>2, <1>3, <1>4, <1>5, <1>6, KeptEffects DEF EffectInv

\* A call writes a card or a binding for its own proposal.
LEMMA CallKeepsEffects ==
  ASSUME TypeOK, EffectInv, NEW c \in Calls, CallStep(c)
  PROVE  EffectInv'
  <1>1. \A d \in Calls : pc[d] # "idle" => Prop(d) \in Proposals /\ fact[Prop(d)] # None
    BY DEF TypeOK, Prop, Job
  <1>2. /\ pc[c] # "idle" /\ pc'[c] # "idle" /\ job' = job
        /\ \A d \in Calls \ {c} : pc'[d] = pc[d]
    BY CallFacts DEF Live
  <1>3. \A q \in Proposals : fact[q] # None =>
          /\ fact'[q].slot = fact[q].slot /\ fact'[q].kind = fact[q].kind
          /\ fact'[q].delivered = fact[q].delivered
    <2>1. CASE UNCHANGED factVars
      BY <2>1 DEF factVars
    <2>2. CASE Rollback(Prop(c))
      <3>1. Prop(c) \in Proposals /\ fact[Prop(c)] # None
        BY <1>1, <1>2
      <3> QED BY <2>2, <3>1, RollbackFacts DEF TypeOK
    <2> QED BY <2>1, <2>2, CallFacts
  <1>4. CallsKept
    BY <1>1, <1>2, <1>3 DEF CallsKept
  <1>5. /\ CallsConfirmed'
        /\ cards' = cards => CardsConfirmed'
        /\ binding' = binding => BindingsConfirmed'
    <2>1. \A d \in Calls : pc[d] = "idle" => pc'[d] = "idle"
      BY <1>2
    <2> QED BY <1>4, <2>1, KeptEffects
  <1>6. /\ Prop(c)' = Prop(c) /\ Target(c)' = Target(c) /\ KindOf(c)' = KindOf(c)
        /\ \A d \in Calls : pc[d] # "idle" =>
             pc'[d] # "idle" /\ Prop(d)' = Prop(d) /\ Target(d)' = Target(d) /\ KindOf(d)' = KindOf(d)
    BY <1>2, <1>4 DEF CallsKept, Prop, Target, KindOf
  <1>7. KindOf(c) = "create" /\ MakeCard(c) => CardsConfirmed'
    BY <1>2, <1>6 DEF MakeCard, OperationId, EffectInv, CardsConfirmed
  <1>8. SetBinding(c) => BindingsConfirmed'
    BY <1>2, <1>6 DEF SetBinding, EffectInv, BindingsConfirmed, TypeOK
  <1>9. /\ cards' = cards \/ (KindOf(c) = "create" /\ MakeCard(c))
        /\ binding' = binding \/ SetBinding(c)
    BY DEF CallStep, CreateCard, WriteBinding, Reject, Fail
  <1> QED BY <1>5, <1>7, <1>8, <1>9 DEF EffectInv

\* What is written was delivered and confirmed: no eviction, retry, lost answer
\* or restart makes a card or a binding of anything else.
THEOREM OnlyConfirmedWrites == Spec => []EffectInv
  <1>1. Init => EffectInv
    BY DEF Init, EffectInv, CallsConfirmed, CardsConfirmed, BindingsConfirmed
  <1>2. TypeOK /\ EffectInv /\ [Next]_vars => EffectInv'
    BY StepKinds, QuietKeepsEffects, DeclareKeepsEffects, WriteKeepsEffects, CallKeepsEffects,
       RestartKeepsEffects
  <1> QED BY <1>1, <1>2, TypeCorrect, PTL DEF Spec

\* Retries of one proposal, also after a failure that hid a committed card,
\* leave one card.
THEOREM OneCardHolds == Spec => []OneCard
  <1>1. TypeOK /\ EffectInv => OneCard
    <2> SUFFICES ASSUME TypeOK, EffectInv, NEW x \in cards, NEW y \in cards, x[1] = y[1]
                 PROVE  x = y
      BY DEF OneCard
    <2>1. x[2] = x[1] /\ y[2] = y[1]
      BY DEF EffectInv, CardsConfirmed
    <2> QED BY <2>1 DEF TypeOK
  <1> QED BY <1>1, TypeCorrect, OnlyConfirmedWrites, PTL
============================================================================
