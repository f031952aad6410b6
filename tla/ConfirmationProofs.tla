------------------------ MODULE ConfirmationProofs -------------------------
(***************************************************************************)
(* Theorems about ConfirmationTools, for every set of tasks, versions and  *)
(* calls, and for every spelling of the outbox keys.                       *)
(***************************************************************************)
EXTENDS ConfirmationTools, TLAPS

USE DEF Gates

\* A key of the outbox table for every version of every gate.
LEMMA KeyType ==
  ASSUME NEW g \in Gates, NEW v \in VersionsOf(g)
  PROVE  Key(g, v) \in RequestKeys /\ v \in Versions
  BY DEF Key, VersionsOf, RequestKeys, Versions

\* Each state a gate writes is a state of the machine.
LEMMA StatesType ==
  ASSUME NEW g \in Gates
  PROVE  /\ DraftState(g) \in ProductStates \union TechStates
         /\ WaitingState(g) \in ProductStates \union TechStates
         /\ \A d \in Decisions : OutcomeState(g, d) \in ProductStates \union TechStates
  BY DEF DraftState, WaitingState, OutcomeState, ApprovedState, RevisionState,
         ProductStates, TechStates

\* What an UPDATE of the confirmations table leaves behind.
LEMMA SetRowFacts ==
  ASSUME StoreTypeOK, NEW t \in Tasks, NEW g \in Gates,
         NEW s \in ProductStates \union TechStates, NEW v \in VersionsOf(g),
         NEW c \in Claims \union {None}, NEW d \in Decisions \union {None},
         SetRow(t, g, s, v, c, d)
  PROVE  /\ rec' \in [Tasks -> Row]
         /\ \A u \in Tasks, h \in Gates : rec'[u].version[h] \in VersionsOf(h) \union {None}
         /\ \A u \in Tasks \ {t} : rec'[u] = rec[u]
         /\ rec'[t].status = s
         /\ rec'[t].version[g] = v /\ rec'[t].code[g] = c /\ rec'[t].decision[g] = d
         /\ \A h \in Gates \ {g} : /\ rec'[t].version[h] = rec[t].version[h]
                                 /\ rec'[t].code[h] = rec[t].code[h]
                                 /\ rec'[t].decision[h] = rec[t].decision[h]
  <1> DEFINE row == [status   |-> s,
                     version  |-> [rec[t].version EXCEPT ![g] = v],
                     code     |-> [rec[t].code EXCEPT ![g] = c],
                     decision |-> [rec[t].decision EXCEPT ![g] = d]]
  <1>1. row \in Row
    BY KeyType DEF StoreTypeOK, Row
  <1>2. rec' = [rec EXCEPT ![t] = row]
    BY DEF SetRow
  <1>3. rec[t] \in Row
    BY DEF StoreTypeOK
  <1>4. \A h \in Gates : row.version[h] \in VersionsOf(h) \union {None}
    BY <1>3 DEF StoreTypeOK, Row
  <1>5. /\ row.status = s
        /\ row.version[g] = v /\ row.code[g] = c /\ row.decision[g] = d
        /\ \A h \in Gates \ {g} : /\ row.version[h] = rec[t].version[h]
                                /\ row.code[h] = rec[t].code[h]
                                /\ row.decision[h] = rec[t].decision[h]
    BY <1>3 DEF Row
  <1> HIDE DEF row
  <1>6. /\ rec' \in [Tasks -> Row]
        /\ rec'[t] = row
        /\ \A u \in Tasks \ {t} : rec'[u] = rec[u]
    BY <1>1, <1>2 DEF StoreTypeOK
  <1> QED BY <1>4, <1>5, <1>6 DEF StoreTypeOK

\* What a write to the outbox leaves behind.
LEMMA SetRequestFacts ==
  ASSUME StoreTypeOK, NEW t \in Tasks, NEW g \in Gates, NEW v \in VersionsOf(g),
         NEW s \in {"CLAIMED", "FAILED", "DELIVERED"}, NEW c \in Claims,
         SetRequest(t, g, v, s, c)
  PROVE  /\ req' \in [Tasks -> [RequestKeys -> Request]]
         /\ req'[t][Key(g, v)] = [state |-> s, claim |-> c]
         /\ \A u \in Tasks, l \in RequestKeys :
              u # t \/ l # Key(g, v) => req'[u][l] = req[u][l]
  <1> DEFINE r == [state |-> s, claim |-> c]
             k == Key(g, v)
  <1>1. r \in Request
    BY DEF Request
  <1>2. k \in RequestKeys
    BY KeyType
  <1>3. req' = [req EXCEPT ![t][k] = r]
    BY DEF SetRequest
  <1> HIDE DEF r, k
  <1>4. /\ req' \in [Tasks -> [RequestKeys -> Request]]
        /\ req'[t][k] = r
        /\ \A u \in Tasks, l \in RequestKeys : u # t \/ l # k => req'[u][l] = req[u][l]
    BY <1>1, <1>2, <1>3 DEF StoreTypeOK
  <1> QED BY <1>4 DEF r, k

\* A write for one task leaves the rows of the others alone.
LEMMA OtherRows ==
  ASSUME StoreTypeOK, NEW t, NEW u \in Tasks, u # t, NEW g, NEW s, NEW v, NEW c, NEW d,
         SetRow(t, g, s, v, c, d)
  PROVE  rec'[u] = rec[u]
  BY DEF StoreTypeOK, SetRow

\* A write to the outbox of one task leaves the others alone.
LEMMA OtherRequests ==
  ASSUME StoreTypeOK, NEW t, NEW u \in Tasks, u # t, NEW g, NEW s, NEW v, NEW c,
         SetRequest(t, g, v, s, c)
  PROVE  req'[u] = req[u]
  BY DEF StoreTypeOK, SetRequest

\* The operations keep the types of the tables.
LEMMA RedraftType ==
  ASSUME StoreTypeOK, NEW t \in Tasks, NEW g \in Gates, NEW v \in VersionsOf(g),
         Redraft(t, g, v)
  PROVE  StoreTypeOK'
  <1>1. /\ rec' \in [Tasks -> Row]
        /\ \A u \in Tasks, h \in Gates : rec'[u].version[h] \in VersionsOf(h) \union {None}
    BY SetRowFacts, StatesType DEF Redraft
  <1>2. versions' \in [Tasks -> [Gates -> SUBSET Versions]]
    BY KeyType DEF StoreTypeOK, Redraft
  <1> QED BY <1>1, <1>2 DEF StoreTypeOK, Redraft

\* A re-draft leaves a draft, without a code or a decision, at its gate and
\* nothing changed at the other one.
LEMMA RedraftFacts ==
  ASSUME StoreTypeOK, NEW t \in Tasks, NEW g \in Gates, NEW v \in VersionsOf(g),
         Redraft(t, g, v)
  PROVE  /\ rec'[t].status = DraftState(g)
         /\ rec'[t].version[g] = v
         /\ rec'[t].code[g] = None /\ rec'[t].decision[g] = None
         /\ \A h \in Gates \ {g} : /\ rec'[t].version[h] = rec[t].version[h]
                                 /\ rec'[t].code[h] = rec[t].code[h]
                                 /\ rec'[t].decision[h] = rec[t].decision[h]
  <1>1. SetRow(t, g, DraftState(g), v, None, None)
    BY DEF Redraft
  <1>2. DraftState(g) \in ProductStates \union TechStates
    BY StatesType
  <1>3. None \in Claims \union {None} /\ None \in Decisions \union {None}
    OBVIOUS
  <1> QED BY <1>1, <1>2, <1>3, SetRowFacts, SMTT(60)

\* A delivered request moves the row to the waiting state of its gate with the
\* code of its message, keeps the decision, and changes nothing at the other gate.
LEMMA CompleteFacts ==
  ASSUME StoreTypeOK, NEW t \in Tasks, NEW g \in Gates, NEW v \in VersionsOf(g),
         NEW c \in Claims, rec[t].decision[g] \in Decisions \union {None},
         Complete(t, g, v, c)
  PROVE  /\ rec'[t].status = WaitingState(g)
         /\ rec'[t].version[g] = v
         /\ rec'[t].code[g] = c /\ rec'[t].decision[g] = rec[t].decision[g]
         /\ \A h \in Gates \ {g} : /\ rec'[t].version[h] = rec[t].version[h]
                                 /\ rec'[t].code[h] = rec[t].code[h]
                                 /\ rec'[t].decision[h] = rec[t].decision[h]
  <1>1. SetRow(t, g, WaitingState(g), v, c, rec[t].decision[g])
    BY DEF Complete
  <1>2. WaitingState(g) \in ProductStates \union TechStates
    BY StatesType
  <1>3. c \in Claims \union {None}
    OBVIOUS
  <1> QED BY <1>1, <1>2, <1>3, SetRowFacts, SMTT(60)

\* An applied decision moves the row to the outcome of its gate, keeps the
\* version and the code, and changes nothing at the other gate.
LEMMA ApplyRow ==
  ASSUME StoreTypeOK, NEW t \in Tasks, NEW g \in Gates, NEW d \in Decisions, NEW a, NEW q,
         NEW v \in VersionsOf(g), Apply(t, g, v, d, a, q)
  PROVE  /\ rec'[t].status = OutcomeState(g, d)
         /\ rec'[t].version[g] = v /\ rec'[t].code[g] = rec[t].code[g]
         /\ rec'[t].decision[g] = d
         /\ \A h \in Gates \ {g} : /\ rec'[t].version[h] = rec[t].version[h]
                                   /\ rec'[t].code[h] = rec[t].code[h]
                                   /\ rec'[t].decision[h] = rec[t].decision[h]
  <1>1. SetRow(t, g, OutcomeState(g, d), v, rec[t].code[g], d)
    BY DEF Apply
  <1>2. OutcomeState(g, d) \in ProductStates \union TechStates
    BY StatesType
  <1>3. rec[t].code[g] \in Claims \union {None} /\ d \in Decisions \union {None}
    BY DEF StoreTypeOK, Row
  <1> QED BY <1>1, <1>2, <1>3, SetRowFacts, SMTT(60)

\* Taking a claim keeps the types: claim_request.
LEMMA AcquireType ==
  ASSUME StoreTypeOK, NEW t \in Tasks, NEW g \in Gates, NEW v \in VersionsOf(g),
         NEW c \in Claims, Acquire(t, g, v, c)
  PROVE  StoreTypeOK'
  <1>1. req' \in [Tasks -> [RequestKeys -> Request]]
    BY SetRequestFacts DEF Acquire
  <1> QED BY <1>1 DEF StoreTypeOK, Acquire

\* Finalizing a delivery keeps the types: complete_request_delivery.
LEMMA CompleteType ==
  ASSUME StoreTypeOK, NEW t \in Tasks, NEW g \in Gates, NEW v \in VersionsOf(g),
         NEW c \in Claims, Complete(t, g, v, c)
  PROVE  StoreTypeOK'
  <1>1. rec[t].decision[g] \in Decisions \union {None}
    BY DEF StoreTypeOK, Row
  <1>2. /\ rec' \in [Tasks -> Row]
        /\ \A u \in Tasks, h \in Gates : rec'[u].version[h] \in VersionsOf(h) \union {None}
    BY <1>1, SetRowFacts, StatesType DEF Complete
  <1>3. req' \in [Tasks -> [RequestKeys -> Request]]
    BY SetRequestFacts DEF Complete
  <1> QED BY <1>2, <1>3 DEF StoreTypeOK, Complete

\* Releasing a claim keeps the types: fail_request.
LEMMA FailType ==
  ASSUME StoreTypeOK, NEW t \in Tasks, NEW g \in Gates, NEW v \in VersionsOf(g),
         NEW c \in Claims, FailRequest(t, g, v, c)
  PROVE  StoreTypeOK'
  <1>1. req' \in [Tasks -> [RequestKeys -> Request]]
    BY SetRequestFacts DEF FailRequest
  <1> QED BY <1>1 DEF StoreTypeOK, FailRequest

\* Applying a decision keeps the types: apply_decision.
LEMMA ApplyType ==
  ASSUME StoreTypeOK, NEW t \in Tasks, NEW g \in Gates, NEW v \in VersionsOf(g),
         NEW d \in Decisions, NEW a, NEW q \in Claims \union {None},
         Apply(t, g, v, d, a, q)
  PROVE  StoreTypeOK'
  <1>1. rec[t].code[g] \in Claims \union {None}
    BY DEF StoreTypeOK, Row
  <1>2. /\ rec' \in [Tasks -> Row]
        /\ \A u \in Tasks, h \in Gates : rec'[u].version[h] \in VersionsOf(h) \union {None}
    BY <1>1, SetRowFacts, StatesType DEF Apply
  <1>3. Entry(t, g, v, d, q, "APPLIED") \in LogEntry
    BY KeyType DEF Entry, LogEntry
  <1> QED BY <1>2, <1>3 DEF StoreTypeOK, Apply

\* Logging an identical decision keeps the types.
LEMMA RepeatType ==
  ASSUME StoreTypeOK, NEW t \in Tasks, NEW g \in Gates, NEW v \in VersionsOf(g),
         NEW d \in Decisions, NEW q \in Claims \union {None}, Repeat(t, g, v, d, q)
  PROVE  StoreTypeOK'
  <1>1. Entry(t, g, v, d, q, "DUPLICATE") \in LogEntry
    BY KeyType DEF Entry, LogEntry
  <1> QED BY <1>1 DEF StoreTypeOK, Repeat

----------------------------------------------------------------------------
(* The steps of Next, with the two gates folded into one parameter.        *)

DraftStep(g, t, v) ==
  /\ ~ SendInFlight(t, g)
  /\ rec[t].status \in {"ABSENT", DraftState(g), RevisionState(g)}
  /\ rec[t].status = "ABSENT" => g = "product"
  /\ Redraft(t, g, v)
  /\ UNCHANGED toolVars

ApplyStep(g, t, v, d, a, q) ==
  /\ q \in chat \union misread \union {None}
  /\ Apply(t, g, v, d, a, q)
  /\ UNCHANGED toolVars

RepeatStep(g, t, v, d, a, q) ==
  /\ q \in chat \union misread \union {None}
  /\ DecisionAdmitted(t, g, v, a, q)
  /\ Repeat(t, g, v, d, q)
  /\ \/ /\ g = "product"
        /\ rec[t].status # WaitingState("product")
        /\ EffectiveDecision(t) = d
     \/ /\ g = "tech"
        /\ rec[t].status \in {"TECH_DESIGN_APPROVED", "TECH_DESIGN_NEEDS_REVISION"}
        /\ rec[t].decision["tech"] = d
  /\ UNCHANGED toolVars

ClaimStep(c) ==
  /\ pc[c] = "resolved"
  /\ Acquire(job[c].task, job[c].gate, job[c].version, c)
  /\ Goto(c, "claimed")
  /\ UNCHANGED <<job, wire, chat, misread>>

\* A step that only moves one handler on.
MoveStep(c) ==
  /\ \/ pc[c] = "resolved" /\ \E l \in Refused : Goto(c, l)
     \/ pc[c] = "claimed" /\ (Goto(c, "raised") \/ Goto(c, "undelivered"))
     \/ pc[c] = "sending" /\ c \in chat /\ Goto(c, "delivered")
     \/ pc[c] \in Running /\ \E l \in Retained : Goto(c, l)
  /\ UNCHANGED <<rec, versions, req, log, job, wire, chat, misread>>

FinishStep(c) ==
  /\ pc[c] = "delivered"
  /\ Complete(job[c].task, job[c].gate, job[c].version, c)
  /\ Goto(c, "finished")
  /\ UNCHANGED <<job, wire, chat, misread>>

ReleaseStep(c) ==
  /\ pc[c] = "undelivered"
  /\ FailRequest(job[c].task, job[c].gate, job[c].version, c)
  /\ Goto(c, "released")
  /\ UNCHANGED <<job, wire, chat, misread>>

\* A step is a draft, a resolve, a decision, an advance, one step of one
\* call, or a crash: the cases of every proof below.
LEMMA NextCases ==
  ASSUME Next, TypeOK
  PROVE  \/ \E g \in Gates, t \in Tasks : \E v \in VersionsOf(g) : DraftStep(g, t, v)
         \/ \E t \in Tasks : Advance(t)
         \/ \E g \in Gates, t \in Tasks, c \in Claims : \E v \in VersionsOf(g) : Resolve(c, g, t, v)
         \/ \E g \in Gates, t \in Tasks, d \in Decisions, a \in Staff, q \in Claims \union {None} :
              \E v \in VersionsOf(g) : ApplyStep(g, t, v, d, a, q) \/ RepeatStep(g, t, v, d, a, q)
         \/ \E c \in Claims : \/ ClaimStep(c) \/ MoveStep(c) \/ FinishStep(c) \/ ReleaseStep(c)
                             \/ Submit(c) \/ Accept(c) \/ Reject(c) \/ Misread(c)
         \/ Crash
  <1>1. ASSUME NEW t \in Tasks, NEW v \in ProductVersions, Draft(t, v)
        PROVE  DraftStep("product", t, v) /\ v \in VersionsOf("product")
    BY <1>1 DEF Draft, CreateDraft, DraftStep, DraftState, RevisionState, VersionsOf
  <1>2. ASSUME NEW t \in Tasks, NEW v \in TechVersions, TechDesignDraft(t, v)
        PROVE  DraftStep("tech", t, v) /\ v \in VersionsOf("tech")
    BY <1>2 DEF TechDesignDraft, CreateTechDesignDraft, DraftStep, DraftState, RevisionState,
                VersionsOf
  <1>3. ASSUME NEW t \in Tasks, NEW c \in Claims, NEW v \in ProductVersions, ResolveRequest(c, t, v)
        PROVE  Resolve(c, "product", t, v) /\ v \in VersionsOf("product")
    BY <1>3 DEF ResolveRequest, VersionsOf
  <1>4. ASSUME NEW t \in Tasks, NEW c \in Claims, NEW v \in TechVersions,
               ResolveTechDesignRequest(c, t, v)
        PROVE  Resolve(c, "tech", t, v) /\ v \in VersionsOf("tech")
    BY <1>4 DEF ResolveTechDesignRequest, VersionsOf
  <1>5. ASSUME NEW t \in Tasks, NEW v \in ProductVersions, NEW d, NEW a, NEW q, Decide(t, v, d, a, q)
        PROVE  /\ v \in VersionsOf("product")
               /\ ApplyStep("product", t, v, d, a, q) \/ RepeatStep("product", t, v, d, a, q)
    BY <1>5 DEF Decide, ApplyDecision, RepeatDecision, ApplyStep, RepeatStep, VersionsOf
  <1>6. ASSUME NEW t \in Tasks, NEW v \in TechVersions, NEW d, NEW a, NEW q,
               TechDesignDecide(t, v, d, a, q)
        PROVE  /\ v \in VersionsOf("tech")
               /\ ApplyStep("tech", t, v, d, a, q) \/ RepeatStep("tech", t, v, d, a, q)
    BY <1>6 DEF TechDesignDecide, ApplyTechDesignDecision, RepeatTechDesignDecision, ApplyStep,
                RepeatStep, VersionsOf
  <1>7. ASSUME NEW c \in Claims, HandlerStep(c)
        PROVE  \/ ClaimStep(c) \/ MoveStep(c) \/ FinishStep(c) \/ ReleaseStep(c)
               \/ Submit(c) \/ Reject(c) \/ Misread(c)
    <2>1. ASSUME ClaimWon(c) PROVE ClaimStep(c)
      BY <2>1 DEF ClaimWon, ClaimStep, ClaimRequest, ClaimTechDesignRequest
    <2>2. ASSUME ClaimLost(c) \/ ComposeRaises(c) \/ NotSent(c) PROVE MoveStep(c)
      BY <2>2 DEF ClaimLost, ComposeRaises, NotSent, MoveStep, Refused
    <2>3. ASSUME ReportDelivered(c) \/ ReportUnknown(c) \/ StoreRaises(c) PROVE MoveStep(c)
      BY <2>3 DEF ReportDelivered, ReportUnknown, StoreRaises, MoveStep, Running, Working, Retained
    <2>4. ASSUME Release(c) PROVE ReleaseStep(c) \/ MoveStep(c)
      BY <2>4 DEF Release, ReleaseStep, MoveStep, Running, Working, Retained, storeVars
    <2>5. ASSUME Finalize(c) PROVE FinishStep(c) \/ MoveStep(c)
      <3>1. job[c].gate \in Gates
        BY <2>5 DEF Finalize, TypeOK, ValidJob, Job
      <3> QED BY <2>5, <3>1 DEF Finalize, FinishStep, MoveStep, Running, Working, Retained, storeVars,
                  CompleteRequestDelivery, CompleteTechDesignRequestDelivery
    <2> QED BY <1>7, <2>1, <2>2, <2>3, <2>4, <2>5 DEF HandlerStep
  <1> DEFINE DraftCase == \E g \in Gates, t \in Tasks : \E v \in VersionsOf(g) : DraftStep(g, t, v)
             ResolveCase == \E g \in Gates, t \in Tasks, c \in Claims :
                              \E v \in VersionsOf(g) : Resolve(c, g, t, v)
             DecideCase == \E g \in Gates, t \in Tasks, d \in Decisions, a \in Staff,
                              q \in Claims \union {None} :
                             \E v \in VersionsOf(g) : ApplyStep(g, t, v, d, a, q) \/ RepeatStep(g, t, v, d, a, q)
             CallCase == \E c \in Claims : \/ ClaimStep(c) \/ MoveStep(c) \/ FinishStep(c)
                                          \/ ReleaseStep(c) \/ Submit(c) \/ Accept(c) \/ Reject(c) \/ Misread(c)
  <1>8. (\E t \in Tasks, v \in ProductVersions : Draft(t, v)) => DraftCase
    BY <1>1
  <1>9. (\E t \in Tasks, v \in TechVersions : TechDesignDraft(t, v)) => DraftCase
    BY <1>2
  <1>10. (\E c \in Claims, t \in Tasks, v \in ProductVersions : ResolveRequest(c, t, v)) => ResolveCase
    BY <1>3
  <1>11. (\E c \in Claims, t \in Tasks, v \in TechVersions : ResolveTechDesignRequest(c, t, v))
           => ResolveCase
    BY <1>4
  <1>12. (\E t \in Tasks, v \in ProductVersions, d \in Decisions, a \in Staff,
             q \in Claims \union {None} : Decide(t, v, d, a, q)) => DecideCase
    BY <1>5
  <1>13. (\E t \in Tasks, v \in TechVersions, d \in Decisions, a \in Staff,
             q \in Claims \union {None} : TechDesignDecide(t, v, d, a, q)) => DecideCase
    BY <1>6
  <1>14. (\E c \in Claims : HandlerStep(c) \/ Accept(c)) => CallCase
    BY <1>7
  <1> HIDE DEF DraftCase, ResolveCase, DecideCase, CallCase
  <1>15. DraftCase \/ (\E t \in Tasks : Advance(t)) \/ ResolveCase \/ DecideCase \/ CallCase \/ Crash
    BY <1>8, <1>9, <1>10, <1>11, <1>12, <1>13, <1>14 DEF Next
  <1> QED BY <1>15 DEF DraftCase, ResolveCase, DecideCase, CallCase

----------------------------------------------------------------------------
(* Type correctness.                                                       *)

\* A call that left idle is about a task, a gate and one of its versions.
LEMMA JobFacts ==
  ASSUME TypeOK, NEW c \in Claims, pc[c] # "idle"
  PROVE  /\ job[c].task \in Tasks /\ job[c].gate \in Gates
         /\ job[c].version \in VersionsOf(job[c].gate)
         /\ job[c] = Question(job[c].gate, job[c].task, job[c].version)
  BY DEF TypeOK, ValidJob, Job, Question

\* Entering technical design changes one status and no other column:
\* enter_tech_design.
LEMMA AdvanceFacts ==
  ASSUME StoreTypeOK, NEW t \in Tasks, Advance(t)
  PROVE  /\ rec' \in [Tasks -> Row]
         /\ \A u \in Tasks \ {t} : rec'[u] = rec[u]
         /\ rec'[t].status = "TECH_DESIGN"
         /\ rec'[t].version = rec[t].version
         /\ rec'[t].code = rec[t].code
         /\ rec'[t].decision = rec[t].decision
  <1> DEFINE row == [rec[t] EXCEPT !.status = "TECH_DESIGN"]
  <1>1. rec[t] \in Row
    BY DEF StoreTypeOK
  <1>2. row \in Row
    BY <1>1 DEF Row, TechStates
  <1>3. /\ row.status = "TECH_DESIGN"
        /\ row.version = rec[t].version
        /\ row.code = rec[t].code
        /\ row.decision = rec[t].decision
    BY <1>1 DEF Row
  <1>4. rec' = [rec EXCEPT ![t] = row]
    BY DEF Advance, EnterTechDesign
  <1> HIDE DEF row
  <1> QED BY <1>2, <1>3, <1>4 DEF StoreTypeOK

\* The empty database and no calls are well typed.
LEMMA InitType == Init => TypeOK
  <1> SUFFICES ASSUME Init PROVE TypeOK
    OBVIOUS
  <1>1. NoRow \in Row
    BY DEF NoRow, Row
  <1>2. rec \in [Tasks -> Row]
    BY <1>1 DEF Init, StoreInit
  <1>3. \A t \in Tasks, g \in Gates : rec[t].version[g] \in VersionsOf(g) \union {None}
    BY DEF Init, StoreInit, NoRow
  <1>4. /\ versions \in [Tasks -> [Gates -> SUBSET Versions]]
        /\ req \in [Tasks -> [RequestKeys -> Request]]
        /\ log \subseteq LogEntry
    BY DEF Init, StoreInit, Request
  <1> QED BY <1>2, <1>3, <1>4 DEF Init, TypeOK, StoreTypeOK, PCs

\* Every step keeps the types.
LEMMA NextType ==
  ASSUME TypeOK, [Next]_vars
  PROVE  TypeOK'
  <1> USE DEF TypeOK
  <1> DEFINE CallTypeOK == /\ pc \in [Claims -> PCs]
                           /\ job \in [Claims -> Job \union {None}]
                           /\ \A c \in Claims : pc[c] # "idle" => ValidJob(job[c])
                           /\ wire \subseteq Claims
                           /\ chat \subseteq Claims
                           /\ misread \subseteq Claims
  <1>1. CASE UNCHANGED vars
    BY <1>1 DEF vars, StoreTypeOK, ValidJob
  <1>2. ASSUME NEW g \in Gates, NEW t \in Tasks, NEW v \in VersionsOf(g), DraftStep(g, t, v)
        PROVE  TypeOK'
    BY <1>2, RedraftType DEF DraftStep, toolVars, ValidJob
  <1>3. ASSUME NEW t \in Tasks, Advance(t)
        PROVE  TypeOK'
    <2>1. rec' \in [Tasks -> Row]
      BY <1>3, AdvanceFacts
    <2>2. \A u \in Tasks, h \in Gates : rec'[u].version[h] \in VersionsOf(h) \union {None}
      BY <1>3, AdvanceFacts DEF StoreTypeOK
    <2> QED BY <1>3, <2>1, <2>2 DEF Advance, EnterTechDesign, StoreTypeOK, toolVars, ValidJob
  <1>4. ASSUME NEW g \in Gates, NEW t \in Tasks, NEW c \in Claims, NEW v \in VersionsOf(g),
               Resolve(c, g, t, v)
        PROVE  TypeOK'
    <2>1. ValidJob([gate |-> g, task |-> t, version |-> v])
      BY KeyType DEF ValidJob, Job
    <2>2. StoreTypeOK'
      BY <1>4 DEF Resolve, StoreTypeOK
    <2>3. CallTypeOK'
      BY <1>4, <2>1 DEF Resolve, Goto, ValidJob, PCs, Running
    <2> QED BY <2>2, <2>3
  <1>5. ASSUME NEW g \in Gates, NEW t \in Tasks, NEW d \in Decisions, NEW a \in Staff,
               NEW q \in Claims \union {None}, NEW v \in VersionsOf(g),
               ApplyStep(g, t, v, d, a, q) \/ RepeatStep(g, t, v, d, a, q)
        PROVE  TypeOK'
    <2>1. StoreTypeOK'
      BY <1>5, ApplyType, RepeatType DEF ApplyStep, RepeatStep
    <2> QED BY <1>5, <2>1 DEF ApplyStep, RepeatStep, toolVars, ValidJob
  <1>6. ASSUME NEW c \in Claims, ClaimStep(c) \/ FinishStep(c) \/ ReleaseStep(c)
        PROVE  TypeOK'
    <2>1. pc[c] # "idle"
      BY <1>6 DEF ClaimStep, FinishStep, ReleaseStep
    <2>2. StoreTypeOK'
      BY <1>6, <2>1, JobFacts, AcquireType, CompleteType, FailType DEF ClaimStep, FinishStep, ReleaseStep
    <2>3. CallTypeOK'
      BY <1>6, <2>1 DEF ClaimStep, FinishStep, ReleaseStep, Goto, ValidJob, PCs, Running, Working, Settled
    <2> QED BY <2>2, <2>3
  <1>7. ASSUME NEW c \in Claims, MoveStep(c) \/ Submit(c) \/ Accept(c) \/ Reject(c) \/ Misread(c)
        PROVE  TypeOK'
    <2>1. StoreTypeOK'
      BY <1>7 DEF MoveStep, Submit, Accept, Reject, Misread, StoreTypeOK
    <2>2. CASE MoveStep(c)
      BY <2>1, <2>2 DEF MoveStep, Goto, ValidJob, PCs, Running, Working, Refused, Retained
    <2>3. CASE Submit(c) \/ Accept(c) \/ Reject(c) \/ Misread(c)
      BY <2>1, <2>3 DEF Submit, Accept, Reject, Misread, Goto, ValidJob, PCs, Running, Working
    <2> QED BY <1>7, <2>2, <2>3
  <1>8. CASE Crash
    <2>1. StoreTypeOK'
      BY <1>8 DEF Crash, StoreTypeOK
    <2> QED BY <1>8, <2>1 DEF Crash, ValidJob, PCs, Running, Working, Retained
  <1> QED BY <1>1, <1>2, <1>3, <1>4, <1>5, <1>6, <1>7, <1>8, NextCases

\* Every reachable state is well typed: each stored version belongs to its
\* gate and each running call names an existing kind of request.
THEOREM TypeCorrect == Spec => []TypeOK
  <1>1. TypeOK /\ [Next]_vars => TypeOK'
    BY NextType
  <1> QED BY InitType, <1>1, PTL DEF Spec

----------------------------------------------------------------------------
(* The outbox: at most one message, and no conflict at the end.            *)

\* No status belongs to two gates or to two phases of one.
LEMMA DraftStates ==
  ASSUME NEW g \in Gates, NEW h \in Gates
  PROVE  /\ DraftState(g) = DraftState(h) => g = h
         /\ DraftState(g) \notin {"ABSENT", "PRODUCT_APPROVED", "TECH_DESIGN_APPROVED"}
         /\ DraftState(g) # RevisionState(h) /\ DraftState(g) # WaitingState(h)
         /\ WaitingState(g) # RevisionState(h)
         /\ WaitingState(g) = WaitingState(h) => g = h
  BY DEF DraftState, RevisionState, WaitingState

\* Every step keeps the claim and the draft of the handlers at work.
LEMMA HolderStep ==
  ASSUME TypeOK, ClaimInv, [Next]_vars
  PROVE  HolderInv'
  <1> SUFFICES ASSUME NEW e \in Claims, pc'[e] \in Working
               PROVE  /\ OwnsClaim(job[e].task, job[e].gate, job[e].version, e)'
                      /\ CurrentDraft(job[e].task, job[e].gate, job[e].version)'
    BY DEF HolderInv
  <1> DEFINE Holds == /\ OwnsClaim(job[e].task, job[e].gate, job[e].version, e)
                      /\ CurrentDraft(job[e].task, job[e].gate, job[e].version)
  <1>1. pc[e] \in Working => /\ Holds
                             /\ job[e].task \in Tasks /\ job[e].gate \in Gates
                             /\ job[e].version \in VersionsOf(job[e].gate)
                             /\ job[e].version # None
    BY JobFacts, NoneAssumption DEF ClaimInv, HolderInv, Working, VersionsOf, Versions
  <1>2. CASE UNCHANGED vars
    BY <1>1, <1>2 DEF vars, OwnsClaim, CurrentDraft
  <1>3. ASSUME NEW g \in Gates, NEW t \in Tasks, NEW v \in VersionsOf(g), DraftStep(g, t, v)
        PROVE  Holds'
    <2>1. pc[e] \in Working /\ job' = job /\ req' = req
      BY <1>3 DEF DraftStep, toolVars, Redraft
    <2>2. job[e].task # t
      BY <1>1, <1>3, <2>1, DraftStates DEF DraftStep, SendInFlight, OwnsClaim, CurrentDraft
    <2>3. rec'[job[e].task] = rec[job[e].task]
      BY <1>1, <1>3, <2>1, <2>2, OtherRows DEF DraftStep, Redraft, TypeOK
    <2> QED BY <1>1, <2>1, <2>3 DEF OwnsClaim, CurrentDraft
  <1>4. ASSUME NEW t \in Tasks, Advance(t)
        PROVE  Holds'
    <2>1. pc[e] \in Working /\ job' = job /\ req' = req
      BY <1>4 DEF Advance, EnterTechDesign, toolVars
    <2>2. job[e].task # t
      BY <1>1, <1>4, <2>1, DraftStates DEF Advance, EnterTechDesign, CurrentDraft
    <2> QED BY <1>1, <1>4, <2>1, <2>2, AdvanceFacts DEF OwnsClaim, CurrentDraft, TypeOK
  <1>5. ASSUME NEW g \in Gates, NEW t \in Tasks, NEW c \in Claims, NEW v \in VersionsOf(g),
               Resolve(c, g, t, v)
        PROVE  Holds'
    <2>1. e # c /\ pc[e] \in Working /\ job'[e] = job[e]
      BY <1>5 DEF Resolve, Goto, TypeOK, Working
    <2> QED BY <1>1, <1>5, <2>1 DEF Resolve, OwnsClaim, CurrentDraft
  <1>6. ASSUME NEW g \in Gates, NEW t \in Tasks, NEW d \in Decisions, NEW a \in Staff,
               NEW q \in Claims \union {None}, NEW v \in VersionsOf(g),
               ApplyStep(g, t, v, d, a, q) \/ RepeatStep(g, t, v, d, a, q)
        PROVE  Holds'
    <2>1. pc[e] \in Working /\ job' = job /\ req' = req
      BY <1>6 DEF ApplyStep, RepeatStep, Apply, Repeat, toolVars
    <2>2. CASE RepeatStep(g, t, v, d, a, q)
      BY <1>1, <2>1, <2>2 DEF RepeatStep, Repeat, OwnsClaim, CurrentDraft
    <2>3. CASE ApplyStep(g, t, v, d, a, q)
      <3>1. job[e].task # t
        BY <1>1, <2>1, <2>3, DraftStates DEF ApplyStep, Apply, CurrentDraft
      <3>2. rec'[job[e].task] = rec[job[e].task]
        BY <1>1, <2>1, <2>3, <3>1, OtherRows DEF ApplyStep, Apply, TypeOK
      <3> QED BY <1>1, <2>1, <3>2 DEF OwnsClaim, CurrentDraft
    <2> QED BY <1>6, <2>2, <2>3
  <1>7. ASSUME NEW c \in Claims, ClaimStep(c)
        PROVE  Holds'
    <2>1. /\ job[c].task \in Tasks /\ job[c].gate \in Gates
          /\ job[c].version \in VersionsOf(job[c].gate)
      BY <1>7, JobFacts DEF ClaimStep
    <2>2. /\ req'[job[c].task][Key(job[c].gate, job[c].version)] = [state |-> "CLAIMED", claim |-> c]
          /\ \A u \in Tasks, l \in RequestKeys :
               u # job[c].task \/ l # Key(job[c].gate, job[c].version) => req'[u][l] = req[u][l]
      BY <1>7, <2>1, SetRequestFacts DEF ClaimStep, Acquire, TypeOK
    <2>3. CASE e = c
      BY <1>7, <2>2, <2>3 DEF ClaimStep, Acquire, OwnsClaim, CurrentDraft
    <2>4. CASE e # c
      <3>1. pc[e] \in Working
        BY <1>7, <2>4 DEF ClaimStep, Goto, TypeOK
      <3>2. \/ job[e].task # job[c].task
            \/ Key(job[e].gate, job[e].version) # Key(job[c].gate, job[c].version)
        BY <1>1, <1>7, <3>1 DEF ClaimStep, Acquire, OwnsClaim
      <3> QED BY <1>1, <1>7, <2>2, <3>1, <3>2, KeyType DEF ClaimStep, Acquire, OwnsClaim, CurrentDraft
    <2> QED BY <2>3, <2>4
  <1>8. ASSUME NEW c \in Claims, FinishStep(c) \/ ReleaseStep(c)
        PROVE  Holds'
    <2>1. /\ job[c].task \in Tasks /\ job[c].gate \in Gates
          /\ job[c].version \in VersionsOf(job[c].gate)
          /\ OwnsClaim(job[c].task, job[c].gate, job[c].version, c)
          /\ CurrentDraft(job[c].task, job[c].gate, job[c].version)
          /\ pc[c] \in Working
      BY <1>8, JobFacts DEF FinishStep, ReleaseStep, ClaimInv, HolderInv, Working
    <2>2. e # c /\ pc[e] \in Working
      BY <1>8 DEF FinishStep, ReleaseStep, Goto, TypeOK, Working
    <2>3. job[e].task # job[c].task
      <3> SUFFICES ASSUME job[e].task = job[c].task PROVE FALSE
        OBVIOUS
      <3>1. job[e].gate = job[c].gate
        BY <1>1, <2>1, <2>2, DraftStates DEF CurrentDraft
      <3>2. job[e].version = job[c].version
        BY <1>1, <2>1, <2>2, <3>1 DEF CurrentDraft
      <3> QED BY <1>1, <2>1, <2>2, <3>1, <3>2 DEF OwnsClaim
    <2>4. req'[job[e].task] = req[job[e].task]
      BY <1>1, <1>8, <2>2, <2>3, OtherRequests
         DEF FinishStep, ReleaseStep, Complete, FailRequest, TypeOK
    <2>5. rec'[job[e].task] = rec[job[e].task]
      <3>1. CASE ReleaseStep(c)
        BY <3>1 DEF ReleaseStep, FailRequest
      <3>2. CASE FinishStep(c)
        BY <1>1, <2>2, <2>3, <3>2, OtherRows DEF FinishStep, Complete, TypeOK
      <3> QED BY <1>8, <3>1, <3>2
    <2>6. job' = job
      BY <1>8 DEF FinishStep, ReleaseStep
    <2> QED BY <1>1, <2>2, <2>4, <2>5, <2>6, KeyType DEF OwnsClaim, CurrentDraft
  <1>9. ASSUME NEW c \in Claims, MoveStep(c) \/ Submit(c) \/ Accept(c) \/ Reject(c) \/ Misread(c)
        PROVE  Holds'
    <2>1. job' = job /\ req' = req /\ rec' = rec
      BY <1>9 DEF MoveStep, Submit, Accept, Reject, Misread
    <2>2. pc[e] \in Working
      <3>1. CASE MoveStep(c)
        BY <3>1 DEF MoveStep, Goto, TypeOK, Working, Refused, Retained
      <3>2. CASE Submit(c) \/ Accept(c) \/ Reject(c) \/ Misread(c)
        BY <3>2 DEF Submit, Accept, Reject, Misread, Goto, TypeOK, Working
      <3> QED BY <1>9, <3>1, <3>2
    <2> QED BY <1>1, <2>1, <2>2 DEF OwnsClaim, CurrentDraft
  <1>10. CASE Crash
    BY <1>1, <1>10 DEF Crash, OwnsClaim, CurrentDraft, Running, Working
  <1> QED BY <1>2, <1>3, <1>4, <1>5, <1>6, <1>7, <1>8, <1>9, <1>10, NextCases

\* Every step keeps submitted messages with the claim of their row.
LEMMA MessageStep ==
  ASSUME TypeOK, ClaimInv, [Next]_vars
  PROVE  MessageInv'
  <1> SUFFICES ASSUME NEW e \in wire' \union chat'
               PROVE  RowOf(e)'.claim = e /\ RowOf(e)'.state \in {"CLAIMED", "DELIVERED"}
    BY DEF MessageInv
  <1> DEFINE Old == e \in wire \union chat
             Good == RowOf(e).claim = e /\ RowOf(e).state \in {"CLAIMED", "DELIVERED"}
             key == Key(job[e].gate, job[e].version)
  <1>1. Old => /\ Good /\ pc[e] # "idle" /\ e \in Claims
               /\ job[e].task \in Tasks /\ key \in RequestKeys
    BY JobFacts, KeyType DEF ClaimInv, MessageInv, NoMessageInv, TypeOK
  <1>2. ASSUME req' = req, job' = job, Old
        PROVE  Good'
    BY <1>1, <1>2 DEF RowOf
  <1>3. CASE UNCHANGED vars
    BY <1>2, <1>3 DEF vars
  <1>4. ASSUME NEW g \in Gates, NEW t \in Tasks, NEW v \in VersionsOf(g), DraftStep(g, t, v)
        PROVE  Good'
    BY <1>2, <1>4 DEF DraftStep, Redraft, toolVars
  <1>5. ASSUME NEW t \in Tasks, Advance(t)
        PROVE  Good'
    BY <1>2, <1>5 DEF Advance, EnterTechDesign, toolVars
  <1>6. ASSUME NEW g \in Gates, NEW t \in Tasks, NEW c \in Claims, NEW v \in VersionsOf(g),
               Resolve(c, g, t, v)
        PROVE  Good'
    BY <1>1, <1>6 DEF Resolve, RowOf, TypeOK
  <1>7. ASSUME NEW g \in Gates, NEW t \in Tasks, NEW d \in Decisions, NEW a \in Staff,
               NEW q \in Claims \union {None}, NEW v \in VersionsOf(g),
               ApplyStep(g, t, v, d, a, q) \/ RepeatStep(g, t, v, d, a, q)
        PROVE  Good'
    BY <1>2, <1>7 DEF ApplyStep, RepeatStep, Apply, Repeat, toolVars
  <1>8. ASSUME NEW c \in Claims, ClaimStep(c) \/ FinishStep(c) \/ ReleaseStep(c)
        PROVE  Good'
    <2> DEFINE own == Key(job[c].gate, job[c].version)
    <2>1. /\ job[c].task \in Tasks /\ job[c].gate \in Gates
          /\ job[c].version \in VersionsOf(job[c].gate)
      BY <1>8, JobFacts DEF ClaimStep, FinishStep, ReleaseStep
    <2>2. Old /\ job' = job
      BY <1>8 DEF ClaimStep, FinishStep, ReleaseStep
    <2>3. /\ \A u \in Tasks, l \in RequestKeys :
               u # job[c].task \/ l # own => req'[u][l] = req[u][l]
          /\ FinishStep(c) => req'[job[c].task][own] = [state |-> "DELIVERED", claim |-> c]
      <3>1. PICK s \in {"CLAIMED", "FAILED", "DELIVERED"} :
              /\ SetRequest(job[c].task, job[c].gate, job[c].version, s, c)
              /\ FinishStep(c) => s = "DELIVERED"
        <4>1. CASE ClaimStep(c)
          BY <4>1 DEF ClaimStep, FinishStep, Acquire
        <4>2. CASE FinishStep(c)
          BY <4>2 DEF FinishStep, Complete
        <4>3. CASE ReleaseStep(c)
          BY <4>3 DEF ReleaseStep, FinishStep, FailRequest
        <4> QED BY <1>8, <4>1, <4>2, <4>3
      <3>2. StoreTypeOK
        BY DEF TypeOK
      <3>3. /\ req'[job[c].task][own] = [state |-> s, claim |-> c]
            /\ \A u \in Tasks, l \in RequestKeys :
                 u # job[c].task \/ l # own => req'[u][l] = req[u][l]
        BY <2>1, <3>1, <3>2, SetRequestFacts
      <3> QED BY <3>1, <3>3
    <2>4. CASE job[e].task # job[c].task \/ key # own
      BY <1>1, <2>2, <2>3, <2>4 DEF RowOf
    <2>5. CASE job[e].task = job[c].task /\ key = own
      <3>1. RowOf(e) = RowOf(c)
        BY <2>5 DEF RowOf
      <3>2. FinishStep(c) /\ e = c
        <4>1. ~ ClaimStep(c)
          BY <1>1, <2>2, <3>1 DEF ClaimStep, Acquire, RowOf
        <4>2. e = c
          BY <1>1, <1>8, <2>2, <3>1, <4>1 DEF FinishStep, ReleaseStep, Complete, FailRequest,
             OwnsClaim, RowOf
        <4>3. ~ ReleaseStep(c)
          BY <2>2, <4>2 DEF ReleaseStep, ClaimInv, NoMessageInv
        <4> QED BY <1>8, <4>1, <4>2, <4>3
      <3> QED BY <2>2, <2>3, <3>2 DEF RowOf
    <2> QED BY <2>4, <2>5
  <1>9. ASSUME NEW c \in Claims, MoveStep(c) \/ Accept(c) \/ Reject(c) \/ Misread(c)
        PROVE  Good'
    <2>1. req' = req /\ job' = job /\ Old
      BY <1>9 DEF MoveStep, Accept, Reject, Misread
    <2> QED BY <1>2, <2>1
  <1>10. ASSUME NEW c \in Claims, Submit(c)
         PROVE  Good'
    <2>1. req' = req /\ job' = job /\ (Old \/ e = c)
      BY <1>10 DEF Submit
    <2>2. CASE e = c
      <3>1. OwnsClaim(job[c].task, job[c].gate, job[c].version, c)
        BY <1>10 DEF Submit, ClaimInv, HolderInv, Working
      <3> QED BY <2>1, <2>2, <3>1 DEF RowOf, OwnsClaim
    <2> QED BY <1>2, <2>1, <2>2
  <1>11. CASE Crash
    BY <1>2, <1>11 DEF Crash
  <1> QED BY <1>3, <1>4, <1>5, <1>6, <1>7, <1>8, <1>9, <1>10, <1>11, NextCases

\* Every step keeps calls that have sent nothing without a message.
LEMMA NoMessageStep ==
  ASSUME TypeOK, ClaimInv, [Next]_vars
  PROVE  NoMessageInv'
  <1> USE DEF NoMessageInv, ClaimInv, TypeOK
  <1>1. CASE pc' = pc /\ wire' = wire /\ chat' = chat
    BY <1>1
  <1>2. ASSUME NEW g \in Gates, NEW t \in Tasks, NEW v \in VersionsOf(g), DraftStep(g, t, v)
        PROVE  NoMessageInv'
    BY <1>1, <1>2 DEF DraftStep, toolVars
  <1>3. ASSUME NEW t \in Tasks, Advance(t)
        PROVE  NoMessageInv'
    BY <1>1, <1>3 DEF Advance, toolVars
  <1>4. ASSUME NEW g \in Gates, NEW t \in Tasks, NEW c \in Claims, NEW v \in VersionsOf(g),
               Resolve(c, g, t, v)
        PROVE  NoMessageInv'
    BY <1>4 DEF Resolve, Goto
  <1>5. ASSUME NEW g \in Gates, NEW t \in Tasks, NEW d \in Decisions, NEW a \in Staff,
               NEW q \in Claims \union {None}, NEW v \in VersionsOf(g),
               ApplyStep(g, t, v, d, a, q) \/ RepeatStep(g, t, v, d, a, q)
        PROVE  NoMessageInv'
    BY <1>1, <1>5 DEF ApplyStep, RepeatStep, toolVars
  <1>6. ASSUME NEW c \in Claims, ClaimStep(c) \/ FinishStep(c) \/ ReleaseStep(c)
        PROVE  NoMessageInv'
    BY <1>6 DEF ClaimStep, FinishStep, ReleaseStep, Goto
  <1>7. ASSUME NEW c \in Claims, MoveStep(c)
        PROVE  NoMessageInv'
    BY <1>7 DEF MoveStep, Goto, Refused, Retained
  <1>8. ASSUME NEW c \in Claims, Submit(c) \/ Accept(c) \/ Reject(c) \/ Misread(c)
        PROVE  NoMessageInv'
    BY <1>8 DEF Submit, Accept, Reject, Misread, Goto
  <1>9. CASE Crash
    BY <1>9 DEF Crash
  <1>10. CASE UNCHANGED vars
    BY <1>1, <1>10 DEF vars
  <1> QED BY <1>2, <1>3, <1>4, <1>5, <1>6, <1>7, <1>8, <1>9, <1>10, NextCases

\* In every reachable state the handlers at work hold the claim of the
\* current draft, and each submitted message belongs to its outbox row: what
\* claim_request and create_draft's check for a send in flight are for.
THEOREM ClaimsSound == Spec => []ClaimInv
  <1>1. Init => ClaimInv
    BY DEF Init, ClaimInv, HolderInv, MessageInv, NoMessageInv, Working
  <1>2. TypeOK /\ ClaimInv /\ [Next]_vars => ClaimInv'
    BY HolderStep, MessageStep, NoMessageStep DEF ClaimInv
  <1> QED BY <1>1, <1>2, TypeCorrect, PTL DEF Spec

\* For any number of calls, tasks and versions, and any timing of handlers,
\* crashes and DingTalk, two messages never ask about the same version.
THEOREM AtMostOnce == Spec => []AtMostOneMessage
  <1>1. ASSUME TypeOK, ClaimInv PROVE AtMostOneMessage
    BY <1>1 DEF AtMostOneMessage, ClaimInv, MessageInv, RowOf
  <1> QED BY <1>1, TypeCorrect, ClaimsSound, PTL

\* The claim and the draft of a delivered message are still there when its
\* handler finalizes: no conflict is ever reported.
THEOREM NoConflict == Spec => []NeverConflicts
  <1>1. Init => NeverConflicts
    BY DEF Init, NeverConflicts
  <1>2. ASSUME TypeOK, ClaimInv, NeverConflicts, [Next]_vars
        PROVE  NeverConflicts'
    <2> SUFFICES ASSUME NEW e \in Claims, pc'[e] = "conflict" PROVE FALSE
      BY DEF NeverConflicts
    <2>1. pc[e] # "conflict" /\ pc' # pc
      BY <1>2 DEF NeverConflicts
    <2>2. ASSUME NEW c \in Claims, HandlerStep(c)
          PROVE  FALSE
      <3>1. pc[c] \in {"undelivered", "delivered"} =>
              /\ OwnsClaim(job[c].task, job[c].gate, job[c].version, c)
              /\ CurrentDraft(job[c].task, job[c].gate, job[c].version)
        BY <1>2 DEF ClaimInv, HolderInv, Working
      <3>2. \E l \in PCs \ {"conflict"} : Goto(c, l)
        BY <2>2, <3>1 DEF HandlerStep, ClaimWon, ClaimLost, ComposeRaises, NotSent, Submit, Reject, Misread,
           ReportDelivered, ReportUnknown, Release, StoreRaises, Finalize, PCs, Running, Working,
           Retained, Settled, Refused
      <3> QED BY <1>2, <2>1, <3>2 DEF Goto, TypeOK
    <2>3. ASSUME NEW c \in Claims, NEW g, NEW t, NEW v, Resolve(c, g, t, v)
          PROVE  FALSE
      BY <1>2, <2>1, <2>3 DEF Resolve, Goto, TypeOK
    <2>4. ~ Crash
      BY <1>2, <2>1 DEF Crash, TypeOK
    <2>5. CASE Next
      BY <2>1, <2>2, <2>3, <2>4, <2>5 DEF Next, Draft, TechDesignDraft, Advance, Decide,
         TechDesignDecide, ResolveRequest, ResolveTechDesignRequest, Accept, toolVars
    <2> QED BY <1>2, <2>1, <2>5 DEF vars
  <1>3. TypeOK /\ ClaimInv /\ NeverConflicts /\ [Next]_vars => NeverConflicts'
    BY <1>2
  <1> QED BY <1>1, <1>3, TypeCorrect, ClaimsSound, PTL DEF Spec

----------------------------------------------------------------------------
(* Codes: what is stored is what the owner was sent.                       *)

\* A call in the chat keeps naming what it asked about, and the message of a
\* call that saw it delivered stays there.
LEMMA ChatStable ==
  ASSUME TypeOK, ClaimInv, [Next]_vars
  PROVE  \A c \in chat : /\ job'[c] = job[c]
                         /\ pc[c] = "finished" => c \in chat' /\ pc'[c] = "finished"
  <1>1. \A c \in chat : c \in Claims /\ pc[c] # "idle"
    BY DEF ClaimInv, NoMessageInv, TypeOK
  <1>2. CASE job' = job /\ chat \subseteq chat' /\ pc' = pc
    BY <1>2
  <1>3. ASSUME NEW g \in Gates, NEW t \in Tasks, NEW c \in Claims, NEW v \in VersionsOf(g),
               Resolve(c, g, t, v)
        PROVE  \A e \in chat : /\ job'[e] = job[e]
                               /\ pc[e] = "finished" => e \in chat' /\ pc'[e] = "finished"
    BY <1>1, <1>3 DEF Resolve, Goto, TypeOK
  <1>4. ASSUME NEW c \in Claims,
               \/ ClaimStep(c) \/ MoveStep(c) \/ FinishStep(c) \/ ReleaseStep(c)
               \/ Submit(c) \/ Accept(c) \/ Reject(c) \/ Misread(c)
        PROVE  \A e \in chat : /\ job'[e] = job[e]
                               /\ pc[e] = "finished" => e \in chat' /\ pc'[e] = "finished"
    <2>1. job' = job /\ (pc' = pc \/ (pc[c] # "finished" /\ \E l : Goto(c, l)))
      BY <1>4 DEF ClaimStep, MoveStep, FinishStep, ReleaseStep, Submit, Accept, Reject, Misread,
         Running, Working
    <2>2. chat \subseteq chat' \/ (pc[c] # "finished" /\ chat' = chat \ {c})
      BY <1>4 DEF ClaimStep, MoveStep, FinishStep, ReleaseStep, Submit, Accept, Reject, Misread
    <2> QED BY <1>1, <2>1, <2>2 DEF Goto, TypeOK
  <1>5. CASE Crash
    BY <1>1, <1>5 DEF Crash, Running, Working
  <1> QED BY <1>2, <1>3, <1>4, <1>5, NextCases DEF DraftStep, Advance, ApplyStep, RepeatStep,
             toolVars, vars

\* Every step keeps the stored codes true to the delivered messages.
LEMMA CodeStep ==
  ASSUME TypeOK, ClaimInv, CodeInv, [Next]_vars
  PROVE  CodeInv'
  <1> DEFINE Sound(t, g) ==
        /\ rec[t].code[g] # None =>
             /\ pc[rec[t].code[g]] = "finished"
             /\ rec[t].code[g] \in chat
             /\ job[rec[t].code[g]] = Question(g, t, rec[t].version[g])
        /\ rec[t].status = WaitingState(g) \/ rec[t].decision[g] # None => rec[t].code[g] # None
        /\ rec[t].status = DraftState("product") => rec[t].decision["product"] = None
        /\ rec[t].status \in TechStates \union {"PRODUCT_APPROVED"} =>
             rec[t].decision["product"] = "APPROVED"
  <1> SUFFICES ASSUME NEW u \in Tasks, NEW h \in Gates PROVE Sound(u, h)'
    BY DEF CodeInv
  <1>1. Sound(u, h) /\ (\A g \in Gates : Sound(u, g))
    BY DEF CodeInv
  <1>2. \A c \in chat : c \in Claims /\ pc[c] # "idle"
    BY DEF ClaimInv, NoMessageInv, TypeOK
  <1>0. \A c \in chat :
          /\ job'[c] = job[c]
          /\ pc[c] = "finished" => c \in chat' /\ pc'[c] = "finished"
    BY ChatStable
  <1>3. ASSUME rec'[u] = rec[u]
        PROVE  Sound(u, h)'
    <2>1. ASSUME rec[u].code[h] # None
          PROVE  /\ pc'[rec[u].code[h]] = "finished"
                 /\ rec[u].code[h] \in chat'
                 /\ job'[rec[u].code[h]] = Question(h, u, rec[u].version[h])
      <3>1. PICK c \in chat : /\ c = rec[u].code[h]
                              /\ pc[c] = "finished"
                              /\ job[c] = Question(h, u, rec[u].version[h])
        BY <1>1, <2>1
      <3>2. pc'[c] = "finished" /\ c \in chat' /\ job'[c] = job[c]
        BY <1>0, <3>1
      <3> QED BY <3>1, <3>2
    <2>2. Question(h, u, rec[u].version[h]) = Question(h, u, rec[u].version[h])'
      BY <1>3 DEF Question
    <2> QED BY <1>1, <1>3, <2>1, <2>2
  <1>4. CASE UNCHANGED vars
    BY <1>3, <1>4 DEF vars
  <1>5. ASSUME NEW g \in Gates, NEW t \in Tasks, NEW v \in VersionsOf(g), DraftStep(g, t, v)
        PROVE  Sound(u, h)'
    <2>1. job' = job /\ chat' = chat /\ pc' = pc
      BY <1>5 DEF DraftStep, toolVars
    <2>2. CASE u # t
      BY <1>3, <1>5, <2>1, <2>2, OtherRows DEF DraftStep, Redraft, TypeOK
    <2>3. CASE u = t
      <3>1. /\ rec'[u].status = DraftState(g)
            /\ rec'[u].code[g] = None /\ rec'[u].decision[g] = None
            /\ \A k \in Gates \ {g} : /\ rec'[u].version[k] = rec[u].version[k]
                                    /\ rec'[u].code[k] = rec[u].code[k]
                                    /\ rec'[u].decision[k] = rec[u].decision[k]
        BY <1>5, <2>3, RedraftFacts DEF DraftStep, TypeOK
      <3>2. g = "product" => rec'[u].status \notin TechStates \union {"PRODUCT_APPROVED"}
        BY <3>1 DEF DraftState, TechStates
      <3>3. g = "tech" => /\ rec'[u].status # DraftState("product")
                          /\ rec[u].status \in TechStates
        BY <1>5, <2>3, <3>1 DEF DraftState, RevisionState, TechStates, DraftStep
      <3>4. rec'[u].decision[h] # None => rec'[u].code[h] # None
        BY <1>1, <3>1
      <3>5. rec'[u].status # WaitingState(h)
        BY <3>1, DraftStates
      <3>6. rec'[u].code[h] # None =>
              /\ pc[rec'[u].code[h]] = "finished"
              /\ rec'[u].code[h] \in chat
              /\ job[rec'[u].code[h]] = Question(h, u, rec'[u].version[h])
        BY <1>1, <3>1
      <3>7. /\ rec'[u].status = DraftState("product") => rec'[u].decision["product"] = None
            /\ rec'[u].status \in TechStates \union {"PRODUCT_APPROVED"} =>
                 rec'[u].decision["product"] = "APPROVED"
        BY <1>1, <3>1, <3>2, <3>3
      <3> QED BY <2>1, <3>4, <3>5, <3>6, <3>7
    <2> QED BY <2>2, <2>3
  <1>6. ASSUME NEW t \in Tasks, Advance(t)
        PROVE  Sound(u, h)'
    <2>1. job' = job /\ chat' = chat /\ pc' = pc /\ rec[t].status = "PRODUCT_APPROVED"
      BY <1>6 DEF Advance, EnterTechDesign, toolVars
    <2>2. CASE u # t
      BY <1>3, <1>6, <2>1, <2>2, AdvanceFacts DEF TypeOK
    <2>3. CASE u = t
      <3>1. /\ rec'[u].status = "TECH_DESIGN"
            /\ rec'[u].version = rec[u].version /\ rec'[u].code = rec[u].code
            /\ rec'[u].decision = rec[u].decision
        BY <1>6, <2>3, AdvanceFacts DEF TypeOK
      <3>2. rec[u].decision["product"] = "APPROVED"
        BY <1>1, <2>1, <2>3
      <3> QED BY <1>1, <2>1, <3>1, <3>2 DEF DraftState, WaitingState
    <2> QED BY <2>2, <2>3
  <1>7. ASSUME NEW g \in Gates, NEW t \in Tasks, NEW c \in Claims, NEW v \in VersionsOf(g),
               Resolve(c, g, t, v)
        PROVE  Sound(u, h)'
    BY <1>2, <1>3, <1>7 DEF Resolve, TypeOK
  <1>8. ASSUME NEW g \in Gates, NEW t \in Tasks, NEW d \in Decisions, NEW a \in Staff,
               NEW q \in Claims \union {None}, NEW v \in VersionsOf(g), ApplyStep(g, t, v, d, a, q)
        PROVE  Sound(u, h)'
    <2>1. job' = job /\ chat' = chat /\ pc' = pc
      BY <1>8 DEF ApplyStep, toolVars
    <2>2. CASE u # t
      BY <1>3, <1>8, <2>1, <2>2, OtherRows DEF ApplyStep, Apply, TypeOK
    <2>3. CASE u = t
      <3>2. /\ rec'[u].status = OutcomeState(g, d)
            /\ rec'[u].version[g] = v /\ rec'[u].code[g] = rec[u].code[g]
            /\ rec'[u].decision[g] = d
            /\ \A k \in Gates \ {g} : /\ rec'[u].version[k] = rec[u].version[k]
                                    /\ rec'[u].code[k] = rec[u].code[k]
                                    /\ rec'[u].decision[k] = rec[u].decision[k]
        BY <1>8, <2>3, ApplyRow DEF ApplyStep, TypeOK
      <3>3. rec[u].version[g] = v /\ rec[u].code[g] # None /\ rec[u].status = WaitingState(g)
        BY <1>1, <1>8, <2>3 DEF ApplyStep, Apply, DecisionAdmitted
      <3>4. rec'[u].status # WaitingState(h) /\ rec'[u].status # DraftState("product")
        BY <3>2 DEF OutcomeState, ApprovedState, RevisionState, WaitingState, DraftState
      <3>5. rec'[u].status \in TechStates \union {"PRODUCT_APPROVED"} =>
              rec'[u].decision["product"] = "APPROVED"
        <4>1. CASE g = "product"
          BY <3>2, <4>1 DEF OutcomeState, ApprovedState, RevisionState, TechStates, Decisions
        <4>2. CASE g = "tech"
          BY <1>1, <3>2, <3>3, <4>2 DEF WaitingState, TechStates
        <4> QED BY <4>1, <4>2
      <3>6. /\ rec'[u].code[h] = rec[u].code[h] /\ rec'[u].version[h] = rec[u].version[h]
            /\ rec'[u].decision[h] # None => rec'[u].code[h] # None
        BY <1>1, <3>2, <3>3
      <3> QED BY <1>1, <2>1, <3>4, <3>5, <3>6
    <2> QED BY <2>2, <2>3
  <1>9. ASSUME NEW g \in Gates, NEW t \in Tasks, NEW d \in Decisions, NEW a \in Staff,
               NEW q \in Claims \union {None}, NEW v \in VersionsOf(g), RepeatStep(g, t, v, d, a, q)
        PROVE  Sound(u, h)'
    BY <1>3, <1>9 DEF RepeatStep, Repeat, toolVars
  <1>10. ASSUME NEW c \in Claims, ClaimStep(c) \/ ReleaseStep(c) \/ MoveStep(c)
         PROVE  Sound(u, h)'
    BY <1>3, <1>10 DEF ClaimStep, ReleaseStep, MoveStep, Acquire, FailRequest
  <1>11. ASSUME NEW c \in Claims, Submit(c) \/ Accept(c) \/ Reject(c) \/ Misread(c)
         PROVE  Sound(u, h)'
    BY <1>3, <1>11 DEF Submit, Accept, Reject, Misread
  <1>12. ASSUME NEW c \in Claims, FinishStep(c)
         PROVE  Sound(u, h)'
    <2> DEFINE t == job[c].task
               g == job[c].gate
               v == job[c].version
    <2>1. /\ t \in Tasks /\ g \in Gates /\ v \in VersionsOf(g) /\ job[c] = Question(g, t, v)
      BY <1>12, JobFacts DEF FinishStep
    <2>2. job' = job /\ chat' = chat /\ c \in chat /\ c # None
      BY <1>12, NoneAssumption DEF FinishStep, ClaimInv, NoMessageInv
    <2>5. /\ pc'[c] = "finished"
          /\ \A e \in chat : pc[e] = "finished" => pc'[e] = "finished"
      BY <1>0, <1>12 DEF FinishStep, Goto, TypeOK
    <2>3. CASE u # t
      BY <1>3, <1>12, <2>2, <2>3, OtherRows DEF FinishStep, Complete, TypeOK
    <2>4. CASE u = t
      <3>1. rec[t].decision[g] \in Decisions \union {None}
        BY <2>1 DEF TypeOK, StoreTypeOK, Row
      <3>2. /\ rec'[u].status = WaitingState(g)
            /\ rec'[u].version[g] = v /\ rec'[u].code[g] = c
            /\ rec'[u].decision[g] = rec[u].decision[g]
            /\ \A k \in Gates \ {g} : /\ rec'[u].version[k] = rec[u].version[k]
                                    /\ rec'[u].code[k] = rec[u].code[k]
                                    /\ rec'[u].decision[k] = rec[u].decision[k]
        BY <1>12, <2>1, <2>4, <3>1, CompleteFacts DEF FinishStep, TypeOK
      <3>3. rec[u].status = DraftState(g)
        BY <1>12, <2>4 DEF FinishStep, Complete, CurrentDraft
      <3>4. rec'[u].status = WaitingState(h) => h = g
        BY <2>1, <3>2, DraftStates
      <3>5. /\ rec'[u].status # DraftState("product")
            /\ rec'[u].status \in TechStates \union {"PRODUCT_APPROVED"} =>
                 rec'[u].decision["product"] = "APPROVED"
        <4>1. CASE g = "product"
          BY <3>2, <4>1 DEF WaitingState, DraftState, TechStates
        <4>2. CASE g = "tech"
          BY <1>1, <3>2, <3>3, <4>2 DEF WaitingState, DraftState, TechStates
        <4> QED BY <2>1, <4>1, <4>2
      <3>6. rec'[u].code[h] # None =>
              /\ pc'[rec'[u].code[h]] = "finished"
              /\ rec'[u].code[h] \in chat
              /\ job[rec'[u].code[h]] = Question(h, u, rec'[u].version[h])
        <4>1. CASE h = g
          BY <2>1, <2>2, <2>4, <2>5, <3>2, <4>1
        <4>2. CASE h # g
          <5>1. rec'[u].code[h] = rec[u].code[h] /\ rec'[u].version[h] = rec[u].version[h]
            BY <3>2, <4>2
          <5> QED BY <1>1, <2>5, <5>1
        <4> QED BY <4>1, <4>2
      <3>7. rec'[u].status = WaitingState(h) \/ rec'[u].decision[h] # None => rec'[u].code[h] # None
        BY <1>1, <2>2, <3>2, <3>4
      <3> QED BY <2>2, <3>5, <3>6, <3>7
    <2> QED BY <2>3, <2>4
  <1>13. CASE Crash
    BY <1>3, <1>13 DEF Crash
  <1> QED BY <1>4, <1>5, <1>6, <1>7, <1>8, <1>9, <1>10, <1>11, <1>12, <1>13, NextCases

\* Every stored code is the code of a message the owner has about the current
\* version, in every reachable state: what complete_request_delivery writes and
\* create_draft clears.
THEOREM CodesSound == Spec => []CodeInv
  <1>1. Init => CodeInv
    BY NoneAssumption DEF Init, StoreInit, NoRow, CodeInv, WaitingState, DraftState, TechStates
  <1>2. TypeOK /\ ClaimInv /\ CodeInv /\ [Next]_vars => CodeInv'
    BY CodeStep
  <1> QED BY <1>1, <1>2, TypeCorrect, ClaimsSound, PTL DEF Spec

\* A task that waits for the owner waits for the answer to a message the owner
\* has, about the version that would be approved.
THEOREM Answerable == Spec => []WaitingIsAnswerable
  <1>1. ASSUME CodeInv PROVE WaitingIsAnswerable
    BY <1>1 DEF CodeInv, WaitingIsAnswerable
  <1> QED BY <1>1, CodesSound, PTL

\* An operation that appends to the log appends an answer to a message: the
\* code gate admits no quoted code but the stored one.
LEMMA EntrySound ==
  ASSUME TypeOK, CodeInv, NEW g \in Gates, NEW t \in Tasks, NEW d \in Decisions,
         NEW a, NEW q, NEW v \in VersionsOf(g),
         ApplyStep(g, t, v, d, a, q) \/ RepeatStep(g, t, v, d, a, q)
  PROVE  q \in chat /\ job[q] = Question(g, t, v) /\ pc[q] = "finished"
  <1>1. DecisionAdmitted(t, g, v, a, q)
    BY DEF ApplyStep, Apply, RepeatStep
  <1>2. rec[t].code[g] # None /\ rec[t].status # DraftState(g)
    <2>1. CASE rec[t].status = WaitingState(g)
      BY <2>1 DEF CodeInv, DraftState, WaitingState
    <2>2. CASE RepeatStep(g, t, v, d, a, q) /\ g = "product"
      BY <2>2, NoneAssumption DEF RepeatStep, EffectiveDecision, CodeInv
    <2>3. CASE RepeatStep(g, t, v, d, a, q) /\ g = "tech"
      BY <2>3, NoneAssumption DEF RepeatStep, CodeInv, DraftState
    <2> QED BY <2>1, <2>2, <2>3 DEF ApplyStep, Apply
  <1> QED BY <1>1, <1>2 DEF DecisionAdmitted, CodeInv

\* No decision is ever accepted on a code the owner was not sent about that
\* very version, whoever replies and whatever is quoted.
THEOREM DecisionsSound == Spec => []DecisionsAnswerMessages
  <1> DEFINE Inv == DecisionsAnswerMessages /\ \A e \in log : pc[e.code] = "finished"
  <1>1. Init => Inv
    BY DEF Init, StoreInit, DecisionsAnswerMessages
  <1>2. ASSUME TypeOK, ClaimInv, CodeInv, Inv, [Next]_vars
        PROVE  Inv'
    <2>1. CASE log' = log
      BY <1>2, <2>1, ChatStable DEF DecisionsAnswerMessages, Asked, Question
    <2>2. ASSUME NEW g \in Gates, NEW t \in Tasks, NEW d \in Decisions, NEW a \in Staff,
                 NEW q \in Claims \union {None}, NEW v \in VersionsOf(g),
                 ApplyStep(g, t, v, d, a, q) \/ RepeatStep(g, t, v, d, a, q)
          PROVE  Inv'
      <3>1. q \in chat /\ job[q] = Question(g, t, v) /\ pc[q] = "finished"
        BY <1>2, <2>2, EntrySound
      <3>2. job' = job /\ chat' = chat /\ pc' = pc
        BY <2>2 DEF ApplyStep, RepeatStep, toolVars
      <3>3. PICK r \in {"APPLIED", "DUPLICATE"} : log' = log \union {Entry(t, g, v, d, q, r)}
        BY <2>2 DEF ApplyStep, RepeatStep, Apply, Repeat
      <3>4. Entry(t, g, v, d, q, r).code = q /\ Asked(Entry(t, g, v, d, q, r)) = Question(g, t, v)
        BY DEF Entry, Asked, Question
      <3> QED BY <1>2, <3>1, <3>2, <3>3, <3>4 DEF DecisionsAnswerMessages, Asked
    <2> HIDE DEF Inv
    <2> QED BY <1>2, <2>1, <2>2, NextCases DEF DraftStep, Redraft, Advance, EnterTechDesign,
               Resolve, ClaimStep, Acquire, MoveStep, FinishStep, Complete, ReleaseStep,
               FailRequest, Submit, Accept, Reject, Misread, Crash, vars
  <1>3. TypeOK /\ ClaimInv /\ CodeInv /\ Inv /\ [Next]_vars => Inv'
    BY <1>2
  <1>4. Inv => DecisionsAnswerMessages
    OBVIOUS
  <1> HIDE DEF Inv
  <1> QED BY <1>1, <1>3, <1>4, TypeCorrect, ClaimsSound, CodesSound, PTL DEF Spec

----------------------------------------------------------------------------
(* The promise kept: the store and its tools implement TwoGateApproval.    *)

\* The message of call c was submitted for the draft its task still has, and
\* the claim it was sent under is still open.
AtStake(c) ==
  /\ CurrentDraft(job[c].task, job[c].gate, job[c].version)
  /\ OwnsClaim(job[c].task, job[c].gate, job[c].version, c)

\* The task waits for an answer to the message of call c.
Awaited(c) ==
  /\ rec[job[c].task].status = WaitingState(job[c].gate)
  /\ rec[job[c].task].version[job[c].gate] = job[c].version

HasAnswer(q) == \E e \in Applied : Asked(e) = q

\* A message DingTalk has not judged, or that nobody answered yet, is about
\* the version its task stands at.
StakeInv ==
  /\ \A c \in wire : AtStake(c)
  /\ \A c \in chat : AtStake(c) \/ Awaited(c) \/ HasAnswer(job[c])

\* The outbox row of a version that waits, or was answered, stays DELIVERED,
\* and an answered version does not wait again.
SettledInv ==
  /\ \A t \in Tasks, g \in Gates : rec[t].status = WaitingState(g) =>
       req[t][Key(g, rec[t].version[g])].state = "DELIVERED"
  /\ \A e \in Applied :
       /\ req[e.task][Key(e.gate, e.version)].state = "DELIVERED"
       /\ rec[e.task].version[e.gate] = e.version => rec[e.task].status # WaitingState(e.gate)

\* Approval at a gate, as the log has it, is what the status says.
PassedInv ==
  /\ \A e \in Applied : e.decision = "APPROVED" =>
       IF e.gate = "product" THEN rec[e.task].status \in TechStates \union {"PRODUCT_APPROVED"}
                             ELSE rec[e.task].status = "TECH_DESIGN_APPROVED"
  /\ \A t \in Tasks : rec[t].status = "PRODUCT_APPROVED" =>
       \E e \in Applied : e.task = t /\ e.gate = "product" /\ e.decision = "APPROVED"

\* What the log, the outbox and the messages say of a task agrees with the
\* status of its row, however late a message is accepted.
\* (create_draft, claim_request, complete_request_delivery, apply_decision)
PromiseInv == StakeInv /\ SettledInv /\ PassedInv

\* An answer is never taken back, and only an applied decision adds one.
LEMMA AnswersKept ==
  ASSUME TypeOK, [Next]_vars
  PROVE  /\ Applied \subseteq Applied'
         /\ \A q : HasAnswer(q) => HasAnswer(q)'
         /\ \/ Applied' = Applied
            \/ \E g \in Gates, t \in Tasks, d \in Decisions, a \in Staff,
                  q \in Claims \union {None} : \E v \in VersionsOf(g) :
                 /\ ApplyStep(g, t, v, d, a, q)
                 /\ Applied' = Applied \union {Entry(t, g, v, d, q, "APPLIED")}
  <1> DEFINE One == \E g \in Gates, t \in Tasks, d \in Decisions, a \in Staff,
                       q \in Claims \union {None} : \E v \in VersionsOf(g) :
                      /\ ApplyStep(g, t, v, d, a, q)
                      /\ Applied' = Applied \union {Entry(t, g, v, d, q, "APPLIED")}
  <1>1. ASSUME NEW g \in Gates, NEW t \in Tasks, NEW d \in Decisions, NEW a \in Staff,
               NEW q \in Claims \union {None}, NEW v \in VersionsOf(g), ApplyStep(g, t, v, d, a, q)
        PROVE  One
    <2>1. log' = log \union {Entry(t, g, v, d, q, "APPLIED")}
      BY <1>1 DEF ApplyStep, Apply
    <2>2. Entry(t, g, v, d, q, "APPLIED").reason = "APPLIED"
      BY DEF Entry
    <2>3. Applied' = Applied \union {Entry(t, g, v, d, q, "APPLIED")}
      BY <2>1, <2>2 DEF Applied
    <2> QED BY <1>1, <2>3
  <1>2. ASSUME NEW g \in Gates, NEW t \in Tasks, NEW d \in Decisions, NEW a \in Staff,
               NEW q \in Claims \union {None}, NEW v \in VersionsOf(g), RepeatStep(g, t, v, d, a, q)
        PROVE  Applied' = Applied
    <2>1. log' = log \union {Entry(t, g, v, d, q, "DUPLICATE")}
      BY <1>2 DEF RepeatStep, Repeat
    <2>2. Entry(t, g, v, d, q, "DUPLICATE").reason = "DUPLICATE"
      BY DEF Entry
    <2> QED BY <2>1, <2>2 DEF Applied
  <1>3. ASSUME log' = log PROVE Applied' = Applied
    BY <1>3 DEF Applied
  <1>4. Applied' = Applied \/ One
    <2> HIDE DEF One
    <2>1. CASE UNCHANGED vars
      BY <1>3, <2>1 DEF vars
    <2>2. CASE Next
      BY <1>1, <1>2, <1>3, <2>2, NextCases DEF DraftStep, Redraft, Advance, EnterTechDesign,
         Resolve, ClaimStep, Acquire, MoveStep, FinishStep, Complete, ReleaseStep, FailRequest,
         Submit, Accept, Reject, Misread, Crash
    <2> QED BY <2>1, <2>2
  <1>5. Applied \subseteq Applied'
    BY <1>4
  <1>6. ASSUME NEW q, HasAnswer(q) PROVE HasAnswer(q)'
    BY <1>5, <1>6 DEF HasAnswer, Asked, Question
  <1> QED BY <1>4, <1>5, <1>6

\* Whoever's message is submitted has a call with a question of a task.
LEMMA SentFacts ==
  ASSUME TypeOK, ClaimInv, NEW c \in wire \union chat
  PROVE  /\ c \in Claims /\ pc[c] # "idle"
         /\ job[c].task \in Tasks /\ job[c].gate \in Gates
         /\ job[c].version \in VersionsOf(job[c].gate)
         /\ job[c].version # None
         /\ job[c] = Question(job[c].gate, job[c].task, job[c].version)
  <1>1. c \in Claims /\ pc[c] # "idle"
    BY DEF TypeOK, ClaimInv, NoMessageInv
  <1>2. None \notin Versions
    BY NoneAssumption
  <1> QED BY <1>1, <1>2, JobFacts DEF VersionsOf, Versions

\* Two calls with a claim on the current draft of one task are the same call.
LEMMA OneAtStake ==
  ASSUME NEW c, NEW e, job[c].gate \in Gates, job[e].gate \in Gates,
         job[c].task = job[e].task, AtStake(c), AtStake(e)
  PROVE  c = e
  <1>1. job[c].gate = job[e].gate
    BY DraftStates DEF AtStake, CurrentDraft
  <1>2. job[c].version = job[e].version
    BY <1>1 DEF AtStake, CurrentDraft
  <1> QED BY <1>1, <1>2 DEF AtStake, OwnsClaim

\* A handler at work has its message at stake.
LEMMA WorkingAtStake ==
  ASSUME TypeOK, ClaimInv, NEW c \in Claims, pc[c] \in Working
  PROVE  /\ AtStake(c)
         /\ job[c].task \in Tasks /\ job[c].gate \in Gates
         /\ job[c].version \in VersionsOf(job[c].gate)
         /\ job[c] = Question(job[c].gate, job[c].task, job[c].version)
  <1>1. pc[c] # "idle"
    BY DEF Working
  <1>2. AtStake(c)
    BY DEF ClaimInv, HolderInv, AtStake
  <1> QED BY <1>1, <1>2, JobFacts

\* Every step keeps the messages about the version their task stands at.
LEMMA StakeStep ==
  ASSUME TypeOK, ClaimInv, CodeInv, PromiseInv, [Next]_vars
  PROVE  StakeInv'
  <1> SUFFICES ASSUME NEW c \in wire' \union chat'
               PROVE  /\ c \in wire' => AtStake(c)'
                      /\ c \in chat' => AtStake(c)' \/ Awaited(c)' \/ HasAnswer(job[c])'
    BY DEF StakeInv
  <1> DEFINE u == job[c].task
             Sent == c \in wire \union chat
             Good == /\ c \in wire => AtStake(c)
                     /\ c \in chat => AtStake(c) \/ Awaited(c) \/ HasAnswer(job[c])
  <1>1. Good
    BY DEF PromiseInv, StakeInv
  <1>2. Sent => /\ c \in Claims /\ pc[c] # "idle" /\ u \in Tasks
                /\ job[c].gate \in Gates /\ job[c].version \in VersionsOf(job[c].gate)
                /\ job[c].version # None
                /\ job[c] = Question(job[c].gate, u, job[c].version)
    BY SentFacts
  <1>3. \A q : HasAnswer(q) => HasAnswer(q)'
    BY AnswersKept
  <1>4. ASSUME c \in wire' => c \in wire, c \in chat' => Sent, job'[c] = job[c],
               rec'[u] = rec[u], req'[u] = req[u]
        PROVE  Good'
    <2>1. AtStake(c) => AtStake(c)'
      BY <1>4 DEF AtStake, CurrentDraft, OwnsClaim
    <2>2. Awaited(c) => Awaited(c)'
      BY <1>4 DEF Awaited
    <2>3. HasAnswer(job[c]) => HasAnswer(job[c])'
      BY <1>3, <1>4 DEF HasAnswer
    <2> QED BY <1>1, <1>4, <2>1, <2>2, <2>3
  <1>5. CASE UNCHANGED vars
    BY <1>4, <1>5 DEF vars
  <1>6. ASSUME NEW g \in Gates, NEW t \in Tasks, NEW v \in VersionsOf(g), DraftStep(g, t, v)
        PROVE  Good'
    <2>1. job' = job /\ wire' = wire /\ chat' = chat /\ req' = req /\ Sent
      BY <1>6 DEF DraftStep, Redraft, toolVars
    <2>2. CASE u # t
      BY <1>2, <1>4, <1>6, <2>1, <2>2, OtherRows DEF DraftStep, Redraft, TypeOK
    <2>3. CASE u = t
      <3>1. ~ AtStake(c)
        BY <1>2, <1>6, <2>1, <2>3, DraftStates DEF DraftStep, SendInFlight, AtStake, OwnsClaim,
           CurrentDraft
      <3>2. ~ Awaited(c)
        BY <1>2, <1>6, <2>1, <2>3, DraftStates DEF DraftStep, Awaited, WaitingState
      <3>3. HasAnswer(job[c])' /\ c \notin wire'
        BY <1>1, <1>3, <2>1, <3>1, <3>2 DEF HasAnswer
      <3> QED BY <3>3
    <2> QED BY <2>2, <2>3
  <1>7. ASSUME NEW t \in Tasks, Advance(t)
        PROVE  Good'
    <2>1. job' = job /\ wire' = wire /\ chat' = chat /\ req' = req /\ Sent
      BY <1>7 DEF Advance, EnterTechDesign, toolVars
    <2>2. CASE u # t
      BY <1>2, <1>4, <1>7, <2>1, <2>2, AdvanceFacts DEF TypeOK
    <2>3. CASE u = t
      <3>1. rec[u].status = "PRODUCT_APPROVED"
        BY <1>7, <2>3 DEF Advance, EnterTechDesign
      <3>2. ~ AtStake(c) /\ ~ Awaited(c)
        BY <3>1 DEF AtStake, Awaited, CurrentDraft, DraftState, WaitingState
      <3>3. HasAnswer(job[c])' /\ c \notin wire'
        BY <1>1, <1>3, <2>1, <3>2 DEF HasAnswer
      <3> QED BY <3>3
    <2> QED BY <2>2, <2>3
  <1>8. ASSUME NEW g \in Gates, NEW t \in Tasks, NEW e \in Claims, NEW v \in VersionsOf(g),
               Resolve(e, g, t, v)
        PROVE  Good'
    <2>1. wire' = wire /\ chat' = chat /\ req' = req /\ rec' = rec /\ Sent
      BY <1>8 DEF Resolve
    <2>2. job'[c] = job[c]
      BY <1>2, <1>8, <2>1 DEF Resolve, TypeOK
    <2> QED BY <1>4, <2>1, <2>2
  <1>9. ASSUME NEW g \in Gates, NEW t \in Tasks, NEW d \in Decisions, NEW a \in Staff,
               NEW q \in Claims \union {None}, NEW v \in VersionsOf(g), ApplyStep(g, t, v, d, a, q)
        PROVE  Good'
    <2>1. job' = job /\ wire' = wire /\ chat' = chat /\ req' = req /\ Sent
      BY <1>9 DEF ApplyStep, Apply, toolVars
    <2>2. CASE u # t
      BY <1>2, <1>4, <1>9, <2>1, <2>2, OtherRows DEF ApplyStep, Apply, TypeOK
    <2>3. CASE u = t
      <3>1. rec[u].status = WaitingState(g) /\ rec[u].version[g] = v
        BY <1>9, <2>3 DEF ApplyStep, Apply, DecisionAdmitted
      <3>2. ~ AtStake(c)
        BY <1>2, <2>1, <3>1, DraftStates DEF AtStake, CurrentDraft
      <3>3. Awaited(c) => job[c] = Question(g, t, v)
        BY <1>2, <2>1, <2>3, <3>1, DraftStates DEF Awaited
      <3>4. HasAnswer(Question(g, t, v))'
        <4> DEFINE en == Entry(t, g, v, d, q, "APPLIED")
        <4>1. en \in Applied'
          BY <1>9 DEF ApplyStep, Apply, Applied, Entry
        <4>2. Asked(en) = Question(g, t, v)
          BY DEF Asked, Entry, Question
        <4> QED BY <4>1, <4>2 DEF HasAnswer, Asked, Question
      <3>5. Awaited(c) \/ HasAnswer(job[c])
        BY <1>1, <2>1, <3>2
      <3>6. HasAnswer(job[c])'
        BY <1>3, <2>1, <3>3, <3>4, <3>5 DEF HasAnswer
      <3> QED BY <1>1, <2>1, <3>2, <3>6
    <2> QED BY <2>2, <2>3
  <1>10. ASSUME NEW g \in Gates, NEW t \in Tasks, NEW d \in Decisions, NEW a \in Staff,
                NEW q \in Claims \union {None}, NEW v \in VersionsOf(g), RepeatStep(g, t, v, d, a, q)
         PROVE  Good'
    BY <1>4, <1>10 DEF RepeatStep, Repeat, toolVars
  <1>11. ASSUME NEW e \in Claims, ClaimStep(e)
         PROVE  Good'
    <2>1. job' = job /\ wire' = wire /\ chat' = chat /\ rec' = rec /\ Sent
      BY <1>11 DEF ClaimStep, Acquire
    <2>2. /\ job[e].task \in Tasks /\ job[e].gate \in Gates
          /\ job[e].version \in VersionsOf(job[e].gate)
      BY <1>11, JobFacts DEF ClaimStep
    <2>3. CASE u # job[e].task
      BY <1>2, <1>4, <1>11, <2>1, <2>2, <2>3, OtherRequests DEF ClaimStep, Acquire, TypeOK
    <2>4. CASE u = job[e].task
      <3>1. /\ rec[u].status = DraftState(job[e].gate)
            /\ rec[u].version[job[e].gate] = job[e].version
            /\ req[u][Key(job[e].gate, job[e].version)].state \in {"NONE", "FAILED"}
        BY <1>11, <2>4 DEF ClaimStep, Acquire, CurrentDraft
      <3>2. ~ AtStake(c)
        BY <1>2, <2>1, <2>2, <3>1, DraftStates DEF AtStake, CurrentDraft, OwnsClaim
      <3>3. Awaited(c) => Awaited(c)'
        BY <2>1 DEF Awaited
      <3>4. HasAnswer(job[c]) => HasAnswer(job[c])'
        BY <1>3, <2>1 DEF HasAnswer
      <3> QED BY <1>1, <2>1, <3>2, <3>3, <3>4
    <2> QED BY <2>3, <2>4
  <1>12. ASSUME NEW e \in Claims, FinishStep(e) \/ ReleaseStep(e)
         PROVE  Good'
    <2>1. job' = job /\ wire' = wire /\ chat' = chat /\ Sent
      BY <1>12 DEF FinishStep, ReleaseStep
    <2>2. pc[e] \in Working
      BY <1>12 DEF FinishStep, ReleaseStep, Working
    <2>3. /\ AtStake(e) /\ job[e].task \in Tasks /\ job[e].gate \in Gates
          /\ job[e].version \in VersionsOf(job[e].gate)
      BY <2>2, WorkingAtStake
    <2>4. CASE u # job[e].task
      <3>1. req'[u] = req[u]
        BY <1>2, <1>12, <2>1, <2>3, <2>4, OtherRequests
           DEF FinishStep, ReleaseStep, Complete, FailRequest, TypeOK
      <3>2. rec'[u] = rec[u]
        <4>1. CASE ReleaseStep(e)
          BY <4>1 DEF ReleaseStep, FailRequest
        <4>2. CASE FinishStep(e)
          BY <1>2, <2>1, <2>3, <2>4, <4>2, OtherRows DEF FinishStep, Complete, TypeOK
        <4> QED BY <1>12, <4>1, <4>2
      <3> QED BY <1>4, <2>1, <3>1, <3>2
    <2>5. CASE u = job[e].task
      <3>1. AtStake(c) => c = e
        BY <1>2, <2>1, <2>3, <2>5, OneAtStake
      <3>2. ~ Awaited(c)
        BY <1>2, <2>1, <2>3, <2>5, DraftStates DEF Awaited, AtStake, CurrentDraft
      <3>3. HasAnswer(job[c]) => HasAnswer(job[c])'
        BY <1>3, <2>1 DEF HasAnswer
      <3>4. c = e => FinishStep(e) /\ c \notin wire
        BY <1>12, <2>1 DEF FinishStep, ReleaseStep, ClaimInv, NoMessageInv
      <3>5. FinishStep(e) => Awaited(e)'
        <4> SUFFICES ASSUME FinishStep(e) PROVE Awaited(e)'
          OBVIOUS
        <4>1. rec[job[e].task].decision[job[e].gate] \in Decisions \union {None}
          BY <2>3 DEF TypeOK, StoreTypeOK, Row
        <4>2. StoreTypeOK
          BY DEF TypeOK
        <4>3. Complete(job[e].task, job[e].gate, job[e].version, e)
          BY DEF FinishStep
        <4>4. /\ rec'[job[e].task].status = WaitingState(job[e].gate)
              /\ rec'[job[e].task].version[job[e].gate] = job[e].version
          BY <2>3, <4>1, <4>2, <4>3, CompleteFacts
        <4> QED BY <2>1, <4>4 DEF Awaited
      <3> QED BY <1>1, <2>1, <3>1, <3>2, <3>3, <3>4, <3>5
    <2> QED BY <2>4, <2>5
  <1>13. ASSUME NEW e \in Claims, MoveStep(e) \/ Accept(e) \/ Reject(e) \/ Misread(e)
         PROVE  Good'
    <2>1. /\ job' = job /\ rec' = rec /\ req' = req
          /\ c \in wire' => c \in wire
          /\ c \in chat' => Sent
      BY <1>13 DEF MoveStep, Accept, Reject, Misread
    <2> QED BY <1>4, <2>1
  <1>14. ASSUME NEW e \in Claims, Submit(e)
         PROVE  Good'
    <2>1. /\ job' = job /\ rec' = rec /\ req' = req /\ chat' = chat
          /\ wire' = wire \union {e}
      BY <1>14 DEF Submit
    <2>2. CASE c # e \/ c \in wire
      BY <1>4, <2>1, <2>2
    <2>3. CASE c = e
      <3>1. AtStake(e)
        BY <1>14, WorkingAtStake DEF Submit, Working
      <3>2. AtStake(e)'
        BY <2>1, <3>1 DEF AtStake, CurrentDraft, OwnsClaim
      <3> QED BY <2>3, <3>2
    <2> QED BY <2>2, <2>3
  <1>15. CASE Crash
    BY <1>4, <1>15 DEF Crash
  <1> QED BY <1>5, <1>6, <1>7, <1>8, <1>9, <1>10, <1>11, <1>12, <1>13, <1>14, <1>15, NextCases

\* No step takes a delivered request back: claim_request refuses it, and only
\* the holder of an open claim settles one.
LEMMA DeliveredStays ==
  ASSUME TypeOK, [Next]_vars, NEW t \in Tasks, NEW k \in RequestKeys,
         req[t][k].state = "DELIVERED"
  PROVE  req'[t][k].state = "DELIVERED"
  <1>1. CASE req' = req
    BY <1>1
  <1>2. ASSUME NEW c \in Claims, ClaimStep(c) \/ FinishStep(c) \/ ReleaseStep(c)
        PROVE  req'[t][k].state = "DELIVERED"
    <2> DEFINE own == Key(job[c].gate, job[c].version)
    <2>1. /\ job[c].task \in Tasks /\ job[c].gate \in Gates
          /\ job[c].version \in VersionsOf(job[c].gate)
      BY <1>2, JobFacts DEF ClaimStep, FinishStep, ReleaseStep
    <2>2. req[job[c].task][own].state # "DELIVERED"
      BY <1>2 DEF ClaimStep, FinishStep, ReleaseStep, Acquire, Complete, FailRequest, OwnsClaim
    <2>3. t # job[c].task \/ k # own
      BY <2>2
    <2>4. PICK s \in {"CLAIMED", "FAILED", "DELIVERED"} :
            SetRequest(job[c].task, job[c].gate, job[c].version, s, c)
      BY <1>2 DEF ClaimStep, FinishStep, ReleaseStep, Acquire, Complete, FailRequest
    <2>5. StoreTypeOK
      BY DEF TypeOK
    <2>6. /\ req'[job[c].task][own] = [state |-> s, claim |-> c]
          /\ \A u \in Tasks, l \in RequestKeys :
               u # job[c].task \/ l # own => req'[u][l] = req[u][l]
      BY <2>1, <2>4, <2>5, SetRequestFacts
    <2> QED BY <2>3, <2>6
  <1> QED BY <1>1, <1>2, NextCases DEF DraftStep, Redraft, Advance, EnterTechDesign, Resolve,
             ApplyStep, Apply, RepeatStep, Repeat, MoveStep, Submit, Accept, Reject, Misread, Crash, vars

\* What an entry of the log names.
LEMMA AppliedType ==
  ASSUME TypeOK, ClaimInv, DecisionsAnswerMessages, NEW e \in Applied
  PROVE  /\ e.task \in Tasks /\ e.gate \in Gates /\ e.version \in VersionsOf(e.gate)
         /\ e.decision \in Decisions
         /\ Asked(e) \in {job[c] : c \in chat}
  <1>1. e.task \in Tasks /\ e.gate \in Gates /\ e.decision \in Decisions
    BY DEF TypeOK, StoreTypeOK, Applied, LogEntry
  <1>2. e.code \in chat /\ job[e.code] = Asked(e)
    BY DEF DecisionsAnswerMessages, Applied
  <1>3. job[e.code].version \in VersionsOf(job[e.code].gate)
    BY <1>2, SentFacts
  <1> QED BY <1>1, <1>2, <1>3 DEF Asked, Question

\* A decision that is applied moves its task on to the outcome of its gate.
LEMMA ApplyFacts ==
  ASSUME StoreTypeOK, NEW g \in Gates, NEW t \in Tasks, NEW d \in Decisions, NEW a, NEW q,
         NEW v \in VersionsOf(g), ApplyStep(g, t, v, d, a, q)
  PROVE  /\ rec[t].status = WaitingState(g) /\ rec[t].version[g] = v
         /\ rec'[t].status = OutcomeState(g, d)
         /\ \A u \in Tasks \ {t} : rec'[u] = rec[u]
  <1>1. rec[t].code[g] \in Claims \union {None}
    BY DEF StoreTypeOK, Row
  <1>2. SetRow(t, g, OutcomeState(g, d), v, rec[t].code[g], d)
    BY DEF ApplyStep, Apply
  <1>3. OutcomeState(g, d) \in ProductStates \union TechStates
    BY StatesType
  <1>4. d \in Decisions \union {None}
    OBVIOUS
  <1>5. /\ rec'[t].status = OutcomeState(g, d)
        /\ \A u \in Tasks \ {t} : rec'[u] = rec[u]
    BY <1>1, <1>2, <1>3, <1>4, SetRowFacts, SMTT(60)
  <1> QED BY <1>5 DEF ApplyStep, Apply, DecisionAdmitted

\* A task that waits has a version to wait for.
LEMMA WaitingFacts ==
  ASSUME TypeOK, ClaimInv, CodeInv, NEW t \in Tasks, NEW g \in Gates,
         rec[t].status = WaitingState(g)
  PROVE  rec[t].version[g] \in VersionsOf(g)
  <1>1. rec[t].code[g] \in chat /\ job[rec[t].code[g]] = Question(g, t, rec[t].version[g])
    BY DEF CodeInv
  <1>2. job[rec[t].code[g]].version # None
    BY <1>1, SentFacts
  <1>3. rec[t].version[g] # None
    BY <1>1, <1>2 DEF Question
  <1> QED BY <1>3 DEF TypeOK, StoreTypeOK

\* How a step may change the status of task t.
StatusMoves(t) ==
  \/ rec'[t] = rec[t]
  \/ \E g \in Gates :
       /\ rec[t].status \in {"ABSENT", DraftState(g), RevisionState(g)}
       /\ rec[t].status = "ABSENT" => g = "product"
       /\ rec'[t].status = DraftState(g)
  \/ /\ Advance(t)
     /\ rec[t].status = "PRODUCT_APPROVED"
     /\ rec'[t].status = "TECH_DESIGN"
  \/ \E g \in Gates, d \in Decisions :
       /\ rec[t].status = WaitingState(g)
       /\ rec'[t].status = OutcomeState(g, d)
       /\ \E e \in Applied' : e.task = t /\ e.gate = g /\ e.decision = d
  \/ \E c \in Claims :
       /\ FinishStep(c)
       /\ job[c].task = t
       /\ rec[t].status = DraftState(job[c].gate)
       /\ rec'[t].status = WaitingState(job[c].gate)
       /\ rec'[t].version[job[c].gate] = job[c].version

\* A row moves from a draft to waiting, to the outcome of the answer, and on.
LEMMA StatusCases ==
  ASSUME TypeOK, ClaimInv, [Next]_vars, NEW t \in Tasks
  PROVE  StatusMoves(t)
  <1>1. StoreTypeOK
    BY DEF TypeOK
  <1>2. ASSUME NEW g \in Gates, NEW u \in Tasks, NEW v \in VersionsOf(g), DraftStep(g, u, v)
        PROVE  StatusMoves(t)
    <2>1. CASE u # t
      BY <1>1, <1>2, <2>1, OtherRows DEF DraftStep, Redraft, StatusMoves
    <2>2. CASE u = t
      <3>1. rec'[t].status = DraftState(g)
        BY <1>1, <1>2, <2>2, RedraftFacts DEF DraftStep
      <3>2. /\ rec[t].status \in {"ABSENT", DraftState(g), RevisionState(g)}
            /\ rec[t].status = "ABSENT" => g = "product"
        BY <1>2, <2>2 DEF DraftStep
      <3> QED BY <3>1, <3>2 DEF StatusMoves
    <2> QED BY <2>1, <2>2
  <1>3. ASSUME NEW u \in Tasks, Advance(u)
        PROVE  StatusMoves(t)
    BY <1>1, <1>3, AdvanceFacts DEF Advance, EnterTechDesign, StatusMoves
  <1>4. ASSUME NEW g \in Gates, NEW u \in Tasks, NEW d \in Decisions, NEW a \in Staff,
               NEW q \in Claims \union {None}, NEW v \in VersionsOf(g), ApplyStep(g, u, v, d, a, q)
        PROVE  StatusMoves(t)
    <2>1. /\ rec[u].status = WaitingState(g)
          /\ rec'[u].status = OutcomeState(g, d)
          /\ \A w \in Tasks \ {u} : rec'[w] = rec[w]
      BY <1>1, <1>4, ApplyFacts
    <2>2. Entry(u, g, v, d, q, "APPLIED") \in Applied'
      BY <1>4 DEF ApplyStep, Apply, Applied, Entry
    <2>3. \E e \in Applied' : e.task = u /\ e.gate = g /\ e.decision = d
      BY <2>2 DEF Entry
    <2> QED BY <2>1, <2>3 DEF StatusMoves
  <1>5. ASSUME NEW c \in Claims, FinishStep(c)
        PROVE  StatusMoves(t)
    <2>1. /\ job[c].task \in Tasks /\ job[c].gate \in Gates
          /\ job[c].version \in VersionsOf(job[c].gate)
          /\ AtStake(c)
      BY <1>5, WorkingAtStake DEF FinishStep, Working
    <2>2. Complete(job[c].task, job[c].gate, job[c].version, c)
      BY <1>5 DEF FinishStep
    <2>3. CASE job[c].task # t
      BY <1>1, <2>2, <2>3, OtherRows DEF Complete, StatusMoves
    <2>4. CASE job[c].task = t
      <3>1. rec[t].decision[job[c].gate] \in Decisions \union {None}
        BY <2>1, <2>4 DEF TypeOK, StoreTypeOK, Row
      <3>2. /\ rec'[t].status = WaitingState(job[c].gate)
            /\ rec'[t].version[job[c].gate] = job[c].version
        BY <1>1, <2>1, <2>2, <2>4, <3>1, CompleteFacts
      <3>3. rec[t].status = DraftState(job[c].gate)
        BY <2>1, <2>4 DEF AtStake, CurrentDraft
      <3> QED BY <1>5, <2>4, <3>2, <3>3 DEF StatusMoves
    <2> QED BY <2>3, <2>4
  <1>6. ASSUME rec' = rec PROVE StatusMoves(t)
    BY <1>6 DEF StatusMoves
  <1>7. ASSUME UNCHANGED vars PROVE StatusMoves(t)
    BY <1>6, <1>7 DEF vars
  <1>8. ASSUME NEW c \in Claims,
               \/ ClaimStep(c) \/ MoveStep(c) \/ ReleaseStep(c)
               \/ Submit(c) \/ Accept(c) \/ Reject(c) \/ Misread(c)
        PROVE  StatusMoves(t)
    <2>1. rec' = rec
      BY <1>8 DEF ClaimStep, Acquire, MoveStep, ReleaseStep, FailRequest, Submit, Accept, Reject, Misread
    <2> QED BY <1>6, <2>1
  <1>9. ASSUME NEW g, NEW u, NEW v, NEW c, Resolve(c, g, u, v)
        PROVE  StatusMoves(t)
    BY <1>6, <1>9 DEF Resolve
  <1>10. ASSUME NEW g, NEW u, NEW v, NEW d, NEW a, NEW q, RepeatStep(g, u, v, d, a, q)
         PROVE  StatusMoves(t)
    BY <1>6, <1>10 DEF RepeatStep, Repeat
  <1>11. ASSUME Crash PROVE StatusMoves(t)
    BY <1>6, <1>11 DEF Crash
  <1>12. ASSUME Next PROVE StatusMoves(t)
    BY <1>2, <1>3, <1>4, <1>5, <1>8, <1>9, <1>10, <1>11, <1>12, NextCases
  <1> QED BY <1>7, <1>12

\* Only a finalized delivery makes a task wait.
LEMMA OnlyFinishWaits ==
  ASSUME TypeOK, ClaimInv, [Next]_vars, NEW t \in Tasks, NEW g \in Gates,
         rec'[t].status = WaitingState(g), rec'[t] # rec[t]
  PROVE  \E c \in Claims : /\ FinishStep(c)
                          /\ job[c].task = t /\ job[c].gate = g
                          /\ rec'[t].version[g] = job[c].version
  <1>1. StatusMoves(t)
    BY StatusCases
  <1>2. ASSUME NEW h \in Gates, rec'[t].status = DraftState(h)
        PROVE  FALSE
    BY <1>2, DraftStates
  <1>3. rec'[t].status # "TECH_DESIGN"
    BY DEF WaitingState
  <1>4. ASSUME NEW h \in Gates, NEW d \in Decisions, rec'[t].status = OutcomeState(h, d)
        PROVE  FALSE
    BY <1>4 DEF OutcomeState, ApprovedState, RevisionState, WaitingState
  <1>5. PICK c \in Claims : /\ FinishStep(c)
                           /\ job[c].task = t
                           /\ rec'[t].status = WaitingState(job[c].gate)
                           /\ rec'[t].version[job[c].gate] = job[c].version
    BY <1>1, <1>2, <1>3, <1>4 DEF StatusMoves
  <1>6. job[c].gate \in Gates
    BY <1>5, WorkingAtStake DEF FinishStep, Working
  <1>7. job[c].gate = g
    BY <1>5, <1>6, DraftStates
  <1> QED BY <1>5, <1>7

\* Every step keeps what the outbox says of the answered versions.
LEMMA SettledStep ==
  ASSUME TypeOK, ClaimInv, CodeInv, DecisionsAnswerMessages, PromiseInv, [Next]_vars
  PROVE  SettledInv'
  <1>1. ASSUME NEW c \in Claims, FinishStep(c)
        PROVE  /\ job[c].task \in Tasks /\ job[c].gate \in Gates
               /\ job[c].version \in VersionsOf(job[c].gate)
               /\ req[job[c].task][Key(job[c].gate, job[c].version)].state = "CLAIMED"
               /\ req'[job[c].task][Key(job[c].gate, job[c].version)].state = "DELIVERED"
    <2>1. /\ job[c].task \in Tasks /\ job[c].gate \in Gates
          /\ job[c].version \in VersionsOf(job[c].gate)
          /\ AtStake(c)
      BY <1>1, WorkingAtStake DEF FinishStep, Working
    <2>2. SetRequest(job[c].task, job[c].gate, job[c].version, "DELIVERED", c)
      BY <1>1 DEF FinishStep, Complete
    <2>3. StoreTypeOK
      BY DEF TypeOK
    <2>4. req'[job[c].task][Key(job[c].gate, job[c].version)] = [state |-> "DELIVERED", claim |-> c]
      BY <2>1, <2>2, <2>3, SetRequestFacts
    <2> QED BY <2>1, <2>4 DEF AtStake, OwnsClaim
  <1>2. ASSUME NEW t \in Tasks, NEW g \in Gates, rec'[t].status = WaitingState(g)
        PROVE  req'[t][Key(g, rec'[t].version[g])].state = "DELIVERED"
    <2>1. CASE rec'[t] = rec[t]
      <3>1. req[t][Key(g, rec[t].version[g])].state = "DELIVERED"
        BY <1>2, <2>1 DEF PromiseInv, SettledInv
      <3>2. rec[t].version[g] \in VersionsOf(g)
        BY <1>2, <2>1, WaitingFacts
      <3>3. Key(g, rec[t].version[g]) \in RequestKeys
        BY <3>2, KeyType
      <3> QED BY <2>1, <3>1, <3>3, DeliveredStays
    <2>2. CASE rec'[t] # rec[t]
      <3>1. PICK c \in Claims : /\ FinishStep(c)
                               /\ job[c].task = t /\ job[c].gate = g
                               /\ rec'[t].version[g] = job[c].version
        BY <1>2, <2>2, OnlyFinishWaits
      <3> QED BY <1>1, <3>1
    <2> QED BY <2>1, <2>2
  <1>3. ASSUME NEW e \in Applied'
        PROVE  /\ req'[e.task][Key(e.gate, e.version)].state = "DELIVERED"
               /\ rec'[e.task].version[e.gate] = e.version =>
                    rec'[e.task].status # WaitingState(e.gate)
    <2>1. CASE e \in Applied
      <3>1. /\ e.task \in Tasks /\ e.gate \in Gates /\ e.version \in VersionsOf(e.gate)
            /\ req[e.task][Key(e.gate, e.version)].state = "DELIVERED"
            /\ rec[e.task].version[e.gate] = e.version =>
                 rec[e.task].status # WaitingState(e.gate)
        BY <2>1, AppliedType DEF PromiseInv, SettledInv
      <3>2. req'[e.task][Key(e.gate, e.version)].state = "DELIVERED"
        BY <3>1, KeyType, DeliveredStays
      <3>3. ASSUME rec'[e.task].version[e.gate] = e.version,
                   rec'[e.task].status = WaitingState(e.gate)
            PROVE  FALSE
        <4>1. rec'[e.task] # rec[e.task]
          BY <3>1, <3>3
        <4>2. PICK c \in Claims : /\ FinishStep(c)
                                 /\ job[c].task = e.task /\ job[c].gate = e.gate
                                 /\ rec'[e.task].version[e.gate] = job[c].version
          BY <3>1, <3>3, <4>1, OnlyFinishWaits
        <4> QED BY <1>1, <3>1, <3>3, <4>2
      <3> QED BY <3>2, <3>3
    <2>2. ASSUME NEW g \in Gates, NEW t \in Tasks, NEW d \in Decisions, NEW a \in Staff,
                 NEW q \in Claims \union {None}, NEW v \in VersionsOf(g),
                 ApplyStep(g, t, v, d, a, q), e = Entry(t, g, v, d, q, "APPLIED")
          PROVE  /\ req'[e.task][Key(e.gate, e.version)].state = "DELIVERED"
                 /\ rec'[e.task].status # WaitingState(e.gate)
      <3>1. e.task = t /\ e.gate = g /\ e.version = v
        BY <2>2 DEF Entry
      <3>2. /\ rec[t].status = WaitingState(g) /\ rec[t].version[g] = v
            /\ rec'[t].status = OutcomeState(g, d)
        BY <2>2, ApplyFacts DEF TypeOK
      <3>3. req[t][Key(g, v)].state = "DELIVERED"
        BY <3>2 DEF PromiseInv, SettledInv
      <3>4. req' = req
        BY <2>2 DEF ApplyStep, Apply
      <3>5. OutcomeState(g, d) # WaitingState(g)
        BY DEF OutcomeState, ApprovedState, RevisionState, WaitingState
      <3> QED BY <3>1, <3>2, <3>3, <3>4, <3>5
    <2> QED BY <2>1, <2>2, AnswersKept
  <1> QED BY <1>2, <1>3 DEF SettledInv

\* What the log says of a passed gate.
LEMMA PassedFacts ==
  ASSUME PassedInv, NEW e \in Applied, e.decision = "APPROVED"
  PROVE  /\ e.gate = "product" => rec[e.task].status \in TechStates \union {"PRODUCT_APPROVED"}
         /\ e.gate = "tech" => rec[e.task].status = "TECH_DESIGN_APPROVED"
  BY DEF PassedInv

\* Every step keeps the status where the log has it.
LEMMA PassedStep ==
  ASSUME TypeOK, ClaimInv, CodeInv, DecisionsAnswerMessages, PromiseInv, [Next]_vars
  PROVE  PassedInv'
  <1>1. PassedInv
    BY DEF PromiseInv
  <1>2. ASSUME NEW t \in Tasks, rec[t].status \in TechStates \union {"PRODUCT_APPROVED"}
        PROVE  /\ rec'[t].status \in TechStates \union {"PRODUCT_APPROVED"}
               /\ rec[t].status = "TECH_DESIGN_APPROVED" => rec'[t].status = "TECH_DESIGN_APPROVED"
    <2> DEFINE Goal == /\ rec'[t].status \in TechStates \union {"PRODUCT_APPROVED"}
                       /\ rec[t].status = "TECH_DESIGN_APPROVED" =>
                            rec'[t].status = "TECH_DESIGN_APPROVED"
    <2>1. StatusMoves(t)
      BY StatusCases
    <2>2. CASE rec'[t] = rec[t]
      BY <1>2, <2>2
    <2>3. ASSUME NEW g \in Gates,
                 rec[t].status \in {"ABSENT", DraftState(g), RevisionState(g)},
                 rec'[t].status = DraftState(g)
          PROVE  Goal
      BY <1>2, <2>3 DEF DraftState, RevisionState, TechStates
    <2>4. CASE rec[t].status = "PRODUCT_APPROVED" /\ rec'[t].status = "TECH_DESIGN"
      BY <2>4 DEF TechStates
    <2>5. ASSUME NEW g \in Gates, NEW d \in Decisions, rec[t].status = WaitingState(g),
                 rec'[t].status = OutcomeState(g, d)
          PROVE  Goal
      BY <1>2, <2>5 DEF WaitingState, OutcomeState, ApprovedState, RevisionState, TechStates
    <2>6. ASSUME NEW g \in Gates, rec[t].status = DraftState(g), rec'[t].status = WaitingState(g)
          PROVE  Goal
      BY <1>2, <2>6 DEF WaitingState, DraftState, TechStates
    <2>7. ASSUME NEW c \in Claims, FinishStep(c), rec[t].status = DraftState(job[c].gate),
                 rec'[t].status = WaitingState(job[c].gate)
          PROVE  Goal
      <3>1. job[c].gate \in Gates
        BY <2>7, WorkingAtStake DEF FinishStep, Working
      <3> QED BY <2>6, <2>7, <3>1
    <2> QED BY <2>1, <2>2, <2>3, <2>4, <2>5, <2>7 DEF StatusMoves
  <1>3. ASSUME NEW e \in Applied', e.decision = "APPROVED"
        PROVE  IF e.gate = "product"
               THEN rec'[e.task].status \in TechStates \union {"PRODUCT_APPROVED"}
               ELSE rec'[e.task].status = "TECH_DESIGN_APPROVED"
    <2>1. CASE e \in Applied
      <3>1. e.task \in Tasks /\ e.gate \in Gates
        BY <2>1, AppliedType
      <3>2. /\ e.gate = "product" => rec[e.task].status \in TechStates \union {"PRODUCT_APPROVED"}
            /\ e.gate = "tech" => rec[e.task].status = "TECH_DESIGN_APPROVED"
        BY <1>1, <1>3, <2>1, PassedFacts
      <3>3. "TECH_DESIGN_APPROVED" \in TechStates
        BY DEF TechStates
      <3>4. /\ e.gate = "product" =>
                 rec'[e.task].status \in TechStates \union {"PRODUCT_APPROVED"}
            /\ e.gate = "tech" => rec'[e.task].status = "TECH_DESIGN_APPROVED"
        BY <1>2, <3>1, <3>2, <3>3
      <3> QED BY <3>1, <3>4
    <2>2. ASSUME NEW g \in Gates, NEW t \in Tasks, NEW d \in Decisions, NEW a \in Staff,
                 NEW q \in Claims \union {None}, NEW v \in VersionsOf(g),
                 ApplyStep(g, t, v, d, a, q), e = Entry(t, g, v, d, q, "APPLIED")
          PROVE  IF e.gate = "product"
                 THEN rec'[e.task].status \in TechStates \union {"PRODUCT_APPROVED"}
                 ELSE rec'[e.task].status = "TECH_DESIGN_APPROVED"
      <3>1. e.task = t /\ e.gate = g /\ d = "APPROVED"
        BY <1>3, <2>2 DEF Entry
      <3>2. rec'[t].status = OutcomeState(g, d)
        BY <2>2, ApplyFacts DEF TypeOK
      <3> QED BY <3>1, <3>2 DEF OutcomeState, ApprovedState
    <2> QED BY <2>1, <2>2, AnswersKept
  <1>4. ASSUME NEW t \in Tasks, rec'[t].status = "PRODUCT_APPROVED"
        PROVE  \E e \in Applied' : e.task = t /\ e.gate = "product" /\ e.decision = "APPROVED"
    <2>1. StatusMoves(t)
      BY StatusCases
    <2>2. CASE rec'[t] = rec[t]
      BY <1>1, <1>4, <2>2, AnswersKept DEF PassedInv
    <2>3. ASSUME NEW g \in Gates, rec'[t].status = DraftState(g)
          PROVE  FALSE
      BY <1>4, <2>3, DraftStates
    <2>4. ASSUME NEW g \in Gates, NEW d \in Decisions, rec'[t].status = OutcomeState(g, d)
          PROVE  g = "product" /\ d = "APPROVED"
      BY <1>4, <2>4 DEF OutcomeState, ApprovedState, RevisionState
    <2>5. \A g : WaitingState(g) # "PRODUCT_APPROVED"
      BY DEF WaitingState
    <2> QED BY <1>4, <2>1, <2>2, <2>3, <2>4, <2>5 DEF StatusMoves
  <1> QED BY <1>3, <1>4 DEF PassedInv

\* In every reachable state the log, the outbox, the messages and the status
\* of each task tell one story: a message that is not answered is about the
\* version its task stands at, and a gate is passed exactly when its approval
\* was recorded.
THEOREM RecordsAgree == Spec => []PromiseInv
  <1>1. Init => PromiseInv
    BY DEF Init, StoreInit, NoRow, PromiseInv, StakeInv, SettledInv, PassedInv, Applied, WaitingState
  <1>2. TypeOK /\ ClaimInv /\ CodeInv /\ DecisionsAnswerMessages /\ PromiseInv /\ [Next]_vars
          => PromiseInv'
    BY StakeStep, SettledStep, PassedStep DEF PromiseInv
  <1> QED BY <1>1, <1>2, TypeCorrect, ClaimsSound, CodesSound, DecisionsSound, PTL DEF Spec

\* The gate a task stands at, as TwoGateApproval sees it.
Stage(t) == IF rec[t].status \in TechStates THEN "tech" ELSE "product"

\* The questions of TwoGateApproval are those about a version of a gate.
LEMMA QuestionType ==
  ASSUME NEW g \in Gates, NEW t \in Tasks, NEW v \in VersionsOf(g)
  PROVE  Question(g, t, v) \in Promise!Question
  BY DEF Question, VersionsOf, Promise!Question

\* Its answered questions are those with an applied entry in the log.
LEMMA AnsweredMeans ==
  ASSUME TypeOK, NEW q
  PROVE  Promise!Answered(q) <=> HasAnswer(q)
  <1>1. ASSUME HasAnswer(q) PROVE Promise!Answered(q)
    <2>1. PICK e \in Applied : Asked(e) = q
      BY <1>1 DEF HasAnswer
    <2>2. e.decision \in Promise!Decisions
      BY DEF TypeOK, StoreTypeOK, Applied, LogEntry, Decisions, Promise!Decisions
    <2> QED BY <2>1, <2>2 DEF Promise!Answered
  <1>2. ASSUME Promise!Answered(q) PROVE HasAnswer(q)
    BY <1>2 DEF HasAnswer, Promise!Answered
  <1> QED BY <1>1, <1>2

\* Its passed gates are those with an applied approval in the log.
LEMMA PassedMeans ==
  ASSUME TypeOK, ClaimInv, DecisionsAnswerMessages, NEW g, NEW t
  PROVE  Promise!Passed(g, t) <=>
           \E e \in Applied : e.gate = g /\ e.task = t /\ e.decision = "APPROVED"
  <1>1. ASSUME NEW e \in Applied, e.gate = g, e.task = t, e.decision = "APPROVED"
        PROVE  Promise!Passed(g, t)
    <2>1. Asked(e) \in Promise!Question
      BY AppliedType, QuestionType DEF Asked
    <2>2. Asked(e).gate = g /\ Asked(e).task = t
      BY <1>1 DEF Asked, Question
    <2> QED BY <1>1, <2>1, <2>2 DEF Promise!Passed
  <1>2. ASSUME Promise!Passed(g, t)
        PROVE  \E e \in Applied : e.gate = g /\ e.task = t /\ e.decision = "APPROVED"
    <2>1. PICK q \in Promise!Question : /\ q.gate = g /\ q.task = t
                                       /\ \E e \in Applied : <<q, "APPROVED">> = <<Asked(e), e.decision>>
      BY <1>2 DEF Promise!Passed
    <2>2. PICK e \in Applied : q = Asked(e) /\ e.decision = "APPROVED"
      BY <2>1
    <2> QED BY <2>1, <2>2 DEF Asked, Question
  <1> QED BY <1>1, <1>2

\* A task whose row is a draft or waits at a gate stands there and has not
\* passed it.
LEMMA StandsAt ==
  ASSUME TypeOK, ClaimInv, DecisionsAnswerMessages, PromiseInv, NEW t \in Tasks, NEW g \in Gates,
         rec[t].status \in {DraftState(g), WaitingState(g)}
  PROVE  Stage(t) = g /\ ~ Promise!Passed(g, t)
  <1>1. Stage(t) = g
    BY DEF Stage, DraftState, WaitingState, TechStates
  <1>2. ASSUME NEW e \in Applied, e.gate = g, e.task = t, e.decision = "APPROVED"
        PROVE  FALSE
    <2>1. /\ e.gate = "product" => rec[e.task].status \in TechStates \union {"PRODUCT_APPROVED"}
          /\ e.gate = "tech" => rec[e.task].status = "TECH_DESIGN_APPROVED"
      BY <1>2, PassedFacts DEF PromiseInv
    <2> QED BY <1>2, <2>1 DEF DraftState, WaitingState, TechStates
  <1> QED BY <1>1, <1>2, PassedMeans

\* When DingTalk takes a message its task stands at that gate, has not passed
\* it, was not asked this before and has no other question open.
LEMMA AcceptAsks ==
  ASSUME TypeOK, ClaimInv, DecisionsAnswerMessages, PromiseInv, NEW c \in Claims, Accept(c)
  PROVE  \E k \in Promise!Question : k = job[c] /\ Promise!Ask(k)
  <1>1. /\ c \in wire /\ chat' = chat \union {c} /\ job' = job /\ rec' = rec /\ log' = log
    BY DEF Accept
  <1>2. /\ job[c].task \in Tasks /\ job[c].gate \in Gates
        /\ job[c] \in Promise!Question
    BY <1>1, SentFacts, QuestionType
  <1>3. AtStake(c)
    BY <1>1 DEF PromiseInv, StakeInv
  <1>4. ASSUME NEW e \in chat, job[e].task = job[c].task
        PROVE  job[e] # job[c] /\ HasAnswer(job[e])
    <2>1. job[e].gate \in Gates /\ e # c
      BY <1>1, SentFacts DEF ClaimInv, NoMessageInv
    <2>2. ~ AtStake(e)
      BY <1>2, <1>3, <1>4, <2>1, OneAtStake
    <2>3. ~ Awaited(e)
      BY <1>2, <1>3, <1>4, <2>1, DraftStates DEF Awaited, AtStake, CurrentDraft
    <2>4. HasAnswer(job[e])
      BY <2>2, <2>3 DEF PromiseInv, StakeInv
    <2>5. RowOf(e).claim = e /\ RowOf(c).claim = c
      BY <1>1 DEF ClaimInv, MessageInv
    <2>6. job[e] # job[c]
      BY <2>1, <2>5 DEF RowOf
    <2> QED BY <2>4, <2>6
  <1>5. job[c] \notin {job[e] : e \in chat}
    BY <1>4
  <1>6. Promise!OpenQuestions(job[c].task) = {}
    BY <1>4, AnsweredMeans DEF Promise!OpenQuestions
  <1>7. Stage(job[c].task) = job[c].gate /\ ~ Promise!Passed(job[c].gate, job[c].task)
    BY <1>2, <1>3, StandsAt DEF AtStake, CurrentDraft
  <1>8. {job'[e] : e \in chat'} = {job[e] : e \in chat} \union {job[c]}
    BY <1>1
  <1>9. Applied' = Applied
    BY <1>1 DEF Applied
  <1>10. PICK k \in Promise!Question : k = job[c]
    BY <1>2
  <1>11. Promise!Ask(k)
    BY <1>1, <1>2, <1>5, <1>6, <1>7, <1>8, <1>9, <1>10 DEF Promise!Ask, Stage
  <1> QED BY <1>10, <1>11

\* An applied decision answers the open question of its task.
LEMMA ApplyAnswers ==
  ASSUME TypeOK, ClaimInv, CodeInv, DecisionsAnswerMessages, PromiseInv,
         NEW g \in Gates, NEW t \in Tasks, NEW d \in Decisions, NEW a \in Staff,
         NEW q \in Claims \union {None}, NEW v \in VersionsOf(g), ApplyStep(g, t, v, d, a, q)
  PROVE  Promise!Answer(Question(g, t, v), d)
  <1> DEFINE en == Entry(t, g, v, d, q, "APPLIED")
  <1>1. q \in chat /\ job[q] = Question(g, t, v)
    BY EntrySound
  <1>2. /\ rec[t].status = WaitingState(g) /\ rec[t].version[g] = v
        /\ rec'[t].status = OutcomeState(g, d)
        /\ \A u \in Tasks \ {t} : rec'[u] = rec[u]
    BY ApplyFacts DEF TypeOK
  <1>3. ~ HasAnswer(Question(g, t, v))
    BY <1>2 DEF HasAnswer, Asked, Question, PromiseInv, SettledInv
  <1>4. Question(g, t, v) \in Promise!OpenQuestions(t)
    BY <1>1, <1>3, AnsweredMeans DEF Promise!OpenQuestions, Question
  <1>5. Stage(t) = g /\ ~ Promise!Passed(g, t)
    BY <1>2, StandsAt
  <1>6. {<<Asked(e), e.decision>> : e \in Applied}' =
          {<<Asked(e), e.decision>> : e \in Applied} \union {<<Question(g, t, v), d>>}
    <2>1. Applied' = Applied \union {en}
      BY DEF ApplyStep, Apply, Applied, Entry
    <2>2. Asked(en) = Question(g, t, v) /\ en.decision = d
      BY DEF Entry, Asked, Question
    <2>3. \A e : Asked(e)' = Asked(e)
      BY DEF Asked, Question
    <2> QED BY <2>1, <2>2, <2>3
  <1>7. \A u \in Tasks : Stage(u)' = Stage(u)
    <2>1. OutcomeState(g, d) \in TechStates <=> WaitingState(g) \in TechStates
      BY DEF OutcomeState, ApprovedState, RevisionState, WaitingState, TechStates
    <2> QED BY <1>2, <2>1 DEF Stage
  <1>8. job' = job /\ chat' = chat
    BY DEF ApplyStep, toolVars
  <1>9. Question(g, t, v).task = t /\ Question(g, t, v).gate = g
    BY DEF Question
  <1> QED BY <1>4, <1>5, <1>6, <1>7, <1>8, <1>9 DEF Promise!Answer, Stage

\* Entering technical design advances a task that passed the product gate.
LEMMA AdvanceAdvances ==
  ASSUME TypeOK, ClaimInv, DecisionsAnswerMessages, PromiseInv, NEW t \in Tasks, Advance(t)
  PROVE  Promise!Advance(t)
  <1>1. /\ rec[t].status = "PRODUCT_APPROVED" /\ log' = log /\ job' = job /\ chat' = chat
    BY DEF Advance, EnterTechDesign, toolVars
  <1>2. rec'[t].status = "TECH_DESIGN" /\ \A u \in Tasks \ {t} : rec'[u] = rec[u]
    BY AdvanceFacts DEF TypeOK
  <1>3. Promise!Passed("product", t)
    BY <1>1, PassedMeans DEF PromiseInv, PassedInv
  <1>4. Stage(t) = "product" /\ Stage(t)' = "tech" /\ \A u \in Tasks \ {t} : Stage(u)' = Stage(u)
    BY <1>1, <1>2 DEF Stage, TechStates
  <1>5. [u \in Tasks |-> Stage(u)]' = [[u \in Tasks |-> Stage(u)] EXCEPT ![t] = "tech"]
    BY <1>4
  <1>6. Applied' = Applied
    BY <1>1 DEF Applied
  <1> QED BY <1>1, <1>3, <1>4, <1>5, <1>6 DEF Promise!Advance, Stage

\* A report that a message was rejected which DingTalk took disowns a question
\* nobody answered; one DingTalk has not taken yet was not asked.
LEMMA MisreadDisowns ==
  ASSUME TypeOK, ClaimInv, DecisionsAnswerMessages, PromiseInv, NEW c \in Claims, Misread(c),
         c \in chat
  PROVE  \E k \in Promise!Question : k = job[c] /\ Promise!Disown(k)
  <1>1. /\ pc[c] \in Working /\ chat' = chat \ {c} /\ job' = job /\ rec' = rec /\ log' = log
    BY DEF Misread, Working
  <1>2. /\ AtStake(c) /\ job[c].task \in Tasks /\ job[c].gate \in Gates
        /\ job[c].version \in VersionsOf(job[c].gate)
        /\ job[c] = Question(job[c].gate, job[c].task, job[c].version)
    BY <1>1, WorkingAtStake
  <1>3. job[c] \in Promise!Question
    BY <1>2, QuestionType
  <1>4. ~ HasAnswer(job[c])
    <2> SUFFICES ASSUME NEW e \in Applied, Asked(e) = job[c] PROVE FALSE
      BY DEF HasAnswer
    <2>1. e.task = job[c].task /\ e.gate = job[c].gate /\ e.version = job[c].version
      BY <1>2 DEF Asked, Question
    <2>2. req[job[c].task][Key(job[c].gate, job[c].version)].state = "DELIVERED"
      BY <2>1 DEF PromiseInv, SettledInv
    <2> QED BY <1>2, <2>2 DEF AtStake, OwnsClaim
  <1>5. Stage(job[c].task) = job[c].gate /\ ~ Promise!Passed(job[c].gate, job[c].task)
    BY <1>2, StandsAt DEF AtStake, CurrentDraft
  <1>6. \A e \in chat : job[e] = job[c] => e = c
    BY DEF ClaimInv, MessageInv, RowOf
  <1>7. {job'[e] : e \in chat'} = {job[e] : e \in chat} \ {job[c]}
    BY <1>1, <1>6
  <1>8. job[c] \in Promise!OpenQuestions(job[c].task)
    BY <1>4, AnsweredMeans DEF Promise!OpenQuestions
  <1>9. Applied' = Applied
    BY <1>1 DEF Applied
  <1>10. PICK k \in Promise!Question : k = job[c]
    BY <1>3
  <1>11. /\ k \in Promise!OpenQuestions(k.task) /\ Stage(k.task) = k.gate
         /\ k.task \in Tasks
         /\ ~ Promise!Passed(k.gate, k.task)
         /\ {job[e] : e \in chat}' = {job[e] : e \in chat} \ {k}
    BY <1>2, <1>5, <1>7, <1>8, <1>10
  <1>12. {<<Asked(e), e.decision>> : e \in Applied}' = {<<Asked(e), e.decision>> : e \in Applied}
    BY <1>9 DEF Asked, Question
  <1>13. Promise!Disown(k)
    BY <1>1, <1>11, <1>12 DEF Promise!Disown, Stage
  <1> QED BY <1>10, <1>13

\* A question is asked when DingTalk accepts its message, is disowned when that
\* is reported as a rejection, and never else.
LEMMA OnlyAcceptAsks ==
  ASSUME TypeOK, [Next]_vars
  PROVE  chat' = chat \/ \E c \in Claims : Accept(c) \/ (Misread(c) /\ c \in chat)
  <1>1. CASE UNCHANGED vars
    BY <1>1 DEF vars
  <1>2. ASSUME NEW c \in Claims, Misread(c), c \notin chat PROVE chat' = chat
    BY <1>2 DEF Misread
  <1>3. CASE Next
    BY <1>2, <1>3, NextCases DEF DraftStep, Advance, Resolve, ApplyStep, RepeatStep, ClaimStep,
       MoveStep, FinishStep, ReleaseStep, Submit, Reject, Crash, toolVars
  <1> QED BY <1>1, <1>3

\* No step but enter_tech_design moves a task between the gates.
LEMMA StageStays ==
  ASSUME TypeOK, ClaimInv, [Next]_vars, NEW t \in Tasks
  PROVE  Stage(t)' = Stage(t) \/ Advance(t)
  <1>1. StatusMoves(t)
    BY StatusCases
  <1>2. CASE rec'[t] = rec[t]
    BY <1>2 DEF Stage
  <1>3. ASSUME NEW g \in Gates, rec[t].status \in {"ABSENT", DraftState(g), RevisionState(g)},
               rec[t].status = "ABSENT" => g = "product", rec'[t].status = DraftState(g)
        PROVE  Stage(t)' = Stage(t)
    BY <1>3 DEF Stage, DraftState, RevisionState, TechStates
  <1>4. ASSUME NEW g \in Gates, NEW d \in Decisions, rec[t].status = WaitingState(g),
               rec'[t].status = OutcomeState(g, d)
        PROVE  Stage(t)' = Stage(t)
    BY <1>4 DEF Stage, WaitingState, OutcomeState, ApprovedState, RevisionState, TechStates
  <1>5. ASSUME NEW c \in Claims, FinishStep(c), rec[t].status = DraftState(job[c].gate),
               rec'[t].status = WaitingState(job[c].gate)
        PROVE  Stage(t)' = Stage(t)
    BY <1>5 DEF Stage, WaitingState, DraftState, TechStates
  <1> QED BY <1>1, <1>2, <1>3, <1>4, <1>5 DEF StatusMoves

\* Every other step is invisible to TwoGateApproval.
LEMMA QuietForPromise ==
  ASSUME TypeOK, ClaimInv, [Next]_vars, chat' = chat, Applied' = Applied,
         \A t \in Tasks : Stage(t)' = Stage(t)
  PROVE  UNCHANGED Promise!vars
  <1>1. {job[c] : c \in chat}' = {job[c] : c \in chat}
    BY ChatStable
  <1>2. \A e : Asked(e)' = Asked(e)
    BY DEF Asked, Question
  <1>3. {<<Asked(e), e.decision>> : e \in Applied}' = {<<Asked(e), e.decision>> : e \in Applied}
    BY <1>2
  <1> QED BY <1>1, <1>3 DEF Promise!vars, Stage

\* The store, its tools, the crashes of the gateway and the timing of DingTalk
\* implement the two-gate promise: an accepted message asks one question, a
\* rejection reported of a message in the chat disowns it, an
\* applied decision answers the one that is open, enter_tech_design advances a
\* task that was approved, and no other step is visible.
THEOREM ToolsKeepPromise == Spec => KeepsPromise
  <1>1. Init => Promise!Init
    BY DEF Init, StoreInit, NoRow, Promise!Init, Applied, TechStates
  <1>2. /\ TypeOK /\ ClaimInv /\ CodeInv /\ DecisionsAnswerMessages /\ PromiseInv
        /\ [Next]_vars
        => [Promise!Next]_(Promise!vars)
    <2> SUFFICES ASSUME TypeOK, ClaimInv, CodeInv, DecisionsAnswerMessages, PromiseInv, [Next]_vars
                 PROVE  Promise!Next \/ UNCHANGED Promise!vars
      OBVIOUS
    <2>1. ASSUME NEW t \in Tasks, Advance(t) PROVE Promise!Next
      BY <2>1, AdvanceAdvances DEF Promise!Next
    <2>2. ASSUME NEW c \in Claims, Accept(c) PROVE Promise!Next
      <3>1. PICK k \in Promise!Question : Promise!Ask(k)
        BY <2>2, AcceptAsks
      <3> QED BY <3>1 DEF Promise!Next
    <2>5. ASSUME NEW c \in Claims, Misread(c), c \in chat PROVE Promise!Next
      <3>1. PICK k \in Promise!Question : Promise!Disown(k)
        BY <2>5, MisreadDisowns
      <3> QED BY <3>1 DEF Promise!Next
    <2>3. ASSUME NEW g \in Gates, NEW t \in Tasks, NEW d \in Decisions, NEW a \in Staff,
                 NEW q \in Claims \union {None}, NEW v \in VersionsOf(g), ApplyStep(g, t, v, d, a, q)
          PROVE  Promise!Next
      <3>1. Question(g, t, v) \in Promise!Question /\ d \in Promise!Decisions
        BY QuestionType DEF Decisions, Promise!Decisions
      <3> QED BY <2>3, <3>1, ApplyAnswers DEF Promise!Next
    <2>4. CASE /\ \A t \in Tasks : ~ Advance(t)
               /\ \A c \in Claims : ~ Accept(c) /\ ~ (Misread(c) /\ c \in chat)
               /\ \A g \in Gates, t \in Tasks, d \in Decisions, a \in Staff,
                     q \in Claims \union {None} : \A v \in VersionsOf(g) : ~ ApplyStep(g, t, v, d, a, q)
      <3>1. Applied' = Applied
        BY <2>4, AnswersKept
      <3>2. chat' = chat
        BY <2>4, OnlyAcceptAsks
      <3>3. ASSUME NEW t \in Tasks PROVE Stage(t)' = Stage(t)
        BY <2>4, StageStays
      <3> QED BY <3>1, <3>2, <3>3, QuietForPromise
    <2> QED BY <2>1, <2>2, <2>3, <2>4, <2>5
  <1> QED BY <1>1, <1>2, TypeCorrect, ClaimsSound, CodesSound, DecisionsSound, RecordsAgree,
             PTL DEF Spec, KeepsPromise, Promise!Spec
==============================================================================
