------------------------- MODULE ConfirmationStore -------------------------
(***************************************************************************)
(* The SQLite store of the product_confirmation plugin: one row per task   *)
(* in the confirmations table, the registered versions, the request outbox *)
(* and the accepted entries of the decision log.                           *)
(*                                                                         *)
(* Every operation of the store runs under the instance lock and inside    *)
(* one BEGIN IMMEDIATE transaction, so it is one atomic step.  An          *)
(* operation that answers "rejected" rolls back (or only appends to the    *)
(* log a row with accepted = 0) and is not a step here: no property tells  *)
(* such rows apart.  The module has no Next: the callers of the store, in  *)
(* ConfirmationTools, decide when an operation runs.                       *)
(*                                                                         *)
(* The one-time code and the claim id are drawn together, afresh, by each  *)
(* invocation of a request tool, so both are identified with the caller, a *)
(* member of Claims.  Hash collisions of the 24-bit code are left out.     *)
(***************************************************************************)

CONSTANTS
  Tasks,            \* internal task keys: one per (conversation, logical id)
  ProductVersions,  \* proposal_version values
  TechVersions,     \* tech_design_version values
  TechKey,          \* tech version -> its key in the outbox ("tech:" + version)
  Claims,           \* claim ids, each with its one-time code
  Staff,            \* platform identities of repliers
  Owner,            \* the configured owner; outside Staff when not configured
  None              \* SQL NULL, and "no code quoted"

Gates == {"product", "tech"}
Versions == ProductVersions \union TechVersions
VersionsOf(g) == IF g = "product" THEN ProductVersions ELSE TechVersions
RequestKeys == ProductVersions \union {TechKey[v] : v \in TechVersions}
Decisions == {"APPROVED", "NEEDS_REVISION"}

\* The prefix "tech:" makes the keys of distinct technical versions distinct.
ASSUME TechKeyAssumption ==
  /\ DOMAIN TechKey = TechVersions
  /\ \A v, w \in TechVersions : TechKey[v] = TechKey[w] => v = w
ASSUME NoneAssumption == None \notin Versions \union Claims \union Decisions \union Staff

ProductStates == {"PRODUCT_DRAFT", "WAITING_PRODUCT_CONFIRMATION",
                  "PRODUCT_NEEDS_REVISION", "PRODUCT_APPROVED"}
TechStates == {"TECH_DESIGN", "WAITING_TECH_DESIGN_CONFIRMATION",
               "TECH_DESIGN_NEEDS_REVISION", "TECH_DESIGN_APPROVED"}

VARIABLES
  rec,       \* table confirmations; status "ABSENT" when there is no row
  versions,  \* tables confirmation_versions and tech_design_versions
  req,       \* table confirmation_requests; state "NONE" when there is no row
  log        \* accepted rows of decision_log

storeVars == <<rec, versions, req, log>>

Row == [status   : {"ABSENT"} \union ProductStates \union TechStates,
        version  : [Gates -> Versions \union {None}],
        code     : [Gates -> Claims \union {None}],
        decision : [Gates -> Decisions \union {None}]]
Request == [state : {"NONE", "CLAIMED", "FAILED", "DELIVERED"},
            claim : Claims \union {None}]
LogEntry == [task : Tasks, gate : Gates, version : Versions, decision : Decisions,
             code : Claims \union {None}, reason : {"APPLIED", "DUPLICATE"}]

StoreTypeOK ==
  /\ rec \in [Tasks -> Row]
  /\ \A t \in Tasks, g \in Gates : rec[t].version[g] \in VersionsOf(g) \union {None}
  /\ versions \in [Tasks -> [Gates -> SUBSET Versions]]
  /\ req \in [Tasks -> [RequestKeys -> Request]]
  /\ log \subseteq LogEntry

NoRow == [status |-> "ABSENT", version |-> [g \in Gates |-> None],
          code |-> [g \in Gates |-> None], decision |-> [g \in Gates |-> None]]

StoreInit ==
  /\ rec = [t \in Tasks |-> NoRow]
  /\ versions = [t \in Tasks |-> [g \in Gates |-> {}]]
  /\ req = [t \in Tasks |-> [k \in RequestKeys |-> [state |-> "NONE", claim |-> None]]]
  /\ log = {}

----------------------------------------------------------------------------
(* What the two gates have in common.                                      *)

Key(g, v) == IF g = "product" THEN v ELSE TechKey[v]
DraftState(g) == IF g = "product" THEN "PRODUCT_DRAFT" ELSE "TECH_DESIGN"
WaitingState(g) == IF g = "product" THEN "WAITING_PRODUCT_CONFIRMATION"
                                    ELSE "WAITING_TECH_DESIGN_CONFIRMATION"
RevisionState(g) == IF g = "product" THEN "PRODUCT_NEEDS_REVISION"
                                     ELSE "TECH_DESIGN_NEEDS_REVISION"
ApprovedState(g) == IF g = "product" THEN "PRODUCT_APPROVED"
                                     ELSE "TECH_DESIGN_APPROVED"

OutcomeState(g, d) == IF d = "APPROVED" THEN ApprovedState(g) ELSE RevisionState(g)

\* The task's current version at gate g is v and its request can still be sent.
CurrentDraft(t, g, v) ==
  /\ rec[t].status = DraftState(g)
  /\ rec[t].version[g] = v

\* UPDATE confirmations: the status and the columns of gate g.
SetRow(t, g, s, v, c, d) ==
  rec' = [rec EXCEPT ![t] = [status   |-> s,
                             version  |-> [rec[t].version EXCEPT ![g] = v],
                             code     |-> [rec[t].code EXCEPT ![g] = c],
                             decision |-> [rec[t].decision EXCEPT ![g] = d]]]

\* Version v replaces the current one of gate g; everything the previous
\* version left behind (code, decision) is cleared.
Redraft(t, g, v) ==
  /\ SetRow(t, g, DraftState(g), v, None, None)
  /\ versions' = [versions EXCEPT ![t][g] = @ \union {v}]
  /\ UNCHANGED <<req, log>>

\* Mutant: looks for a delivered request, which a draft never has.
SendDelivered(t, g) ==
  /\ rec[t].status = DraftState(g)
  /\ rec[t].version[g] # None
  /\ req[t][Key(g, rec[t].version[g])].state = "DELIVERED"

\* A send of the current version's request is in flight.
SendInFlight(t, g) ==
  /\ rec[t].status = DraftState(g)
  /\ rec[t].version[g] # None
  /\ req[t][Key(g, rec[t].version[g])].state = "CLAIMED"

\* INSERT or UPDATE confirmation_requests.
SetRequest(t, g, v, s, c) ==
  req' = [req EXCEPT ![t][Key(g, v)] = [state |-> s, claim |-> c]]

Acquire(t, g, v, c) ==
  /\ CurrentDraft(t, g, v)
  /\ req[t][Key(g, v)].state \in {"NONE", "FAILED"}
  /\ SetRequest(t, g, v, "CLAIMED", c)
  /\ UNCHANGED <<rec, versions, log>>

OwnsClaim(t, g, v, c) == req[t][Key(g, v)] = [state |-> "CLAIMED", claim |-> c]

Complete(t, g, v, c) ==
  /\ OwnsClaim(t, g, v, c)
  /\ CurrentDraft(t, g, v)
  /\ SetRow(t, g, WaitingState(g), v, c, rec[t].decision[g])
  /\ SetRequest(t, g, v, "DELIVERED", c)
  /\ UNCHANGED <<versions, log>>

\* The checks of a decision before the status is looked at: owner, current
\* version, and the quoted code unless the status is the draft of the gate.
DecisionAdmitted(t, g, v, actor, quoted) ==
  /\ rec[t].status # "ABSENT"
  /\ actor = Owner
  /\ rec[t].version[g] = v
  /\ rec[t].status = DraftState(g) \/ rec[t].code[g] \in {None, quoted}

Entry(t, g, v, d, quoted, reason) ==
  [task |-> t, gate |-> g, version |-> v, decision |-> d, code |-> quoted,
   reason |-> reason]

Apply(t, g, v, d, actor, quoted) ==
  /\ DecisionAdmitted(t, g, v, actor, quoted)
  /\ rec[t].status = WaitingState(g)
  /\ SetRow(t, g, OutcomeState(g, d), v, rec[t].code[g], d)
  /\ log' = log \union {Entry(t, g, v, d, quoted, "APPLIED")}
  /\ UNCHANGED <<versions, req>>

Repeat(t, g, v, d, quoted) ==
  /\ log' = log \union {Entry(t, g, v, d, quoted, "DUPLICATE")}
  /\ UNCHANGED <<rec, versions, req>>

----------------------------------------------------------------------------
(* The operations of the store, gate by gate.                              *)

\* A new task, or a new version after NEEDS_REVISION or over an unsent draft.
CreateDraft(t, v) ==
  /\ v \notin versions[t]["product"]
  /\ ~ SendInFlight(t, "product")
  /\ rec[t].status \in {"ABSENT", "PRODUCT_DRAFT", "PRODUCT_NEEDS_REVISION"}
  /\ Redraft(t, "product", v)

ClaimRequest(t, v, c) == Acquire(t, "product", v, c)
CompleteRequestDelivery(t, v, c) == Complete(t, "product", v, c)

\* Mutant: the update of the outbox is lost.
FailRequestLost(t, g, v, c) == OwnsClaim(t, g, v, c) /\ UNCHANGED storeVars

\* Release the claim after a definite non-delivery, whichever gate it is for.
FailRequest(t, g, v, c) ==
  /\ OwnsClaim(t, g, v, c)
  /\ SetRequest(t, g, v, "FAILED", c)
  /\ UNCHANGED <<rec, versions, log>>

ApplyDecision(t, v, d, actor, quoted) == Apply(t, "product", v, d, actor, quoted)

\* Past the product gate a missing decision counts as APPROVED.
EffectiveDecision(t) ==
  IF rec[t].decision["product"] = None /\ rec[t].status \in TechStates
  THEN "APPROVED" ELSE rec[t].decision["product"]

\* An identical decision after the fact.
RepeatDecision(t, v, d, actor, quoted) ==
  /\ DecisionAdmitted(t, "product", v, actor, quoted)
  /\ rec[t].status # WaitingState("product")
  /\ EffectiveDecision(t) = d
  /\ Repeat(t, "product", v, d, quoted)

EnterTechDesign(t) ==
  /\ rec[t].status = "PRODUCT_APPROVED"
  /\ rec' = [rec EXCEPT ![t].status = "TECH_DESIGN"]
  /\ UNCHANGED <<versions, req, log>>

\* Mutant: an approved design may be replaced.
CreateTechDesignDraftOverApproval(t, v) ==
  /\ rec[t].status \in TechStates \ {"WAITING_TECH_DESIGN_CONFIRMATION"}
  /\ v \notin versions[t]["tech"]
  /\ ~ SendInFlight(t, "tech")
  /\ Redraft(t, "tech", v)

CreateTechDesignDraft(t, v) ==
  /\ rec[t].status \in {"TECH_DESIGN", "TECH_DESIGN_NEEDS_REVISION"}
  /\ v \notin versions[t]["tech"]
  /\ ~ SendInFlight(t, "tech")
  /\ Redraft(t, "tech", v)

ClaimTechDesignRequest(t, v, c) == Acquire(t, "tech", v, c)
CompleteTechDesignRequestDelivery(t, v, c) == Complete(t, "tech", v, c)

ApplyTechDesignDecision(t, v, d, actor, quoted) == Apply(t, "tech", v, d, actor, quoted)

RepeatTechDesignDecision(t, v, d, actor, quoted) ==
  /\ DecisionAdmitted(t, "tech", v, actor, quoted)
  /\ rec[t].status \in {"TECH_DESIGN_APPROVED", "TECH_DESIGN_NEEDS_REVISION"}
  /\ rec[t].decision["tech"] = d
  /\ Repeat(t, "tech", v, d, quoted)
============================================================================
