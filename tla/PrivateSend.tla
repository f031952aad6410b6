------------------------------ MODULE PrivateSend ------------------------------
(***************************************************************************)
(* The private-message tool: prepare stores a preview under a fresh token, *)
(* confirm reads it, sends it, and marks it consumed afterwards, cancel    *)
(* deletes it.                                                             *)
(*                                                                         *)
(* A call is one run of the confirm handler on a worker thread.  Nothing   *)
(* joins its three effects, the SELECT, the HTTP request and the UPDATE:   *)
(* other calls, a cancel and the end of the process come in between.       *)
(* DingTalk may accept a request after the handler stopped waiting for it. *)
(***************************************************************************)
EXTENDS Naturals, FiniteSets

CONSTANTS
  Tokens,      \* preview tokens; drawn at random, never the same twice
  Calls,       \* runs of the confirm handler
  Messages,    \* human messages, each the context of one turn
  Users,
  Admins,      \* users whose id or hash is in the allowlist
  User,        \* message -> its sender
  Session,     \* message -> session id, or None where the host gives none
  Id,          \* message -> message id, or None
  None,
  TTL,         \* _CONFIRM_TTL_SECONDS
  MaxTime      \* end of the modelled time (a bound of the model)

ASSUME PrivateAssumption ==
  /\ Admins \subseteq Users
  /\ User \in [Messages -> Users]
  /\ None \notin Messages \union Tokens
  /\ TTL \in Nat
  /\ MaxTime \in Nat

VARIABLES
  row,        \* token -> "none", "open", "consumed" or "deleted"
  issued,     \* token -> the message whose turn prepared it, or None
  created,    \* token -> created_epoch
  pc,         \* call -> where the handler is
  job,        \* call -> its token, or None
  turn,       \* call -> the message in whose turn it runs, or None
  wire,       \* calls whose request DingTalk has and has not judged
  accepted,   \* calls whose message DingTalk accepted
  now

vars == <<row, issued, created, pc, job, turn, wire, accepted, now>>
tableVars == <<row, issued, created>>

Working == {"checked", "sending", "arrived", "failing"}
Returned == {"sent", "failed"}
Gone == {"raised", "dead"}

TypeOK ==
  /\ row \in [Tokens -> {"none", "open", "consumed", "deleted"}]
  /\ issued \in [Tokens -> Messages \union {None}]
  /\ created \in [Tokens -> 0..MaxTime]
  /\ pc \in [Calls -> {"idle"} \union Working \union Returned \union Gone]
  /\ job \in [Calls -> Tokens \union {None}]
  /\ turn \in [Calls -> Messages \union {None}]
  /\ wire \subseteq Calls
  /\ accepted \subseteq Calls
  /\ now \in 0..MaxTime

Init ==
  /\ row = [t \in Tokens |-> "none"]
  /\ issued = [t \in Tokens |-> None]
  /\ created = [t \in Tokens |-> 0]
  /\ pc = [c \in Calls |-> "idle"]
  /\ job = [c \in Calls |-> None]
  /\ turn = [c \in Calls |-> None]
  /\ wire = {}
  /\ accepted = {}
  /\ now = 0

IsAdmin(m) == User[m] \in Admins
Goto(c, place) == pc' = [pc EXCEPT ![c] = place]

-----------------------------------------------------------------------------
(* prepare and cancel: one statement each *)

Prepare(t, m) ==
  /\ IsAdmin(m)
  /\ row[t] = "none"
  /\ row' = [row EXCEPT ![t] = "open"]
  /\ issued' = [issued EXCEPT ![t] = m]
  /\ created' = [created EXCEPT ![t] = now]
  /\ UNCHANGED <<pc, job, turn, wire, accepted, now>>

\* The row goes, consumed or not, and whatever a running confirm does with it.
Cancel(t, m) ==
  /\ IsAdmin(m)
  /\ row[t] \in {"open", "consumed"}
  /\ User[issued[t]] = User[m]
  /\ row' = [row EXCEPT ![t] = "deleted"]
  /\ UNCHANGED <<issued, created, pc, job, turn, wire, accepted, now>>

-----------------------------------------------------------------------------
(* confirm *)

\* An empty id on either side passes.
Differ(a, b) == a # None /\ b # None /\ a # b
Same(a, b) == a # None /\ b # None /\ a = b

\* Mutant: only the administrator is checked, not who prepared.
MayConfirmAnyAdmin(t, m) ==
  /\ row[t] = "open"
  /\ now - created[t] <= TTL
  /\ ~Same(Id[issued[t]], Id[m])

\* The checks on the row that was read; whoever quotes the token was told its
\* code together with it.
MayConfirm(t, m) ==
  /\ row[t] = "open"
  /\ now - created[t] <= TTL
  /\ User[issued[t]] = User[m]
  /\ ~Differ(Session[issued[t]], Session[m])
  /\ ~Same(Id[issued[t]], Id[m])

\* A refused confirm changes nothing and is no step.
Confirm(c, t, m) ==
  /\ pc[c] = "idle"
  /\ IsAdmin(m)
  /\ MayConfirm(t, m)
  /\ Goto(c, "checked")
  /\ job' = [job EXCEPT ![c] = t]
  /\ turn' = [turn EXCEPT ![c] = m]
  /\ UNCHANGED <<tableVars, wire, accepted, now>>

\* No access token, no robot code: nothing leaves.
NothingSent(c) ==
  /\ pc[c] = "checked"
  /\ Goto(c, "failing")
  /\ UNCHANGED <<tableVars, job, turn, wire, accepted, now>>

Submit(c) ==
  /\ pc[c] = "checked"
  /\ Goto(c, "sending")
  /\ wire' = wire \union {c}
  /\ UNCHANGED <<tableVars, job, turn, accepted, now>>

\* DingTalk judges a request, whether or not somebody still waits.
Accept(c) ==
  /\ c \in wire
  /\ wire' = wire \ {c}
  /\ accepted' = accepted \union {c}
  /\ UNCHANGED <<tableVars, pc, job, turn, now>>

Reject(c) ==
  /\ c \in wire
  /\ wire' = wire \ {c}
  /\ UNCHANGED <<tableVars, pc, job, turn, accepted, now>>

\* The answer arrives and says what DingTalk did.
Answer(c) ==
  /\ pc[c] = "sending"
  /\ c \notin wire
  /\ Goto(c, IF c \in accepted THEN "arrived" ELSE "failing")
  /\ UNCHANGED <<tableVars, job, turn, wire, accepted, now>>

\* The request times out or its answer is lost: reported like a rejection.
NoAnswer(c) ==
  /\ pc[c] = "sending"
  /\ Goto(c, "failing")
  /\ UNCHANGED <<tableVars, job, turn, wire, accepted, now>>

\* Mutant: a failed send leaves the token open.
ConsumeWhenSent(c) ==
  /\ pc[c] \in {"arrived", "failing"}
  /\ row' = IF row[job[c]] = "open" /\ pc[c] = "arrived"
            THEN [row EXCEPT ![job[c]] = "consumed"] ELSE row
  /\ Goto(c, IF pc[c] = "arrived" THEN "sent" ELSE "failed")
  /\ UNCHANGED <<issued, created, job, turn, wire, accepted, now>>

\* The UPDATE, whatever the outcome; it finds no row after a cancel.
Consume(c) ==
  /\ pc[c] \in {"arrived", "failing"}
  /\ row' = IF row[job[c]] = "open" THEN [row EXCEPT ![job[c]] = "consumed"] ELSE row
  /\ Goto(c, IF pc[c] = "arrived" THEN "sent" ELSE "failed")
  /\ UNCHANGED <<issued, created, job, turn, wire, accepted, now>>

\* An answer that is no JSON, a locked database: the token stays open.
Raises(c) ==
  /\ \/ pc[c] = "sending" /\ c \notin wire
     \/ pc[c] \in {"arrived", "failing"}
  /\ Goto(c, "raised")
  /\ UNCHANGED <<tableVars, job, turn, wire, accepted, now>>

-----------------------------------------------------------------------------
\* The process ends; the database and DingTalk go on.
Crash ==
  /\ \E c \in Calls : pc[c] \in Working
  /\ pc' = [c \in Calls |-> IF pc[c] \in Working THEN "dead" ELSE pc[c]]
  /\ UNCHANGED <<tableVars, job, turn, wire, accepted, now>>

Tick ==
  /\ now < MaxTime
  /\ now' = now + 1
  /\ UNCHANGED <<tableVars, pc, job, turn, wire, accepted>>

Handler(c) ==
  \/ NothingSent(c) \/ Submit(c) \/ Answer(c) \/ NoAnswer(c) \/ Consume(c) \/ Raises(c)

Next ==
  \/ \E t \in Tokens, m \in Messages : Prepare(t, m) \/ Cancel(t, m)
  \/ \E c \in Calls, t \in Tokens, m \in Messages : Confirm(c, t, m)
  \/ \E c \in Calls : Handler(c) \/ Accept(c) \/ Reject(c)
  \/ Crash \/ Tick

Spec == Init /\ [][Next]_vars

-----------------------------------------------------------------------------
(* Properties *)

\* What DingTalk has or accepted is about a preview the same administrator
\* prepared in another message of the same conversation, as far as both are known.
ConfirmedByItsAdmin ==
  \A c \in wire \union accepted :
    LET p == issued[job[c]] IN
    /\ User[p] = User[turn[c]]
    /\ User[p] \in Admins
    /\ ~Same(Id[p], Id[turn[c]])
    /\ ~Differ(Session[p], Session[turn[c]])

\* The administrator is told "sent" only when DingTalk accepted the message.
SentMeansAccepted == \A c \in Calls : pc[c] \in {"arrived", "sent"} => c \in accepted

\* Once a confirm of a token returned, with whatever result, or the token was
\* cancelled, no further confirm of it goes to DingTalk: a second message of one
\* preview needs a confirm that overlaps, raises or dies.
UsedOnceInSequence ==
  [][\A c \in Calls, t \in Tokens :
       pc[c] = "idle" /\ pc'[c] # "idle" /\ job'[c] = t =>
         /\ \A d \in Calls : job[d] = t => pc[d] \notin Returned
         /\ row[t] # "deleted"]_vars

\* Why: a call works on a preview of its own, and a token is open only while no
\* confirm of it has returned.
PrivateInv ==
  /\ \A t \in Tokens : row[t] # "none" =>
       /\ issued[t] # None
       /\ User[issued[t]] \in Admins
  /\ \A c \in Calls :
       /\ pc[c] = "idle" => job[c] = None /\ c \notin wire \union accepted
       /\ pc[c] # "idle" => /\ job[c] \in Tokens
                            /\ turn[c] \in Messages
                            /\ row[job[c]] # "none"
                            /\ User[issued[job[c]]] = User[turn[c]]
                            /\ ~Same(Id[issued[job[c]]], Id[turn[c]])
                            /\ ~Differ(Session[issued[job[c]]], Session[turn[c]])
       /\ pc[c] = "checked" => c \notin wire \union accepted
       /\ pc[c] \in Returned => row[job[c]] \in {"consumed", "deleted"}
  /\ wire \intersect accepted = {}

===============================================================================
