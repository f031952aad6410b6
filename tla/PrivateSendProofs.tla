--------------------------- MODULE PrivateSendProofs ---------------------------
(* Theorems about PrivateSend, for any tokens, calls, messages and users, any *)
(* validity and any ids, empty ones included.                                *)
EXTENDS PrivateSend, TLAPS

\* The initial state has the declared types.
LEMMA TypeInit == Init => TypeOK
  BY PrivateAssumption DEF PrivateAssumption, Init, TypeOK

\* Every step keeps them.
LEMMA TypeStep == TypeOK /\ [Next]_vars => TypeOK'
<1> SUFFICES ASSUME TypeOK, [Next]_vars PROVE TypeOK'
  OBVIOUS
<1> USE PrivateAssumption DEF PrivateAssumption, TypeOK, Goto, Working, Returned, Gone, tableVars
<1>1. ASSUME NEW t \in Tokens, NEW m \in Messages, Prepare(t, m) PROVE TypeOK'
  BY <1>1 DEF Prepare
<1>2. ASSUME NEW t \in Tokens, NEW m \in Messages, Cancel(t, m) PROVE TypeOK'
  BY <1>2 DEF Cancel
<1>3. ASSUME NEW c \in Calls, NEW t \in Tokens, NEW m \in Messages, Confirm(c, t, m) PROVE TypeOK'
  BY <1>3 DEF Confirm
<1>4. ASSUME NEW c \in Calls, NothingSent(c) \/ Submit(c) \/ NoAnswer(c) \/ Raises(c)
      PROVE TypeOK'
  BY <1>4 DEF NothingSent, Submit, NoAnswer, Raises
<1>5. ASSUME NEW c \in Calls, Answer(c) PROVE TypeOK'
  BY <1>5 DEF Answer
<1>6. ASSUME NEW c \in Calls, Consume(c) PROVE TypeOK'
  BY <1>6 DEF Consume
<1>7. ASSUME NEW c \in Calls, Accept(c) \/ Reject(c) PROVE TypeOK'
  BY <1>7 DEF Accept, Reject
<1>8. CASE Crash
  BY <1>8 DEF Crash
<1>9. CASE Tick
  BY <1>9 DEF Tick
<1>10. CASE UNCHANGED vars
  BY <1>10 DEF vars
<1> QED
  BY <1>1, <1>2, <1>3, <1>4, <1>5, <1>6, <1>7, <1>8, <1>9, <1>10 DEF Next, Handler

\* Every reachable state has the declared types.
THEOREM TypeCorrect == Spec => []TypeOK
  BY TypeInit, TypeStep, PTL DEF Spec

-----------------------------------------------------------------------------
\* The parts of PrivateInv: about one token, and about one call.
TokenSound(t) == row[t] # "none" => issued[t] # None /\ User[issued[t]] \in Admins

CallSound(c) ==
  /\ pc[c] = "idle" => job[c] = None /\ c \notin wire \union accepted
  /\ pc[c] # "idle" => /\ job[c] \in Tokens
                       /\ turn[c] \in Messages
                       /\ row[job[c]] # "none"
                       /\ User[issued[job[c]]] = User[turn[c]]
                       /\ ~Same(Id[issued[job[c]]], Id[turn[c]])
                       /\ ~Differ(Session[issued[job[c]]], Session[turn[c]])
  /\ pc[c] = "checked" => c \notin wire \union accepted
  /\ pc[c] \in Returned => row[job[c]] \in {"consumed", "deleted"}

LEMMA PrivateParts ==
  PrivateInv <=> /\ \A t \in Tokens : TokenSound(t)
                 /\ \A c \in Calls : CallSound(c)
                 /\ wire \intersect accepted = {}
  BY DEF PrivateInv, TokenSound, CallSound

\* The invariant holds at the start, and every step keeps it.
LEMMA PrivateStep == TypeOK /\ PrivateInv /\ [Next]_vars => PrivateInv'
<1> SUFFICES ASSUME TypeOK, PrivateInv, [Next]_vars PROVE PrivateInv'
  OBVIOUS
<1> USE PrivateAssumption DEF PrivateAssumption
<1>a. /\ \A t \in Tokens : TokenSound(t)
      /\ \A c \in Calls : CallSound(c)
      /\ wire \intersect accepted = {}
  BY PrivateParts
<1>g. ASSUME \A t \in Tokens : TokenSound(t)', \A c \in Calls : CallSound(c)',
             (wire \intersect accepted = {})'
      PROVE PrivateInv'
  BY <1>g, PrivateParts DEF PrivateInv, TokenSound, CallSound
<1>1. ASSUME NEW t \in Tokens, NEW m \in Messages, Prepare(t, m) PROVE PrivateInv'
  <2>1. \A k \in Tokens : TokenSound(k)'
    BY <1>a, <1>1 DEF TypeOK, TokenSound, Prepare, IsAdmin
  <2>2. \A c \in Calls : CallSound(c)'
    BY <1>a, <1>1 DEF TypeOK, CallSound, Prepare, Returned
  <2> QED
    BY <1>a, <1>g, <1>1, <2>1, <2>2 DEF Prepare
<1>2. ASSUME NEW t \in Tokens, NEW m \in Messages, Cancel(t, m) PROVE PrivateInv'
  <2>1. \A k \in Tokens : TokenSound(k)'
    BY <1>a, <1>2 DEF TypeOK, TokenSound, Cancel
  <2>2. \A c \in Calls : CallSound(c)'
    BY <1>a, <1>2 DEF TypeOK, CallSound, Cancel, Returned
  <2> QED
    BY <1>a, <1>g, <1>2, <2>1, <2>2 DEF Cancel
<1>3. ASSUME NEW c \in Calls, NEW t \in Tokens, NEW m \in Messages, Confirm(c, t, m)
      PROVE PrivateInv'
  <2>1. \A k \in Tokens : TokenSound(k)'
    BY <1>a, <1>3 DEF TypeOK, TokenSound, Confirm, tableVars
  <2>2. \A d \in Calls : CallSound(d)'
    BY <1>a, <1>3 DEF TypeOK, CallSound, Confirm, MayConfirm, Goto, tableVars, Returned
  <2> QED
    BY <1>a, <1>g, <1>3, <2>1, <2>2 DEF Confirm
<1>4. ASSUME NEW c \in Calls, Handler(c) PROVE PrivateInv'
  <2> USE DEF Handler, NothingSent, Submit, Answer, NoAnswer, Consume, Raises
  <2>1. \A k \in Tokens : TokenSound(k)'
    BY <1>a, <1>4 DEF TypeOK, TokenSound, CallSound, tableVars
  <2>2. \A d \in Calls : CallSound(d)'
    BY <1>a, <1>4 DEF TypeOK, CallSound, Goto, tableVars, Returned
  <2>3. (wire \intersect accepted = {})'
    BY <1>a, <1>4 DEF CallSound
  <2> QED
    BY <1>g, <2>1, <2>2, <2>3
<1>5. ASSUME NEW c \in Calls, Accept(c) \/ Reject(c) PROVE PrivateInv'
  <2> USE DEF Accept, Reject
  <2>1. \A k \in Tokens : TokenSound(k)'
    BY <1>a, <1>5 DEF TokenSound, tableVars
  <2>2. \A d \in Calls : CallSound(d)'
    BY <1>a, <1>5 DEF TypeOK, CallSound, tableVars
  <2> QED
    BY <1>a, <1>g, <1>5, <2>1, <2>2
<1>6. CASE Crash
  <2>1. \A k \in Tokens : TokenSound(k)'
    BY <1>a, <1>6 DEF TokenSound, Crash, tableVars
  <2>2. \A d \in Calls : CallSound(d)'
    BY <1>a, <1>6 DEF TypeOK, CallSound, Crash, Working, Returned, tableVars
  <2> QED
    BY <1>a, <1>g, <1>6, <2>1, <2>2 DEF Crash
<1>7. CASE Tick \/ UNCHANGED vars
  BY <1>7 DEF Tick, vars, tableVars, PrivateInv, Same, Differ
<1> QED
  BY <1>1, <1>2, <1>3, <1>4, <1>5, <1>6, <1>7 DEF Next

\* A call works on a preview its own administrator prepared in another message,
\* and a token is open only while no confirm of it has returned.
THEOREM PreviewsSound == Spec => []PrivateInv
<1>1. Init => PrivateInv
  BY PrivateAssumption DEF PrivateAssumption, Init, PrivateInv, Returned
<1> QED
  BY <1>1, PrivateStep, TypeCorrect, PTL DEF Spec

\* What DingTalk has or accepted was prepared by the same administrator in another
\* message, as far as the ids are known.
THEOREM OnlyItsAdmin == Spec => []ConfirmedByItsAdmin
<1>1. TypeOK /\ PrivateInv => ConfirmedByItsAdmin
  BY PrivateAssumption DEF PrivateAssumption, TypeOK, PrivateInv, ConfirmedByItsAdmin
<1> QED
  BY <1>1, TypeCorrect, PreviewsSound, PTL

\* "sent" is answered only for a message DingTalk accepted.
THEOREM SentIsTrue == Spec => []SentMeansAccepted
<1>1. Init => SentMeansAccepted
  BY DEF Init, SentMeansAccepted
<1>2. TypeOK /\ SentMeansAccepted /\ [Next]_vars => SentMeansAccepted'
  BY DEF TypeOK, SentMeansAccepted, Next, Prepare, Cancel, Confirm, Handler, NothingSent, Submit,
         Answer, NoAnswer, Consume, Raises, Accept, Reject, Crash, Tick, Goto, Working, vars
<1> QED
  BY <1>1, <1>2, TypeCorrect, PTL DEF Spec

\* After a confirm returned, or a cancel, no further confirm of the token begins.
THEOREM UsedOnce == Spec => UsedOnceInSequence
<1>1. TypeOK /\ PrivateInv /\ [Next]_vars =>
        \A c \in Calls, t \in Tokens :
          pc[c] = "idle" /\ pc'[c] # "idle" /\ job'[c] = t =>
            /\ \A d \in Calls : job[d] = t => pc[d] \notin Returned
            /\ row[t] # "deleted"
  <2> SUFFICES ASSUME TypeOK, PrivateInv, [Next]_vars, NEW c \in Calls, NEW t \in Tokens,
                      pc[c] = "idle", pc'[c] # "idle", job'[c] = t
               PROVE  /\ \A d \in Calls : job[d] = t => pc[d] \notin Returned
                      /\ row[t] # "deleted"
    OBVIOUS
  <2>1. row[t] = "open"
    <3>1. PICK k \in Tokens, m \in Messages : Confirm(c, k, m)
      BY DEF TypeOK, Next, Prepare, Cancel, Confirm, Handler, NothingSent, Submit, Answer,
             NoAnswer, Consume, Raises, Accept, Reject, Crash, Tick, Goto, Working, vars
    <3> QED
      BY <3>1 DEF TypeOK, Confirm, MayConfirm
  <2> QED
    BY <2>1 DEF PrivateInv, Returned
<1> QED
  BY <1>1, TypeCorrect, PreviewsSound, PTL DEF Spec, UsedOnceInSequence
===============================================================================
