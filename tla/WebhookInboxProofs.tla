-------------------------- MODULE WebhookInboxProofs --------------------------
(***************************************************************************)
(* Proofs about WebhookInbox, for any number of events and drainers, with  *)
(* failing statements and crashes.  The inductive invariant adds to the    *)
(* properties what a drainer knows of the event it has in hand.            *)
(***************************************************************************)
EXTENDS WebhookInbox, FiniteSetTheorems, TLAPS

\* A drainer has an event in hand exactly between the call and its mark, and it
\* holds nothing while it waits for its ticker.
DrainerInv ==
    \A d \in Drainers :
        /\ step[d] \in {"done", "refused"} <=> cur[d] # NoEvent
        /\ step[d] = "idle" => claimed[d] = {}
        /\ cur[d] \notin claimed[d]

\* Only the event whose call has just succeeded is handled already.
HandlingInv ==
    \A d \in Drainers :
        /\ \A e \in claimed[d] : handled[e] = 0
        /\ step[d] = "refused" => handled[cur[d]] = 0
        /\ step[d] = "done" => handled[cur[d]] = 1

IInv ==
    /\ TypeOK
    /\ DrainerInv
    /\ HandlingInv
    /\ ExclusiveClaim
    /\ StatusTellsHandling
    /\ FailedAtTheBound

\* An empty table and idle drainers satisfy the invariant.
LEMMA InitIInv == Init => IInv
  BY InboxAssumption DEF Init, IInv, TypeOK, DrainerInv, HandlingInv, ExclusiveClaim,
     StatusTellsHandling, FailedAtTheBound, Held, Statuses, Steps

\* A counter below the bound meets it in one step or not at all.
LEMMA AtTheBound ==
    \A n \in 0 .. MaxAttempts : n # MaxAttempts /\ n + 1 >= MaxAttempts => n + 1 = MaxAttempts
  BY InboxAssumption

\* Every statement of the receiver and of the drainers, and a crash, preserves it.
LEMMA StepIInv == IInv /\ [Next]_vars => IInv'
<1> USE InboxAssumption DEF row, drainer
<1> SUFFICES ASSUME IInv, [Next]_vars PROVE IInv'
  OBVIOUS
<1> USE DEF IInv, TypeOK, DrainerInv, HandlingInv, ExclusiveClaim, StatusTellsHandling,
        FailedAtTheBound, Held, Statuses, Steps
<1>1. ASSUME NEW e \in Events, Insert(e) PROVE IInv'
  <2>1. Cardinality(Stored) \in Nat
    BY FS_Subset, FS_CardinalityType DEF Stored
  <2> QED BY <1>1, <2>1 DEF Insert
<1>2. ASSUME NEW e \in Events, InsertConflict(e) PROVE IInv'
  BY <1>2 DEF InsertConflict
<1>3. ASSUME NEW e \in Events, MarkDuplicate(e) PROVE IInv'
  BY <1>3 DEF MarkDuplicate
<1>4. ASSUME NEW e \in Events, RetryTime(e) PROVE IInv'
  BY <1>4 DEF RetryTime
<1>5. ASSUME NEW d \in Drainers, ListCandidates(d) PROVE IInv'
  BY <1>5 DEF ListCandidates, OldestDue, Due
<1>6. ASSUME NEW d \in Drainers, NEW e \in Events, Claim(d, e) PROVE IInv'
  <2>1. CASE status[e] # "pending"
    BY <1>6, <2>1 DEF Claim
  <2>2. CASE status[e] = "pending"
    <3>1. /\ status' = [status EXCEPT ![e] = "processing"]
          /\ claimed' = [claimed EXCEPT ![d] = @ \cup {e}]
          /\ candidates' = [candidates EXCEPT ![d] = @ \ {e}]
          /\ step[d] = "claim"
          /\ UNCHANGED <<attempts, receivedAt, backoff, redelivered, step, cur, handled, mishaps>>
      BY <1>6, <2>2 DEF Claim
    <3>2. \A c \in Drainers : e \notin Held(c)
      BY <2>2
    <3>3. TypeOK'
      BY <3>1
    <3>4. DrainerInv'
      BY <3>1, <3>2
    <3>5. HandlingInv'
      BY <2>2, <3>1
    <3>6. ExclusiveClaim'
      BY <3>1, <3>2
    <3>7. StatusTellsHandling' /\ FailedAtTheBound'
      BY <2>2, <3>1
    <3> QED BY <3>3, <3>4, <3>5, <3>6, <3>7
  <2> QED BY <2>1, <2>2
<1>7. ASSUME NEW d \in Drainers, ClaimFails(d) PROVE IInv'
  BY <1>7 DEF ClaimFails, Mishap
<1>8. ASSUME NEW d \in Drainers, EndClaim(d) PROVE IInv'
  BY <1>8 DEF EndClaim
<1>9. ASSUME NEW d \in Drainers, EndDrain(d) PROVE IInv'
  BY <1>9 DEF EndDrain
<1>10. ASSUME NEW d \in Drainers, NEW e \in Events, HandleWebhook(d, e) PROVE IInv'
  BY <1>10 DEF HandleWebhook, Take, OneMore
<1>11. ASSUME NEW d \in Drainers, NEW e \in Events, HandleFails(d, e) PROVE IInv'
  BY <1>11 DEF HandleFails, Take
<1>12. ASSUME NEW d \in Drainers, MarkProcessed(d) PROVE IInv'
  BY <1>12 DEF MarkProcessed, NextEvent
<1>13. ASSUME NEW d \in Drainers, MarkFailed(d) PROVE IInv'
  <2> DEFINE e == cur[d]
  <2>1. e \in Events /\ status[e] = "processing" /\ handled[e] = 0 /\ e \in Held(d)
    BY <1>13 DEF MarkFailed
  <2>2. /\ attempts' = [attempts EXCEPT ![e] = attempts[e] + 1]
        /\ step' = [step EXCEPT ![d] = "dispatch"]
        /\ cur' = [cur EXCEPT ![d] = NoEvent]
        /\ UNCHANGED <<candidates, claimed, receivedAt, redelivered, handled, mishaps>>
    BY <1>13 DEF MarkFailed, NextEvent
  <2>3. \A c \in Drainers : e \notin Held(c)'
    BY <2>1, <2>2
  <2>4. CASE /\ attempts[e] + 1 >= MaxAttempts
             /\ status' = [status EXCEPT ![e] = "failed"]
             /\ UNCHANGED backoff
    <3>1. attempts'[e] = MaxAttempts
      <4>1. attempts[e] \in 0 .. MaxAttempts /\ attempts[e] # MaxAttempts
        BY <2>1
      <4>2. attempts[e] + 1 = MaxAttempts
        BY <2>4, <4>1, AtTheBound
      <4> QED BY <2>1, <2>2, <4>2
    <3>2. TypeOK'
      BY <2>1, <2>2, <2>4, <3>1
    <3>3. DrainerInv' /\ HandlingInv' /\ ExclusiveClaim'
      BY <2>1, <2>2, <2>3, <2>4
    <3>4. StatusTellsHandling'
      BY <2>1, <2>2, <2>4
    <3>5. FailedAtTheBound'
      BY <2>1, <2>2, <2>4, <3>1
    <3> QED BY <3>2, <3>3, <3>4, <3>5
  <2>5. CASE /\ ~(attempts[e] + 1 >= MaxAttempts)
             /\ status' = [status EXCEPT ![e] = "pending"]
             /\ backoff' = backoff \cup {e}
    BY <2>1, <2>2, <2>3, <2>5
  <2> QED
    BY <1>13, <2>4, <2>5 DEF MarkFailed, LastAttempt
<1>14. ASSUME NEW d \in Drainers, MarkIsLost(d) PROVE IInv'
  BY <1>14 DEF MarkIsLost, NextEvent, Mishap
<1>15. ASSUME NEW d \in Drainers, Crash(d) PROVE IInv'
  BY <1>15 DEF Crash, Mishap
<1>16. CASE UNCHANGED vars
  BY <1>16 DEF vars
<1> QED
  BY <1>1, <1>2, <1>3, <1>4, <1>5, <1>6, <1>7, <1>8, <1>9, <1>10, <1>11, <1>12, <1>13,
     <1>14, <1>15, <1>16 DEF Next, Drain

-----------------------------------------------------------------------------

\* The invariant holds of every behaviour of the inbox.
LEMMA Invariance == Spec => []IInv
<1>1. Init => IInv
  BY InitIInv
<1>2. IInv /\ [Next]_vars => IInv'
  BY StepIInv
<1> QED
  BY <1>1, <1>2, PTL DEF Spec

\* Statuses and registers stay in range; attempts never passes MaxAttempts, however
\* often providers deliver and drainers crash.
THEOREM TypeCorrect == Spec => []TypeOK
<1>1. IInv => TypeOK
  BY DEF IInv
<1> QED
  BY <1>1, Invariance, PTL

\* ClaimPending gives an event to one drainer only, for any number of drainers.
THEOREM ClaimIsExclusive == Spec => []ExclusiveClaim
<1>1. IInv => ExclusiveClaim
  BY DEF IInv
<1> QED
  BY <1>1, Invariance, PTL

\* No event is handled twice, and the status of a settled event says whether it was.
THEOREM HandledAtMostOnce == Spec => []StatusTellsHandling
<1>1. IInv => StatusTellsHandling
  BY DEF IInv
<1> QED
  BY <1>1, Invariance, PTL

\* MarkFailed gives an event up at its last attempt, and only then.
THEOREM GivenUpAtTheBound == Spec => []FailedAtTheBound
<1>1. IInv => FailedAtTheBound
  BY DEF IInv
<1> QED
  BY <1>1, Invariance, PTL

\* No statement, late or repeated, revives an event that is processed, failed or set
\* aside: the drainers write only rows in hand, which say 'processing', and
\* MarkDuplicate only pending ones.
THEOREM SettledStaysSettled == Spec => FinalIsFinal
<1>1. ASSUME IInv, [Next]_vars, NEW e \in Events, status[e] \in Final
      PROVE  status'[e] = status[e]
  <2> USE <1>1 DEF IInv, TypeOK, Final
  <2>1. ASSUME NEW f \in Events, Insert(f) \/ InsertConflict(f) \/ MarkDuplicate(f) \/ RetryTime(f)
        PROVE  status'[e] = status[e]
    BY <2>1 DEF Insert, InsertConflict, MarkDuplicate, RetryTime, row
  <2>2. ASSUME NEW d \in Drainers, NEW f \in Events, Claim(d, f)
        PROVE  status'[e] = status[e]
    BY <2>2 DEF Claim
  <2>3. ASSUME NEW d \in Drainers, MarkProcessed(d) \/ MarkFailed(d)
        PROVE  status'[e] = status[e]
    <3>1. cur[d] \in Events /\ status[cur[d]] = "processing"
      BY <2>3 DEF MarkProcessed, MarkFailed, DrainerInv, ExclusiveClaim, Held
    <3> QED BY <2>3, <3>1 DEF MarkProcessed, MarkFailed
  <2>4. ASSUME NEW d \in Drainers,
               \/ ListCandidates(d) \/ ClaimFails(d) \/ EndClaim(d) \/ EndDrain(d)
               \/ \E f \in Events : HandleWebhook(d, f) \/ HandleFails(d, f)
               \/ MarkIsLost(d) \/ Crash(d)
        PROVE  status'[e] = status[e]
    BY <2>4 DEF ListCandidates, ClaimFails, EndClaim, EndDrain, HandleWebhook, HandleFails,
       MarkIsLost, Crash, row
  <2>5. CASE UNCHANGED vars
    BY <2>5 DEF vars, row
  <2> QED
    BY <2>1, <2>2, <2>3, <2>4, <2>5 DEF Next, Drain
<1>2. IInv /\ [Next]_vars => [\A e \in Events : status[e] \in Final => status'[e] = status[e]]_vars
  BY <1>1
<1> QED
  BY <1>2, Invariance, PTL DEF Spec, FinalIsFinal

-----------------------------------------------------------------------------
(* The inbox implements Inbox.  StatusTellsHandling rules the outcome      *)
(* "handled again" out; a step gives one event an outcome, or none.        *)

\* The outcome of an event follows from its row and the calls that succeeded.
LEMMA OutcomeUnchanged ==
    ASSUME UNCHANGED <<status, handled>>
    PROVE  Outcome' = Outcome
  BY DEF Outcome, OutcomeOf

\* Storing an event is the only way it becomes known.
LEMMA InsertIsAccept ==
    ASSUME IInv, NEW e \in Events, Insert(e)
    PROVE  Promise!Accept(e)
<1>1. status \in [Events -> Statuses] /\ handled \in [Events -> 0 .. 2]
  BY DEF IInv, TypeOK
<1>2. handled[e] = 0 /\ status[e] = "absent"
  BY DEF Insert, IInv, StatusTellsHandling
<1>3. \A f \in Events : status'[f] = IF f = e THEN "pending" ELSE status[f]
  BY <1>1 DEF Insert
<1>4. Outcome[e] = "unknown" /\ handled' = handled
  BY <1>1, <1>2 DEF Outcome, OutcomeOf, Insert
<1>5. Outcome' = [Outcome EXCEPT ![e] = "waiting"]
  BY <1>1, <1>2, <1>3, <1>4 DEF Outcome, OutcomeOf
<1> QED
  BY <1>4, <1>5 DEF Promise!Accept

\* The one call that succeeds settles the event.
LEMMA HandlingSettles ==
    ASSUME IInv, NEW d \in Drainers, NEW e \in Events, HandleWebhook(d, e)
    PROVE  Promise!Settle(e, "handled")
<1>1. status \in [Events -> Statuses] /\ handled \in [Events -> 0 .. 2]
  BY DEF IInv, TypeOK
<1>2. handled[e] = 0 /\ status[e] = "processing"
  BY DEF HandleWebhook, Take, IInv, HandlingInv, ExclusiveClaim, Held
<1>3. \A f \in Events : handled'[f] = IF f = e THEN 1 ELSE handled[f]
  BY <1>1, <1>2 DEF HandleWebhook, OneMore
<1>4. Outcome[e] = "waiting" /\ status' = status
  BY <1>1, <1>2 DEF Outcome, OutcomeOf, HandleWebhook, row
<1>5. Outcome' = [Outcome EXCEPT ![e] = "handled"]
  BY <1>1, <1>2, <1>3, <1>4 DEF Outcome, OutcomeOf
<1> QED
  BY <1>4, <1>5 DEF Promise!Settle

\* A row never handled that turns 'failed' or 'duplicate' settles the event.
LEMMA SettingAsideSettles ==
    ASSUME IInv, NEW e \in Events, NEW o \in {"failed", "duplicate"},
           status[e] \in {"pending", "processing"}, handled[e] = 0,
           status' = [status EXCEPT ![e] = o], handled' = handled
    PROVE  Promise!Settle(e, o)
<1>1. status \in [Events -> Statuses] /\ handled \in [Events -> 0 .. 2]
  BY DEF IInv, TypeOK
<1>2. Outcome[e] = "waiting"
  BY <1>1 DEF Outcome, OutcomeOf
<1>3. \A f \in Events : status'[f] = IF f = e THEN o ELSE status[f]
  BY <1>1
<1>4. Outcome' = [Outcome EXCEPT ![e] = o]
  <2>1. OutcomeOf(e)' = o
    BY <1>1, <1>3 DEF OutcomeOf
  <2>2. ASSUME NEW f \in Events, f # e PROVE OutcomeOf(f)' = OutcomeOf(f)
    BY <1>1, <1>3, <2>2 DEF OutcomeOf
  <2> QED
    BY <2>1, <2>2 DEF Outcome
<1> QED
  BY <1>2, <1>4 DEF Promise!Settle

\* Rows of an event already accepted and not settled by the step: none is revised.
LEMMA WaitingKeepsWaiting ==
    ASSUME IInv, NEW e \in Events, NEW s \in {"pending", "processing", "processed"},
           status[e] \in {"pending", "processing", "processed"},
           status' = [status EXCEPT ![e] = s], handled' = handled
    PROVE  Outcome' = Outcome
<1>1. status \in [Events -> Statuses] /\ handled \in [Events -> 0 .. 2]
  BY DEF IInv, TypeOK
<1>2. \A f \in Events : status'[f] = IF f = e THEN s ELSE status[f]
  BY <1>1
<1>3. ASSUME NEW f \in Events PROVE OutcomeOf(f)' = OutcomeOf(f)
  BY <1>1, <1>2 DEF OutcomeOf
<1> QED
  BY <1>3 DEF Outcome

LEMMA StepOfInbox ==
    ASSUME IInv, [Next]_vars
    PROVE  [Promise!Next]_Outcome
<1>1. ASSUME NEW e \in Events, Insert(e) PROVE Promise!Next
  BY <1>1, InsertIsAccept DEF Promise!Next
<1>2. ASSUME NEW e \in Events, MarkDuplicate(e) PROVE [Promise!Next]_Outcome
  <2>1. CASE status[e] = "pending"
    <3>1. Promise!Settle(e, "duplicate")
      BY <1>2, <2>1, SettingAsideSettles DEF MarkDuplicate, IInv, TypeOK, StatusTellsHandling
    <3> QED
      BY <3>1 DEF Promise!Next, Promise!Outcomes
  <2>2. CASE status[e] # "pending"
    <3>1. UNCHANGED <<status, handled>>
      BY <1>2, <2>2 DEF MarkDuplicate, IInv, TypeOK
    <3> QED
      BY <3>1, OutcomeUnchanged
  <2> QED
    BY <2>1, <2>2
<1>3. ASSUME NEW d \in Drainers, NEW e \in Events, Claim(d, e) PROVE [Promise!Next]_Outcome
  <2>1. CASE status[e] = "pending"
    BY <1>3, <2>1, WaitingKeepsWaiting DEF Claim
  <2>2. CASE status[e] # "pending"
    BY <1>3, <2>2, OutcomeUnchanged DEF Claim
  <2> QED
    BY <2>1, <2>2
<1>4. ASSUME NEW d \in Drainers, NEW e \in Events, HandleWebhook(d, e) PROVE Promise!Next
  <2>1. Promise!Settle(e, "handled")
    BY <1>4, HandlingSettles
  <2> QED
    BY <2>1 DEF Promise!Next, Promise!Outcomes
<1>5. ASSUME NEW d \in Drainers, MarkProcessed(d) \/ MarkFailed(d) PROVE [Promise!Next]_Outcome
  <2>1. cur[d] \in Events /\ status[cur[d]] = "processing"
    BY <1>5 DEF MarkProcessed, MarkFailed, IInv, TypeOK, DrainerInv, ExclusiveClaim, Held
  <2>2. CASE MarkProcessed(d)
    BY <2>1, <2>2, WaitingKeepsWaiting DEF MarkProcessed
  <2>3. CASE MarkFailed(d)
    <3>1. handled[cur[d]] = 0
      BY <2>3 DEF MarkFailed, IInv, HandlingInv
    <3>2. CASE status' = [status EXCEPT ![cur[d]] = "failed"]
      <4>1. Promise!Settle(cur[d], "failed")
        BY <2>1, <2>3, <3>1, <3>2, SettingAsideSettles DEF MarkFailed
      <4> QED
        BY <2>1, <4>1 DEF Promise!Next, Promise!Outcomes
    <3>3. CASE status' = [status EXCEPT ![cur[d]] = "pending"]
      BY <2>1, <2>3, <3>3, WaitingKeepsWaiting DEF MarkFailed
    <3> QED
      BY <2>3, <3>2, <3>3 DEF MarkFailed
  <2> QED
    BY <1>5, <2>2, <2>3
<1>6. CASE \/ UNCHANGED vars
           \/ \E e \in Events : InsertConflict(e) \/ RetryTime(e)
           \/ \E d \in Drainers :
                 \/ ListCandidates(d) \/ ClaimFails(d) \/ EndClaim(d) \/ EndDrain(d)
                 \/ \E e \in Events : HandleFails(d, e)
                 \/ MarkIsLost(d) \/ Crash(d)
  <2>1. UNCHANGED <<status, handled>>
    BY <1>6 DEF vars, row, InsertConflict, RetryTime, ListCandidates, ClaimFails, EndClaim,
       EndDrain, HandleFails, MarkIsLost, Crash
  <2> QED
    BY <2>1, OutcomeUnchanged
<1> QED
  BY <1>1, <1>2, <1>3, <1>4, <1>5, <1>6 DEF Next, Drain

\* The refinement: an event accepted has one outcome and keeps it, whatever the
\* drainers, the redeliveries and the mishaps.
THEOREM InboxIsImplemented == Spec => ImplementsInbox
<1>1. Init => Promise!Init
  BY DEF Init, Promise!Init, Outcome, OutcomeOf
<1>2. IInv /\ [Next]_vars => [Promise!Next]_Outcome
  BY StepOfInbox
<1> QED
  BY <1>1, <1>2, Invariance, PTL DEF Spec, ImplementsInbox, Promise!Spec
=============================================================================
