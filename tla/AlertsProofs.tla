----------------------------- MODULE AlertsProofs -----------------------------
(***************************************************************************)
(* Proofs about Alerts, and through it about MailOutbox, for any numbers   *)
(* of mails, pairs, attempts and mishaps and any size of the batch.        *)
(*                                                                         *)
(* The mails are an initial part of their numbers (QueueInv); the worker   *)
(* holds mails that were pending when it listed them (WorkerInv); a mail   *)
(* that may be delivered again has been paid for (PaidInv).                *)
(***************************************************************************)
EXTENDS Alerts, FiniteSetTheorems, TLAPS

\* Numbers are given in order, and a number not yet given stands for nothing.
QueueInv ==
    /\ Queued = 1 .. Cardinality(Queued)
    /\ \A m \in Mails \ Queued : about[m] = NoSubject /\ accepted[m] = 0

\* Mails the worker has listed or is at.
Held == listed \cup ({cur} \cap Mails)

WorkerInv ==
    /\ cur # NoMail <=> pc \in {"mark", "backoff"}
    /\ pc = "idle" => listed = {}
    /\ cur \notin listed
    /\ \A m \in Held : status[m] \in {"pending", "cancelled"}

\* An attempt may still come for m.
InPlay(m) == status[m] \in {"absent", "pending"} \/ m \in Held

\* The last attempt takes the mail out of play, and only a retry puts it back.
AttemptsInv ==
    \A m \in Mails :
        /\ attempts[m] <= MaxAttempts + retries
        /\ InPlay(m) => attempts[m] < MaxAttempts + retries

\* Mails delivered that may be delivered once more: listed, or pending with no UPDATE
\* to 'sent' about to come.
Exposed ==
    {m \in Mails :
        /\ accepted[m] > 0
        /\ m \in listed \/ (status[m] = "pending" /\ ~(pc = "mark" /\ cur = m))}

PaidInv == Cardinality(Extra) + Cardinality(Exposed) <= mishaps + retries

\* The mail of the pair to mark is queued.
ToMarkInv == toMark \in Reachable => MailsAbout(toMark) # {}

IInv ==
    /\ TypeOK
    /\ QueueInv
    /\ WorkerInv
    /\ AttemptsInv
    /\ MailsFailAtTheBound
    /\ IsFiniteSet(Extra)
    /\ PaidInv
    /\ ToMarkInv
    /\ AlertsAreQueuedOnce

-----------------------------------------------------------------------------
(* The steps, sorted by what they do to the outbox.                        *)

\* Nothing moves in the outbox, but for a mishap elsewhere.
Quiet ==
    /\ UNCHANGED <<table, accepted, worker, retries>>
    /\ mishaps' = mishaps \/ Mishap

LEMMA NextCases ==
    ASSUME [Next]_vars
    PROVE  \/ \E m \in Mails : Retry(m) \/ Cancel(m) \/ RetryTime(m)
           \/ DrainOnce
           \/ \E m \in Mails : Accepts(m) \/ Refuses(m) \/ Rejects(m)
           \/ MarkSent \/ ApplyBackoff \/ UpdateFails
           \/ \E x \in Pairs : Enqueue(x) /\ mishaps' = mishaps
           \/ Crash
           \/ Quiet
<1>1. CASE OutboxStep /\ UNCHANGED alerts
  BY <1>1 DEF OutboxStep, Work
<1>2. CASE UNCHANGED vars
  BY <1>2 DEF vars, outboxVars, Quiet
<1>3. CASE (\E l \in Listings : Publish(l)) \/ ScanOnce \/ MarkAlert
  BY <1>3 DEF Publish, ScanOnce, MarkAlert, outboxVars, Quiet
<1>4. CASE ScanFails
  BY <1>4 DEF ScanFails, Quiet
<1>5. ASSUME NEW x \in Pairs, Deliver(x)
      PROVE  Quiet \/ (Enqueue(x) /\ mishaps' = mishaps)
  BY <1>5 DEF Deliver, Quiet
<1> QED
  BY <1>1, <1>2, <1>3, <1>4, <1>5 DEF Next, AlertWork

\* The number of the next mail is free, and what the outbox holds is finite.
LEMMA Numbers ==
    ASSUME TypeOK, QueueInv
    PROVE  /\ IsFiniteSet(Mails) /\ IsFiniteSet(Queued)
           /\ Cardinality(Queued) \in Nat
           /\ Cardinality(Queued) + 1 \notin Queued
<1>1. IsFiniteSet(Mails)
  BY OutboxAssumption, FS_Interval DEF Mails
<1>2. IsFiniteSet(Queued) /\ Cardinality(Queued) \in Nat
  BY <1>1, FS_Subset, FS_CardinalityType DEF Queued
<1> QED
  BY <1>1, <1>2 DEF QueueInv

\* What the next mail is about, and what it leaves alone.
LEMMA EnqueueEffect ==
    ASSUME TypeOK, QueueInv, NEW x \in Pairs, Enqueue(x)
    PROVE  \E m \in Mails :
              /\ m = Cardinality(Queued) + 1
              /\ status[m] = "absent" /\ about[m] = NoSubject /\ accepted[m] = 0
              /\ status' = [status EXCEPT ![m] = "pending"]
              /\ about' = [about EXCEPT ![m] = x]
              /\ UNCHANGED <<attempts, backoff, accepted, worker, retries>>
<1>1. Cardinality(Queued) + 1 \notin Queued
  BY Numbers
<1> DEFINE m == Cardinality(Queued) + 1
<1>2. m \in Mails /\ m \notin Queued
  BY <1>1 DEF Enqueue
<1>3. status[m] = "absent" /\ about[m] = NoSubject /\ accepted[m] = 0
  BY <1>2 DEF QueueInv, Queued
<1> QED
  BY <1>2, <1>3 DEF Enqueue

-----------------------------------------------------------------------------
(* Types, numbers and the worker.                                          *)

LEMMA InitIInv == Init => IInv
<1> SUFFICES ASSUME Init PROVE IInv
  OBVIOUS
<1> USE OutboxAssumption, AlertAssumption DEF Init, OutboxInit
<1>1. TypeOK
  <2>1. 0 \in 0 .. MaxAttempts + MaxTroubles /\ 0 \in 0 .. MaxTroubles /\ 0 \in 0 .. MaxSwitches
    OBVIOUS
  <2>2. OutboxTypeOK
    BY <2>1 DEF OutboxTypeOK, Statuses, Steps
  <2> QED
    BY <2>1, <2>2 DEF TypeOK
<1>2. Queued = {} /\ Extra = {} /\ Exposed = {} /\ Held = {}
  <2>1. Queued = {} /\ Exposed = {}
    BY DEF Queued, Exposed
  <2>2. \A m \in Mails : {m} \X (2 .. accepted[m]) = {}
    BY DEF Mails
  <2>3. Extra = {}
    BY <2>2 DEF Extra
  <2>4. Held = {}
    BY DEF Held, Mails
  <2> QED
    BY <2>1, <2>3, <2>4
<1>3. Cardinality({}) = 0 /\ IsFiniteSet({})
  BY FS_EmptySet
<1>4. QueueInv
  BY <1>2, <1>3 DEF QueueInv
<1>5. WorkerInv /\ AttemptsInv /\ MailsFailAtTheBound
  BY <1>2 DEF WorkerInv, AttemptsInv, InPlay, Mails, MailsFailAtTheBound
<1>6. PaidInv /\ IsFiniteSet(Extra)
  BY <1>2, <1>3 DEF PaidInv
<1>7. \A x : MailsAbout(x) \subseteq {} \/ x = NoSubject
  BY DEF MailsAbout
<1>8. ToMarkInv
  BY DEF ToMarkInv
<1>9. AlertsAreQueuedOnce
  <2>1. ASSUME NEW x \in Pairs PROVE MailsAbout(x) = {}
    BY <1>7
  <2> QED
    BY <1>3, <2>1 DEF AlertsAreQueuedOnce
<1> QED
  BY <1>1, <1>4, <1>5, <1>6, <1>8, <1>9 DEF IInv

\* Attempts stay within those of the table and one per retry.
LEMMA StepTypeOK == IInv /\ [Next]_vars => TypeOK'
<1> SUFFICES ASSUME IInv, [Next]_vars PROVE TypeOK'
  OBVIOUS
<1> USE OutboxAssumption, AlertAssumption DEF Statuses, Steps
<1>t. TypeOK /\ QueueInv /\ WorkerInv /\ AttemptsInv
  BY DEF IInv
<1>1. OutboxTypeOK'
  <2> USE <1>t DEF TypeOK, OutboxTypeOK, table, worker
  <2>1. ASSUME NEW m \in Mails, Retry(m) \/ Cancel(m) \/ RetryTime(m) PROVE OutboxTypeOK'
    BY <2>1 DEF Retry, Cancel, RetryTime
  <2>2. CASE DrainOnce
    BY <2>2 DEF DrainOnce, OldestDue, Due
  <2>3. ASSUME NEW m \in Mails, Accepts(m) \/ Refuses(m) \/ Rejects(m) PROVE OutboxTypeOK'
    BY <2>3 DEF Accepts, Refuses, Rejects, Taken, Goes, Continue, Mishap
  <2>4. CASE MarkSent
    BY <2>4 DEF MarkSent, Continue
  <2>5. CASE ApplyBackoff
    <3>1. cur \in Mails
      BY <2>5 DEF ApplyBackoff, WorkerInv
    <3>2. attempts[cur] < MaxAttempts + retries
      BY <3>1 DEF AttemptsInv, InPlay, Held
    <3>3. attempts' \in [Mails -> 0 .. MaxAttempts + MaxTroubles]
      BY <2>5, <3>1, <3>2 DEF ApplyBackoff
    <3> QED
      BY <2>5, <3>1, <3>3 DEF ApplyBackoff, Continue
  <2>6. CASE UpdateFails
    BY <2>6 DEF UpdateFails, Continue, Mishap
  <2>7. ASSUME NEW x \in Pairs, Enqueue(x), mishaps' = mishaps PROVE OutboxTypeOK'
    BY <2>7, EnqueueEffect
  <2>8. CASE Crash
    BY <2>8 DEF Crash, WorkerDies, Mishap
  <2>9. CASE Quiet
    BY <2>9 DEF Quiet, Mishap
  <2> QED
    BY <2>1, <2>2, <2>3, <2>4, <2>5, <2>6, <2>7, <2>8, <2>9, NextCases
<1> DEFINE AlertsTypeOK ==
             /\ published \in SUBSET Listings /\ sentAlerts \in SUBSET Pairs
             /\ scanning \in BOOLEAN /\ scan \in SUBSET Pairs
             /\ toMark \in Pairs \cup {NoPair} /\ switches \in 0 .. MaxSwitches
<1>2. AlertsTypeOK'
  <2> USE <1>t DEF TypeOK
  <2>1. CASE UNCHANGED alerts
    BY <2>1 DEF alerts
  <2>2. ASSUME NEW l \in Listings, Publish(l) PROVE AlertsTypeOK'
    BY <2>2 DEF Publish
  <2>3. CASE ScanOnce \/ ScanFails \/ Crash
    BY <2>3 DEF ScanOnce, Matching, ScanFails, Crash
  <2>4. CASE MarkAlert
    BY <2>4 DEF MarkAlert, Remain
  <2>5. ASSUME NEW x \in Pairs, Deliver(x) PROVE AlertsTypeOK'
    BY <2>5 DEF Deliver, Remain
  <2> HIDE DEF AlertsTypeOK, TypeOK
  <2> QED
    BY <2>1, <2>2, <2>3, <2>4, <2>5 DEF Next, AlertWork, vars
<1> QED
  BY <1>1, <1>2 DEF TypeOK

LEMMA StepQueue == IInv /\ [Next]_vars => QueueInv'
<1> SUFFICES ASSUME IInv, [Next]_vars PROVE QueueInv'
  OBVIOUS
<1>t. TypeOK /\ QueueInv /\ WorkerInv
  BY DEF IInv
<1> USE DEF TypeOK, OutboxTypeOK, Statuses, table, worker
<1>1. ASSUME Queued' = Queued, about' = about,
             \A m \in Mails : m \notin Queued => accepted'[m] = accepted[m]
      PROVE  QueueInv'
  BY <1>t, <1>1 DEF QueueInv
<1>2. ASSUME NEW m \in Mails, Retry(m) \/ Cancel(m) \/ RetryTime(m) PROVE QueueInv'
  <2>1. Queued' = Queued /\ about' = about /\ accepted' = accepted
    BY <1>t, <1>2 DEF Retry, Cancel, RetryTime, Queued
  <2> QED
    BY <1>1, <2>1
<1>3. ASSUME NEW m \in Mails, Accepts(m) PROVE QueueInv'
  <2>1. m \in Queued
    BY <1>t, <1>3 DEF Accepts, Taken, WorkerInv, Held, Queued
  <2>2. Queued' = Queued /\ about' = about
    BY <1>3 DEF Accepts, Queued
  <2>3. \A k \in Mails : k \notin Queued => accepted'[k] = accepted[k]
    BY <1>t, <1>3, <2>1 DEF Accepts
  <2> QED
    BY <1>1, <2>2, <2>3
<1>4. CASE MarkSent \/ ApplyBackoff
  <2>1. cur \in Mails /\ status[cur] # "absent"
    BY <1>t, <1>4 DEF MarkSent, ApplyBackoff, WorkerInv, Held
  <2>2. about' = about /\ accepted' = accepted
    BY <1>4 DEF MarkSent, ApplyBackoff
  <2>3. Queued' = Queued
    BY <1>t, <1>4, <2>1 DEF MarkSent, ApplyBackoff, Queued
  <2> QED
    BY <1>1, <2>2, <2>3
<1>5. CASE UNCHANGED <<about, status, accepted>>
  BY <1>1, <1>5 DEF Queued
<1>6. ASSUME NEW x \in Pairs, Enqueue(x) PROVE QueueInv'
  <2>1. PICK m \in Mails :
              /\ m = Cardinality(Queued) + 1
              /\ status' = [status EXCEPT ![m] = "pending"]
              /\ about' = [about EXCEPT ![m] = x]
              /\ accepted' = accepted
    BY <1>t, <1>6, EnqueueEffect
  <2>2. Queued' = Queued \cup {m}
    BY <1>t, <2>1 DEF Queued
  <2>3. IsFiniteSet(Queued) /\ Cardinality(Queued) \in Nat /\ m \notin Queued
    BY <1>t, <2>1, Numbers
  <2>4. Cardinality(Queued') = Cardinality(Queued) + 1
    BY <2>2, <2>3, FS_AddElement
  <2>5. Queued = 1 .. Cardinality(Queued)
    BY <1>t DEF QueueInv
  <2>6. Queued \cup {m} = 1 .. (Cardinality(Queued) + 1)
    BY <2>1, <2>3, <2>5
  <2>7. \A k \in Mails \ Queued' : about'[k] = NoSubject /\ accepted'[k] = 0
    BY <1>t, <2>1, <2>2 DEF QueueInv
  <2> QED
    BY <2>2, <2>4, <2>6, <2>7 DEF QueueInv
<1> QED
  BY <1>2, <1>3, <1>4, <1>5, <1>6, NextCases DEF DrainOnce, Refuses, Rejects, UpdateFails, Crash,
     Quiet

\* The worker lists pending mails, and nothing but itself takes one of its mails further
\* than a cancellation.
LEMMA StepWorker == IInv /\ [Next]_vars => WorkerInv'
<1> SUFFICES ASSUME IInv, [Next]_vars PROVE WorkerInv'
  OBVIOUS
<1>t. TypeOK /\ QueueInv /\ WorkerInv
  BY DEF IInv
<1> USE OutboxAssumption, <1>t DEF TypeOK, OutboxTypeOK, table, worker, WorkerInv, Held
<1>n. NoMail \notin Mails
  BY DEF Mails
<1>1. ASSUME NEW m \in Mails, Retry(m) \/ Cancel(m) \/ RetryTime(m) PROVE WorkerInv'
  BY <1>1 DEF Retry, Cancel, RetryTime
<1>2. CASE DrainOnce
  <2>1. /\ cur = NoMail /\ cur' = cur /\ pc' = "send" /\ status' = status
        /\ listed' \subseteq Due
    BY <1>2 DEF DrainOnce, OldestDue
  <2>2. \A m \in Due : m \in Mails /\ status[m] = "pending"
    BY DEF Due
  <2> QED
    BY <1>n, <2>1, <2>2
<1>3. ASSUME NEW m \in Mails, Accepts(m) \/ Refuses(m) \/ Rejects(m) PROVE WorkerInv'
  BY <1>n, <1>3 DEF Accepts, Refuses, Rejects, Taken, Goes, Continue
<1>4. CASE MarkSent \/ ApplyBackoff
  <2>1. /\ cur \notin listed /\ cur' = NoMail /\ listed' = listed
        /\ pc' = IF listed = {} THEN "idle" ELSE "send"
    BY <1>4 DEF MarkSent, ApplyBackoff, Continue
  <2>2. \A m \in listed : status'[m] = status[m]
    BY <1>4, <2>1 DEF MarkSent, ApplyBackoff
  <2> QED
    BY <1>n, <2>1, <2>2
<1>5. CASE UpdateFails
  BY <1>n, <1>5 DEF UpdateFails, Continue
<1>6. ASSUME NEW x \in Pairs, Enqueue(x) PROVE WorkerInv'
  <2>1. PICK m \in Mails :
              /\ status[m] = "absent" /\ status' = [status EXCEPT ![m] = "pending"]
              /\ UNCHANGED worker
    BY <1>6, EnqueueEffect
  <2> QED
    BY <2>1
<1>7. CASE Crash
  BY <1>n, <1>7 DEF Crash, WorkerDies
<1>8. CASE Quiet
  BY <1>8 DEF Quiet
<1> QED
  BY <1>1, <1>2, <1>3, <1>4, <1>5, <1>6, <1>7, <1>8, NextCases

\* ApplyBackoff counts, and at the last attempt takes the mail out of play.
LEMMA StepAttempts == IInv /\ [Next]_vars => AttemptsInv'
<1> SUFFICES ASSUME IInv, [Next]_vars, NEW k \in Mails
             PROVE  /\ attempts'[k] <= MaxAttempts + retries'
                    /\ InPlay(k)' => attempts'[k] < MaxAttempts + retries'
  BY DEF AttemptsInv
<1> DEFINE Goal == /\ attempts'[k] <= MaxAttempts + retries'
                   /\ InPlay(k)' => attempts'[k] < MaxAttempts + retries'
<1>t. TypeOK /\ QueueInv /\ WorkerInv
  BY DEF IInv
<1>a. /\ attempts[k] \in Nat /\ retries \in Nat /\ MaxAttempts \in Nat \ {0}
      /\ attempts[k] <= MaxAttempts + retries
      /\ InPlay(k) => attempts[k] < MaxAttempts + retries
  BY OutboxAssumption DEF IInv, AttemptsInv, TypeOK, OutboxTypeOK
<1>n. NoMail \notin Mails
  BY OutboxAssumption DEF Mails
<1> USE <1>t DEF table, worker
<1>1. ASSUME attempts'[k] = attempts[k], retries' = retries, InPlay(k)' => InPlay(k)
      PROVE  Goal
  BY <1>1, <1>a
<1>2. ASSUME attempts'[k] = attempts[k], retries' = retries + 1
      PROVE  Goal
  BY <1>2, <1>a
<1>3. ASSUME NEW m \in Mails, Retry(m) PROVE Goal
  BY <1>2, <1>3 DEF Retry
<1>4. ASSUME NEW m \in Mails, Cancel(m) \/ RetryTime(m) PROVE Goal
  <2>1. InPlay(k)' => InPlay(k)
    BY <1>4 DEF Cancel, RetryTime, InPlay, Held, TypeOK, OutboxTypeOK
  <2> QED
    BY <1>1, <1>4, <2>1 DEF Cancel, RetryTime
<1>5. CASE DrainOnce
  <2>1. InPlay(k)' => InPlay(k)
    BY <1>5 DEF DrainOnce, OldestDue, Due, InPlay, Held, WorkerInv
  <2> QED
    BY <1>1, <1>5, <2>1 DEF DrainOnce
<1>6. ASSUME NEW m \in Mails, Accepts(m) \/ Refuses(m) \/ Rejects(m) PROVE Goal
  <2>1. /\ m \in listed /\ listed' = listed \ {m} /\ cur' \in {m, NoMail}
        /\ status' = status
    BY <1>6 DEF Accepts, Refuses, Rejects, Taken, Goes, Continue
  <2>2. InPlay(k)' => InPlay(k)
    BY <1>n, <2>1 DEF InPlay, Held
  <2> QED
    BY <1>1, <1>6, <2>2 DEF Accepts, Refuses, Rejects
<1>7. CASE MarkSent \/ UpdateFails \/ Crash \/ Quiet
  <2>1. /\ listed' \subseteq listed /\ cur' \in {cur, NoMail}
        /\ \/ status' = status
           \/ status' = [status EXCEPT ![cur] = "sent"]
    BY <1>7 DEF MarkSent, UpdateFails, Crash, Quiet, WorkerDies, Continue
  <2>2. InPlay(k)' => InPlay(k)
    BY <1>n, <2>1 DEF InPlay, Held, TypeOK, OutboxTypeOK
  <2> QED
    BY <1>1, <1>7, <2>2 DEF MarkSent, UpdateFails, Crash, Quiet
<1>8. CASE ApplyBackoff
  <2>1. /\ cur \in Mails /\ cur \notin listed /\ cur' = NoMail /\ listed' = listed
        /\ retries' = retries
        /\ attempts' = [attempts EXCEPT ![cur] = @ + 1]
        /\ status' = IF LastAttempt(cur) THEN [status EXCEPT ![cur] = "failed"] ELSE status
    BY <1>8 DEF ApplyBackoff, WorkerInv, Continue, TypeOK, OutboxTypeOK
  <2>2. NoMail \notin Mails
    BY <1>n
  <2>3. CASE k = cur
    <3>1. InPlay(k) /\ attempts'[k] = attempts[k] + 1
      BY <2>1, <2>3 DEF InPlay, Held, TypeOK, OutboxTypeOK
    <3>2. CASE LastAttempt(cur)
      <4>1. ~InPlay(k)'
        BY <2>1, <2>2, <2>3, <3>2 DEF InPlay, Held, TypeOK, OutboxTypeOK
      <4> QED
        BY <1>a, <2>1, <3>1, <4>1
    <3>3. CASE ~LastAttempt(cur)
      BY <1>a, <2>1, <2>3, <3>1, <3>3 DEF LastAttempt
    <3> QED
      BY <3>2, <3>3
  <2>4. CASE k # cur
    <3>1. attempts'[k] = attempts[k] /\ (InPlay(k)' => InPlay(k))
      BY <2>1, <2>2, <2>4 DEF InPlay, Held, TypeOK, OutboxTypeOK
    <3> QED
      BY <1>1, <2>1, <3>1
  <2> QED
    BY <2>3, <2>4
<1>9. ASSUME NEW x \in Pairs, Enqueue(x) PROVE Goal
  <2>1. PICK m \in Mails :
              /\ status[m] = "absent" /\ status' = [status EXCEPT ![m] = "pending"]
              /\ UNCHANGED <<attempts, worker, retries>>
    BY <1>9, EnqueueEffect
  <2>2. InPlay(k)' => InPlay(k)
    BY <2>1 DEF InPlay, Held, TypeOK, OutboxTypeOK
  <2> QED
    BY <1>1, <2>1, <2>2
<1> QED
  BY <1>3, <1>4, <1>5, <1>6, <1>7, <1>8, <1>9, NextCases

\* Only ApplyBackoff fails a mail, and attempts are never taken back.
LEMMA StepFailed == IInv /\ [Next]_vars => MailsFailAtTheBound'
<1> SUFFICES ASSUME IInv, [Next]_vars, NEW k \in Mails, status'[k] = "failed"
             PROVE  attempts'[k] >= MaxAttempts
  BY StepAttempts DEF AttemptsInv, MailsFailAtTheBound
<1>t. TypeOK /\ QueueInv /\ WorkerInv
  BY DEF IInv
<1>a. /\ attempts[k] \in Nat /\ MaxAttempts \in Nat
      /\ status[k] = "failed" => attempts[k] >= MaxAttempts
  BY OutboxAssumption DEF IInv, MailsFailAtTheBound, TypeOK, OutboxTypeOK
<1> USE <1>t DEF table, TypeOK, OutboxTypeOK
<1>1. ASSUME attempts'[k] = attempts[k], status[k] = "failed" PROVE attempts'[k] >= MaxAttempts
  BY <1>1, <1>a
<1>2. ASSUME NEW m \in Mails, Retry(m) \/ Cancel(m) \/ RetryTime(m)
      PROVE  attempts'[k] >= MaxAttempts
  <2>1. attempts' = attempts /\ status[k] = "failed"
    BY <1>2 DEF Retry, Cancel, RetryTime
  <2> QED
    BY <1>1, <2>1
<1>3. CASE MarkSent
  <2>1. attempts' = attempts /\ status[k] = "failed"
    BY <1>3 DEF MarkSent
  <2> QED
    BY <1>1, <2>1
<1>4. CASE ApplyBackoff
  <2>1. /\ cur \in Mails /\ attempts' = [attempts EXCEPT ![cur] = @ + 1]
        /\ status' = IF LastAttempt(cur) THEN [status EXCEPT ![cur] = "failed"] ELSE status
    BY <1>4 DEF ApplyBackoff, WorkerInv
  <2>2. CASE k = cur /\ LastAttempt(cur)
    BY <1>a, <2>1, <2>2 DEF LastAttempt
  <2>3. CASE ~(k = cur /\ LastAttempt(cur))
    <3>1. status[k] = "failed" /\ attempts'[k] \in {attempts[k], attempts[k] + 1}
      BY <2>1, <2>3
    <3> QED
      BY <1>a, <3>1
  <2> QED
    BY <2>2, <2>3
<1>5. ASSUME NEW x \in Pairs, Enqueue(x) PROVE attempts'[k] >= MaxAttempts
  <2>1. attempts' = attempts /\ status[k] = "failed"
    BY <1>5, EnqueueEffect
  <2> QED
    BY <1>1, <2>1
<1>6. ASSUME UNCHANGED <<attempts, status>> PROVE attempts'[k] >= MaxAttempts
  BY <1>1, <1>6
<1> QED
  BY <1>2, <1>3, <1>4, <1>5, <1>6, NextCases
  DEF DrainOnce, Accepts, Refuses, Rejects, UpdateFails, Crash, Quiet

-----------------------------------------------------------------------------
(* Deliveries and what pays for them.                                      *)

\* What a set that grows by at most one element, or loses one, counts.
LEMMA GrowsByOne ==
    ASSUME NEW A, NEW B, NEW e, IsFiniteSet(A), B \subseteq A \cup {e}
    PROVE  IsFiniteSet(B) /\ Cardinality(B) <= Cardinality(A) + 1
<1>1. /\ IsFiniteSet(A \cup {e}) /\ Cardinality(A) \in Nat
      /\ Cardinality(A \cup {e}) \in {Cardinality(A), Cardinality(A) + 1}
  BY FS_AddElement, FS_CardinalityType
<1>2. /\ IsFiniteSet(B) /\ Cardinality(B) <= Cardinality(A \cup {e})
      /\ Cardinality(B) \in Nat
  BY <1>1, FS_Subset, FS_CardinalityType
<1> QED
  BY <1>1, <1>2

LEMMA LosesOne ==
    ASSUME NEW A, NEW B, NEW e \in A, IsFiniteSet(A), B \subseteq A \ {e}
    PROVE  Cardinality(B) + 1 <= Cardinality(A)
<1>1. /\ IsFiniteSet(A \ {e}) /\ Cardinality(A) \in Nat
      /\ Cardinality(A \ {e}) = Cardinality(A) - 1
  BY FS_RemoveElement, FS_CardinalityType
<1>2. Cardinality(B) <= Cardinality(A \ {e}) /\ Cardinality(B) \in Nat
  BY <1>1, FS_Subset, FS_CardinalityType
<1> QED
  BY <1>1, <1>2

\* One more delivery of m is one more element of Extra, unless it is the first.
LEMMA ExtraAfter ==
    ASSUME TypeOK, NEW m \in Mails, accepted' = [accepted EXCEPT ![m] = @ + 1]
    PROVE  Extra' = IF accepted[m] = 0 THEN Extra ELSE Extra \cup {<<m, accepted[m] + 1>>}
<1> USE DEF TypeOK, OutboxTypeOK
<1>1. \A k \in Mails : accepted[k] \in Nat /\ accepted'[k] = IF k = m THEN accepted[m] + 1
                                                                     ELSE accepted[k]
  OBVIOUS
<1>2. 2 .. accepted'[m] = IF accepted[m] = 0 THEN 2 .. accepted[m]
                                              ELSE (2 .. accepted[m]) \cup {accepted[m] + 1}
  <2> DEFINE a == accepted[m]
  <2>1. a \in Nat /\ accepted'[m] = a + 1
    BY <1>1
  <2> HIDE DEF a
  <2>2. a = 0 => 2 .. (a + 1) = 2 .. a
    BY <2>1
  <2>3. a # 0 => 2 .. (a + 1) = (2 .. a) \cup {a + 1}
    BY <2>1
  <2> QED
    BY <2>1, <2>2, <2>3 DEF a
<1>3. \A k \in Mails : k # m => 2 .. accepted'[k] = 2 .. accepted[k]
  BY <1>1
<1>4. CASE accepted[m] = 0
  <2>1. \A k \in Mails : {k} \X (2 .. accepted'[k]) = {k} \X (2 .. accepted[k])
    BY <1>2, <1>3, <1>4
  <2> QED
    BY <1>4, <2>1 DEF Extra
<1>5. CASE accepted[m] # 0
  <2>1. \A k \in Mails : {k} \X (2 .. accepted'[k]) =
          IF k = m THEN ({m} \X (2 .. accepted[m])) \cup {<<m, accepted[m] + 1>>}
                   ELSE {k} \X (2 .. accepted[k])
    BY <1>2, <1>3, <1>5
  <2> QED
    BY <1>5, <2>1 DEF Extra
<1> QED
  BY <1>4, <1>5

LEMMA StepPaid == IInv /\ [Next]_vars => IsFiniteSet(Extra)' /\ PaidInv'
<1> SUFFICES ASSUME IInv, [Next]_vars PROVE IsFiniteSet(Extra)' /\ PaidInv'
  OBVIOUS
<1> DEFINE Goal == IsFiniteSet(Extra)' /\ PaidInv'
<1>t. TypeOK /\ QueueInv /\ WorkerInv
  BY DEF IInv
<1>m. TypeOK'
  BY StepTypeOK
<1>p. /\ IsFiniteSet(Extra) /\ IsFiniteSet(Exposed)
      /\ Cardinality(Extra) \in Nat /\ Cardinality(Exposed) \in Nat
      /\ mishaps \in Nat /\ retries \in Nat /\ mishaps' \in Nat /\ retries' \in Nat
      /\ Cardinality(Extra) + Cardinality(Exposed) <= mishaps + retries
  <2>1. IsFiniteSet(Mails)
    BY <1>t, Numbers
  <2>2. IsFiniteSet(Extra) /\ IsFiniteSet(Exposed)
    BY <2>1, FS_Subset DEF IInv, Exposed
  <2> QED
    BY <1>t, <1>m, <2>2, FS_CardinalityType DEF IInv, PaidInv, TypeOK, OutboxTypeOK
\* The counts after the step, as constants: the provers add primed variables badly.
<1>q. PICK mi \in Nat, re \in Nat : mi = mishaps' /\ re = retries'
  BY <1>p
<1>r. mishaps \in Nat /\ retries \in Nat
  BY <1>p
<1>s. /\ Cardinality(Extra) \in Nat /\ Cardinality(Exposed) \in Nat
      /\ Cardinality(Extra) + Cardinality(Exposed) <= mishaps + retries
  BY <1>p
<1>n. NoMail \notin Mails
  BY OutboxAssumption DEF Mails
<1>f. ASSUME IsFiniteSet(Extra'), IsFiniteSet(Exposed')
      PROVE  Cardinality(Extra') \in Nat /\ Cardinality(Exposed') \in Nat
  BY <1>f, FS_CardinalityType
\* Nothing is delivered and no mail becomes exposed.
<1>1. ASSUME Extra' = Extra, Exposed' \subseteq Exposed,
             retries' = retries, mishaps' \in {mishaps, mishaps + 1}
      PROVE  Goal
  <2>1. IsFiniteSet(Exposed') /\ Cardinality(Exposed') <= Cardinality(Exposed)
    BY <1>p, <1>1, FS_Subset
  <2>2. Cardinality(Exposed') \in Nat
    BY <1>f, <1>p, <1>1, <2>1
  <2>3. PICK x1 \in Nat : x1 = Cardinality(Exposed')
    BY <2>2
  <2>4. Cardinality(Extra) + x1 <= mi + re
    BY <1>q, <1>r, <1>s, <1>1, <2>1, <2>3
  <2> QED
    BY <1>p, <1>q, <1>1, <2>1, <2>3, <2>4 DEF PaidInv
\* A mail becomes exposed, for a mishap or a retry.
<1>2. ASSUME NEW m, Extra' = Extra, Exposed' \subseteq Exposed \cup {m},
             \/ retries' = retries /\ mishaps' = mishaps + 1
             \/ retries' = retries + 1 /\ mishaps' = mishaps
      PROVE  Goal
  <2>1. IsFiniteSet(Exposed') /\ Cardinality(Exposed') <= Cardinality(Exposed) + 1
    BY <1>p, <1>2, GrowsByOne
  <2>2. Cardinality(Exposed') \in Nat
    BY <1>f, <1>p, <1>2, <2>1
  <2>3. PICK x1 \in Nat : x1 = Cardinality(Exposed')
    BY <2>2
  <2>4. Cardinality(Extra) + x1 <= mi + re
    BY <1>q, <1>r, <1>s, <1>2, <2>1, <2>3
  <2> QED
    BY <1>p, <1>q, <1>2, <2>1, <2>3, <2>4 DEF PaidInv
\* A mail is delivered once more: it was exposed and is no longer, or there is a mishap.
<1>d. ASSUME IsFiniteSet(Extra'), IsFiniteSet(Exposed'),
              Cardinality(Extra') <= Cardinality(Extra) + 1,
              Cardinality(Exposed') <= Cardinality(Exposed), retries' = retries,
              \/ mishaps' = mishaps /\ Cardinality(Exposed') + 1 <= Cardinality(Exposed)
              \/ mishaps' = mishaps + 1
       PROVE  Goal
  <2>1. Cardinality(Extra') \in Nat /\ Cardinality(Exposed') \in Nat
    BY <1>d, <1>f
  <2>2. PICK e1 \in Nat, x1 \in Nat : e1 = Cardinality(Extra') /\ x1 = Cardinality(Exposed')
    BY <2>1
  <2>3. e1 + x1 <= mi + re
    BY <1>q, <1>r, <1>s, <1>d, <2>2
  <2> QED
    BY <1>q, <1>d, <2>2, <2>3 DEF PaidInv
<1>3. ASSUME NEW m \in Mails, Retry(m) PROVE Goal
  <2>1. Extra' = Extra
    BY <1>3 DEF Retry, Extra
  <2>2. Exposed' \subseteq Exposed \cup {m}
    BY <1>t, <1>3 DEF Retry, worker, Exposed, TypeOK, OutboxTypeOK
  <2>3. retries' = retries + 1 /\ mishaps' = mishaps
    BY <1>3 DEF Retry
  <2> QED
    BY <1>2, <2>1, <2>2, <2>3
<1>4. ASSUME NEW m \in Mails, Cancel(m) \/ RetryTime(m) PROVE Goal
  <2>1. Extra' = Extra
    BY <1>4 DEF Cancel, RetryTime, Extra
  <2>2. Exposed' \subseteq Exposed
    BY <1>t, <1>4 DEF Cancel, RetryTime, worker, Exposed, TypeOK, OutboxTypeOK
  <2>3. mishaps' = mishaps /\ retries' = retries
    BY <1>4 DEF Cancel, RetryTime
  <2> QED
    BY <1>p, <1>1, <2>1, <2>2, <2>3
<1>5. CASE DrainOnce
  <2>1. Extra' = Extra
    BY <1>5 DEF DrainOnce, Extra
  <2>2. listed' \subseteq Due /\ pc = "idle" /\ status' = status /\ accepted' = accepted
    BY <1>5 DEF DrainOnce, OldestDue, table
  <2>3. Exposed' \subseteq Exposed
    BY <2>2 DEF Due, Exposed
  <2> QED
    BY <1>p, <1>1, <1>5, <2>1, <2>3 DEF DrainOnce
<1>6. ASSUME NEW m \in Mails, Refuses(m) \/ Rejects(m) PROVE Goal
  <2>1. Extra' = Extra
    BY <1>6 DEF Refuses, Rejects, Extra
  <2>2. /\ pc = "send" /\ pc' # "mark" /\ listed' \subseteq listed
        /\ status' = status /\ accepted' = accepted
    BY <1>6 DEF Refuses, Rejects, Taken, Goes, Continue, table
  <2>3. Exposed' \subseteq Exposed
    BY <2>2 DEF Exposed
  <2>4. retries' = retries /\ mishaps' \in {mishaps, mishaps + 1}
    BY <1>6 DEF Refuses, Rejects, Mishap
  <2> QED
    BY <1>1, <2>1, <2>3, <2>4
<1>7. ASSUME NEW m \in Mails, Accepts(m) PROVE Goal
  <2>1. /\ pc = "send" /\ m \in listed /\ listed' = listed \ {m} /\ cur' = m
        /\ status' = status /\ retries' = retries
        /\ accepted' = [accepted EXCEPT ![m] = @ + 1]
        /\ \/ pc' = "mark" /\ mishaps' = mishaps
           \/ pc' = "backoff" /\ mishaps' = mishaps + 1
    BY <1>7 DEF Accepts, Taken, Goes, Mishap, table
  <2>2. accepted[m] \in Nat /\ \A k \in Mails : k # m => accepted'[k] = accepted[k]
    BY <1>t, <2>1 DEF TypeOK, OutboxTypeOK
  <2>3. Extra' = IF accepted[m] = 0 THEN Extra ELSE Extra \cup {<<m, accepted[m] + 1>>}
    BY <1>t, <2>1, ExtraAfter
  <2>4. Exposed' \subseteq Exposed \cup {m}
    BY <2>1, <2>2 DEF Exposed
  <2>5. pc' = "mark" => Exposed' \subseteq Exposed \ {m}
    BY <2>1, <2>2 DEF Exposed
  <2>6. CASE accepted[m] = 0
    <3>1. CASE pc' = "mark"
      BY <1>1, <1>p, <2>1, <2>3, <2>5, <2>6, <3>1
    <3>2. CASE pc' = "backoff"
      BY <1>2, <1>p, <2>1, <2>3, <2>4, <2>6, <3>2
    <3> QED
      BY <2>1, <3>1, <3>2
  <2>7. CASE accepted[m] # 0
    <3>1. m \in Exposed
      BY <2>1, <2>2, <2>7 DEF Exposed
    <3>2. IsFiniteSet(Extra') /\ Cardinality(Extra') <= Cardinality(Extra) + 1
      BY <1>p, <2>3, <2>7, GrowsByOne
    <3>3. IsFiniteSet(Exposed') /\ Cardinality(Exposed') <= Cardinality(Exposed)
      <4>1. Exposed' \subseteq Exposed
        BY <2>4, <3>1
      <4> QED
        BY <1>p, <4>1, FS_Subset
    <3>4. CASE pc' = "mark"
      <4>1. Cardinality(Exposed') + 1 <= Cardinality(Exposed)
        BY <1>p, <2>5, <3>1, <3>4, LosesOne
      <4> QED
        BY <1>d, <2>1, <3>2, <3>3, <3>4, <4>1
    <3>5. CASE pc' = "backoff"
      BY <1>d, <2>1, <3>2, <3>3, <3>5
    <3> QED
      BY <2>1, <3>4, <3>5
  <2> QED
    BY <2>6, <2>7
<1>8. CASE MarkSent \/ ApplyBackoff
  <2>1. Extra' = Extra
    BY <1>8 DEF MarkSent, ApplyBackoff, Extra
  <2>2. /\ cur \in Mails /\ cur \notin listed /\ cur' = NoMail /\ listed' = listed
        /\ accepted' = accepted
    BY <1>t, <1>8 DEF MarkSent, ApplyBackoff, Continue, WorkerInv, TypeOK, OutboxTypeOK
  <2>3. /\ \/ pc = "mark" /\ status' = [status EXCEPT ![cur] = "sent"]
           \/ /\ pc = "backoff"
              /\ status' \in {status, [status EXCEPT ![cur] = "failed"]}
    BY <1>8 DEF MarkSent, ApplyBackoff
  <2>4. Exposed' \subseteq Exposed
    BY <1>t, <1>n, <2>2, <2>3 DEF Exposed, TypeOK, OutboxTypeOK
  <2>5. mishaps' = mishaps /\ retries' = retries
    BY <1>8 DEF MarkSent, ApplyBackoff
  <2> QED
    BY <1>p, <1>1, <2>1, <2>4, <2>5
<1>9. CASE UpdateFails \/ Crash
  <2>1. Extra' = Extra
    BY <1>9 DEF UpdateFails, Crash, Extra
  <2>2. listed' \subseteq listed /\ status' = status /\ accepted' = accepted
    BY <1>9 DEF UpdateFails, Crash, Continue, WorkerDies, table
  <2>3. Exposed' \subseteq Exposed \cup {cur}
    BY <2>2 DEF Exposed
  <2>4. retries' = retries /\ mishaps' = mishaps + 1
    BY <1>9 DEF UpdateFails, Crash, Mishap
  <2> QED
    BY <1>2, <2>1, <2>3, <2>4
<1>10. ASSUME NEW x \in Pairs, Enqueue(x), mishaps' = mishaps PROVE Goal
  <2>1. PICK m \in Mails :
              /\ accepted[m] = 0 /\ status' = [status EXCEPT ![m] = "pending"]
              /\ UNCHANGED <<accepted, worker, retries>>
    BY <1>t, <1>10, EnqueueEffect
  <2>2. Extra' = Extra
    BY <2>1 DEF Extra
  <2>3. Exposed' \subseteq Exposed
    BY <1>t, <2>1 DEF Exposed, worker, TypeOK, OutboxTypeOK
  <2> QED
    BY <1>p, <1>1, <1>10, <2>1, <2>2, <2>3
<1>11. CASE Quiet
  <2>1. Extra' = Extra
    BY <1>11 DEF Quiet, Extra
  <2>2. Exposed' \subseteq Exposed
    BY <1>11 DEF Quiet, Exposed, table, worker
  <2>3. retries' = retries /\ mishaps' \in {mishaps, mishaps + 1}
    BY <1>11 DEF Quiet, Mishap
  <2> QED
    BY <1>1, <2>1, <2>2, <2>3
<1> QED
  BY <1>3, <1>4, <1>5, <1>6, <1>7, <1>8, <1>9, <1>10, <1>11, NextCases

-----------------------------------------------------------------------------
(* Pairs and their mails.                                                  *)

\* What a step does to the pairs: nothing, the mark is lost to a mishap, made, or comes
\* to be due, with the mail of its pair or without.
LEMMA AlertCases ==
    ASSUME TypeOK, QueueInv, [Next]_vars
    PROVE  \/ /\ UNCHANGED <<about, sentAlerts, toMark>>
              /\ mishaps' \in {mishaps, mishaps + 1}
           \/ /\ UNCHANGED <<about, sentAlerts>>
              /\ toMark' = NoPair
              /\ mishaps' = mishaps + 1
           \/ /\ UNCHANGED <<about, mishaps>>
              /\ toMark \in Pairs
              /\ sentAlerts' = sentAlerts \cup {toMark}
              /\ toMark' = NoPair
           \/ \E x \in Pairs :
                 /\ UNCHANGED <<sentAlerts, mishaps>>
                 /\ x \notin sentAlerts /\ toMark = NoPair /\ toMark' = x
                 /\ \/ x \notin Reachable /\ about' = about
                    \/ \E m \in Mails :
                          about[m] = NoSubject /\ about' = [about EXCEPT ![m] = x]
<1> USE DEF table
<1>1. CASE OutboxStep /\ UNCHANGED alerts
  <2>1. about' = about /\ mishaps' \in {mishaps, mishaps + 1}
    BY <1>1 DEF OutboxStep, Work, Retry, Cancel, RetryTime, DrainOnce, Accepts, Refuses,
                Rejects, MarkSent, ApplyBackoff, UpdateFails, Mishap
  <2> QED
    BY <1>1, <2>1 DEF alerts
<1>2. CASE UNCHANGED vars \/ \E l \in Listings : Publish(l)
  BY <1>2 DEF vars, alerts, outboxVars, Publish
<1>3. CASE ScanOnce
  BY <1>3 DEF ScanOnce, outboxVars
<1>4. CASE MarkAlert
  BY <1>4 DEF MarkAlert, outboxVars, TypeOK
<1>5. CASE ScanFails \/ Crash
  BY <1>5 DEF ScanFails, Crash, Mishap
<1>6. ASSUME NEW x \in Pairs, Deliver(x) PROVE UNCHANGED <<about, sentAlerts, toMark, mishaps>>
        \/ /\ UNCHANGED <<sentAlerts, mishaps>>
           /\ x \notin sentAlerts /\ toMark = NoPair /\ toMark' = x
           /\ \/ x \notin Reachable /\ about' = about
              \/ \E m \in Mails : about[m] = NoSubject /\ about' = [about EXCEPT ![m] = x]
  <2>1. CASE Enqueue(x)
    <3>1. \E m \in Mails : about[m] = NoSubject /\ about' = [about EXCEPT ![m] = x]
      BY <2>1, EnqueueEffect
    <3> QED
      BY <1>6, <3>1 DEF Deliver
  <2>2. CASE ~Enqueue(x)
    BY <1>6, <2>2 DEF Deliver
  <2> QED
    BY <2>1, <2>2
<1> QED
  BY <1>1, <1>2, <1>3, <1>4, <1>5, <1>6 DEF Next, AlertWork

LEMMA StepQueuedOnce == IInv /\ [Next]_vars => ToMarkInv' /\ AlertsAreQueuedOnce'
<1> SUFFICES ASSUME IInv, [Next]_vars PROVE ToMarkInv' /\ AlertsAreQueuedOnce'
  OBVIOUS
<1>t. TypeOK /\ QueueInv /\ ToMarkInv
  BY DEF IInv
<1>a. /\ NoPair \notin Pairs /\ NoSubject \notin Pairs /\ Reachable \subseteq Pairs
      /\ IsFiniteSet(Mails)
  BY <1>t, OutboxAssumption, AlertAssumption, Numbers
<1>f. \A x : IsFiniteSet(MailsAbout(x)) /\ Cardinality(MailsAbout(x)) \in Nat
  BY <1>a, FS_Subset, FS_CardinalityType DEF MailsAbout
<1>b. PICK mi \in Nat : mi = mishaps'
  BY StepTypeOK DEF TypeOK, OutboxTypeOK
<1>m. mishaps \in Nat
  BY <1>t DEF TypeOK, OutboxTypeOK
\* What AlertsAreQueuedOnce grants each pair beyond the mishaps.
<1> DEFINE Granted(x) == IF x \in sentAlerts \/ x = toMark THEN 1 ELSE 0
<1>i. /\ \A x \in Pairs : Cardinality(MailsAbout(x)) <= mishaps + Granted(x)
      /\ \A x \in sentAlerts \cap Reachable : MailsAbout(x) # {}
  BY DEF IInv, AlertsAreQueuedOnce
<1>g. ASSUME \A x \in Pairs : Cardinality(MailsAbout(x)') <= mi + Granted(x)',
             \A x \in (sentAlerts \cap Reachable)' : MailsAbout(x)' # {}
      PROVE  AlertsAreQueuedOnce'
  BY <1>b, <1>g DEF AlertsAreQueuedOnce
\* Nothing is queued, and no pair loses what it was granted without a mishap.
<1>1. ASSUME about' = about, mi \in {mishaps, mishaps + 1},
             \A x \in Pairs : mi = mishaps => Granted(x)' = 1 \/ Granted(x) = 0,
             \A x \in (sentAlerts \cap Reachable)' : MailsAbout(x) # {}
      PROVE  AlertsAreQueuedOnce'
  <2>1. \A x : MailsAbout(x)' = MailsAbout(x)
    BY <1>1 DEF MailsAbout
  <2>2. ASSUME NEW x \in Pairs PROVE Cardinality(MailsAbout(x)) <= mi + Granted(x)'
    <3>1. Granted(x) \in {0, 1} /\ Granted(x)' \in {0, 1}
      OBVIOUS
    <3>2. Cardinality(MailsAbout(x)) <= mishaps + Granted(x) /\ Cardinality(MailsAbout(x)) \in Nat
      BY <1>f, <1>i
    <3>3. mi = mishaps => Granted(x)' = 1 \/ Granted(x) = 0
      BY <1>1
    <3> HIDE DEF Granted
    <3> QED
      BY <1>1, <1>m, <3>1, <3>2, <3>3
  <2> HIDE DEF Granted
  <2> QED
    BY <1>1, <1>g, <2>1, <2>2
<1>2. CASE /\ UNCHANGED <<about, sentAlerts, toMark>>
           /\ mishaps' \in {mishaps, mishaps + 1}
  <2>1. ToMarkInv'
    BY <1>t, <1>2 DEF ToMarkInv, MailsAbout
  <2>2. \A x \in Pairs : Granted(x)' = 1 \/ Granted(x) = 0
    BY <1>2
  <2> QED
    BY <1>b, <1>i, <1>1, <1>2, <2>1, <2>2
<1>3. CASE /\ UNCHANGED <<about, sentAlerts>>
           /\ toMark' = NoPair
           /\ mishaps' = mishaps + 1
  <2>1. ToMarkInv'
    BY <1>a, <1>3 DEF ToMarkInv
  <2>2. mi = mishaps + 1 /\ mi # mishaps
    BY <1>b, <1>m, <1>3
  <2> QED
    BY <1>i, <1>1, <1>3, <2>1, <2>2
<1>4. CASE /\ UNCHANGED <<about, mishaps>>
           /\ toMark \in Pairs
           /\ sentAlerts' = sentAlerts \cup {toMark}
           /\ toMark' = NoPair
  <2>1. ToMarkInv'
    BY <1>a, <1>4 DEF ToMarkInv
  <2>2. \A x \in Pairs : Granted(x)' = 1 \/ Granted(x) = 0
    BY <1>4
  <2>3. \A x \in (sentAlerts \cap Reachable)' : MailsAbout(x) # {}
    BY <1>t, <1>i, <1>4 DEF ToMarkInv
  <2> QED
    BY <1>b, <1>1, <1>4, <2>1, <2>2, <2>3
<1>5. ASSUME NEW x \in Pairs, UNCHANGED <<sentAlerts, mishaps>>,
             x \notin sentAlerts, toMark = NoPair, toMark' = x
      PROVE  /\ \A y \in Pairs : Granted(y)' = 1 \/ Granted(y) = 0
             /\ Granted(x) = 0 /\ Granted(x)' = 1
             /\ \A y \in Pairs : y # x => Granted(y)' = Granted(y)
  BY <1>a, <1>5
<1>6. ASSUME NEW x \in Pairs, UNCHANGED <<sentAlerts, mishaps>>,
             x \notin sentAlerts, toMark = NoPair, toMark' = x,
             x \notin Reachable, about' = about
      PROVE  ToMarkInv' /\ AlertsAreQueuedOnce'
  <2>1. ToMarkInv'
    BY <1>6 DEF ToMarkInv
  <2> QED
    BY <1>b, <1>i, <1>1, <1>5, <1>6, <2>1
<1>7. ASSUME NEW x \in Pairs, UNCHANGED <<sentAlerts, mishaps>>,
             x \notin sentAlerts, toMark = NoPair, toMark' = x,
             NEW m \in Mails, about[m] = NoSubject, about' = [about EXCEPT ![m] = x]
      PROVE  ToMarkInv' /\ AlertsAreQueuedOnce'
  <2>1. \A y \in Pairs :
           MailsAbout(y)' = IF y = x THEN MailsAbout(x) \cup {m} ELSE MailsAbout(y)
    BY <1>a, <1>t, <1>7 DEF MailsAbout, TypeOK, OutboxTypeOK
  <2>2. ToMarkInv'
    <3>1. MailsAbout(x)' # {}
      BY <2>1
    <3> QED
      BY <1>7, <3>1 DEF ToMarkInv, MailsAbout
  <2>3. \A y \in (sentAlerts \cap Reachable)' : MailsAbout(y)' # {}
    BY <1>a, <1>i, <1>7, <2>1
  <2>4. ASSUME NEW y \in Pairs PROVE Cardinality(MailsAbout(y)') <= mi + Granted(y)'
    <3>1. Cardinality(MailsAbout(y)) <= mishaps + Granted(y) /\ Cardinality(MailsAbout(y)) \in Nat
      BY <1>f, <1>i
    <3>2. CASE y = x
      <4>1. Granted(x) = 0 /\ Granted(x)' = 1
        BY <1>5, <1>7
      <4>2. Cardinality(MailsAbout(x) \cup {m}) <= Cardinality(MailsAbout(x)) + 1
        BY <1>f, GrowsByOne
      <4>3. Cardinality(MailsAbout(x) \cup {m}) \in Nat
        BY <1>f, GrowsByOne, FS_CardinalityType
      <4> HIDE DEF Granted
      <4>4. Cardinality(MailsAbout(x) \cup {m}) <= mi + 1
        BY <1>b, <1>m, <1>7, <3>1, <3>2, <4>1, <4>2, <4>3
      <4> QED
        BY <2>1, <3>2, <4>1, <4>4
    <3>3. CASE y # x
      <4>1. Granted(y)' = Granted(y)
        BY <1>5, <1>7, <3>3
      <4> HIDE DEF Granted
      <4> QED
        BY <1>b, <1>7, <2>1, <3>1, <3>3, <4>1
    <3> QED
      BY <3>2, <3>3
  <2> HIDE DEF Granted
  <2> QED
    BY <1>g, <2>2, <2>3, <2>4
<1> HIDE DEF Granted
<1> QED
  BY <1>t, <1>2, <1>3, <1>4, <1>6, <1>7, AlertCases

-----------------------------------------------------------------------------
(* The theorems.                                                           *)

LEMMA Invariance == Spec => []IInv
<1>1. IInv /\ [Next]_vars => IInv'
  BY StepTypeOK, StepQueue, StepWorker, StepAttempts, StepFailed, StepPaid,
     StepQueuedOnce DEF IInv
<1> QED
  BY <1>1, InitIInv, PTL DEF Spec

\* Alerts and the outbox keep their types.
THEOREM TypeCorrect == Spec => []TypeOK
<1>1. IInv => TypeOK
  BY DEF IInv
<1> QED
  BY <1>1, Invariance, PTL

\* A mail is given up at its last attempt, neither before nor after, whatever retries,
\* cancellations and crashes come between.
THEOREM FailedAtTheLast == Spec => []MailsFailAtTheBound
<1>1. IInv => MailsFailAtTheBound
  BY DEF IInv
<1> QED
  BY <1>1, Invariance, PTL

\* No recipient gets a mail twice for nothing: whatever the batches, each delivery beyond
\* the first is paid for by a retry or by a crash, a failing UPDATE or a lost reply.
THEOREM DeliveriesPaid == Spec => []DeliveriesArePaid
<1>1. ASSUME IInv PROVE DeliveriesArePaid
  <2>1. IsFiniteSet(Extra) /\ IsFiniteSet(Exposed)
    <3>1. IsFiniteSet(Mails)
      BY <1>1, Numbers DEF IInv
    <3> QED
      BY <1>1, <3>1, FS_Subset DEF IInv, Exposed
  <2>2. Cardinality(Extra) \in Nat /\ Cardinality(Exposed) \in Nat
    BY <2>1, FS_CardinalityType
  <2>3. mishaps \in Nat /\ retries \in Nat
    BY <1>1 DEF IInv, TypeOK, OutboxTypeOK
  <2>4. Cardinality(Extra) + Cardinality(Exposed) <= mishaps + retries
    BY <1>1 DEF IInv, PaidInv
  <2> QED
    BY <2>2, <2>3, <2>4 DEF DeliveriesArePaid
<1> QED
  BY <1>1, Invariance, PTL

\* A pair is alerted once, whatever is published, withdrawn and published again, but for
\* one mail per mishap between the mail and its mark; and a mark means a mail.
THEOREM AlertsQueuedOnce == Spec => []AlertsAreQueuedOnce
<1>1. IInv => AlertsAreQueuedOnce
  BY DEF IInv
<1> QED
  BY <1>1, Invariance, PTL

\* A mail sent, given up or cancelled stays so, unless an administrator retries it or the
\* worker had the cancelled mail in hand.
THEOREM SettledStay == Spec => SettledStands
<1> DEFINE Stands(m) ==
      status[m] \in Settled /\ status'[m] # status[m] =>
          \/ retries' = retries + 1
          \/ status[m] = "cancelled" /\ m = cur
<1>1. ASSUME IInv, [Next]_vars, NEW m \in Mails PROVE Stands(m)
  <2>t. TypeOK /\ QueueInv /\ WorkerInv
    BY <1>1 DEF IInv
  <2> USE DEF table, worker
  <2>1. CASE status' = status
    BY <2>1
  <2>2. ASSUME NEW k \in Mails, Retry(k) PROVE Stands(m)
    BY <2>2 DEF Retry
  <2>3. ASSUME NEW k \in Mails, Cancel(k) PROVE Stands(m)
    BY <2>t, <2>3 DEF Cancel, Settled, TypeOK, OutboxTypeOK
  <2>4. CASE MarkSent \/ ApplyBackoff
    <3>1. cur \in Mails /\ status[cur] \in {"pending", "cancelled"}
      BY <2>t, <2>4 DEF MarkSent, ApplyBackoff, WorkerInv, Held, TypeOK, OutboxTypeOK
    <3>2. m # cur => status'[m] = status[m]
      BY <2>t, <2>4 DEF MarkSent, ApplyBackoff, TypeOK, OutboxTypeOK
    <3> QED
      BY <3>1, <3>2 DEF Settled
  <2>5. ASSUME NEW x \in Pairs, Enqueue(x) PROVE Stands(m)
    <3>1. PICK k \in Mails : status[k] = "absent" /\ status' = [status EXCEPT ![k] = "pending"]
      BY <2>t, <2>5, EnqueueEffect
    <3> QED
      BY <2>t, <3>1 DEF Settled, TypeOK, OutboxTypeOK
  <2> HIDE DEF Stands
  <2> QED
    BY <1>1, <2>1, <2>2, <2>3, <2>4, <2>5, NextCases
    DEF RetryTime, DrainOnce, Accepts, Refuses, Rejects, UpdateFails, Crash, Quiet
<1>2. IInv /\ [Next]_vars => [\A m \in Mails : Stands(m)]_outboxVars
  BY <1>1
<1> QED
  BY <1>2, Invariance, PTL DEF Spec, SettledStands
=============================================================================
