------------------------------ MODULE MailOutbox ------------------------------
(***************************************************************************)
(* The mail outbox (internal/mailer, the mailer.outbox actions): producers *)
(* queue mails in email_outbox, one worker sends the due ones in batches   *)
(* through a provider and writes down what became of each, and an          *)
(* administrator retries or cancels.                                       *)
(*                                                                         *)
(* Mails are numbered as they are queued, which is the order drainOnce     *)
(* lists them in (its index breaks ties of created_at by insertion). Every *)
(* SQL statement and every call of the provider is a step; what the worker *)
(* knows of a mail dates from its listing. The two backends differ in one  *)
(* thing: the SMTP one counts no attempt when the server rejects the       *)
(* recipient or the credentials. Without a backend SendNow does nothing:   *)
(* that case is left out.                                                  *)
(***************************************************************************)
EXTENDS Naturals, FiniteSets

CONSTANTS
    MaxMails,     \* bound on the mails of a run
    Subjects,     \* what a mail may be about
    Unroutable,   \* those whose recipient the SMTP server rejects
    Batch,        \* LIMIT of drainOnce (20)
    MaxAttempts,  \* attempts of applyBackoff (5: the fifth listed with 4 behind it)
    MaxTroubles,  \* bound on retries of administrators and mishaps, together
    NoMail,       \* the worker is at no mail
    NoSubject     \* the number has no mail yet

ASSUME OutboxAssumption ==
    /\ MaxMails \in Nat
    /\ Batch \in Nat \ {0}
    /\ MaxAttempts \in Nat \ {0}
    /\ MaxTroubles \in Nat
    /\ Unroutable \subseteq Subjects
    /\ NoSubject \notin Subjects
    /\ NoMail \notin Nat

VARIABLES
    about,      \* subject of each mail, NoSubject without a row
    status,     \* email_outbox.status, "absent" without a row
    attempts,   \* email_outbox.attempts
    backoff,    \* mails whose retry_after is still to come
    accepted,   \* how often the provider took each mail
    pc,         \* next step of the worker
    listed,     \* mails drainOnce has listed and still to send
    cur,        \* mail SendNow is at
    retries,    \* retries of administrators so far
    mishaps     \* crashes, failures and lost replies so far

table == <<about, status, attempts, backoff>>
worker == <<pc, listed, cur>>
outboxVars == <<table, accepted, worker, retries, mishaps>>

Mails == 1 .. MaxMails
Statuses == {"absent", "pending", "sent", "failed", "cancelled"}
Settled == {"sent", "failed", "cancelled"}
Steps == {"idle", "send", "mark", "backoff"}

OutboxInit ==
    /\ about = [m \in Mails |-> NoSubject]
    /\ status = [m \in Mails |-> "absent"]
    /\ attempts = [m \in Mails |-> 0]
    /\ backoff = {}
    /\ accepted = [m \in Mails |-> 0]
    /\ pc = "idle"
    /\ listed = {}
    /\ cur = NoMail
    /\ retries = 0
    /\ mishaps = 0

\* A crash, a statement that fails, a reply that is lost, credentials refused.
Mishap ==
    /\ mishaps + retries < MaxTroubles
    /\ mishaps' = mishaps + 1

-----------------------------------------------------------------------------
(* Producers and administrators.                                           *)

Queued == {m \in Mails : status[m] # "absent"}

\* Enqueue: the next mail is about s. The worker and the rest are left alone.
Enqueue(s) ==
    LET m == Cardinality(Queued) + 1
    IN  /\ m \in Mails
        /\ about' = [about EXCEPT ![m] = s]
        /\ status' = [status EXCEPT ![m] = "pending"]
        /\ UNCHANGED <<attempts, backoff, accepted, worker, retries>>

\* mailer.outbox.retry: whatever became of the mail, it is due again, and its
\* attempts go on from where they were.
Retry(m) ==
    /\ mishaps + retries < MaxTroubles
    /\ m \in Queued
    /\ retries' = retries + 1
    /\ status' = [status EXCEPT ![m] = "pending"]
    /\ backoff' = backoff \ {m}
    /\ UNCHANGED <<about, attempts, accepted, worker, mishaps>>

\* Mutant: the mail is cancelled whatever became of it.
CancelAnyway(m) ==
    /\ m \in Queued
    /\ status[m] # "cancelled"
    /\ status' = [status EXCEPT ![m] = "cancelled"]
    /\ UNCHANGED <<about, attempts, backoff, accepted, worker, retries, mishaps>>

\* mailer.outbox.cancel, which does not look whether the worker has listed the mail.
Cancel(m) ==
    /\ status[m] = "pending"
    /\ status' = [status EXCEPT ![m] = "cancelled"]
    /\ UNCHANGED <<about, attempts, backoff, accepted, worker, retries, mishaps>>

\* retry_after passes.
RetryTime(m) ==
    /\ m \in backoff
    /\ backoff' = backoff \ {m}
    /\ UNCHANGED <<about, status, attempts, accepted, worker, retries, mishaps>>

-----------------------------------------------------------------------------
(* The worker: drainOnce, SendNow, applyBackoff.                           *)

Due == {m \in Mails : status[m] = "pending" /\ m \notin backoff}

\* The Batch due mails queued first.
OldestDue == {m \in Due : Cardinality({k \in Due : k < m}) < Batch}

DrainOnce ==
    /\ pc = "idle"
    /\ Due # {}
    /\ listed' = OldestDue
    /\ pc' = "send"
    /\ UNCHANGED <<table, accepted, cur, retries, mishaps>>

\* The worker goes on with the rest of its batch, or waits for the next tick.
Continue(rest) ==
    /\ listed' = rest
    /\ pc' = IF rest = {} THEN "idle" ELSE "send"
    /\ cur' = NoMail

\* SendNow is at the first listed mail ...
Taken(m) ==
    /\ pc = "send"
    /\ m \in listed
    /\ \A k \in listed : m <= k

Goes(m, step) ==
    /\ listed' = listed \ {m}
    /\ pc' = step
    /\ cur' = m

\* ... which the provider accepts (the reply may be lost, or its status be an
\* error), ...
Accepts(m) ==
    /\ Taken(m)
    /\ about[m] \notin Unroutable
    /\ accepted' = [accepted EXCEPT ![m] = @ + 1]
    /\ \/ Goes(m, "mark") /\ UNCHANGED mishaps
       \/ Goes(m, "backoff") /\ Mishap
    /\ UNCHANGED <<table, retries>>

\* ... or refuses, or cannot be reached, ...
Refuses(m) ==
    /\ Taken(m)
    /\ Goes(m, "backoff")
    /\ UNCHANGED <<table, accepted, retries, mishaps>>

\* ... or the recipient is rejected, or for once the credentials: sendSMTP returns
\* without a backoff, and the mail is due again at the next tick.
Rejects(m) ==
    /\ Taken(m)
    /\ (about[m] \in Unroutable /\ UNCHANGED mishaps) \/ Mishap
    /\ Continue(listed \ {m})
    /\ UNCHANGED <<table, accepted, retries>>

\* Mutant: nothing is written.
MarkNothing ==
    /\ pc = "mark"
    /\ Continue(listed)
    /\ UNCHANGED <<table, accepted, retries, mishaps>>

\* UPDATE status='sent', whatever the row says by now.
MarkSent ==
    /\ pc = "mark"
    /\ status' = [status EXCEPT ![cur] = "sent"]
    /\ Continue(listed)
    /\ UNCHANGED <<about, attempts, backoff, accepted, retries, mishaps>>

\* Mutant: one attempt late.
LastLate(m) == attempts[m] >= MaxAttempts

\* No one but applyBackoff changes attempts: the count listed is still the row's.
LastAttempt(m) == attempts[m] + 1 >= MaxAttempts

\* Mutant: the attempt does not count.
BackoffUncounted ==
    /\ pc = "backoff"
    /\ backoff' = backoff \cup {cur}
    /\ status' = IF LastAttempt(cur) THEN [status EXCEPT ![cur] = "failed"] ELSE status
    /\ Continue(listed)
    /\ UNCHANGED <<about, attempts, accepted, retries, mishaps>>

\* applyBackoff: the attempt counts; the last one settles the mail whatever the row
\* says by now, the others leave its status as it is.
ApplyBackoff ==
    /\ pc = "backoff"
    /\ attempts' = [attempts EXCEPT ![cur] = @ + 1]
    /\ backoff' = backoff \cup {cur}
    /\ status' = IF LastAttempt(cur) THEN [status EXCEPT ![cur] = "failed"] ELSE status
    /\ Continue(listed)
    /\ UNCHANGED <<about, accepted, retries, mishaps>>

\* The UPDATE fails; its error is returned and logged, or ignored.
UpdateFails ==
    /\ Mishap
    /\ pc \in {"mark", "backoff"}
    /\ Continue(listed)
    /\ UNCHANGED <<table, accepted, retries>>

Work ==
    \/ DrainOnce
    \/ \E m \in Mails : Accepts(m) \/ Refuses(m) \/ Rejects(m)
    \/ MarkSent
    \/ ApplyBackoff
    \/ UpdateFails

\* The process dies: the worker begins anew with what the table says.
WorkerDies ==
    /\ pc' = "idle"
    /\ listed' = {}
    /\ cur' = NoMail

OutboxStep ==
    \/ \E m \in Mails : Retry(m) \/ Cancel(m) \/ RetryTime(m)
    \/ Work

-----------------------------------------------------------------------------
(* Properties.                                                             *)

OutboxTypeOK ==
    /\ about \in [Mails -> Subjects \cup {NoSubject}]
    /\ status \in [Mails -> Statuses]
    /\ attempts \in [Mails -> 0 .. MaxAttempts + MaxTroubles]
    /\ backoff \in SUBSET Mails
    /\ accepted \in [Mails -> Nat]
    /\ pc \in Steps
    /\ listed \in SUBSET Mails
    /\ cur \in Mails \cup {NoMail}
    /\ {retries, mishaps} \subseteq 0 .. MaxTroubles

\* Deliveries of a mail beyond the first, each by its rank.
Extra == UNION {{m} \X (2 .. accepted[m]) : m \in Mails}

\* Nobody gets a mail twice for nothing: every delivery beyond the first is paid for
\* by a crash, a failing UPDATE, a lost reply or the retry of an administrator, and
\* each of these by one delivery at most, whichever mails they fell on.
DeliveriesArePaid == Cardinality(Extra) <= mishaps + retries

\* applyBackoff: a mail is given up at its last attempt, neither before nor after,
\* whatever cancellations, retries and crashes come between: one attempt more for each
\* retry of an administrator, and no failure before the bound.
MailsFailAtTheBound ==
    \A m \in Mails :
        /\ attempts[m] <= MaxAttempts + retries
        /\ status[m] = "failed" => attempts[m] >= MaxAttempts

\* What became of a mail stands: only an administrator's retry reopens it, and only
\* a worker that had it in hand before overwrites a cancellation.
SettledStands ==
    [][\A m \in Mails :
        status[m] \in Settled /\ status'[m] # status[m] =>
            \/ retries' = retries + 1
            \/ status[m] = "cancelled" /\ m = cur]_outboxVars

\* Mails to rejected recipients fill every batch.
Clogged ==
    Cardinality({m \in Mails : status[m] = "pending" /\ about[m] \in Unroutable}) >= Batch

\* Every mail queued is in the end sent, given up or cancelled, however the batches
\* are filled, the provider answers and the process crashes: unless its recipient is
\* rejected, or enough mails of such recipients stand before it.
EveryMailSettles ==
    \A m \in Mails :
        status[m] = "pending" ~>
            status[m] \in Settled \/ about[m] \in Unroutable \/ Clogged
=============================================================================
