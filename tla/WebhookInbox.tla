----------------------------- MODULE WebhookInbox -----------------------------
(***************************************************************************)
(* The inbox of provider webhooks: the receiver of                         *)
(* internal/handlers/webhook_receiver.go stores an authenticated event in  *)
(* webhook_events, and the drainers of pkg/connectors/webhooks claim the   *)
(* stored events in batches and hand each to its connector.                *)
(*                                                                         *)
(* An event is named by the id the provider gave it.  Requests the         *)
(* receiver turns away (unknown provider, bad signature, no id) change     *)
(* nothing and are left out.  Every SQL statement is atomic; what the      *)
(* receiver and the drainers do between two of them interleaves.           *)
(***************************************************************************)
EXTENDS Naturals, FiniteSets

CONSTANTS
    Events,       \* event ids
    Known,        \* events whose provider has a connector in the registry
    Drainers,     \* drainers on the same table (api.go starts one per process)
    BatchSize,    \* Worker.batchSize (10)
    MaxAttempts,  \* Worker.maxAttempts (4)
    MaxMishaps,   \* bound on the crashes and failing statements of a run
    NoEvent       \* the drainer is not handling an event

ASSUME InboxAssumption ==
    /\ IsFiniteSet(Events)
    /\ Known \subseteq Events
    /\ BatchSize \in Nat \ {0}
    /\ MaxAttempts \in Nat \ {0}
    /\ MaxMishaps \in Nat
    /\ NoEvent \notin Events

VARIABLES
    status,       \* webhook_events.status, "absent" without a row
    attempts,     \* webhook_events.attempts
    receivedAt,   \* webhook_events.received_at, as a rank
    backoff,      \* pending events whose next_retry_at is still to come
    redelivered,  \* events a request found already stored and will mark
    step,         \* what each drainer does next
    candidates,   \* rows ClaimPending listed and has still to claim
    claimed,      \* events ClaimPending returned and DrainOnce has still to hand over
    cur,          \* event the drainer has handed over
    handled,      \* successful HandleWebhook calls: 0, 1, or 2 for "twice or more"
    mishaps       \* crashes and failing statements so far

row == <<status, attempts, receivedAt, backoff>>
drainer == <<step, candidates, claimed, cur>>
vars == <<row, redelivered, drainer, handled, mishaps>>

Statuses == {"absent", "pending", "processing", "processed", "failed", "duplicate"}
Final == {"processed", "failed", "duplicate"}
Steps == {"idle", "claim", "dispatch", "done", "refused"}

Init ==
    /\ status = [e \in Events |-> "absent"]
    /\ attempts = [e \in Events |-> 0]
    /\ receivedAt = [e \in Events |-> 0]
    /\ backoff = {}
    /\ redelivered = {}
    /\ step = [d \in Drainers |-> "idle"]
    /\ candidates = [d \in Drainers |-> {}]
    /\ claimed = [d \in Drainers |-> {}]
    /\ cur = [d \in Drainers |-> NoEvent]
    /\ handled = [e \in Events |-> 0]
    /\ mishaps = 0

-----------------------------------------------------------------------------
(* The receiver.                                                           *)

Stored == {e \in Events : status[e] # "absent"}

\* The first delivery of an event: Insert stores it.
Insert(e) ==
    /\ status[e] = "absent"
    /\ status' = [status EXCEPT ![e] = "pending"]
    /\ receivedAt' = [receivedAt EXCEPT ![e] = Cardinality(Stored)]
    /\ UNCHANGED <<attempts, backoff, redelivered, drainer, handled, mishaps>>

\* A later delivery: Insert hits ON CONFLICT and returns ErrDuplicate ...
InsertConflict(e) ==
    /\ status[e] # "absent"
    /\ redelivered' = redelivered \cup {e}
    /\ UNCHANGED <<row, drainer, handled, mishaps>>

\* ... and MarkDuplicate follows, in a statement of its own, on a pending row only.
MarkDuplicate(e) ==
    /\ e \in redelivered
    /\ redelivered' = redelivered \ {e}
    /\ status' = [status EXCEPT ![e] = IF @ = "pending" THEN "duplicate" ELSE @]
    /\ UNCHANGED <<attempts, receivedAt, backoff, drainer, handled, mishaps>>

\* next_retry_at passes.
RetryTime(e) ==
    /\ e \in backoff
    /\ backoff' = backoff \ {e}
    /\ UNCHANGED <<status, attempts, receivedAt, redelivered, drainer, handled, mishaps>>

-----------------------------------------------------------------------------
(* The drainers.                                                           *)

Due == {e \in Events : status[e] = "pending" /\ e \notin backoff}

\* The BatchSize due events received first.
OldestDue ==
    {e \in Due : Cardinality({f \in Due : receivedAt[f] < receivedAt[e]}) < BatchSize}

\* A crash or a statement that fails.
Mishap ==
    /\ mishaps < MaxMishaps
    /\ mishaps' = mishaps + 1

\* SELECT of ClaimPending.
ListCandidates(d) ==
    /\ step[d] = "idle"
    /\ Due # {}
    /\ candidates' = [candidates EXCEPT ![d] = OldestDue]
    /\ step' = [step EXCEPT ![d] = "claim"]
    /\ UNCHANGED <<row, redelivered, claimed, cur, handled, mishaps>>

\* Mutant: the claim trusts the SELECT.
ClaimListed(d, e) ==
    /\ step[d] = "claim"
    /\ e \in candidates[d]
    /\ candidates' = [candidates EXCEPT ![d] = @ \ {e}]
    /\ status' = [status EXCEPT ![e] = "processing"]
    /\ claimed' = [claimed EXCEPT ![d] = @ \cup {e}]
    /\ UNCHANGED <<attempts, receivedAt, backoff, redelivered, step, cur, handled, mishaps>>

\* UPDATE of ClaimPending: the row still pending is the drainer's, any other is
\* left out of the batch.
Claim(d, e) ==
    /\ step[d] = "claim"
    /\ e \in candidates[d]
    /\ candidates' = [candidates EXCEPT ![d] = @ \ {e}]
    /\ \/ /\ status[e] = "pending"
          /\ status' = [status EXCEPT ![e] = "processing"]
          /\ claimed' = [claimed EXCEPT ![d] = @ \cup {e}]
       \/ /\ status[e] # "pending"
          /\ UNCHANGED <<status, claimed>>
    /\ UNCHANGED <<attempts, receivedAt, backoff, redelivered, step, cur, handled, mishaps>>

\* The claim of one row fails: ClaimPending returns no event at all, and the rows
\* it had claimed stay 'processing'.
ClaimFails(d) ==
    /\ Mishap
    /\ step[d] = "claim"
    /\ candidates[d] # {}
    /\ candidates' = [candidates EXCEPT ![d] = {}]
    /\ claimed' = [claimed EXCEPT ![d] = {}]
    /\ step' = [step EXCEPT ![d] = "idle"]
    /\ UNCHANGED <<row, redelivered, cur, handled>>

EndClaim(d) ==
    /\ step[d] = "claim"
    /\ candidates[d] = {}
    /\ step' = [step EXCEPT ![d] = "dispatch"]
    /\ UNCHANGED <<row, redelivered, candidates, claimed, cur, handled, mishaps>>

EndDrain(d) ==
    /\ step[d] = "dispatch"
    /\ claimed[d] = {}
    /\ step' = [step EXCEPT ![d] = "idle"]
    /\ UNCHANGED <<row, redelivered, candidates, claimed, cur, handled, mishaps>>

\* DrainOnce takes the next event of its batch.
Take(d, e) ==
    /\ step[d] = "dispatch"
    /\ e \in claimed[d]
    /\ claimed' = [claimed EXCEPT ![d] = @ \ {e}]
    /\ cur' = [cur EXCEPT ![d] = e]

OneMore(count) == IF count = 0 THEN 1 ELSE 2

\* Connector.HandleWebhook returns without error.
HandleWebhook(d, e) ==
    /\ Take(d, e)
    /\ e \in Known
    /\ handled' = [handled EXCEPT ![e] = OneMore(@)]
    /\ step' = [step EXCEPT ![d] = "done"]
    /\ UNCHANGED <<row, redelivered, candidates, mishaps>>

\* HandleWebhook fails, or the provider has no connector.
HandleFails(d, e) ==
    /\ Take(d, e)
    /\ step' = [step EXCEPT ![d] = "refused"]
    /\ UNCHANGED <<row, redelivered, candidates, handled, mishaps>>

\* DrainOnce goes on with its batch.
NextEvent(d) ==
    /\ step' = [step EXCEPT ![d] = "dispatch"]
    /\ cur' = [cur EXCEPT ![d] = NoEvent]
    /\ UNCHANGED <<candidates, claimed>>

MarkProcessed(d) ==
    /\ step[d] = "done"
    /\ status' = [status EXCEPT ![cur[d]] = "processed"]
    /\ NextEvent(d)
    /\ UNCHANGED <<attempts, receivedAt, backoff, redelivered, handled, mishaps>>

\* Mutant: one attempt too many.
LastAttemptLate(n) == n > MaxAttempts

LastAttempt(n) == n >= MaxAttempts

\* Mutant: the failed attempt is not counted.
MarkFailedUncounted(d) ==
    /\ step[d] = "refused"
    /\ status' = [status EXCEPT ![cur[d]] = "pending"]
    /\ backoff' = backoff \cup {cur[d]}
    /\ NextEvent(d)
    /\ UNCHANGED <<attempts, receivedAt, redelivered, handled, mishaps>>

\* MarkFailed: the event waits for its next attempt, or has had its last one.
MarkFailed(d) ==
    LET e == cur[d]
        n == attempts[e] + 1
    IN  /\ step[d] = "refused"
        /\ attempts' = [attempts EXCEPT ![e] = n]
        /\ \/ /\ LastAttempt(n)
              /\ status' = [status EXCEPT ![e] = "failed"]
              /\ UNCHANGED backoff
           \/ /\ ~LastAttempt(n)
              /\ status' = [status EXCEPT ![e] = "pending"]
              /\ backoff' = backoff \cup {e}
        /\ NextEvent(d)
        /\ UNCHANGED <<receivedAt, redelivered, handled, mishaps>>

\* DrainOnce ignores the error of MarkProcessed and of MarkFailed.
MarkIsLost(d) ==
    /\ Mishap
    /\ step[d] \in {"done", "refused"}
    /\ NextEvent(d)
    /\ UNCHANGED <<row, redelivered, handled>>

Drain(d) ==
    \/ ListCandidates(d)
    \/ \E e \in Events : Claim(d, e)
    \/ ClaimFails(d)
    \/ EndClaim(d)
    \/ EndDrain(d)
    \/ \E e \in Events : HandleWebhook(d, e) \/ HandleFails(d, e)
    \/ MarkProcessed(d)
    \/ MarkFailed(d)
    \/ MarkIsLost(d)

-----------------------------------------------------------------------------

\* A process dies with its drainer and some of the requests being served.
Crash(d) ==
    /\ Mishap
    /\ step' = [step EXCEPT ![d] = "idle"]
    /\ candidates' = [candidates EXCEPT ![d] = {}]
    /\ claimed' = [claimed EXCEPT ![d] = {}]
    /\ cur' = [cur EXCEPT ![d] = NoEvent]
    /\ redelivered' \in SUBSET redelivered
    /\ UNCHANGED <<row, handled>>

Next ==
    \/ \E e \in Events :
          \/ Insert(e)
          \/ InsertConflict(e)
          \/ MarkDuplicate(e)
          \/ RetryTime(e)
    \/ \E d \in Drainers : Drain(d) \/ Crash(d)

Spec == Init /\ [][Next]_vars

\* RunDrainer's loop and the clock go on; providers and crashes owe nothing.
FairSpec ==
    /\ Spec
    /\ \A d \in Drainers : WF_vars(Drain(d))
    /\ \A e \in Events : WF_vars(RetryTime(e))

-----------------------------------------------------------------------------
(* Properties.                                                             *)

TypeOK ==
    /\ status \in [Events -> Statuses]
    /\ attempts \in [Events -> 0 .. MaxAttempts]
    /\ receivedAt \in [Events -> Nat]
    /\ backoff \in SUBSET Events
    /\ redelivered \in SUBSET Events
    /\ step \in [Drainers -> Steps]
    /\ candidates \in [Drainers -> SUBSET Events]
    /\ claimed \in [Drainers -> SUBSET Events]
    /\ cur \in [Drainers -> Events \cup {NoEvent}]
    /\ handled \in [Events -> 0 .. 2]
    /\ mishaps \in 0 .. MaxMishaps

\* What drainer d has claimed and not settled.
Held(d) == claimed[d] \cup ({cur[d]} \ {NoEvent})

\* ClaimPending: whatever two drainers list, no event is ever in the hands of
\* both, and the row of an event in hand says 'processing'.
ExclusiveClaim ==
    /\ \A c, d \in Drainers : c # d => Held(c) \cap Held(d) = {}
    /\ \A d \in Drainers : \A e \in Held(d) : status[e] = "processing"

\* The status tells what happened: 'processed' was handled exactly once, a row
\* that will be tried again, was given up or set aside was never handled.
StatusTellsHandling ==
    \A e \in Events :
        /\ handled[e] <= 1
        /\ status[e] = "processed" => handled[e] = 1
        /\ status[e] \in {"absent", "pending", "failed", "duplicate"} => handled[e] = 0

\* MarkFailed: an event is given up after MaxAttempts failures, no sooner and no
\* later, through any number of retries and redeliveries.
FailedAtTheBound ==
    \A e \in Events : status[e] = "failed" <=> attempts[e] = MaxAttempts

\* 'processed', 'failed' and 'duplicate' are final: no redelivery, late statement
\* or second drainer revives the event.
FinalIsFinal ==
    [][\A e \in Events : status[e] \in Final => status'[e] = status[e]]_vars

\* A row 'processing' that no drainer holds any more: its drainer died, or could not
\* write down what had happened. No query of the code selects it again.
Forgotten(e) == status[e] = "processing" /\ \A d \in Drainers : e \notin Held(d)

\* An event stored is in the end processed or given up, unless it was delivered again
\* while it waited (and set aside) or a mishap of its drainer made it forgotten.
EventSettles ==
    \A e \in Events :
        status[e] = "pending" ~>
            \/ status[e] \in Final
            \/ Forgotten(e) /\ mishaps > 0

-----------------------------------------------------------------------------
(* The inbox implements what it promises.                                  *)

\* What has become of an event, for its provider.
OutcomeOf(e) ==
    IF handled[e] = 1 THEN "handled"
    ELSE IF handled[e] > 1 THEN "handled again"
    ELSE IF status[e] = "absent" THEN "unknown"
    ELSE IF status[e] \in {"failed", "duplicate"} THEN status[e]
    ELSE "waiting"

Outcome == [e \in Events |-> OutcomeOf(e)]

Promise == INSTANCE Inbox WITH outcome <- Outcome

\* However many drainers share the table, and whatever fails or crashes, an event
\* has one outcome and keeps it.
ImplementsInbox == Promise!Spec
=============================================================================
