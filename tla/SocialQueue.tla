---------------------------- MODULE SocialQueue ----------------------------
(***************************************************************************)
(* The social publication queue (pkg/connectors/social): posts wait in     *)
(* social_post_queue, one worker drains it on a ticker and publishes each  *)
(* post on each of its networks, and social_post_log remembers, per post   *)
(* and network, how far the publication went.                              *)
(*                                                                         *)
(* A post is named by its idempotency key: Enqueue of a key already queued *)
(* is INSERT OR IGNORE and returns the queued post, that is, a stutter.    *)
(* Every SQL statement is atomic (one connection), so the worker's steps   *)
(* are its statements and its calls to the provider; the operator's        *)
(* reconciliation and a crash of the process may fall between any two.     *)
(***************************************************************************)
EXTENDS Naturals, FiniteSets

CONSTANTS
    Posts,        \* idempotency keys of the posts
    Networks,     \* network ids a post may target
    Registered,   \* networks with a connector wired into the worker
    ScheduledAt,  \* scheduled_at of each post, in ticks of the clock
    MaxAttempts,  \* maxAttempts of worker.go (5 there)
    DrainBatch,   \* drainBatch of worker.go (20 there)
    DbFaults,     \* whether a statement of the worker may fail
    LostReplies,  \* whether a provider may accept a post and the call still fail
    LiveReconcile, \* whether the operator may resolve a row the worker is publishing
    MaxCrashes,   \* bound on the crashes of a run
    NoPost,       \* the worker holds no post
    NoNetwork     \* the worker holds no network

ASSUME ConstantsAssumption ==
    /\ Registered \subseteq Networks
    /\ ScheduledAt \in [Posts -> Nat]
    /\ MaxAttempts \in Nat \ {0}
    /\ DrainBatch \in Nat \ {0}
    /\ DbFaults \in BOOLEAN
    /\ LostReplies \in BOOLEAN
    /\ LiveReconcile \in BOOLEAN
    /\ MaxCrashes \in Nat
    /\ NoPost \notin Posts
    /\ NoNetwork \notin Networks

VARIABLES
    state,     \* social_post_queue.state of each post, "absent" without a row
    attempts,  \* social_post_queue.attempts
    networks,  \* social_post_queue.networks
    log,       \* social_post_log: status of each (post, network), "none" without a row
    accepted,  \* how often the provider took the post: 0, 1, or 2 for "twice or more"
    now,       \* the clock DuePosts compares scheduled_at with
    pc,        \* next statement or call of the worker
    batch,     \* posts DuePosts returned and drainOnce has still to publish
    cur,       \* post publishPost works on
    todo,      \* networks of cur that its loop has still to visit
    net,       \* network of the iteration under way
    flags,     \* what publishPost has met: "unsent" is ~allSent, "orphan"
               \* hasOrphan, "failure" frankFailure
    crashes    \* crashes so far

queue == <<state, attempts, networks>>
env == <<now, crashes>>
worker == <<pc, batch, cur, todo, net, flags>>
vars == <<queue, log, accepted, env, worker>>

QueueStates == {"absent", "pending", "sent", "failed"}
LogStates == {"none", "publishing", "failed", "sent"}
Steps == {"idle", "post", "network", "claim", "publish", "success", "failure"}

Flags == {"unsent", "orphan", "failure"}

Init ==
    /\ state = [p \in Posts |-> "absent"]
    /\ attempts = [p \in Posts |-> 0]
    /\ networks = [p \in Posts |-> {}]
    /\ log = [p \in Posts |-> [n \in Networks |-> "none"]]
    /\ accepted = [p \in Posts |-> [n \in Networks |-> 0]]
    /\ now = 0
    /\ crashes = 0
    /\ pc = "idle"
    /\ batch = {}
    /\ cur = NoPost
    /\ todo = {}
    /\ net = NoNetwork
    /\ flags = {}

-----------------------------------------------------------------------------
(* Producers: the social.* actions put a post in the queue.                *)

\* Enqueue: a post without a network is refused.
Enqueue(p, nets) ==
    /\ nets # {}
    /\ state[p] = "absent"
    /\ state' = [state EXCEPT ![p] = "pending"]
    /\ networks' = [networks EXCEPT ![p] = nets]
    /\ UNCHANGED <<attempts, log, accepted, env, worker>>

\* Time passes; no post is scheduled beyond the last instant of interest.
Tick ==
    /\ \E p \in Posts : ScheduledAt[p] > now
    /\ now' = now + 1
    /\ UNCHANGED <<queue, log, accepted, crashes, worker>>

-----------------------------------------------------------------------------
(* The worker: drainOnce and publishPost.                                  *)

\* Mutant: the queue is read whatever the state of the posts.
DueWhateverState == {p \in Posts : state[p] # "absent" /\ ScheduledAt[p] <= now}

Due == {p \in Posts : state[p] = "pending" /\ ScheduledAt[p] <= now}

\* ORDER BY scheduled_at LIMIT DrainBatch: of the posts due at one instant, any
\* may be left out.
OldestDue(b) ==
    /\ b = Due \/ Cardinality(b) = DrainBatch
    /\ Cardinality(b) <= DrainBatch
    /\ \A p \in b, q \in Due \ b : ScheduledAt[p] <= ScheduledAt[q]

DuePosts ==
    /\ pc = "idle"
    /\ Due # {}
    /\ \E b \in SUBSET Due : OldestDue(b) /\ batch' = b
    /\ pc' = "post"
    /\ UNCHANGED <<queue, log, accepted, env, cur, todo, net, flags>>

\* drainOnce hands the next post of the batch to publishPost.
StartPost(p) ==
    /\ pc = "post"
    /\ p \in batch
    /\ batch' = batch \ {p}
    /\ cur' = p
    /\ todo' = networks[p]
    /\ flags' = {}
    /\ pc' = "network"
    /\ UNCHANGED <<queue, log, accepted, env, net>>

\* End of drainOnce: the worker waits for its ticker.
EndDrain ==
    /\ pc = "post"
    /\ batch = {}
    /\ pc' = "idle"
    /\ UNCHANGED <<queue, log, accepted, env, batch, cur, todo, net, flags>>

\* Mutant: an orphan is counted as a frank failure.
OrphanedAsFailed(f) == f \cup {"unsent", "failure"}

Failed(f) == f \cup {"unsent", "failure"}
Orphaned(f) == f \cup {"unsent", "orphan"}

\* Mutant: PublishStatus does not tell 'sent' from a failure.
RetriableOrSent == {"none", "failed", "sent"}

\* Statuses that allow an attempt.
Retriable == {"none", "failed"}

\* One iteration reads the status of (cur, n) and ends there: the network is
\* done, or parked, or cannot be tried.
SkipNetwork(n) ==
    /\ pc = "network"
    /\ n \in todo
    /\ \/ /\ log[cur][n] = "sent"
          /\ flags' = flags
       \/ /\ log[cur][n] = "publishing"
          /\ flags' = Orphaned(flags)
       \/ /\ log[cur][n] \in Retriable
          /\ n \notin Registered
          /\ flags' = Failed(flags)
       \/ /\ DbFaults  \* PublishStatus failed
          /\ flags' = Failed(flags)
    /\ todo' = todo \ {n}
    /\ UNCHANGED <<queue, log, accepted, env, pc, batch, cur, net>>

\* The status allows an attempt, and the network has a connector.
TryNetwork(n) ==
    /\ pc = "network"
    /\ n \in todo \cap Registered
    /\ log[cur][n] \in Retriable
    /\ net' = n
    /\ todo' = todo \ {n}
    /\ pc' = "claim"
    /\ UNCHANGED <<queue, log, accepted, env, batch, cur, flags>>

\* Every way an iteration that tried to publish ends: back to the loop.
Continue(f) ==
    /\ pc' = "network"
    /\ net' = NoNetwork
    /\ flags' = f
    /\ UNCHANGED <<batch, cur, todo>>

\* Mutant: the mark is left for after the call.
NotClaimed(status) == status

\* INSERT OR IGNORE: a row already there keeps its status.
Claimed(status) == IF status = "none" THEN "publishing" ELSE status

\* ClaimPublish puts the mark down before the provider is called.
ClaimPublish ==
    /\ pc = "claim"
    /\ log' = [log EXCEPT ![cur][net] = Claimed(@)]
    /\ pc' = "publish"
    /\ UNCHANGED <<queue, accepted, env, batch, cur, todo, net, flags>>

ClaimFails ==
    /\ DbFaults
    /\ pc = "claim"
    /\ Continue(Failed(flags))
    /\ UNCHANGED <<queue, log, accepted, env>>

OneMore(count) == IF count = 0 THEN 1 ELSE 2

\* Network.Publish: the provider takes the post and, unless the reply is lost,
\* the call succeeds ...
ProviderAccepts ==
    /\ pc = "publish"
    /\ accepted' = [accepted EXCEPT ![cur][net] = OneMore(@)]
    /\ \/ pc' = "success"
       \/ LostReplies /\ pc' = "failure"
    /\ UNCHANGED <<queue, log, env, batch, cur, todo, net, flags>>

\* ... or the provider refuses it.
ProviderRefuses ==
    /\ pc = "publish"
    /\ pc' = "failure"
    /\ UNCHANGED <<queue, log, accepted, env, batch, cur, todo, net, flags>>

\* MarkPublished: UPDATE of the row whatever its status is by now. When it
\* fails, publishPost counts a failure and the row stays as it is.
MarkPublished ==
    /\ pc = "success"
    /\ \/ /\ log' = [log EXCEPT ![cur][net] = "sent"]
          /\ Continue(flags)
       \/ /\ DbFaults
          /\ log' = log
          /\ Continue(Failed(flags))
    /\ UNCHANGED <<queue, accepted, env>>

\* MarkPublishFailed: likewise unconditional; its own failure is only logged.
MarkPublishFailed ==
    /\ pc = "failure"
    /\ \/ log' = [log EXCEPT ![cur][net] = "failed"]
       \/ DbFaults /\ log' = log
    /\ Continue(Failed(flags))
    /\ UNCHANGED <<queue, accepted, env>>

(* The last switch of publishPost, once every network has been visited.    *)
(* Its default branch is dead: a network that is not sent sets a flag.     *)

EndPost ==
    /\ pc = "network"
    /\ todo = {}
    /\ pc' = "post"
    /\ cur' = NoPost
    /\ UNCHANGED <<log, accepted, env, batch, todo, net, flags>>

Promote ==
    /\ EndPost
    /\ "unsent" \notin flags
    /\ state' = [state EXCEPT ![cur] = "sent"]
    /\ UNCHANGED <<attempts, networks>>

\* hasOrphan prevails over frankFailure: pending, and attempts does not move.
Park ==
    /\ EndPost
    /\ {"unsent", "orphan"} \subseteq flags
    /\ state' = [state EXCEPT ![cur] = "pending"]
    /\ UNCHANGED <<attempts, networks>>

FailedPlainly == "failure" \in flags /\ "orphan" \notin flags

\* Mutant: attempts are never counted.
RetryUncounted ==
    /\ EndPost
    /\ FailedPlainly
    /\ UNCHANGED queue

Retry ==
    /\ EndPost
    /\ FailedPlainly
    /\ attempts[cur] + 1 < MaxAttempts
    /\ attempts' = [attempts EXCEPT ![cur] = @ + 1]
    /\ UNCHANGED <<state, networks>>

Abandon ==
    /\ EndPost
    /\ FailedPlainly
    /\ attempts[cur] + 1 >= MaxAttempts
    /\ attempts' = [attempts EXCEPT ![cur] = @ + 1]
    /\ state' = [state EXCEPT ![cur] = "failed"]
    /\ UNCHANGED networks

\* MarkPostState failed: the post keeps its state and comes back next tick.
MarkPostStateFails ==
    /\ DbFaults
    /\ EndPost
    /\ UNCHANGED queue

WorkerStep ==
    \/ DuePosts
    \/ \E p \in Posts : StartPost(p)
    \/ EndDrain
    \/ \E n \in Networks : SkipNetwork(n) \/ TryNetwork(n)
    \/ ClaimPublish
    \/ ClaimFails
    \/ ProviderAccepts
    \/ ProviderRefuses
    \/ MarkPublished
    \/ MarkPublishFailed
    \/ Promote
    \/ Park
    \/ Retry
    \/ Abandon
    \/ MarkPostStateFails

-----------------------------------------------------------------------------
(* The operator and the process.                                           *)

\* The worker has an attempt under way on (p, n).
InFlight(p, n) == cur = p /\ net = n /\ pc \in {"publish", "success", "failure"}

\* A 'publishing' row nobody is going to settle but the operator.
Orphan(p, n) == log[p][n] = "publishing" /\ ~InFlight(p, n)

\* social.reconcile -> ResolvePublishing, on a row still 'publishing': the code
\* asks for no age, so it may even be one the worker is publishing. The operator
\* has looked at the provider first and tells what is there now.
ResolvePublishing(p, n) ==
    /\ log[p][n] = "publishing"
    /\ LiveReconcile \/ Orphan(p, n)
    /\ log' = [log EXCEPT ![p][n] = IF accepted[p][n] > 0 THEN "sent" ELSE "failed"]
    /\ UNCHANGED <<queue, accepted, env, worker>>

\* The process dies and restarts: tables and provider keep what they have, the
\* worker begins a new drain.
Crash ==
    /\ crashes < MaxCrashes
    /\ pc # "idle"
    /\ crashes' = crashes + 1
    /\ pc' = "idle"
    /\ batch' = {}
    /\ cur' = NoPost
    /\ todo' = {}
    /\ net' = NoNetwork
    /\ flags' = {}
    /\ UNCHANGED <<queue, log, accepted, now>>

Next ==
    \/ \E p \in Posts, nets \in SUBSET Networks : Enqueue(p, nets)
    \/ Tick
    \/ WorkerStep
    \/ \E p \in Posts, n \in Networks : ResolvePublishing(p, n)
    \/ Crash

Spec == Init /\ [][Next]_vars

\* The goroutine of Run keeps running and the clock keeps moving; producers,
\* the operator and crashes owe nothing.
FairSpec == Spec /\ WF_vars(WorkerStep) /\ WF_vars(Tick)

-----------------------------------------------------------------------------
(* Properties.                                                             *)

TypeOK ==
    /\ state \in [Posts -> QueueStates]
    /\ attempts \in [Posts -> 0 .. MaxAttempts]
    /\ networks \in [Posts -> SUBSET Networks]
    /\ log \in [Posts -> [Networks -> LogStates]]
    /\ accepted \in [Posts -> [Networks -> 0 .. 2]]
    /\ now \in Nat
    /\ crashes \in 0 .. MaxCrashes
    /\ pc \in Steps
    /\ batch \in SUBSET Posts
    /\ cur \in Posts \cup {NoPost}
    /\ todo \in SUBSET Networks
    /\ net \in Networks \cup {NoNetwork}
    /\ flags \in SUBSET Flags

\* The mark goes down before the call and locks the row: nothing has reached a
\* provider without a row, and a row whose outcome is unknown ('publishing')
\* stands for one delivery at most, whatever crashed or was lost meanwhile.
MarkedBeforeDelivery ==
    \A p \in Posts, n \in Networks :
        /\ log[p][n] = "none" => accepted[p][n] = 0
        /\ log[p][n] = "publishing" => accepted[p][n] <= 1

\* A post promoted to 'sent' is journalled 'sent' on every one of its networks,
\* and the provider of each really has it.
SentMeansDelivered ==
    \A p \in Posts :
        state[p] = "sent" =>
            \A n \in networks[p] : log[p][n] = "sent" /\ accepted[p][n] > 0

\* Invariant C2 of worker.go: a post is never given up while one of its rows is
\* still 'publishing', for that publication may already be live.
NoAbandonWithOrphan ==
    \A p \in Posts :
        state[p] = "failed" => \A n \in Networks : log[p][n] # "publishing"

\* ResolvePublishing: 'sent' is a definitive lock; no later step reopens it.  True
\* as long as no reply is lost: MarkPublishFailed does not look at the row.
SentIsFinal ==
    [][\A p \in Posts, n \in Networks : log[p][n] = "sent" => log'[p][n] = "sent"]_vars

\* publishPost announces at-most-once. It is not quite so: ClaimPublish leaves the
\* row of an earlier failure 'failed', and a crash during the retry repeats it. But
\* a crash costs one double publication at most, and nothing else costs any.
CrashesPayForDoubles ==
    Cardinality({pn \in Posts \X Networks : accepted[pn[1]][pn[2]] > 1}) <= crashes

\* Posts left pending over an orphan row, until the operator reconciles.
Parked == {p \in Posts : state[p] = "pending" /\ \E n \in Networks : Orphan(p, n)}

\* No silent abandon, no starvation: a queued post ends 'sent' or 'failed', or is
\* parked itself, or waits behind parked posts that fill the batch of DuePosts.
QueuedPostSettles ==
    \A p \in Posts :
        state[p] = "pending" ~>
            \/ state[p] \in {"sent", "failed"}
            \/ p \in Parked
            \/ Cardinality({q \in Parked : ScheduledAt[q] <= ScheduledAt[p]}) >= DrainBatch

-----------------------------------------------------------------------------
(* The queue implements what it promises.                                  *)

Live == {pn \in Posts \X Networks : accepted[pn[1]][pn[2]] > 0}

Promise == INSTANCE Publication WITH live <- Live

\* Statement by statement, with crashes, lost replies and failing statements, the
\* worker does nothing the promise forbids.
ImplementsPublication == Promise!Spec
=============================================================================
