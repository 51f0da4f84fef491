-------------------------------- MODULE Alerts --------------------------------
(***************************************************************************)
(* The worker of cmd/yachts/alerts.go, which alerts the owners of saved    *)
(* searches to the listings they match, composed with the outbox that      *)
(* delivers its mails: from a published listing to a mailbox.              *)
(*                                                                         *)
(* Each scan reads the published listings, the Limit newest of them only,  *)
(* and for each matching pair reads sent_alerts, queues a mail and marks   *)
(* the pair.  Nobody else writes sent_alerts, so that reading it and       *)
(* queueing are one step; queueing and marking are two.                    *)
(*                                                                         *)
(* Listings are numbered as they were created, which is the order of the   *)
(* search (created_at, then an id that grows); publishing one again does   *)
(* not renew it.                                                           *)
(***************************************************************************)
EXTENDS MailOutbox

CONSTANTS
    Listings,    \* the listings of the silo, matching or not
    Limit,       \* LIMIT of scanOnce's search (1000)
    Pairs,       \* <<listing, saved search>> that match, by name
    ListingOf,   \* the listing of each pair
    Reachable,   \* pairs whose owner has an address
    MaxSwitches, \* bound on the listings published or withdrawn
    NoPair       \* no pair waits for its mark

ASSUME AlertAssumption ==
    /\ Listings \subseteq Nat
    /\ Limit \in Nat \ {0}
    /\ ListingOf \in [Pairs -> Listings]
    /\ Reachable \subseteq Pairs
    /\ Subjects = Pairs
    /\ MaxSwitches \in Nat
    /\ NoPair \notin Pairs

VARIABLES
    published,   \* listings published and not hidden
    sentAlerts,  \* sent_alerts
    scanning,    \* the alert worker is in scanOnce
    scan,        \* pairs of the scan still to deliver
    toMark,      \* pair whose mail is queued, or needs none, and not yet marked
    switches     \* listings published or withdrawn so far

alerts == <<published, sentAlerts, scanning, scan, toMark, switches>>
vars == <<outboxVars, alerts>>

Init ==
    /\ OutboxInit
    /\ published = {}
    /\ sentAlerts = {}
    /\ scanning = FALSE
    /\ scan = {}
    /\ toMark = NoPair
    /\ switches = 0

-----------------------------------------------------------------------------

\* A listing is published, or withdrawn.
Publish(l) ==
    /\ switches < MaxSwitches
    /\ switches' = switches + 1
    /\ published' = IF l \in published THEN published \ {l} ELSE published \cup {l}
    /\ UNCHANGED <<sentAlerts, scanning, scan, toMark, outboxVars>>

\* Search: the Limit published listings created last.
Latest == {l \in published : Cardinality({k \in published : k > l}) < Limit}

\* MatchingSavedSearches, of each listing in S.
Matching(S) == {x \in Pairs : ListingOf[x] \in S}

\* Mutant: the Limit newest listings are taken before the published ones are.
ScanUnfiltered ==
    LET newest == {l \in published : Cardinality({k \in Listings : k > l}) < Limit}
    IN  /\ ~scanning
        /\ Matching(newest) # {}
        /\ scanning' = TRUE
        /\ scan' = Matching(newest)
        /\ UNCHANGED <<published, sentAlerts, toMark, switches, outboxVars>>

\* scanOnce, up to its first delivery. A scan without a match changes nothing.
ScanOnce ==
    /\ ~scanning
    /\ Matching(Latest) # {}
    /\ scanning' = TRUE
    /\ scan' = Matching(Latest)
    /\ UNCHANGED <<published, sentAlerts, toMark, switches, outboxVars>>

\* The scan is over when nothing is left to deliver.
Remain(S) ==
    /\ scan' = S
    /\ scanning' = (S # {})

\* Mutant: the pair is not looked up.
DeliverAnyway(x) ==
    /\ x \in scan
    /\ toMark = NoPair
    /\ \/ x \in Reachable /\ Enqueue(x)
       \/ x \notin Reachable /\ UNCHANGED <<table, accepted, worker, retries>>
    /\ toMark' = x
    /\ scan' = scan \ {x}
    /\ UNCHANGED <<mishaps, published, sentAlerts, scanning, switches>>

\* deliver: a pair already alerted is left out; for another a mail is queued, if its
\* owner has an address.
Deliver(x) ==
    /\ x \in scan
    /\ toMark = NoPair
    /\ \/ /\ x \in sentAlerts
          /\ Remain(scan \ {x})
          /\ UNCHANGED <<toMark, table, accepted, worker, retries>>
       \/ /\ x \notin sentAlerts
          /\ toMark' = x
          /\ scan' = scan \ {x}
          /\ UNCHANGED scanning
          /\ \/ x \in Reachable /\ Enqueue(x)
             \/ x \notin Reachable /\ UNCHANGED <<table, accepted, worker, retries>>
    /\ UNCHANGED <<mishaps, published, sentAlerts, switches>>

\* markSent, and deliver returns.
MarkAlert ==
    /\ toMark # NoPair
    /\ sentAlerts' = sentAlerts \cup {toMark}
    /\ toMark' = NoPair
    /\ Remain(scan)
    /\ UNCHANGED <<published, switches, outboxVars>>

\* A statement fails: scanOnce returns, the rest of the scan is for the next one.
ScanFails ==
    /\ Mishap
    /\ scanning
    /\ scanning' = FALSE
    /\ scan' = {}
    /\ toMark' = NoPair
    /\ UNCHANGED <<published, sentAlerts, switches, table, accepted, worker, retries>>

AlertWork ==
    \/ ScanOnce
    \/ \E x \in Pairs : Deliver(x)
    \/ MarkAlert
    \/ ScanFails

\* The process dies with its workers.
Crash ==
    /\ Mishap
    /\ WorkerDies
    /\ scanning' = FALSE
    /\ scan' = {}
    /\ toMark' = NoPair
    /\ UNCHANGED <<table, accepted, retries, published, sentAlerts, switches>>

Next ==
    \/ OutboxStep /\ UNCHANGED alerts
    \/ \E l \in Listings : Publish(l)
    \/ AlertWork
    \/ Crash

Spec == Init /\ [][Next]_vars

\* The goroutines of RunWorker and of run go on, and so does the clock; the
\* administrators and the sellers owe nothing.
FairSpec ==
    /\ Spec
    /\ WF_vars(Work /\ UNCHANGED alerts)
    /\ \A m \in Mails : WF_vars(RetryTime(m) /\ UNCHANGED alerts)
    /\ WF_vars(AlertWork)

-----------------------------------------------------------------------------
(* Properties.                                                             *)

TypeOK ==
    /\ OutboxTypeOK
    /\ published \in SUBSET Listings
    /\ sentAlerts \in SUBSET Pairs
    /\ scanning \in BOOLEAN
    /\ scan \in SUBSET Pairs
    /\ toMark \in Pairs \cup {NoPair}
    /\ switches \in 0 .. MaxSwitches

MailsAbout(x) == {m \in Mails : about[m] = x}

\* alerts.go: 'une re-publication ou un re-run ne ré-envoie jamais'. A pair is alerted
\* once, but for one more mail per crash or failure between the mail and the mark;
\* and a pair marked has its mail, unless its owner has no address.
AlertsAreQueuedOnce ==
    /\ \A x \in Pairs :
          Cardinality(MailsAbout(x))
              <= mishaps + (IF x \in sentAlerts \/ x = toMark THEN 1 ELSE 0)
    /\ \A x \in sentAlerts \cap Reachable : MailsAbout(x) # {}

\* From the listing to the mailbox: a pair whose listing stays published, and among
\* the Limit newest published ones, which is all that scanOnce searches, is alerted, and
\* the mail about it sent, given up or cancelled, or held up by rejected recipients.
AlertArrives ==
    \A x \in Reachable \ Unroutable :
        ListingOf[x] \in Latest ~>
            \/ ListingOf[x] \notin Latest
            \/ /\ x \in sentAlerts
               /\ Clogged \/ \E m \in MailsAbout(x) : status[m] \in Settled
===============================================================================
