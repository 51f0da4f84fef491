# Formal models of assokit

assokit is a Go application for associations: one process, an HTTP server, one
SQLite database, and a few background workers.  This directory holds TLA+ models
of the parts where several requests, workers, crashes or retries meet, the TLC
configurations that check them on small instances, and proofs checked by TLAPS.
`PROJECT.json` lists every component, run, hazard, mutant and theorem, and maps
each definition to the lines it translates.

## 1. Inventory

What all the models share.  A process opens SQLite with `SetMaxOpenConns(1)`
(`pkg/api/db.go`), so a statement or a transaction is atomic, and two statements
outside a transaction are not: other requests run between them.  Almost every
hard behaviour of this code is of that shape: *check, then act, in two
statements*, or *call the outside world between two statements*.  A request may
be cancelled and a process may die between any two of them.

| part | state | operations | what is hard | what makes it correct |
|---|---|---|---|---|
| **social queue** `pkg/connectors/social` | `social_post_queue`, `social_post_log`, the worker's position | enqueue; drain: claim, publish, mark, per network; promote, park, retry, abandon; reconcile by an operator | a provider call between two statements; crash and retry; three outcomes per network folded into one of the post; an operator in the middle | marked before delivered; `sent` means delivered everywhere; not abandoned while in doubt; settles in the end |
| **webhook inbox** `pkg/connectors/webhooks`, receiver in `internal/handlers` | `webhook_events`, each drainer's batch | receive, redeliver; list, claim, handle, mark, retry | redelivery at any time; two drainers; a failing mark after a successful call | one holder; handled once at most; given up exactly at the bound; final statuses are final |
| **votes and records** `pkg/governance` `vote.go`, `register.go` | `resolutions`, `votes`, `deliberations`, `minutes` | open, vote, close, consign, draw up minutes; account deletion | four check-then-insert sequences over append-only tables, where a mistake can never be corrected | votes kept; register backed by votes; late votes bounded; minutes quote the register and miss nothing |
| **convocation, mandates, quorum** `pkg/governance` `store.go`, `presence.go`, `pkg/membership` | `assemblies`, `convocations`, `mandates`, `attendance`, `memberships` | create, convoke, record a mandate, sign, count | recipients read before the transaction that traces them; mails after it; a count over three statements | complete traces; no mail without a trace; mandates bind members; nobody counted twice |
| **grades and permissions** `pkg/rbac` | four tables of grades, `user_effective_permissions` (L2), the L1 cache | assign, grant, inherit and their inverses, delete a grade; recompute; `Can` | L2 is recomputed user by user by many statements; L1 is filled while it is being recomputed | no cyclic inheritance; nobody forgotten by a recomputation; L1 agrees with L2 |
| **mail outbox** `internal/mailer` | `email_outbox`, the worker's batch | enqueue, drain, send, back off; retry and cancel by an administrator | crash between the provider's answer and the mark; unconditional updates that meet a cancellation | given up at the last attempt; extra deliveries paid for by a mishap or a retry; outcomes stand; mails settle |
| **alerts** `cmd/yachts/alerts.go` | `sent_alerts`, the scan | scan, queue a mail, mark | mail queued and pair marked by two statements, over an outbox that retries; a scan that sees the 1000 newest published listings only | one mail per pair; the alert of a listing the scan sees arrives |
| **salons' transcripts** `internal/transcription`, `cmd/transcriber`, `pkg/transcript` | transcripts, the map of running bots, one directory of recordings | room events start and end bots; a batch reads what they left | a check of the map released before the spawn; one manifest path and one file per speaker for all bots | one bot per room; each transcript from its own recording, kept until then; every transcript settles |
| **members' requests** `pkg/demande`, `pkg/convention`, `pkg/profilrequest` | demandes, conventions, profile requests | submit, refuse, convert, grant, withdraw | a handler decides on what it read; the effect and the statut are two statements | one effect per request; no decision without its effect |
| **OAuth 2.1 provider** `pkg/oauth`, `internal/oauth` | clients, requests, codes, rows of tokens | consent, exchange, rotate, revoke, purge | a library calls the storage one statement at a time; two exchanges of one grant; a purge in the middle | one live row per grant; a grant lives until it is revoked, and not after |
| **links to accounts** `signup.go`, `login_magic_link.go`, `password_reset.go`, `pkg/identity` | accounts, three tables of links | create and delete accounts, issue links, click | two clicks on one link; accounts of one address in two spellings; an account deleted under a click | a sign-in link serves once, for its account, and is not used up in vain |
| connectors, vault, donations | `connectors`, credentials, `donations` | start, stop, ping; record a payment | payment notifications out of order | a refund is not undone |
| listings, forum, pages, handlers, horui ... | one table each | one statement each, mostly | a few check-then-insert pairs | see `PROJECT.json` |

How they interact.  The receiver fills the inbox and the drainer calls a
*connector*; room events reach the transcription launcher that way.  The alert
worker queues mails in the outbox: the two share a table and are composed.
`pkg/governance` reads memberships and leaves its mails to the outbox; every
handler asks `rbac.Service.Can`; a deleted account removes by cascade the votes,
mandates, attendance, traces, links and tokens that the models are about (those
that care model it).  Otherwise the modelled parts share no table, which is why
they are separate modules.

## 2. The models

Each component has one module with its state, actions and properties, an `MC`
module that gives TLC its instances, and proofs.  Two modules of proofs are each
about two components that are read together: the grades and the requests that end
in one, the tokens and the links that let in to an account.  To be extended by one
module, `MemberRequests` and `AccountLinks` name their specifications
`RequestsSpec` and `LinksSpec` where the others say `Spec`, and so for `Init`,
`Next`, `TypeOK` and `vars`.  Actions are the statements of the code, in its order; every failure path
that leaves a statement undone is an action or a disjunct.  Comments beginning
"Mutant:" mark variants of a definition with a plausible bug; they are used to
see that each property can fail, and no specification refers to them.

| module | abstraction or composition | instances | proofs |
|---|---|---|---|
| `SocialQueue` | implements `Publication` | `MCSocialQueue` | `SocialQueueProofs` |
| `WebhookInbox` | implements `Inbox` | `MCWebhookInbox` | `WebhookInboxProofs` |
| `AssemblyVote` | | `MCAssemblyVote` | `AssemblyVoteProofs` |
| `AssemblyPresence` | | `MCAssemblyPresence` | `AssemblyPresenceProofs` |
| `Rbac` | | `MCRbac` | `GradesProofs` |
| `MailOutbox` | extended by `Alerts` | `MCAlerts` | `AlertsProofs` |
| `Transcription` | | `MCTranscription` | `TranscriptionProofs` |
| `MemberRequests` | | `MCMemberRequests` | `GradesProofs` |
| `OAuthTokens` | | `MCOAuthTokens` | `AccessProofs` |
| `AccountLinks` | | `MCAccountLinks` | `AccessProofs` |

### SocialQueue and Publication

State: `state`, `attempts`, `networks` of a post; `log[p][n]`, its journal row on
a network; `accepted[p][n]`, what the provider really did; the worker's `pc`,
`cur`, `net`, `todo`, `flags`; the clock.  `flags` holds what `publishPost`
accumulates (`hasOrphan`, `frankFailure`, not yet sent).

| action | code |
|---|---|
| `Enqueue`, `Tick` | `Store.Enqueue`; time passing `scheduled_at` |
| `DuePosts`, `StartPost`, `EndDrain` | `DuePosts`, the loop of `drainOnce`, `Run` |
| `SkipNetwork`, `TryNetwork` | the branches of `publishPost` before the claim |
| `ClaimPublish`, `ClaimFails` | `ClaimPublish`, `INSERT OR IGNORE` included |
| `ProviderAccepts`, `ProviderRefuses` | `Network.Publish`; a reply may be lost |
| `MarkPublished`, `MarkPublishFailed` | the two marks, which may fail |
| `EndPost`, `Promote`, `Park`, `Retry`, `Abandon` | the aggregate at the end of `publishPost` |
| `ResolvePublishing`, `Crash` | `social.reconcile`; the death of the worker |

`Publication` is what the producer of a post is promised: a post goes live on
networks it was meant for and no other, is complete only when live on all of
them, and is left alone once it is out of the queue.  The refinement mapping
takes `state` and `networks` as they are and `live <- Live`, the pairs a provider
has accepted at least once.

### WebhookInbox and Inbox

State: the row of each event (`status`, `attempts`, `receivedAt` as a rank,
`backoff` while `next_retry_at` is to come), requests between `Insert` and
`MarkDuplicate` (`redelivered`), and each drainer's list, batch and event in
hand.  `handled` counts successful calls of the connector.  One process starts
one drainer; two drainers stand for two processes on one database, which the
comments of `store.go` provide for.

`Inbox` promises the provider one outcome per event, never revised: handled,
given up, or set aside as a duplicate.  The mapping is `outcome <- Outcome`; a
call that succeeded is an outcome before its mark is written, so that a mark
that fails is a stutter and a second call would be a second outcome.

### AssemblyVote and AssemblyPresence

A request is a little process whose `stage` names its next statement and whose
other variables are the Go locals it carries from one statement to the next:
the tally read before the INSERT of the register, the register read before the
INSERT of the minutes, the recipients listed before the convocation's
transaction, the eligible members of a quorum.  Unique constraints of the
migrations are guards of the inserting actions (`INSERT` refused means the
request ends).  `DeleteAccount` is `deleteUserRGPD` with its cascades.
`membership` in `AssemblyPresence` separates "current" from "active by status
but out of its period", because `ListAll` and `CurrentStatus` differ on it.

### Rbac

State: the four tables, `effective` (L2), the cache (`ver`, `entries`, `size`),
the mutation each administrator is in (`job`) and the `Can` each reader is in
(`can`).  `Reach(g, R)` is what the recursive queries compute, stated as a least
closed set.  A mutation is its statement in the store, then
`GradeDescendants` and `GradeUsers` (for grades), then for each user
`UserGrades`, `GradeAncestors`, `GradePermissions`, `WriteEffective`,
`BumpVersion`, `Invalidate`, `Uncount`.  `Can` is `CanMisses`, `LoadEffective`,
`CheckSize`, `StampEntry`, `SwapEntry`, `CountEntry`; a hit changes nothing.
Three ghosts: `overtaken`, the administrators in the middle of a Recompute whose user
another's mutation concerns (`Begins`); `neglected`, the users that a failed call or
`DeleteGrade` left without a recomputation, or whose last one had been overtaken; and
`readAt`, the version when an entry's content was read.  `Asked` bounds the users
`Can` is asked about.

### MailOutbox and Alerts

`MailOutbox` numbers mails as they are queued, which is the order `drainOnce`
lists them in.  Per mail: `status`, `attempts`, whether it backs off, and
`accepted`, how often the provider took it; of the worker, its batch and its next
statement.  `DrainOnce`, `Accepts`/`Refuses`/`Rejects`, `MarkSent`,
`ApplyBackoff` are the worker, `Retry` and `Cancel` the administrator,
`WorkerDies` a crash.  A recipient the SMTP server rejects counts no attempt
(`BackoffUncounted`): the mail stays pending for ever, and enough of them fill
every batch, which `Clogged` names.

`Alerts` extends it with `scanOnce`, `deliver` and `markSent`: a mail is queued,
then the pair (listing, saved search) is marked.  Listings are numbered as they
were created; `Latest` is what the search returns, the `Limit` published ones
created last, matching or not, and a scan takes the pairs of those.
`AlertArrives` follows a listing across both parts, to the mailbox, as long as it
stays in `Latest`.

### Transcription

State: `running`, the launcher's map; per bot its room, its `process` and the
`waiter` goroutine of the launcher with the tracks its batch has read; the
transcript's `status` and the `words` it holds; the directory: `manifest` and,
per speaker, `audio`, the recordings of one file in order.  All bots share the
directory, the manifest is never removed, and a file that is there is written on
from its end under a header that counts the new samples only.  So a batch may
read the manifest of another bot, and hear another recording's beginning;
`alone` are the bots nobody shared with.  `Die` is a bot that leaves no
manifest: the one built from `cmd/transcriber` as it stands does, because the
launcher passes a flag that program does not define.

### MemberRequests

A demande is refused, or converted: a convention is created (`CreateConvention`),
then the demande is marked (`MarkConverted`).  A profile request is granted by one
call (`OctroyerProfil`); the code has no handler that refuses one.  `effects`
counts conventions and grants.  Two ghosts say who is excused: `raced`, requests
read as open while another handler had, or left, its effect to come, and
`twins`, profile requests found alone while another was to be inserted.

### OAuthTokens

The protocol is the zitadel/oidc library's, outside the repository; the model
takes from `pkg/oauth/storage.go` what each call of the storage does and from the
use made of the library the order of the calls.  A *grant* is what one request
leads to: its codes and the rows of `oauth_tokens` that descend from it.  An
exchange is `PresentCode`, `AuthRequestByCode`, `Issue`, `DeleteAuthRequest`,
`MarkCodes`; a refresh `PresentToken`, `TokenRequestByRefreshToken`, `Rotate`,
`Reissue`; each may stop after any of them.  What keeps a grant to one row is that
the request is deleted, not that the code is marked: the code is looked up
through its request.  `Purge` removes clients idle for a month; refresh tokens
do not expire, so a client may come back to find itself gone.

### AccountLinks

All accounts are of one address.  A sign-up keeps the address as typed, every
other way lowers it, and `users.email` is unique as spelt: two accounts may live
side by side, which is `spelling`.  A click is `Read`, then by kind `Consume`,
`OpenFound`/`OpenNew`/`EmailRefused` (sign-in), `Activate`, or `ResetPassword`.
Ghosts: `served` and `servedFor` (who was let in by a link), `issuedFor`,
`contested` (links read unused by two clicks at once, or whose mark failed) and `burned`
(sign-in links whose click failed after using it up).

## 3. The runs

All twelve end without error.

| run | instance | properties |
|---|---|---|
| `social_steady` | 2 posts, 3 networks (1 without a connector), 2 attempts, batch 1, 1 crash, operator at any time; no failing statement or lost reply | `NoAbandonWithOrphan`, `CrashesPayForDoubles`, `SentIsFinal`, `QueuedPostSettles` |
| `social_faults` | 1 post, 2 networks, 3 attempts, 2 crashes, any statement may fail, replies may be lost | `MarkedBeforeDelivery`, `ImplementsPublication` |
| `webhook_core` | 2 drainers, 2 events (1 without a connector), batch 2, 2 attempts, 2 mishaps (crash or failing statement) | `FailedAtTheBound`, `EventSettles`, `ImplementsInbox` |
| `vote_core` | 1 assembly, 2 resolutions, 2 voters, 2 choices, 2 requests at a time | `RegisterIsBacked`, `MinutesQuoteRegister`, `MinutesComplete`, `VotesAreKept`, `LateVotesAreBounded` |
| `presence_core` | 1 assembly, 3 members, 2 requests, 1 change of a membership | `TracesAreComplete`, `MandateBindsMembers`, `QuorumCountsAttendance` |
| `rbac_core` | 2 users, a chain of 3 grades, 2 administrators, 2 mutations, 1 reader who asks about 1 user, a cache of 1, 1 failing statement | `InheritanceAcyclic`, `EffectiveIsClosure`, `FreshEntriesAreTrue` |
| `mail_core` | 3 pairs (1 rejected recipient, 1 owner without address), 3 mails, batch 1, 2 attempts, 1 trouble (retry or mishap), 2 listings, a scan of 1, 4 publications or withdrawals | `MailsFailAtTheBound`, `DeliveriesArePaid`, `AlertsAreQueuedOnce`, `SettledStands`, `EveryMailSettles`, `AlertArrives` |
| `transcription_core` | 2 rooms, 2 speakers, 2 bots, 1 mishap | `OwnWords`, `RecordingsAreKept`, `TranscriptSettles` |
| `transcription_chain` | 1 room, 1 speaker, 3 bots, 1 mishap | `OneBotUnlessForgotten` |
| `requests_core` | 1 demande, 3 profile requests, 3 administrators, 3 grants | `DecidedOnce`, `DecidedHasEffect`, `GrantIsRecorded` |
| `oauth_core` | 1 client, 1 user, 1 request, 2 codes, 4 rows, 2 exchanges | `OneLiveRow`, `GrantSurvives`, `RevokedIsOver`, `ClientOfLiveRow` |
| `accounts_core` | 3 accounts of one address, 2 links, 3 clicks | `ServesOnce`, `UsedUpHasServed`, `ServesItsAccount` |

A few properties of the modules stand in no run because a theorem states them
for every instance (section 4): the type invariants, `SentMeansDelivered`, `ExclusiveClaim`, `StatusTellsHandling`,
`FinalIsFinal`, `RecordsAreImmutable`, `MailFollowsTrace`, `MandatesAreKept`,
`OneOpenRequest`, `DecisionsStand`, `RowHasUser`, `LinksNameTheLiving`.

**Where the code says more than it does.**  Each of these is a sentence of a
comment that the model does not bear out as it stands; the property checked is
the one that holds.

* *Published once.*  A crash after the provider accepted, during a retry of a
  row marked failed, publishes a second time.  `CrashesPayForDoubles`: every
  second delivery is paid for by a crash.
* *Never abandoned over a row in doubt.*  A mark that fails at the last attempt
  leaves the row `publishing`, and the post is abandoned over it.
  `NoAbandonWithOrphan` is checked without failing statements, and proved under
  that hypothesis.
* *A redelivered event is a duplicate.*  A pending event delivered again is set
  aside and never handled.  In `Inbox`, "duplicate" is an outcome like another.
* *A frozen tally.*  A vote whose check preceded the closing is inserted after
  the count.  `LateVotesAreBounded`: only votes under way at the closing.
* *A bumped version invalidates.*  A reader that loaded before the bump may store
  what it read under the new version.  `FreshEntriesAreTrue` speaks of entries
  read since the last bump.
* *A transcript whose bot failed is 'failed'.*  Without a manifest it stays
  'pending'.  `TranscriptSettles` excepts it.
* *The alert worker scans the published listings.*  It searches 1000 of them
  (`alerts.go:107`), the last created, and those alerted already take their places
  all the same: a published listing behind 1000 newer ones is not alerted, however
  long it stays published, and one published long after its creation may never be.
  `AlertArrives` promises the alert while the listing is among the newest `Limit`.
* *One alert, one mail; one convention per demande; one row per grant; one use per
  link.*  Each holds but for the races and half-done requests that the property
  names by a ghost or by a count of mishaps.

`SentIsFinal` holds when no reply is lost: with lost replies an operator may
confirm a row that `MarkPublishFailed` then reopens.  `EffectiveIsClosure`
leaves out `neglected` users: `DeleteGrade` recomputes nobody, handlers drop the
errors of a recomputation, and of two administrators whose recomputations of one
user overlap the slower may write what it read before the other's change.  It says
that these three are the only ways to a wrong row.

**Bounds, and why they are enough.**  Two of each actor is what an interleaving
of two check-then-act sequences needs; three clicks and three administrators add
one that comes after both.  Three networks give the aggregate of a post every
mixture of sent, refused and in doubt; three members give a mandate its
principal, its proxy and a bystander.  Two resolutions let minutes quote one and
miss the other.  Attempts of 2 or 3 reach first failure, retry and bound; a batch
of one makes a mail or a post held up visible.  A scan of one listing out of two
lets the newer hide the older before, during and after the delivery of its
alerts, and let it be seen again when it is withdrawn.  Three grades make a chain with a
grade in the middle, where a test of direct parents or children would go wrong, and
two mutations let one change the tables under the recomputation of the other, or
under its collection of users.  Three bots of one room are the
least of which the second's end can remove the third's entry.  Four rows are an
exchange and its doubles, each followed by a rotation.  Crashes, faults and
changes are bounded by constants because each adds a factor to the state space.
Where a bound matters most, for safety, a proof removes it.

**Fairness.**  Weak fairness of what a goroutine that loops until the process
ends does next, and of time.  `SocialQueue`: the worker's next step and `Tick`.
`WebhookInbox`: each drainer's next step and each `next_retry_at` passing.
`Alerts`: the two workers' next steps and each `next_retry_at`.
`Transcription`: the launcher, the goroutine that waits for each bot, and that a
room ends one day for its bot (`Shutdown` or `Die`).  None for users, operators,
administrators, providers' answers or LiveKit's events.  A row left in
`processing` by a crash or a failing statement is selected by no query, so
`EventSettles` excepts the events a mishap made the drainers forget.

**Deadlock** is checked in `vote_core` and `presence_core`, and disabled where
the system may rest: an emptied queue, used-up transcripts, requests that all
ended.

## 4. The proofs

All theorems hold for every value of the constants that satisfies the module's
`ASSUME` (at most: finiteness of one set, positive bounds, listings that
are numbered, model values that are not members of the sets they stand beside) and the hypotheses it
states itself.  In every module what the properties
say of tables is not inductive: it depends on what each actor knows between two
statements, and that is what the inductive invariant `IInv` adds.  Each `IInv`
was checked by TLC on the instances of section 3 before it was proved.

*SocialQueueProofs*: `TypeCorrect`, `MarkBeforeDelivery`, `PromotionIsSound`,
`NoAbandonWithoutFaults`, `SentForGood`, `CrashesPay`, `QueueImplementsPublication`.  `IInv` has
`WorkerInv` (which post and network it holds, and that a post in hand is
pending), `RowInv` (what the row of the attempt can be at each step: after the
claim, `publishing` with nothing delivered, or an old `failed`), `LoopInv` (a
network left behind without a flag is journalled sent), `AttemptsInv` and
`DeliveryInv`.  Invariant C2 needs more, `NoFaultInv`: a network left behind
without the orphan flag is not `publishing`.  It is inductive only when no
statement of the worker fails, which is the theorem's hypothesis.  `SentForGood`
supposes that no reply is lost and adds `FailureInv`: the row of an attempt that
failed is not `sent` and, if it is still `publishing`, nothing was delivered under
it, so neither `MarkPublishFailed` nor the operator can undo a `sent` row.
`CrashesPay` supposes besides that no statement fails, and counts (`CostInv`): a
pair is *spent* once it is published twice, or once its row asks for one more
attempt of what the provider already has; only a crash right after a successful
call adds one (`SpendStep`), so there are at most as many as crashes.  The refinement
needs it that a post is promoted only when every network is journalled sent, and
that `sent` rows were accepted.

*WebhookInboxProofs*: `TypeCorrect`, `ClaimIsExclusive`, `HandledAtMostOnce`,
`GivenUpAtTheBound`, `SettledStaysSettled`, `InboxIsImplemented`.  The
strengthening is what each drainer knows: `DrainerInv` (the event in hand is out
of the batch) and `HandlingInv` (nothing claimed was handled, but for the event
whose call has just succeeded).

*AssemblyVoteProofs*: `TypeCorrect`, `RegisterBacked`, `MinutesQuote`,
`MinutesAreComplete`, `VotesNeverChange`, `RecordsNeverChange`, `LateVotesAreFew`.  The invariant says
of each request in flight what its stale locals still guarantee.  The argument is
monotonicity: a vote, a closed resolution, an entry of the register and minutes,
once there, stay (first group of lemmas), so a tally or a register read earlier
is bounded by the present one, and a unique constraint settles who wrote first.
`LateVotesAreFew`, for finitely many requests, counts the votes of a closed
resolution together with those that have passed its check and are still under way
(`Reachable`): the sum never grows, as each vote inserted leaves the second set
(`LateMoves`), and the request that reads the tally is not one of them.

*AssemblyPresenceProofs*: `TypeCorrect`, `ConvocationsAreTraced`,
`MailsFollowTraces`, `MandatesBind`, `MandatesStand`, `QuorumIsCounted`.  `JobInv` says
what a request has checked by each step, `ConvocationInv` that traces, recipients
and mails appear with the convocation, `MailInv` that one request queues the
mails and those it has left are not queued, `QuorumInv` that the eligible members
found present have signed, unless deleted since; the lemma `CountedOnce` turns disjoint sets of people into the sum the code adds up.

*GradesProofs*, of `Rbac`: `NeverCyclic`, `TypeCorrect`, `FreshAreTrue` and
`L2IsClosure`, for any set of grades and any number of concurrent administrators.
The first rests on four lemmas
about `Reach` (closed, least, transitive, monotone) and on `AcyclicGrows`: an edge
whose child is not an ancestor of its parent keeps a relation acyclic, which is
exactly what `AddInherit` tests in its transaction.  `FreshAreTrue` needs the
order write, bump, invalidate: permissions read since the last bump, in an entry
or in the hands of a reader, are those of L2 unless an administrator who wrote
has still to bump (`FreshInv`, `Bumping`); `CallInv` says whom each call is about.
`L2IsClosure` has three parts.  A mutation touches nobody outside the users it is
about (`MutationReaches`): descendants are found along the edges turned round, so
this is `ReachBack` (what reaches a grade is reached back from it) and `ReachKept` (an
edge that leaves neither a grade nor what it reaches changes nothing for it).
`RecomputeInv` says at each statement of a Recompute that what it has read and
what it has still to read make up the closure, unless it was overtaken; another's
mutation keeps that because it leaves the grades of the user as they are
(`SameClosure`).  And when a mutation changes who is below a grade while another call
collects its users, those it takes away are users the mutation recomputes itself
(`HandedOver`).

*GradesProofs*, of `MemberRequests`: `RequestsTypeCorrect`, `DecidedAtMostOnce`,
`DecisionsHaveEffect`, `GrantsAreRecorded`, `OneRequestAtATime`,
`DecisionsAreFinal`.  `HandlerInv` says what a handler past
its first statement knows of the row, `StatutInv` which statuts come with an
effect, `RaceInv` that two handlers of one request make it `raced`, `TwinInv` the
same of two submissions.

*AccessProofs*, of `OAuthTokens`: `TypeCorrect`, `OneRowPerGrant`, `GrantsSurvive`,
`RevocationHolds`, `RowsHaveUsers`, `ClientsStay`.  A grant that is not raced is
held by one exchange at most, and `GrantInv` says what is live of it: what follows
from the step of that exchange (`HeldGrant`), or, held by none, one row until it
is revoked, with its request deleted (`FreeGrant`).
`RowInv`, `JobInv`, `UserInv` and `ClientInv` tie rows, exchanges, users and
clients to their request.

*AccessProofs*, of `AccountLinks`: `LinksTypeCorrect`, `LinksServeOnce`, `NothingUsedUpInVain`,
`LinksServeTheirAccount`, `DeletedAreNotNamed`.  `ClickInv` says what a click
holds, `MagicInv` and `UsedInv` why a sign-in link used up by one click is beyond
the others, `OtherInv` why the other kinds need a race to serve twice, `OwnerInv`
that a link's owner and the one it was issued for part only when the account
is deleted.

*AlertsProofs*: `TypeCorrect`, `FailedAtTheLast`, `DeliveriesPaid`,
`AlertsQueuedOnce`, `SettledStay`, for any numbers of mails, pairs, attempts and mishaps and any size
of the batch; `MailOutbox` is proved about through `Alerts`, whose steps are all
that it knows.  `DeliveriesPaid` compares one sum over all mails with one counter,
which is not inductive: a mail may be taken by the provider twice long after the
mishap that made it possible.  `PaidInv` keeps the ledger by adding to the
deliveries beyond the first those that may yet be made, the *exposed* mails,
delivered and either listed or pending with no UPDATE to `sent` about to come.  A
mail becomes exposed by a mishap or a retry, which pays one; a second delivery turns
an exposed mail into an extra delivery and pays nothing.  The sum is the size of a
set of pairs (`Extra`), so that it changes by one element and no induction over
the mails is needed.  `AttemptsInv` says that an attempt may come only for a mail
with attempts left, but for one more per retry; `WorkerInv` that what the worker
holds was pending when it was listed and can only have been cancelled since,
which is `SettledStay`; `QueueInv` that mails are numbered without a gap, which
makes the next number a new mail, and with `ToMarkInv` gives `AlertsQueuedOnce`.

*TranscriptionProofs*: `TypeCorrect`, `OneBot`, `OwnWordsOnly`, `RecordingsStay`,
for any rooms, speakers, numbers of bots and mishaps.  `OneBot` rests on `EntryInv`: the entry of a
room is that of the bot recording in it, or the launcher is about to write it, or
it was removed early, which is `forgotten`; `LauncherInv` says that the room of the
bot being started has no entry until then, because the launcher handles one
event at a time and nobody else writes entries.  `OwnWordsOnly` follows a recording through files shared with
everyone: as long as the process or the batch of a bot that is `alone` may touch
them (`Active`), no other bot is active, each file holds its recording and no
other, and the manifest, once written, names its speakers (`FilesInv`);
`WordsInv` says that what the batch has added and what it has still to
transcribe make up the manifest it read, and `BatchInv` that a batch starts only after
its process has ended.  `RecordingsStay` adds that no older bot is alive beside one
that was alone, so that a batch that removes files is its own or a newer bot's, and
that such a batch is that of a transcript already done (`KeptInv`).

*Only model-checked.*  Liveness, which is out of the prover's reach:
`QueuedPostSettles`, `EventSettles`, `EveryMailSettles`, `AlertArrives`,
`TranscriptSettles`.  Every other property of a run is a theorem,
`NoAbandonWithOrphan`, `SentIsFinal` and `CrashesPayForDoubles` under the hypotheses
named above on failing statements and lost replies.

## 5. Not modelled

Contents of posts, mails, minutes and pages; SQL text, dates as dates,
formatting; provider APIs beyond accept, refuse, lose the reply; signature
checks; audit rows and logs; the floating-point threshold of a quorum.  The HTTP
handlers, templates, listings, forum and other one-statement stores have no
behaviour beyond the statement.

Left out of modelled components: `RecomputeAll`, `EnsurePermission` and
`CreateGrade` (`Rbac` is therefore "partly"); the mailer without a backend, whose
`SendNow` does nothing; the retention of transcripts; conventions drawn up
without a demande; the sign-in with a password and its lockout.  Donations are
left out because nothing calls `ProcessWebhook` in this commit: `HandleWebhook` of
the HelloAsso connector is a stub.

Exposures that no property is about, each a single read or a single statement
where the model could only repeat the code: consent to a recording read when a
room's event arrives and not again; the electorate listed by status, whatever the period; the ceiling
of a floating-point product as the quorum; `webhook.received` lost between
`Insert` and `Emit`; a membership that ends before its vote is inserted; the size
of the cache, off by one for a moment; `DeleteGrade`, which recomputes nobody.

## 6. Plan

What a next version should take up, in this order.

1. *Rbac.*  A second cache (`handlers/oauth.go`).
2. *Login lockout* in memory, over a window of time; *site tree*, a page created
   under a parent deleted meanwhile; *donations*, notifications out of order,
   once `HandleWebhook` calls `ProcessWebhook`.
