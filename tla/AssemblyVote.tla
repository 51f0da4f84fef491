----------------------------- MODULE AssemblyVote -----------------------------
(***************************************************************************)
(* Votes and records of a general assembly (pkg/governance, vote.go and    *)
(* register.go): resolutions are opened, voted on and closed; the count of *)
(* a closed one is consigned in the register, and the minutes of the       *)
(* assembly freeze the register.                                           *)
(*                                                                         *)
(* Each request of an administrator runs its checks and its INSERT as      *)
(* separate statements, outside a transaction; the statements of the       *)
(* requests under way interleave.  A refused request changes nothing.      *)
(***************************************************************************)
EXTENDS Naturals, FiniteSets

CONSTANTS
    Assemblies,
    Resolutions,   \* resolutions that may be put to the vote
    AssemblyOf,    \* the assembly of each resolution
    Voters,
    Choices,       \* ChoixVote
    Requests,      \* requests served at the same time
    None

ASSUME VoteAssumption ==
    /\ AssemblyOf \in [Resolutions -> Assemblies]
    /\ IsFiniteSet(Voters)
    /\ None \notin Resolutions \cup Assemblies \cup Voters \cup Choices

VARIABLES
    convoked,      \* assemblies with status 'convoked'
    users,         \* voters whose account exists
    active,        \* voters whose CurrentStatus is 'active'
    resolution,    \* resolutions.status, "absent" without a row
    votes,         \* votes.choice for each resolution and voter, None without a row
    register,      \* deliberations: the count consigned for a resolution, or None
    minutes,       \* minutes.body: the register an assembly's minutes show, or None
    checked,       \* resolutions closed when the minutes' request checked the register
    stage,         \* next statement of each request
    subject,       \* resolution or assembly the request is about
    ballot,        \* <<voter, choice>> of a vote
    count,         \* the count RecordDeliberation has read
    closed,        \* closed resolutions GeneratePV has found consigned
    page           \* the register GeneratePV has read

records == <<register, minutes>>
request == <<stage, subject, ballot, count, closed, page>>
people == <<users, active>>
vars == <<convoked, people, resolution, votes, records, checked, request>>

Stages == {"idle", "voter", "vote", "tally", "consign", "complete", "register", "minutes"}

Counts == [Choices -> 0 .. Cardinality(Voters)]
Registers == [Resolutions -> Counts \cup {None}]

Init ==
    /\ convoked = {}
    /\ users = Voters
    /\ active = Voters
    /\ resolution = [s \in Resolutions |-> "absent"]
    /\ votes = [s \in Resolutions |-> [v \in Voters |-> None]]
    /\ register = [s \in Resolutions |-> None]
    /\ minutes = [a \in Assemblies |-> None]
    /\ checked = [a \in Assemblies |-> {}]
    /\ stage = [q \in Requests |-> "idle"]
    /\ subject = [q \in Requests |-> None]
    /\ ballot = [q \in Requests |-> None]
    /\ count = [q \in Requests |-> None]
    /\ closed = [q \in Requests |-> {}]
    /\ page = [q \in Requests |-> None]

\* Request q goes on to statement s.
Proceed(q, s) ==
    /\ stage' = [stage EXCEPT ![q] = s]
    /\ UNCHANGED <<subject, ballot>>

\* The request is answered, with an error or not.
End(q) ==
    /\ stage' = [stage EXCEPT ![q] = "idle"]
    /\ subject' = [subject EXCEPT ![q] = None]
    /\ ballot' = [ballot EXCEPT ![q] = None]
    /\ count' = [count EXCEPT ![q] = None]
    /\ closed' = [closed EXCEPT ![q] = {}]
    /\ page' = [page EXCEPT ![q] = None]

\* A request q about x passes its first check and goes on to statement s.
Begin(q, x, s) ==
    /\ stage[q] = "idle"
    /\ stage' = [stage EXCEPT ![q] = s]
    /\ subject' = [subject EXCEPT ![q] = x]
    /\ UNCHANGED <<count, closed, page>>

-----------------------------------------------------------------------------
(* Assemblies and memberships, as far as the votes see them.               *)

\* MarkConvokedTx; nothing takes an assembly out of 'convoked'.
Convoke(a) ==
    /\ a \notin convoked
    /\ convoked' = convoked \cup {a}
    /\ UNCHANGED <<people, resolution, votes, records, checked, request>>

\* A membership begins, ends or expires.
ChangeStatus(v) ==
    /\ v \in users
    /\ active' = IF v \in active THEN active \ {v} ELSE active \cup {v}
    /\ UNCHANGED <<convoked, users, resolution, votes, records, checked, request>>

\* An account is deleted, and with it its memberships and votes (ON DELETE CASCADE).
DeleteAccount(v) ==
    /\ v \in users
    /\ users' = users \ {v}
    /\ active' = active \ {v}
    /\ votes' = [s \in Resolutions |-> [votes[s] EXCEPT ![v] = None]]
    /\ UNCHANGED <<convoked, resolution, records, checked, request>>

-----------------------------------------------------------------------------
(* Resolutions and votes.                                                  *)

\* OpenResolution. The check of the assembly may be taken with the INSERT: once
\* convoked, an assembly stays so.
OpenResolution(s) ==
    /\ AssemblyOf[s] \in convoked
    /\ resolution[s] = "absent"
    /\ resolution' = [resolution EXCEPT ![s] = "open"]
    /\ UNCHANGED <<convoked, people, votes, records, checked, request>>

CloseResolution(s) ==
    /\ resolution[s] = "open"
    /\ resolution' = [resolution EXCEPT ![s] = "closed"]
    /\ UNCHANGED <<convoked, people, votes, records, checked, request>>

\* Mutant: only a resolution not yet put to the vote is refused.
CastVoteLate(q, s, v, c) ==
    /\ resolution[s] # "absent"
    /\ Begin(q, s, "voter")
    /\ ballot' = [ballot EXCEPT ![q] = <<v, c>>]
    /\ UNCHANGED <<convoked, people, resolution, votes, records, checked>>

\* castVote reads the resolution ...
CastVote(q, s, v, c) ==
    /\ resolution[s] = "open"
    /\ Begin(q, s, "voter")
    /\ ballot' = [ballot EXCEPT ![q] = <<v, c>>]
    /\ UNCHANGED <<convoked, people, resolution, votes, records, checked>>

\* ... then the voter's status ...
CheckVoter(q) ==
    /\ stage[q] = "voter"
    /\ \/ /\ ballot[q][1] \in active
          /\ Proceed(q, "vote")
          /\ UNCHANGED <<count, closed, page>>
       \/ /\ ballot[q][1] \notin active
          /\ End(q)
    /\ UNCHANGED <<convoked, people, resolution, votes, records, checked>>

\* Mutant: a second vote replaces the first.
InsertOrReplaceVote(q) ==
    /\ stage[q] = "vote"
    /\ votes' = [votes EXCEPT ![subject[q]][ballot[q][1]] =
                    IF ballot[q][1] \in users THEN ballot[q][2] ELSE @]
    /\ End(q)
    /\ UNCHANGED <<convoked, people, resolution, records, checked>>

\* ... and inserts the vote. The second of a voter hits UNIQUE (ErrDejaVote), that of
\* a deleted account the foreign key.
InsertVote(q) ==
    LET s == subject[q]
        v == ballot[q][1]
    IN  /\ stage[q] = "vote"
        /\ votes' = [votes EXCEPT ![s][v] =
                        IF @ = None /\ v \in users THEN ballot[q][2] ELSE @]
        /\ End(q)
        /\ UNCHANGED <<convoked, people, resolution, records, checked>>

\* Tally of the votes of s.
Tally(s) == [c \in Choices |-> Cardinality({v \in Voters : votes[s][v] = c})]

-----------------------------------------------------------------------------
(* Register and minutes.                                                   *)

\* RecordDeliberation reads the resolution ...
RecordDeliberation(q, s) ==
    /\ resolution[s] = "closed"
    /\ Begin(q, s, "tally")
    /\ UNCHANGED <<ballot, convoked, people, resolution, votes, records, checked>>

\* ... then its tally ...
ReadTally(q) ==
    /\ stage[q] = "tally"
    /\ count' = [count EXCEPT ![q] = Tally(subject[q])]
    /\ Proceed(q, "consign")
    /\ UNCHANGED <<closed, page, convoked, people, resolution, votes, records, checked>>

\* Mutant: a second entry replaces the first.
InsertOrReplaceDeliberation(q) ==
    /\ stage[q] = "consign"
    /\ register' = [register EXCEPT ![subject[q]] = count[q]]
    /\ End(q)
    /\ UNCHANGED <<convoked, people, resolution, votes, minutes, checked>>

\* ... and inserts the entry, unless the resolution has one (ErrDejaConsigne).
InsertDeliberation(q) ==
    /\ stage[q] = "consign"
    /\ register' = [register EXCEPT ![subject[q]] = IF @ = None THEN count[q] ELSE @]
    /\ End(q)
    /\ UNCHANGED <<convoked, people, resolution, votes, minutes, checked>>

ResolutionsOf(a) == {s \in Resolutions : AssemblyOf[s] = a}

Closed(a) == {s \in ResolutionsOf(a) : resolution[s] = "closed"}

ClosedUnconsigned(a) == {s \in Closed(a) : register[s] = None}

\* GeneratePV reads the assembly ...
GeneratePV(q, a) ==
    /\ a \in convoked
    /\ Begin(q, a, "complete")
    /\ UNCHANGED <<ballot, convoked, people, resolution, votes, records, checked>>

\* Mutant: the minutes do not wait for the register.
SkipCompleteness(q) ==
    /\ stage[q] = "complete"
    /\ closed' = [closed EXCEPT ![q] = Closed(subject[q])]
    /\ Proceed(q, "register")
    /\ UNCHANGED <<count, page, convoked, people, resolution, votes, records, checked>>

\* ... makes sure each closed resolution is consigned; what was closed then is kept
\* for MinutesComplete ...
CheckComplete(q) ==
    /\ stage[q] = "complete"
    /\ \/ /\ ClosedUnconsigned(subject[q]) = {}
          /\ closed' = [closed EXCEPT ![q] = Closed(subject[q])]
          /\ Proceed(q, "register")
          /\ UNCHANGED <<count, page>>
       \/ /\ ClosedUnconsigned(subject[q]) # {}
          /\ End(q)
    /\ UNCHANGED <<convoked, people, resolution, votes, records, checked>>

\* The entries of a in the register.
RegisterOf(a) == [s \in Resolutions |-> IF AssemblyOf[s] = a THEN register[s] ELSE None]

\* ... reads the register ...
ListRegister(q) ==
    /\ stage[q] = "register"
    /\ page' = [page EXCEPT ![q] = RegisterOf(subject[q])]
    /\ Proceed(q, "minutes")
    /\ UNCHANGED <<count, closed, convoked, people, resolution, votes, records, checked>>

\* ... and inserts the minutes, unless there are some already (ErrPVDejaGenere).
InsertMinutes(q) ==
    LET a == subject[q]
    IN  /\ stage[q] = "minutes"
        /\ \/ /\ minutes[a] = None
              /\ minutes' = [minutes EXCEPT ![a] = page[q]]
              /\ checked' = [checked EXCEPT ![a] = closed[q]]
           \/ /\ minutes[a] # None
              /\ UNCHANGED <<minutes, checked>>
        /\ End(q)
        /\ UNCHANGED <<convoked, people, resolution, votes, register>>

-----------------------------------------------------------------------------

Next ==
    \/ \E a \in Assemblies : Convoke(a)
    \/ \E v \in Voters : ChangeStatus(v) \/ DeleteAccount(v)
    \/ \E s \in Resolutions : OpenResolution(s) \/ CloseResolution(s)
    \/ \E q \in Requests :
          \/ \E s \in Resolutions, v \in Voters, c \in Choices : CastVote(q, s, v, c)
          \/ CheckVoter(q)
          \/ InsertVote(q)
          \/ \E s \in Resolutions : RecordDeliberation(q, s)
          \/ ReadTally(q)
          \/ InsertDeliberation(q)
          \/ \E a \in Assemblies : GeneratePV(q, a)
          \/ CheckComplete(q)
          \/ ListRegister(q)
          \/ InsertMinutes(q)

Spec == Init /\ [][Next]_vars

-----------------------------------------------------------------------------
(* Properties.                                                             *)

TypeOK ==
    /\ convoked \in SUBSET Assemblies
    /\ users \in SUBSET Voters
    /\ active \in SUBSET users
    /\ resolution \in [Resolutions -> {"absent", "open", "closed"}]
    /\ votes \in [Resolutions -> [Voters -> Choices \cup {None}]]
    /\ register \in Registers
    /\ minutes \in [Assemblies -> Registers \cup {None}]
    /\ checked \in [Assemblies -> SUBSET Resolutions]
    /\ stage \in [Requests -> Stages]
    /\ subject \in [Requests -> Resolutions \cup Assemblies \cup {None}]
    /\ ballot \in [Requests -> (Voters \X Choices) \cup {None}]
    /\ count \in [Requests -> Counts \cup {None}]
    /\ closed \in [Requests -> SUBSET Resolutions]
    /\ page \in [Requests -> Registers \cup {None}]

\* A vote is a recorded act: no later request, however it interleaves, changes or
\* removes it as long as the account of the voter exists.
VotesAreKept ==
    [][\A s \in Resolutions, v \in Voters :
        votes[s][v] # None /\ v \in users' => votes'[s][v] = votes[s][v]]_vars

\* Register and minutes are append-only: an entry, and minutes, stay as first written.
RecordsAreImmutable ==
    [][/\ \A s \in Resolutions : register[s] # None => register'[s] = register[s]
       /\ \A a \in Assemblies : minutes[a] # None => minutes'[a] = minutes[a]]_vars

\* Who may have voted c: those who did and those whose votes went with their account.
Backing(s, c) == {v \in Voters : votes[s][v] = c \/ v \notin users}

\* What the register says was voted: only a closed resolution is consigned, and each
\* vote counted is still there, but for the votes of deleted accounts.
RegisterIsBacked ==
    \A s \in Resolutions :
        register[s] # None =>
            /\ resolution[s] = "closed"
            /\ \A c \in Choices : register[s][c] <= Cardinality(Backing(s, c))

\* Minutes quote the register of their own assembly, a convoked one, entry by entry,
\* however old the reading they are made of.
MinutesQuoteRegister ==
    \A a \in Assemblies :
        minutes[a] # None =>
            /\ a \in convoked
            /\ \A s \in Resolutions :
                  minutes[a][s] # None => AssemblyOf[s] = a /\ minutes[a][s] = register[s]

\* GeneratePV never freezes a partial register: minutes hold every resolution that
\* was closed when the register was checked.
MinutesComplete ==
    \A a \in Assemblies :
        minutes[a] # None => \A s \in checked[a] : minutes[a][s] # None

\* RecordDeliberation reads the tally of a closed resolution, which 'ne peut plus
\* bouger'. A vote that had passed its checks before the closing may still be
\* inserted: the register misses no more votes than there were other requests under
\* way when it was written, and no request begun since adds to them.
LateVotesAreBounded ==
    \A s \in Resolutions :
        register[s] # None =>
            \A c \in Choices : Tally(s)[c] <= register[s][c] + Cardinality(Requests) - 1
=============================================================================
