-------------------------- MODULE AssemblyVoteProofs --------------------------
(***************************************************************************)
(* Proofs about AssemblyVote, for any number of assemblies, resolutions,   *)
(* voters and concurrent requests.  The inductive invariant says, of each  *)
(* request, that what it has read is still true when it writes: the facts  *)
(* it relies on (convoked, closed, consigned) never become false again,    *)
(* and those who may have cast a counted vote are never fewer.             *)
(***************************************************************************)
EXTENDS AssemblyVote, FiniteSetTheorems, TLAPS

\* A vote under way is a ballot on a resolution that was opened.
Voting(q) ==
    stage[q] \in {"voter", "vote"} =>
        /\ subject[q] \in Resolutions
        /\ resolution[subject[q]] # "absent"
        /\ ballot[q] \in Voters \X Choices

\* A request that consigns does so for a closed resolution, with a count that stays
\* backed.
Consigning(q) ==
    /\ stage[q] \in {"tally", "consign"} =>
          subject[q] \in Resolutions /\ resolution[subject[q]] = "closed"
    /\ stage[q] = "consign" =>
          /\ count[q] \in Counts
          /\ \A c \in Choices : count[q][c] <= Cardinality(Backing(subject[q], c))

\* Minutes being written: what was found consigned is, and what was read is what the
\* register holds.
Minuting(q) ==
    /\ stage[q] \in {"complete", "register", "minutes"} => subject[q] \in convoked
    /\ stage[q] \in {"register", "minutes"} =>
          \A s \in closed[q] : AssemblyOf[s] = subject[q] /\ register[s] # None
    /\ stage[q] = "minutes" =>
          /\ page[q] \in Registers
          /\ \A s \in closed[q] : page[q][s] # None
          /\ \A s \in Resolutions :
                page[q][s] # None => AssemblyOf[s] = subject[q] /\ page[q][s] = register[s]

VotingInv == \A q \in Requests : Voting(q)
ConsigningInv == \A q \in Requests : Consigning(q)
MinutesInv == \A q \in Requests : Minuting(q)

IInv ==
    /\ TypeOK
    /\ VotingInv
    /\ ConsigningInv
    /\ MinutesInv
    /\ RegisterIsBacked
    /\ MinutesQuoteRegister
    /\ MinutesComplete

-----------------------------------------------------------------------------
(* Counting.                                                               *)

\* A tally is a count of voters for each choice.
LEMMA TallyType == \A s \in Resolutions : Tally(s) \in Counts
<1> SUFFICES ASSUME NEW s \in Resolutions, NEW c \in Choices
             PROVE  Cardinality({v \in Voters : votes[s][v] = c}) \in 0 .. Cardinality(Voters)
  BY DEF Tally, Counts
<1> QED
  BY FS_Subset, FS_CardinalityType, VoteAssumption

\* Those who may have voted c are finitely many, and no fewer than those who did.
LEMMA BackingType ==
    ASSUME NEW s \in Resolutions, NEW c \in Choices
    PROVE  /\ Cardinality(Backing(s, c)) \in Nat
           /\ Cardinality(Backing(s, c))' \in Nat
           /\ Tally(s)[c] <= Cardinality(Backing(s, c))
<1> DEFINE A == {v \in Voters : votes[s][v] = c}
<1>1. IsFiniteSet(Backing(s, c)) /\ IsFiniteSet(Backing(s, c)')
  BY FS_Subset, VoteAssumption DEF Backing
<1>2. A \subseteq Backing(s, c)
  BY DEF Backing
<1>3. Tally(s)[c] = Cardinality(A)
  BY DEF Tally
<1>4. /\ Cardinality(Backing(s, c)) \in Nat
      /\ Cardinality(Backing(s, c)') \in Nat
      /\ Cardinality(A) <= Cardinality(Backing(s, c))
  BY <1>1, <1>2, FS_CardinalityType, FS_Subset
<1> QED
  BY <1>3, <1>4

\* As votes are added and only deleted accounts lose theirs, they are never fewer.
LEMMA BackingGrows ==
    ASSUME users' \subseteq users,
           \A s \in Resolutions, v \in Voters :
              votes[s][v] # None /\ v \in users' => votes'[s][v] = votes[s][v]
    PROVE  \A s \in Resolutions, c \in Choices :
              Cardinality(Backing(s, c)) <= Cardinality(Backing(s, c))'
<1> SUFFICES ASSUME NEW s \in Resolutions, NEW c \in Choices
             PROVE  Cardinality(Backing(s, c)) <= Cardinality(Backing(s, c)')
  OBVIOUS
<1>1. Backing(s, c) \subseteq Backing(s, c)'
  BY VoteAssumption DEF Backing
<1>2. IsFiniteSet(Backing(s, c)')
  BY FS_Subset, VoteAssumption DEF Backing
<1> QED
  BY <1>1, <1>2, FS_Subset

-----------------------------------------------------------------------------
(* The invariant.                                                          *)

\* Without request, vote or record the invariant holds.
LEMMA InitIInv == Init => IInv
  BY VoteAssumption DEF Init, IInv, TypeOK, VotingInv, ConsigningInv, MinutesInv, Voting,
     Consigning, Minuting, RegisterIsBacked, MinutesQuoteRegister, MinutesComplete, Registers,
     Stages

\* No statement changes a vote or, but for the deletion of the account, removes it.
LEMMA VotesKept ==
    ASSUME IInv, [Next]_vars, NEW s \in Resolutions, NEW v \in Voters, votes[s][v] # None,
           v \in users'
    PROVE  votes'[s][v] = votes[s][v]
<1> USE DEF records, request, people
<1>1. ASSUME NEW q \in Requests, InsertVote(q) PROVE votes'[s][v] = votes[s][v]
  <2>1. subject[q] \in Resolutions /\ ballot[q][1] \in Voters
    BY <1>1 DEF InsertVote, IInv, VotingInv, Voting
  <2> QED
    BY <1>1, <2>1 DEF InsertVote, IInv, TypeOK
<1>2. ASSUME NEW w \in Voters, DeleteAccount(w) PROVE votes'[s][v] = votes[s][v]
  BY <1>2 DEF DeleteAccount, IInv, TypeOK
<1>3. CASE UNCHANGED votes
  BY <1>3
<1> QED
  BY <1>1, <1>2, <1>3 DEF Next, vars, Convoke, ChangeStatus, DeleteAccount, OpenResolution,
     CloseResolution, CastVote, CheckVoter, RecordDeliberation, ReadTally, InsertDeliberation,
     GeneratePV, CheckComplete, ListRegister, InsertMinutes

\* Nor an entry of the register, nor minutes.
LEMMA RecordsKept ==
    ASSUME IInv, [Next]_vars
    PROVE  /\ \A s \in Resolutions : register[s] # None => register'[s] = register[s]
           /\ \A a \in Assemblies : minutes[a] # None => minutes'[a] = minutes[a]
<1> USE DEF records, request, people
<1>1. ASSUME NEW q \in Requests, InsertDeliberation(q)
      PROVE  \A s \in Resolutions : register[s] # None => register'[s] = register[s]
  BY <1>1 DEF InsertDeliberation, IInv, TypeOK, Registers
<1>2. ASSUME NEW q \in Requests, InsertMinutes(q)
      PROVE  \A a \in Assemblies : minutes[a] # None => minutes'[a] = minutes[a]
  BY <1>2 DEF InsertMinutes, IInv, TypeOK
<1> QED
  BY <1>1, <1>2 DEF Next, vars, Convoke, ChangeStatus, DeleteAccount, OpenResolution,
     CloseResolution, CastVote, CheckVoter, InsertVote, RecordDeliberation, ReadTally,
     GeneratePV, CheckComplete, ListRegister, InsertDeliberation, InsertMinutes

\* Columns keep their types: what is written was read, or chosen, with the right one.
LEMMA StepTypeOK == IInv /\ [Next]_vars => TypeOK'
<1> SUFFICES ASSUME IInv, [Next]_vars PROVE TypeOK'
  OBVIOUS
<1> USE VoteAssumption DEF records, request, people, Stages
<1>a. TypeOK /\ VotingInv /\ ConsigningInv /\ MinutesInv
  BY DEF IInv
<1>1. ASSUME NEW a \in Assemblies, Convoke(a) PROVE TypeOK'
  BY <1>a, <1>1 DEF Convoke, TypeOK
<1>2. ASSUME NEW v \in Voters, ChangeStatus(v) \/ DeleteAccount(v) PROVE TypeOK'
  BY <1>a, <1>2 DEF ChangeStatus, DeleteAccount, TypeOK
<1>3. ASSUME NEW s \in Resolutions, OpenResolution(s) \/ CloseResolution(s) PROVE TypeOK'
  BY <1>a, <1>3 DEF OpenResolution, CloseResolution, TypeOK
<1>4. ASSUME NEW q \in Requests, NEW s \in Resolutions, NEW v \in Voters, NEW c \in Choices,
             CastVote(q, s, v, c)
      PROVE  TypeOK'
  BY <1>a, <1>4 DEF CastVote, Begin, TypeOK
<1>5. ASSUME NEW q \in Requests, CheckVoter(q) PROVE TypeOK'
  BY <1>a, <1>5 DEF CheckVoter, Proceed, End, TypeOK
<1>6. ASSUME NEW q \in Requests, InsertVote(q) PROVE TypeOK'
  <2>1. subject[q] \in Resolutions /\ ballot[q] \in Voters \X Choices
    BY <1>a, <1>6 DEF InsertVote, VotingInv, Voting
  <2> QED
    BY <1>a, <1>6, <2>1 DEF InsertVote, End, TypeOK
<1>7. ASSUME NEW q \in Requests, NEW s \in Resolutions, RecordDeliberation(q, s) PROVE TypeOK'
  BY <1>a, <1>7 DEF RecordDeliberation, Begin, TypeOK
<1>8. ASSUME NEW q \in Requests, ReadTally(q) PROVE TypeOK'
  <2>1. Tally(subject[q]) \in Counts
    BY <1>a, <1>8, TallyType DEF ReadTally, ConsigningInv, Consigning
  <2> QED
    BY <1>a, <1>8, <2>1 DEF ReadTally, Proceed, TypeOK
<1>9. ASSUME NEW q \in Requests, InsertDeliberation(q) PROVE TypeOK'
  BY <1>a, <1>9 DEF InsertDeliberation, End, TypeOK, ConsigningInv, Consigning, Registers
<1>10. ASSUME NEW q \in Requests, NEW a \in Assemblies, GeneratePV(q, a) PROVE TypeOK'
  BY <1>a, <1>10 DEF GeneratePV, Begin, TypeOK
<1>11. ASSUME NEW q \in Requests, CheckComplete(q) PROVE TypeOK'
  <2>1. Closed(subject[q]) \in SUBSET Resolutions
    BY DEF Closed, ResolutionsOf
  <2>2. \/ closed' = [closed EXCEPT ![q] = Closed(subject[q])] /\ Proceed(q, "register")
              /\ UNCHANGED <<count, page>>
        \/ End(q)
    BY <1>11 DEF CheckComplete
  <2>3. UNCHANGED <<convoked, people, resolution, votes, records, checked>>
    BY <1>11 DEF CheckComplete
  <2>4. CASE End(q)
    BY <1>a, <2>3, <2>4 DEF End, TypeOK
  <2>5. CASE /\ closed' = [closed EXCEPT ![q] = Closed(subject[q])]
             /\ Proceed(q, "register")
             /\ UNCHANGED <<count, page>>
    BY <1>a, <2>1, <2>3, <2>5 DEF Proceed, TypeOK
  <2> QED
    BY <2>2, <2>4, <2>5
<1>12. ASSUME NEW q \in Requests, ListRegister(q) PROVE TypeOK'
  BY <1>a, <1>12 DEF ListRegister, Proceed, RegisterOf, Registers, TypeOK
<1>13. ASSUME NEW q \in Requests, InsertMinutes(q) PROVE TypeOK'
  <2>1. page[q] \in Registers /\ closed[q] \in SUBSET Resolutions
    BY <1>a, <1>13 DEF InsertMinutes, TypeOK, MinutesInv, Minuting
  <2>2. /\ minutes' \in [Assemblies -> Registers \cup {None}]
        /\ checked' \in [Assemblies -> SUBSET Resolutions]
    BY <1>a, <1>13, <2>1 DEF InsertMinutes, TypeOK
  <2>3. End(q) /\ UNCHANGED <<convoked, people, resolution, votes, register>>
    BY <1>13 DEF InsertMinutes
  <2> QED
    BY <1>a, <2>2, <2>3 DEF End, TypeOK
<1>14. CASE UNCHANGED vars
  BY <1>a, <1>14 DEF vars, TypeOK
<1> QED
  BY <1>1, <1>2, <1>3, <1>4, <1>5, <1>6, <1>7, <1>8, <1>9, <1>10, <1>11, <1>12, <1>13, <1>14
  DEF Next

\* What requests rely on: an assembly stays convoked, a resolution never goes back,
\* counts stay backed, the register keeps what it holds.
Lasting ==
    /\ convoked \subseteq convoked'
    /\ \A s \in Resolutions :
          /\ resolution[s] # "absent" => resolution'[s] # "absent"
          /\ resolution[s] = "closed" => resolution'[s] = "closed"
          /\ register[s] # None => register'[s] = register[s]
          /\ \A c \in Choices : \A n \in Nat :
                n <= Cardinality(Backing(s, c)) => n <= Cardinality(Backing(s, c))'

LEMMA StepLasting == IInv /\ [Next]_vars => Lasting
<1> SUFFICES ASSUME IInv, [Next]_vars PROVE Lasting
  OBVIOUS
<1>1. TypeOK /\ TypeOK'
  BY StepTypeOK DEF IInv
<1>2. \A s \in Resolutions, v \in Voters :
          votes[s][v] # None /\ v \in users' => votes'[s][v] = votes[s][v]
  BY VotesKept
<1>3. users' \subseteq users
  BY DEF people, request, Next, vars, Convoke, ChangeStatus, DeleteAccount, OpenResolution,
     CloseResolution, CastVote, CheckVoter, InsertVote, RecordDeliberation, ReadTally,
     InsertDeliberation, GeneratePV, CheckComplete, ListRegister, InsertMinutes
<1>4. \A s \in Resolutions, c \in Choices :
          /\ Cardinality(Backing(s, c)) <= Cardinality(Backing(s, c))'
          /\ Cardinality(Backing(s, c)) \in Nat
          /\ Cardinality(Backing(s, c))' \in Nat
  BY <1>2, <1>3, BackingGrows, BackingType
<1>5. \A s \in Resolutions, c \in Choices : \A n \in Nat :
          n <= Cardinality(Backing(s, c)) => n <= Cardinality(Backing(s, c))'
  BY <1>4
<1>6. convoked \subseteq convoked'
  BY DEF people, Next, vars, request, Convoke, ChangeStatus, DeleteAccount, OpenResolution,
     CloseResolution, CastVote, CheckVoter, InsertVote, RecordDeliberation, ReadTally,
     InsertDeliberation, GeneratePV, CheckComplete, ListRegister, InsertMinutes
<1>7. \A s \in Resolutions :
          /\ resolution[s] # "absent" => resolution'[s] # "absent"
          /\ resolution[s] = "closed" => resolution'[s] = "closed"
  BY <1>1 DEF people, Next, vars, request, Convoke, ChangeStatus, DeleteAccount, OpenResolution,
     CloseResolution, CastVote, CheckVoter, InsertVote, RecordDeliberation, ReadTally,
     InsertDeliberation, GeneratePV, CheckComplete, ListRegister, InsertMinutes, TypeOK
<1> QED
  BY <1>5, <1>6, <1>7, RecordsKept DEF Lasting

\* What a statement of another request, or an answer, does to request p, and which
\* statements of p leave it under way.
Untouched(p) ==
    /\ stage'[p] = stage[p] /\ subject'[p] = subject[p] /\ ballot'[p] = ballot[p]
    /\ count'[p] = count[p] /\ closed'[p] = closed[p] /\ page'[p] = page[p]

Goes(p) ==
    \/ \E s \in Resolutions, v \in Voters, c \in Choices : CastVote(p, s, v, c)
    \/ CheckVoter(p)
    \/ \E s \in Resolutions : RecordDeliberation(p, s)
    \/ ReadTally(p)
    \/ \E a \in Assemblies : GeneratePV(p, a)
    \/ CheckComplete(p)
    \/ ListRegister(p)

LEMMA StepOfRequest ==
    ASSUME TypeOK, [Next]_vars, NEW p \in Requests
    PROVE  Untouched(p) \/ stage'[p] = "idle" \/ Goes(p)
<1> USE DEF records, request, people, Untouched
<1>1. ASSUME UNCHANGED request PROVE Untouched(p)
  BY <1>1
<1>2. ASSUME NEW q \in Requests, End(q) PROVE Untouched(p) \/ stage'[p] = "idle"
  BY <1>2 DEF End, TypeOK
<1>3. ASSUME NEW q \in Requests, q # p, NEW s, Proceed(q, s),
             /\ count' = count \/ count' = [count EXCEPT ![q] = count'[q]]
             /\ closed' = closed \/ closed' = [closed EXCEPT ![q] = closed'[q]]
             /\ page' = page \/ page' = [page EXCEPT ![q] = page'[q]]
      PROVE  Untouched(p)
  BY <1>3 DEF Proceed, TypeOK
<1>4. ASSUME NEW q \in Requests, q # p, NEW s, NEW x, Begin(q, x, s),
             ballot' = ballot \/ ballot' = [ballot EXCEPT ![q] = ballot'[q]]
      PROVE  Untouched(p)
  BY <1>4 DEF Begin, TypeOK
<1> HIDE DEF Untouched, request
<1>5. ASSUME NEW q \in Requests, NEW s \in Resolutions, NEW v \in Voters, NEW c \in Choices,
             CastVote(q, s, v, c), q # p
      PROVE  Untouched(p)
  BY <1>4, <1>5 DEF CastVote, TypeOK
<1>6. ASSUME NEW q \in Requests, CheckVoter(q), q # p
      PROVE  Untouched(p) \/ stage'[p] = "idle"
  BY <1>2, <1>3, <1>6 DEF CheckVoter
<1>7. ASSUME NEW q \in Requests, NEW s \in Resolutions, RecordDeliberation(q, s), q # p
      PROVE  Untouched(p)
  BY <1>4, <1>7 DEF RecordDeliberation
<1>8. ASSUME NEW q \in Requests, ReadTally(q), q # p PROVE Untouched(p)
  BY <1>3, <1>8 DEF ReadTally, TypeOK
<1>9. ASSUME NEW q \in Requests, NEW a \in Assemblies, GeneratePV(q, a), q # p PROVE Untouched(p)
  BY <1>4, <1>9 DEF GeneratePV
<1>10. ASSUME NEW q \in Requests, CheckComplete(q), q # p
       PROVE  Untouched(p) \/ stage'[p] = "idle"
  BY <1>2, <1>3, <1>10 DEF CheckComplete, TypeOK
<1>11. ASSUME NEW q \in Requests, ListRegister(q), q # p PROVE Untouched(p)
  BY <1>3, <1>11 DEF ListRegister, TypeOK
<1>12. ASSUME NEW q \in Requests, InsertVote(q) \/ InsertDeliberation(q) \/ InsertMinutes(q)
       PROVE  Untouched(p) \/ stage'[p] = "idle"
  BY <1>2, <1>12 DEF InsertVote, InsertDeliberation, InsertMinutes
<1> QED
  BY <1>1, <1>5, <1>6, <1>7, <1>8, <1>9, <1>10, <1>11, <1>12
  DEF Next, vars, Goes, Convoke, ChangeStatus, DeleteAccount, OpenResolution, CloseResolution

LEMMA StepVoting == IInv /\ [Next]_vars => VotingInv'
<1> SUFFICES ASSUME IInv, [Next]_vars, NEW p \in Requests PROVE Voting(p)'
  BY DEF VotingInv
<1>1. TypeOK /\ Voting(p) /\ Lasting
  BY StepLasting DEF IInv, VotingInv
<1>2. ASSUME NEW s \in Resolutions, NEW v \in Voters, NEW c \in Choices, CastVote(p, s, v, c)
      PROVE  Voting(p)'
  BY <1>1, <1>2 DEF CastVote, Begin, TypeOK, Voting
<1>3. ASSUME CheckVoter(p) PROVE Voting(p)'
  BY <1>1, <1>3 DEF CheckVoter, Proceed, End, TypeOK, Voting
<1>4. ASSUME Untouched(p) PROVE Voting(p)'
  BY <1>1, <1>4 DEF Untouched, Voting, Lasting
<1>5. ASSUME stage'[p] \notin {"voter", "vote"} PROVE Voting(p)'
  BY <1>5 DEF Voting
<1>6. ASSUME Goes(p) PROVE Voting(p)'
  BY <1>1, <1>2, <1>3, <1>5, <1>6 DEF Goes, RecordDeliberation, ReadTally, GeneratePV,
     CheckComplete, ListRegister, Proceed, Begin, End, TypeOK
<1> QED
  BY <1>1, <1>4, <1>5, <1>6, StepOfRequest

LEMMA StepConsigning == IInv /\ [Next]_vars => ConsigningInv'
<1> SUFFICES ASSUME IInv, [Next]_vars, NEW p \in Requests PROVE Consigning(p)'
  BY DEF ConsigningInv
<1>1. TypeOK /\ TypeOK' /\ Consigning(p) /\ Lasting
  BY StepLasting, StepTypeOK DEF IInv, ConsigningInv
<1>2. ASSUME NEW s \in Resolutions, RecordDeliberation(p, s) PROVE Consigning(p)'
  BY <1>1, <1>2 DEF RecordDeliberation, Begin, TypeOK, Consigning
<1>3. ASSUME ReadTally(p) PROVE Consigning(p)'
  <2>1. /\ stage'[p] = "consign"
        /\ subject' = subject
        /\ resolution' = resolution
        /\ votes' = votes
        /\ users' = users
        /\ count'[p] = Tally(subject[p])
    BY <1>1, <1>3 DEF ReadTally, Proceed, TypeOK, people
  <2>2. subject[p] \in Resolutions /\ resolution[subject[p]] = "closed"
    BY <1>1, <1>3 DEF ReadTally, Consigning
  <2>3. Tally(subject[p]) \in Counts
    BY <2>2, TallyType
  <2>4. \A c \in Choices : Backing(subject[p], c)' = Backing(subject[p], c)
    BY <2>1 DEF Backing
  <2>5. \A c \in Choices : Tally(subject[p])[c] <= Cardinality(Backing(subject[p], c))
    BY <2>2, BackingType
  <2>6. \A c \in Choices : count'[p][c] <= Cardinality(Backing(subject[p], c)')
    BY <2>1, <2>4, <2>5
  <2> QED
    BY <2>1, <2>2, <2>3, <2>6 DEF Consigning
<1>4. ASSUME Untouched(p) PROVE Consigning(p)'
  <2>1. CASE stage[p] = "consign"
    <3>1. /\ subject[p] \in Resolutions /\ resolution[subject[p]] = "closed"
          /\ count[p] \in Counts
          /\ \A c \in Choices : count[p][c] <= Cardinality(Backing(subject[p], c))
      BY <1>1, <2>1 DEF Consigning
    <3>2. \A c \in Choices : count[p][c] \in Nat
      BY <3>1, VoteAssumption, FS_CardinalityType DEF Counts
    <3>3. \A s \in Resolutions, c \in Choices :
              s = subject[p] => count[p][c] <= Cardinality(Backing(s, c))'
      BY <1>1, <3>1, <3>2 DEF Lasting
    <3>4. subject'[p] = subject[p]
      BY <1>4 DEF Untouched
    <3>5. \A c \in Choices : count[p][c] <= Cardinality(Backing(subject[p], c)')
      BY <3>1, <3>3, <3>4 DEF Backing
    <3> QED
      BY <1>1, <1>4, <3>1, <3>5 DEF Untouched, Consigning, Lasting
  <2>2. CASE stage[p] # "consign"
    BY <1>1, <1>4, <2>2 DEF Untouched, Consigning, Lasting
  <2> QED
    BY <2>1, <2>2
<1>5. ASSUME stage'[p] \notin {"tally", "consign"} PROVE Consigning(p)'
  BY <1>5 DEF Consigning
<1>6. ASSUME Goes(p) PROVE Consigning(p)'
  BY <1>1, <1>2, <1>3, <1>5, <1>6 DEF Goes, CastVote, CheckVoter, GeneratePV,
     CheckComplete, ListRegister, Proceed, Begin, End, TypeOK
<1> QED
  BY <1>1, <1>4, <1>5, <1>6, StepOfRequest

LEMMA StepMinutes == IInv /\ [Next]_vars => MinutesInv'
<1> SUFFICES ASSUME IInv, [Next]_vars, NEW p \in Requests PROVE Minuting(p)'
  BY DEF MinutesInv
<1>1. TypeOK /\ TypeOK' /\ Minuting(p) /\ Lasting
  BY StepLasting, StepTypeOK DEF IInv, MinutesInv
<1>2. ASSUME NEW a \in Assemblies, GeneratePV(p, a) PROVE Minuting(p)'
  BY <1>1, <1>2 DEF GeneratePV, Begin, TypeOK, Minuting
<1>3. ASSUME CheckComplete(p) PROVE Minuting(p)'
  <2>1. CASE stage'[p] = "idle"
    BY <2>1 DEF Minuting
  <2>2. CASE stage'[p] # "idle"
    <3>1. /\ stage'[p] = "register" /\ subject' = subject
          /\ closed'[p] = Closed(subject[p]) /\ ClosedUnconsigned(subject[p]) = {}
          /\ register' = register /\ convoked' = convoked
      BY <1>1, <1>3, <2>2 DEF CheckComplete, Proceed, End, TypeOK, records
    <3>2. subject[p] \in convoked
      BY <1>1, <1>3 DEF CheckComplete, Minuting
    <3>3. \A s \in Closed(subject[p]) : AssemblyOf[s] = subject[p] /\ register[s] # None
      BY <3>1 DEF ClosedUnconsigned, Closed, ResolutionsOf
    <3> QED
      BY <3>1, <3>2, <3>3 DEF Minuting
  <2> QED
    BY <2>1, <2>2
<1>4. ASSUME ListRegister(p) PROVE Minuting(p)'
  <2>1. /\ stage'[p] = "minutes" /\ subject' = subject /\ closed' = closed
        /\ page'[p] = RegisterOf(subject[p]) /\ register' = register /\ convoked' = convoked
    BY <1>1, <1>4 DEF ListRegister, Proceed, TypeOK, records
  <2>2. /\ subject[p] \in convoked
        /\ \A s \in closed[p] : AssemblyOf[s] = subject[p] /\ register[s] # None
        /\ closed[p] \subseteq Resolutions
    BY <1>1, <1>4 DEF ListRegister, Minuting, TypeOK
  <2>3. RegisterOf(subject[p]) \in Registers
    BY <1>1 DEF RegisterOf, TypeOK, Registers
  <2>4. \A s \in Resolutions :
            RegisterOf(subject[p])[s] = IF AssemblyOf[s] = subject[p] THEN register[s] ELSE None
    BY DEF RegisterOf
  <2> QED
    BY <2>1, <2>2, <2>3, <2>4 DEF Minuting
<1>5. ASSUME Untouched(p) PROVE Minuting(p)'
  <2>1. closed[p] \subseteq Resolutions
    BY <1>1 DEF TypeOK
  <2> QED
    BY <1>1, <1>5, <2>1 DEF Untouched, Minuting, Lasting
<1>6. ASSUME stage'[p] \notin {"complete", "register", "minutes"} PROVE Minuting(p)'
  BY <1>6 DEF Minuting
<1>7. ASSUME Goes(p) PROVE Minuting(p)'
  BY <1>1, <1>2, <1>3, <1>4, <1>6, <1>7 DEF Goes, CastVote, CheckVoter, RecordDeliberation,
     ReadTally, Proceed, Begin, End, TypeOK
<1> QED
  BY <1>1, <1>5, <1>6, <1>7, StepOfRequest

\* An entry is consigned with a count that was read when the resolution was closed.
LEMMA StepRegister == IInv /\ [Next]_vars => RegisterIsBacked'
<1> SUFFICES ASSUME IInv, [Next]_vars, NEW s \in Resolutions, register'[s] # None
             PROVE  /\ resolution'[s] = "closed"
                    /\ \A c \in Choices : register'[s][c] <= Cardinality(Backing(s, c))'
  BY DEF RegisterIsBacked
<1>1. TypeOK /\ Lasting /\ ConsigningInv /\ RegisterIsBacked
  BY StepLasting DEF IInv
<1>2. ASSUME NEW n \in Counts, resolution[s] = "closed", register'[s] = n,
             \A c \in Choices : n[c] <= Cardinality(Backing(s, c))
      PROVE  /\ resolution'[s] = "closed"
             /\ \A c \in Choices : register'[s][c] <= Cardinality(Backing(s, c))'
  <2>1. \A c \in Choices : n[c] \in Nat
    BY VoteAssumption, FS_CardinalityType DEF Counts
  <2> QED
    BY <1>1, <1>2, <2>1 DEF Lasting
<1>3. CASE register[s] # None
  <2>1. register[s] \in Counts
    BY <1>1, <1>3 DEF TypeOK, Registers
  <2>2. register'[s] = register[s]
    BY <1>1, <1>3 DEF Lasting
  <2> QED
    BY <1>1, <1>2, <1>3, <2>1, <2>2 DEF RegisterIsBacked
<1>4. CASE register[s] = None
  <2>1. PICK q \in Requests : InsertDeliberation(q)
    BY <1>4 DEF people, Next, vars, records, request, Convoke, ChangeStatus, DeleteAccount,
       OpenResolution, CloseResolution, CastVote, CheckVoter, InsertVote, RecordDeliberation,
       ReadTally, GeneratePV, CheckComplete, ListRegister, InsertMinutes
  <2>2. subject[q] = s /\ register'[s] = count[q] /\ stage[q] = "consign"
    BY <1>1, <1>4, <2>1 DEF InsertDeliberation, TypeOK, Registers
  <2>3. /\ count[q] \in Counts /\ resolution[s] = "closed"
        /\ \A c \in Choices : count[q][c] <= Cardinality(Backing(s, c))
    BY <1>1, <2>2 DEF ConsigningInv, Consigning
  <2> QED
    BY <1>2, <2>2, <2>3
<1> QED
  BY <1>3, <1>4

\* Minutes are inserted as read, and what they quote is never changed.
LEMMA StepMinuted == IInv /\ [Next]_vars => MinutesQuoteRegister' /\ MinutesComplete'
<1> SUFFICES ASSUME IInv, [Next]_vars, NEW a \in Assemblies, minutes'[a] # None
             PROVE  /\ a \in convoked'
                    /\ \A s \in Resolutions : minutes'[a][s] # None =>
                          AssemblyOf[s] = a /\ minutes'[a][s] = register'[s]
                    /\ \A s \in checked'[a] : minutes'[a][s] # None
  BY DEF MinutesQuoteRegister, MinutesComplete
<1>1. TypeOK /\ Lasting /\ MinutesInv /\ MinutesQuoteRegister /\ MinutesComplete
  BY StepLasting DEF IInv
<1>2. CASE minutes[a] # None
  <2>1. minutes'[a] = minutes[a]
    BY <1>2, RecordsKept
  <2>2. checked'[a] = checked[a]
    <3>1. ASSUME NEW q \in Requests, InsertMinutes(q) PROVE checked'[a] = checked[a]
      BY <1>1, <1>2, <3>1 DEF InsertMinutes, TypeOK
    <3> QED
      BY <3>1 DEF people, Next, vars, records, request, Convoke, ChangeStatus, DeleteAccount,
         OpenResolution, CloseResolution, CastVote, CheckVoter, InsertVote, RecordDeliberation,
         ReadTally, InsertDeliberation, GeneratePV, CheckComplete, ListRegister
  <2> QED
    BY <1>1, <1>2, <2>1, <2>2 DEF MinutesQuoteRegister, MinutesComplete, Lasting
<1>3. CASE minutes[a] = None
  <2>1. PICK q \in Requests : InsertMinutes(q)
    BY <1>3 DEF people, Next, vars, records, request, Convoke, ChangeStatus, DeleteAccount,
       OpenResolution, CloseResolution, CastVote, CheckVoter, InsertVote, RecordDeliberation,
       ReadTally, InsertDeliberation, GeneratePV, CheckComplete, ListRegister
  <2>2. /\ subject[q] = a /\ minutes'[a] = page[q] /\ checked'[a] = closed[q]
        /\ stage[q] = "minutes" /\ register' = register /\ convoked' = convoked
    BY <1>1, <1>3, <2>1 DEF InsertMinutes, TypeOK
  <2>3. Minuting(q)
    BY <1>1 DEF MinutesInv
  <2> QED
    BY <2>2, <2>3 DEF Minuting
<1> QED
  BY <1>2, <1>3

LEMMA StepIInv == IInv /\ [Next]_vars => IInv'
  BY StepTypeOK, StepVoting, StepConsigning, StepMinutes, StepRegister, StepMinuted DEF IInv

LEMMA Invariance == Spec => []IInv
  BY InitIInv, StepIInv, PTL DEF Spec

-----------------------------------------------------------------------------
(* Late votes. A vote that has passed the check of its resolution is worth one more  *)
(* than the tally; once the resolution is closed, none joins them.                   *)

Voted(s, c) == {v \in Voters : votes[s][v] = c}

Late(s) == {q \in Requests : stage[q] \in {"voter", "vote"} /\ subject[q] = s}

\* The most that the tally of c may reach once s is closed.
Reachable(s, c) == Cardinality(Voted(s, c)) + Cardinality(Late(s))

\* What is consigned, or about to be, was read by a request that was not itself voting.
LateInv ==
    \A s \in Resolutions, c \in Choices :
        /\ register[s] # None => Reachable(s, c) < register[s][c] + Cardinality(Requests)
        /\ \A q \in Requests :
              stage[q] = "consign" /\ subject[q] = s
              => Reachable(s, c) < count[q][c] + Cardinality(Requests)

\* The sets counted are finite.
LEMMA FiniteLate ==
    ASSUME IsFiniteSet(Requests)
    PROVE  \A s, c : /\ IsFiniteSet(Voted(s, c)) /\ Cardinality(Voted(s, c)) \in Nat
                     /\ IsFiniteSet(Late(s)) /\ Cardinality(Late(s)) \in Nat
<1> TAKE s, c
<1>1. Voted(s, c) \subseteq Voters /\ Late(s) \subseteq Requests
  BY DEF Voted, Late
<1> QED
  BY <1>1, VoteAssumption, FS_Subset, FS_CardinalityType

\* A vote inserted leaves those under way; nothing else moves either set.
LEMMA LateMoves ==
    ASSUME IInv, [Next]_vars, NEW s \in Resolutions, resolution[s] = "closed"
    PROVE  /\ Late(s)' \subseteq Late(s)
           /\ \/ \A c \in Choices : Voted(s, c)' \subseteq Voted(s, c)
              \/ \E q \in Late(s), v \in Voters :
                    /\ Late(s)' \subseteq Late(s) \ {q}
                    /\ \A c \in Choices : Voted(s, c)' \subseteq Voted(s, c) \cup {v}
<1>1. TypeOK /\ VotingInv
  BY DEF IInv
<1>2. ASSUME NEW p \in Late(s)' PROVE p \in Late(s)
  <2>1. p \in Requests /\ stage'[p] \in {"voter", "vote"} /\ subject'[p] = s
    BY <1>2 DEF Late
  <2>2. ASSUME Goes(p) PROVE stage[p] \in {"voter", "vote"} /\ subject[p] = s
    BY <1>1, <2>1, <2>2 DEF Goes, CastVote, CheckVoter, RecordDeliberation, ReadTally,
       GeneratePV, CheckComplete, ListRegister, Proceed, Begin, End, TypeOK
  <2> QED
    BY <1>1, <2>1, <2>2, StepOfRequest DEF Untouched, Late
<1>3. ASSUME NEW q \in Requests, InsertVote(q), subject[q] = s
      PROVE  \E r \in Late(s), v \in Voters :
                /\ Late(s)' \subseteq Late(s) \ {r}
                /\ \A c \in Choices : Voted(s, c)' \subseteq Voted(s, c) \cup {v}
  <2>1. q \in Late(s) /\ stage'[q] = "idle" /\ ballot[q][1] \in Voters
    BY <1>1, <1>3 DEF InsertVote, End, Late, VotingInv, Voting, TypeOK
  <2>2. q \notin Late(s)'
    BY <2>1 DEF Late
  <2>3. \A v \in Voters : v # ballot[q][1] => votes'[s][v] = votes[s][v]
    BY <1>1, <1>3, <2>1 DEF InsertVote, TypeOK
  <2>4. \A c \in Choices : Voted(s, c)' \subseteq Voted(s, c) \cup {ballot[q][1]}
    BY <2>3 DEF Voted
  <2> QED
    BY <1>2, <2>1, <2>2, <2>4
<1>4. ASSUME NEW q \in Requests, InsertVote(q), subject[q] # s PROVE votes'[s] = votes[s]
  BY <1>1, <1>4 DEF InsertVote, VotingInv, Voting, TypeOK
<1>5. ASSUME NEW w \in Voters, DeleteAccount(w)
      PROVE  \A v \in Voters : votes'[s][v] \in {votes[s][v], None}
  BY <1>1, <1>5 DEF DeleteAccount, TypeOK
<1>6. ASSUME \A v \in Voters : votes'[s][v] \in {votes[s][v], None}
      PROVE  \A c \in Choices : Voted(s, c)' \subseteq Voted(s, c)
  BY <1>6, VoteAssumption DEF Voted
<1>7. \/ \E q \in Requests : InsertVote(q)
      \/ \E w \in Voters : DeleteAccount(w)
      \/ UNCHANGED votes
  BY DEF people, request, records, Next, vars, Convoke, ChangeStatus, OpenResolution,
     CloseResolution, CastVote, CheckVoter, RecordDeliberation, ReadTally, InsertDeliberation,
     GeneratePV, CheckComplete, ListRegister, InsertMinutes
<1> QED
  BY <1>2, <1>3, <1>4, <1>5, <1>6, <1>7

\* So the tally of a closed resolution stays in reach.
LEMMA ReachableShrinks ==
    ASSUME IsFiniteSet(Requests), IInv, [Next]_vars, NEW s \in Resolutions, NEW c \in Choices,
           resolution[s] = "closed"
    PROVE  /\ Reachable(s, c) \in Nat
           /\ Reachable(s, c)' \in Nat
           /\ Reachable(s, c)' <= Reachable(s, c)
<1> DEFINE V  == Voted(s, c)
           L  == Late(s)
           V1 == Voted(s, c)'
           L1 == Late(s)'
<1>1. /\ IsFiniteSet(V) /\ Cardinality(V) \in Nat
      /\ IsFiniteSet(L) /\ Cardinality(L) \in Nat
  BY FiniteLate
<1>2. /\ IsFiniteSet(V1) /\ Cardinality(V1) \in Nat
      /\ IsFiniteSet(L1) /\ Cardinality(L1) \in Nat
  <2>1. V1 \subseteq Voters /\ L1 \subseteq Requests
    BY DEF Voted, Late
  <2> QED
    BY <2>1, VoteAssumption, FS_Subset, FS_CardinalityType
<1>3. /\ Reachable(s, c) = Cardinality(V) + Cardinality(L)
      /\ Reachable(s, c)' = Cardinality(V1) + Cardinality(L1)
  BY DEF Reachable
<1>4. L1 \subseteq L
  BY LateMoves
<1>5. V1 \subseteq V \/ \E q \in L, v \in Voters : L1 \subseteq L \ {q} /\ V1 \subseteq V \cup {v}
  BY LateMoves
<1> HIDE DEF V, L, V1, L1
<1>6. CASE V1 \subseteq V
  BY <1>1, <1>2, <1>3, <1>4, <1>6, FS_Subset
<1>7. ASSUME NEW q \in L, NEW v \in Voters, L1 \subseteq L \ {q}, V1 \subseteq V \cup {v}
      PROVE  Reachable(s, c)' <= Reachable(s, c)
  <2>1. IsFiniteSet(L \ {q}) /\ Cardinality(L \ {q}) = Cardinality(L) - 1
    BY <1>1, FS_RemoveElement
  <2>2. IsFiniteSet(V \cup {v}) /\ Cardinality(V \cup {v}) \in {Cardinality(V), Cardinality(V) + 1}
    BY <1>1, FS_AddElement
  <2>3. Cardinality(L1) <= Cardinality(L \ {q}) /\ Cardinality(V1) <= Cardinality(V \cup {v})
    BY <1>7, <2>1, <2>2, FS_Subset
  <2> QED
    BY <1>1, <1>2, <1>3, <2>1, <2>2, <2>3
<1> QED
  BY <1>1, <1>2, <1>3, <1>5, <1>6, <1>7

\* A tally read by a request that is not voting misses fewer votes than there are requests.
LEMMA TallyReaches ==
    ASSUME IsFiniteSet(Requests), NEW s \in Resolutions, NEW c \in Choices,
           NEW q \in Requests, q \notin Late(s)
    PROVE  Reachable(s, c) < Tally(s)[c] + Cardinality(Requests)
<1>1. Tally(s)[c] = Cardinality(Voted(s, c))
  BY DEF Tally, Voted
<1>2. Late(s) \subseteq Requests \ {q}
  BY DEF Late
<1>3. /\ IsFiniteSet(Requests \ {q})
      /\ Cardinality(Requests \ {q}) = Cardinality(Requests) - 1
      /\ Cardinality(Requests) \in Nat
  BY FS_RemoveElement, FS_CardinalityType
<1>4. Cardinality(Late(s)) <= Cardinality(Requests \ {q})
  BY <1>2, <1>3, FS_Subset
<1>5. Cardinality(Voted(s, c)) \in Nat /\ Cardinality(Late(s)) \in Nat
  BY FiniteLate
<1> QED
  BY <1>1, <1>3, <1>4, <1>5 DEF Reachable

\* The bound is kept: what was read stays read, what can be reached only shrinks.
LEMMA StepLateInv ==
    ASSUME IsFiniteSet(Requests)
    PROVE  IInv /\ LateInv /\ [Next]_vars => LateInv'
<1> SUFFICES ASSUME IInv, LateInv, [Next]_vars, NEW s \in Resolutions, NEW c \in Choices
             PROVE  /\ register'[s] # None =>
                          Reachable(s, c)' < register'[s][c] + Cardinality(Requests)
                    /\ \A q \in Requests :
                          stage'[q] = "consign" /\ subject'[q] = s
                          => Reachable(s, c)' < count'[q][c] + Cardinality(Requests)
  BY DEF LateInv
<1>1. TypeOK /\ TypeOK' /\ ConsigningInv /\ RegisterIsBacked /\ Lasting
  BY StepLasting, StepTypeOK DEF IInv
<1>2. Cardinality(Requests) \in Nat
  BY FS_CardinalityType
<1>3. ASSUME resolution[s] = "closed", NEW n \in Counts,
             Reachable(s, c) < n[c] + Cardinality(Requests)
      PROVE  Reachable(s, c)' < n[c] + Cardinality(Requests)
  <2>1. n[c] \in Nat
    BY VoteAssumption, FS_CardinalityType DEF Counts
  <2> QED
    BY <1>2, <1>3, <2>1, ReachableShrinks
<1>4. ASSUME NEW q \in Requests, stage[q] = "consign", subject[q] = s
      PROVE  Reachable(s, c)' < count[q][c] + Cardinality(Requests)
  <2>1. resolution[s] = "closed" /\ count[q] \in Counts
    BY <1>1, <1>4 DEF ConsigningInv, Consigning
  <2> QED
    BY <1>3, <1>4, <2>1 DEF LateInv
<1>5. ASSUME register'[s] # None
      PROVE  Reachable(s, c)' < register'[s][c] + Cardinality(Requests)
  <2>1. CASE register[s] # None
    <3>1. resolution[s] = "closed" /\ register[s] \in Counts /\ register'[s] = register[s]
      BY <1>1, <2>1 DEF RegisterIsBacked, Lasting, TypeOK, Registers
    <3> QED
      BY <1>3, <2>1, <3>1 DEF LateInv
  <2>2. CASE register[s] = None
    <3>1. PICK q \in Requests : InsertDeliberation(q)
      BY <1>5, <2>2 DEF people, Next, vars, records, request, Convoke, ChangeStatus,
         DeleteAccount, OpenResolution, CloseResolution, CastVote, CheckVoter, InsertVote,
         RecordDeliberation, ReadTally, GeneratePV, CheckComplete, ListRegister, InsertMinutes
    <3>2. subject[q] = s /\ register'[s] = count[q] /\ stage[q] = "consign"
      BY <1>1, <1>5, <2>2, <3>1 DEF InsertDeliberation, TypeOK, Registers
    <3> QED
      BY <1>4, <3>2
  <2> QED
    BY <2>1, <2>2
<1>6. ASSUME NEW q \in Requests, stage'[q] = "consign", subject'[q] = s
      PROVE  Reachable(s, c)' < count'[q][c] + Cardinality(Requests)
  <2>1. CASE Untouched(q)
    BY <1>4, <1>6, <2>1 DEF Untouched
  <2>2. ASSUME ReadTally(q) PROVE Reachable(s, c)' < count'[q][c] + Cardinality(Requests)
    <3>1. stage[q] = "tally" /\ subject[q] = s /\ count'[q] = Tally(s)
      BY <1>1, <1>6, <2>2 DEF ReadTally, Proceed, TypeOK
    <3>2. resolution[s] = "closed" /\ q \notin Late(s)
      BY <1>1, <3>1 DEF ConsigningInv, Consigning, Late
    <3>3. Reachable(s, c) < Tally(s)[c] + Cardinality(Requests) /\ Tally(s) \in Counts
      BY <3>2, TallyReaches, TallyType
    <3>4. PICK n \in Counts : n = Tally(s)
      BY <3>3
    <3> QED
      BY <1>3, <3>1, <3>2, <3>3, <3>4
  <2>3. ASSUME Goes(q) PROVE ReadTally(q)
    BY <1>1, <1>6, <2>3 DEF Goes, CastVote, CheckVoter, RecordDeliberation, GeneratePV,
       CheckComplete, ListRegister, Proceed, Begin, End, TypeOK
  <2> QED
    BY <1>1, <1>6, <2>1, <2>2, <2>3, StepOfRequest
<1> QED
  BY <1>5, <1>6

-----------------------------------------------------------------------------
(* Theorems.                                                               *)

\* Every column holds a value of its type.
THEOREM TypeCorrect == Spec => []TypeOK
<1>1. IInv => TypeOK
  BY DEF IInv
<1> QED
  BY <1>1, Invariance, PTL

\* The register counts closed resolutions only, and the votes it counts are still there,
\* but for those of deleted accounts.
THEOREM RegisterBacked == Spec => []RegisterIsBacked
<1>1. IInv => RegisterIsBacked
  BY DEF IInv
<1> QED
  BY <1>1, Invariance, PTL

\* Minutes quote the register of their assembly as it stands, for ever.
THEOREM MinutesQuote == Spec => []MinutesQuoteRegister
<1>1. IInv => MinutesQuoteRegister
  BY DEF IInv
<1> QED
  BY <1>1, Invariance, PTL

\* Minutes never freeze a partial register.
THEOREM MinutesAreComplete == Spec => []MinutesComplete
<1>1. IInv => MinutesComplete
  BY DEF IInv
<1> QED
  BY <1>1, Invariance, PTL

\* No request, however it interleaves with others, changes or removes a vote; only the
\* deletion of the account does.
THEOREM VotesNeverChange == Spec => VotesAreKept
<1>1. IInv /\ [Next]_vars =>
        [\A s \in Resolutions, v \in Voters :
            votes[s][v] # None /\ v \in users' => votes'[s][v] = votes[s][v]]_vars
  BY VotesKept
<1> QED
  BY <1>1, Invariance, PTL DEF Spec, VotesAreKept

\* Nor an entry of the register, nor minutes.
THEOREM RecordsNeverChange == Spec => RecordsAreImmutable
<1>1. IInv /\ [Next]_vars =>
        [/\ \A s \in Resolutions : register[s] # None => register'[s] = register[s]
         /\ \A a \in Assemblies : minutes[a] # None => minutes'[a] = minutes[a]]_vars
  BY RecordsKept
<1> QED
  BY <1>1, Invariance, PTL DEF Spec, RecordsAreImmutable

\* Votes that slip past the closing, into a resolution already tallied, are fewer than
\* the requests served at the same time.
THEOREM LateVotesAreFew ==
    ASSUME IsFiniteSet(Requests)
    PROVE  Spec => []LateVotesAreBounded
<1>1. Init => LateInv
  BY DEF Init, LateInv
<1>2. IInv /\ LateInv /\ [Next]_vars => LateInv'
  BY StepLateInv
<1>3. IInv /\ LateInv => LateVotesAreBounded
  <2> SUFFICES ASSUME IInv, LateInv, NEW s \in Resolutions, NEW c \in Choices, register[s] # None
               PROVE  Tally(s)[c] <= register[s][c] + Cardinality(Requests) - 1
    BY DEF LateVotesAreBounded
  <2>1. Tally(s)[c] = Cardinality(Voted(s, c))
    BY DEF Tally, Voted
  <2>2. Cardinality(Voted(s, c)) \in Nat /\ Cardinality(Late(s)) \in Nat
    BY FiniteLate
  <2>3. register[s][c] \in Nat
    BY VoteAssumption, FS_CardinalityType DEF IInv, TypeOK, Registers, Counts
  <2>4. Reachable(s, c) < register[s][c] + Cardinality(Requests) /\ Cardinality(Requests) \in Nat
    BY FS_CardinalityType DEF LateInv
  <2> QED
    BY <2>1, <2>2, <2>3, <2>4 DEF Reachable
<1> QED
  BY <1>1, <1>2, <1>3, Invariance, PTL DEF Spec
=============================================================================
