----------------------- MODULE AssemblyPresenceProofs -----------------------
(***************************************************************************)
(* Proofs about AssemblyPresence, for any numbers of assemblies, members   *)
(* and requests, and any changes of accounts and memberships.  The         *)
(* invariant follows one convocation from its transaction to its last      *)
(* mail, and a quorum from the signatures to the count.                    *)
(***************************************************************************)
EXTENDS AssemblyPresence, FiniteSetTheorems, TLAPS

\* A request under way is about an assembly; one that records a mandate holds two
\* different members, of an assembly that was convoked.
JobInv ==
  /\ \A q \in Requests : stage[q] # "idle" => subject[q] \in Assemblies
  /\ \A q \in Requests : stage[q] \in {"principal", "proxy", "mandate"} =>
        /\ pair[q] \in Members \X Members
        /\ pair[q][1] # pair[q][2]
        /\ status[subject[q]] = "convoked"

\* Traces, recipients and mails appear with the convocation.
ConvocationInv ==
  /\ \A a \in Assemblies : status[a] # "convoked" => convened[a] = {}
  /\ TracesAreComplete
  /\ MailFollowsTrace

\* One request queues the mails of an assembly, and those it has left are not queued.
MailInv ==
  /\ \A q \in Requests : stage[q] = "mail" =>
        /\ status[subject[q]] = "convoked"
        /\ people[q] \subseteq convened[subject[q]]
        /\ \A m \in people[q] : outbox[subject[q]][m] = 0
  /\ \A q, s \in Requests :
        stage[q] = "mail" /\ stage[s] = "mail" /\ subject[q] = subject[s] => q = s

\* The eligible members found present have signed, unless deleted since.
QuorumInv ==
  \A q \in Requests : stage[q] = "represented" =>
    present[q] \subseteq people[q] \cap (attendance[subject[q]] \cup (Members \ users))

IInv ==
  /\ TypeOK
  /\ JobInv
  /\ ConvocationInv
  /\ MailInv
  /\ MandateBindsMembers
  /\ QuorumInv

\* The steps there are.
LEMMA NextCases ==
  ASSUME [Next]_vars
  PROVE  \/ \E m \in Members : ChangeMembership(m)
         \/ \E m \in Members : DeleteAccount(m)
         \/ \E a \in Assemblies : Create(a)
         \/ \E a \in Assemblies, m \in Members : SignAttendance(a, m)
         \/ \E q \in Requests : Abandon(q)
         \/ \E q \in Requests, a \in Assemblies : Convoke(q, a)
         \/ \E q \in Requests, a \in Assemblies : CheckQuorum(q, a)
         \/ \E q \in Requests : ResolveRecipients(q)
         \/ \E q \in Requests : CommitConvocation(q)
         \/ \E q \in Requests, m \in Members : EnqueueMail(q, m)
         \/ \E q \in Requests, a \in Assemblies, p, x \in Members : RecordMandate(q, a, p, x)
         \/ \E q \in Requests : CheckPrincipal(q)
         \/ \E q \in Requests : CheckProxy(q)
         \/ \E q \in Requests : InsertMandate(q)
         \/ \E q \in Requests : CountPresent(q)
         \/ \E q \in Requests : CountRepresented(q)
         \/ UNCHANGED vars
  BY DEF Next

\* The members present, and the others who are represented, are counted once each.
LEMMA CountedOnce ==
  ASSUME NEW a, NEW E, NEW P, NEW Q, IsFiniteSet(Q), P \subseteq Q,
         Represented(a, E, P) \subseteq Q
  PROVE  /\ Cardinality(P) + Cardinality(Represented(a, E, P)) <= Cardinality(Q)
         /\ Cardinality(P) + Cardinality(Represented(a, E, P)) \in Nat
         /\ Cardinality(Q) \in Nat
<1> DEFINE R == Represented(a, E, P)
<1>1. P \cap R = {}
  BY DEF Represented
<1> HIDE DEF R
<1>2. IsFiniteSet(P) /\ IsFiniteSet(R) /\ P \cup R \subseteq Q
  BY FS_Subset DEF R
<1>3. IsFiniteSet(P \cup R)
      /\ Cardinality(P \cup R) = Cardinality(P) + Cardinality(R) - Cardinality(P \cap R)
  BY <1>2, FS_Union
<1>4. Cardinality(P \cap R) = 0
  BY <1>1, FS_EmptySet
<1>5. Cardinality(P) \in Nat /\ Cardinality(R) \in Nat /\ Cardinality(Q) \in Nat
      /\ Cardinality(P \cup R) <= Cardinality(Q)
  BY <1>2, FS_CardinalityType, FS_Subset
<1> QED
  BY <1>3, <1>4, <1>5 DEF R

\* Nothing is there yet.
LEMMA InitInv == Init => IInv
<1>1. Cardinality(Members) \in Nat
  BY PresenceAssumption, FS_CardinalityType
<1> QED
  BY <1>1, PresenceAssumption DEF Init, IInv, TypeOK, Stages, JobInv, ConvocationInv,
     TracesAreComplete, MailFollowsTrace, MailInv, MandateBindsMembers, QuorumInv

\* The types, for every step.
LEMMA TypeStep ==
  TypeOK /\ JobInv /\ [Next]_vars => TypeOK'
<1> SUFFICES ASSUME TypeOK, JobInv, [Next]_vars
             PROVE  TypeOK'
  OBVIOUS
<1>0. Cardinality(Members) \in Nat
  BY PresenceAssumption, FS_CardinalityType
<1> USE <1>0, PresenceAssumption DEF population, convocation, presence, request,
    TypeOK, JobInv, Stages
<1>1. CASE \E m \in Members : ChangeMembership(m)
  BY <1>1 DEF ChangeMembership
<1>2. CASE \E m \in Members : DeleteAccount(m)
  BY <1>2 DEF DeleteAccount
<1>3. CASE \E a \in Assemblies : Create(a)
  BY <1>3 DEF Create
<1>4. CASE \E a \in Assemblies, m \in Members : SignAttendance(a, m)
  BY <1>4 DEF SignAttendance
<1>5. CASE \E q \in Requests : Abandon(q)
  BY <1>5 DEF Abandon, End
<1>6. CASE \E q \in Requests, a \in Assemblies : Convoke(q, a)
  BY <1>6 DEF Convoke, Begin, Listed
<1>7. CASE \E q \in Requests, a \in Assemblies : CheckQuorum(q, a)
  BY <1>7 DEF CheckQuorum, Begin, Listed
<1>8. CASE \E q \in Requests : ResolveRecipients(q)
  BY <1>8 DEF ResolveRecipients, Proceed
<1>9. CASE \E q \in Requests : CommitConvocation(q)
  BY <1>9 DEF CommitConvocation, Convocable, Proceed
<1>10. CASE \E q \in Requests, m \in Members : EnqueueMail(q, m)
  <2> SUFFICES ASSUME NEW q \in Requests, NEW m \in Members, EnqueueMail(q, m)
               PROVE  TypeOK'
    BY <1>10
  <2>1. subject[q] \in Assemblies /\ outbox[subject[q]] \in [Members -> Nat]
    BY DEF EnqueueMail
  <2>2. [outbox[subject[q]] EXCEPT ![m] = @ + 1] \in [Members -> Nat]
    BY <2>1
  <2>3. outbox' = [outbox EXCEPT ![subject[q]] = [outbox[subject[q]] EXCEPT ![m] = @ + 1]]
        \/ outbox' = outbox
    BY DEF EnqueueMail
  <2>4. outbox' \in [Assemblies -> [Members -> Nat]]
    <3> DEFINE mails == [outbox[subject[q]] EXCEPT ![m] = @ + 1]
    <3> HIDE DEF mails
    <3>1. CASE outbox' = [outbox EXCEPT ![subject[q]] = mails]
      BY <2>1, <2>2, <3>1 DEF mails
    <3>2. CASE outbox' = outbox
      BY <3>2
    <3> QED
      BY <2>3, <3>1, <3>2 DEF mails
  <2> QED
    BY <2>4 DEF EnqueueMail, Proceed
<1>11. CASE \E q \in Requests, a \in Assemblies, p, x \in Members : RecordMandate(q, a, p, x)
  BY <1>11 DEF RecordMandate, Begin
<1>12. CASE \E q \in Requests : CheckPrincipal(q)
  BY <1>12 DEF CheckPrincipal, CheckMember, Proceed
<1>13. CASE \E q \in Requests : CheckProxy(q)
  BY <1>13 DEF CheckProxy, CheckMember, Proceed
<1>14. CASE \E q \in Requests : InsertMandate(q)
  BY <1>14 DEF InsertMandate, Mandated, End
<1>15. CASE \E q \in Requests : CountPresent(q)
  BY <1>15 DEF CountPresent, Proceed
<1>16. CASE \E q \in Requests : CountRepresented(q)
  <2> SUFFICES ASSUME NEW q \in Requests, CountRepresented(q)
               PROVE  TypeOK'
    BY <1>16
  <2>1. attending'[q] \in 0 .. Cardinality(Members)
    <3>1. attending'[q] = Cardinality(present[q])
                 + Cardinality(Represented(subject[q], people[q], present[q]))
      BY DEF CountRepresented
    <3>2. IsFiniteSet(Members) /\ Cardinality(Members) \in Nat
      BY FS_CardinalityType
    <3>3. present[q] \subseteq Members
          /\ Represented(subject[q], people[q], present[q]) \subseteq Members
      BY DEF Represented
    <3> QED
      BY <3>1, <3>2, <3>3, CountedOnce
  <2> QED
    BY <2>1 DEF CountRepresented, Proceed
<1>17. CASE UNCHANGED vars
  BY <1>17 DEF vars
<1> QED
  BY <1>1, <1>2, <1>3, <1>4, <1>5, <1>6, <1>7, <1>8,
     <1>9, <1>10, <1>11, <1>12, <1>13, <1>14, <1>15, <1>16, <1>17, NextCases

\* A convoked assembly stays so.
LEMMA JobStep ==
  TypeOK /\ JobInv /\ [Next]_vars => JobInv'
<1> SUFFICES ASSUME TypeOK, JobInv, [Next]_vars
             PROVE  JobInv'
  OBVIOUS
<1> USE PresenceAssumption DEF population, convocation, presence, request, TypeOK,
    JobInv, Stages
<1>1. CASE \E m \in Members : ChangeMembership(m)
  BY <1>1 DEF ChangeMembership
<1>2. CASE \E m \in Members : DeleteAccount(m)
  BY <1>2 DEF DeleteAccount
<1>3. CASE \E a \in Assemblies : Create(a)
  BY <1>3 DEF Create
<1>4. CASE \E a \in Assemblies, m \in Members : SignAttendance(a, m)
  BY <1>4 DEF SignAttendance
<1>5. CASE \E q \in Requests : Abandon(q)
  BY <1>5 DEF Abandon, End
<1>6. CASE \E q \in Requests, a \in Assemblies : Convoke(q, a)
  BY <1>6 DEF Convoke, Begin, Listed
<1>7. CASE \E q \in Requests, a \in Assemblies : CheckQuorum(q, a)
  BY <1>7 DEF CheckQuorum, Begin, Listed
<1>8. CASE \E q \in Requests : ResolveRecipients(q)
  BY <1>8 DEF ResolveRecipients, Proceed
<1>9. CASE \E q \in Requests : CommitConvocation(q)
  BY <1>9 DEF CommitConvocation, Convocable, Proceed
<1>10. CASE \E q \in Requests, m \in Members : EnqueueMail(q, m)
  BY <1>10 DEF EnqueueMail, Proceed
<1>11. CASE \E q \in Requests, a \in Assemblies, p, x \in Members : RecordMandate(q, a, p, x)
  BY <1>11 DEF RecordMandate, Begin
<1>12. CASE \E q \in Requests : CheckPrincipal(q)
  BY <1>12 DEF CheckPrincipal, CheckMember, Proceed
<1>13. CASE \E q \in Requests : CheckProxy(q)
  BY <1>13 DEF CheckProxy, CheckMember, Proceed
<1>14. CASE \E q \in Requests : InsertMandate(q)
  BY <1>14 DEF InsertMandate, Mandated, End
<1>15. CASE \E q \in Requests : CountPresent(q)
  BY <1>15 DEF CountPresent, Proceed
<1>16. CASE \E q \in Requests : CountRepresented(q)
  BY <1>16 DEF CountRepresented, Proceed
<1>17. CASE UNCHANGED vars
  BY <1>17 DEF vars
<1> QED
  BY <1>1, <1>2, <1>3, <1>4, <1>5, <1>6, <1>7, <1>8,
     <1>9, <1>10, <1>11, <1>12, <1>13, <1>14, <1>15, <1>16, <1>17, NextCases

\* One transaction convokes; deletions take traces away.
LEMMA ConvocationStep ==
  TypeOK /\ JobInv /\ ConvocationInv /\ MailInv /\ [Next]_vars => ConvocationInv'
<1> SUFFICES ASSUME TypeOK, JobInv, ConvocationInv, MailInv, [Next]_vars
             PROVE  ConvocationInv'
  OBVIOUS
<1> USE PresenceAssumption DEF population, convocation, presence, request, TypeOK,
    JobInv, ConvocationInv, TracesAreComplete, MailFollowsTrace, MailInv
<1>1. CASE \E m \in Members : ChangeMembership(m)
  BY <1>1 DEF ChangeMembership
<1>2. CASE \E m \in Members : DeleteAccount(m)
  BY <1>2 DEF DeleteAccount
<1>3. CASE \E a \in Assemblies : Create(a)
  BY <1>3 DEF Create
<1>4. CASE \E a \in Assemblies, m \in Members : SignAttendance(a, m)
  BY <1>4 DEF SignAttendance
<1>5. CASE \E q \in Requests : Abandon(q)
  BY <1>5 DEF Abandon, End
<1>6. CASE \E q \in Requests, a \in Assemblies : Convoke(q, a)
  BY <1>6 DEF Convoke, Begin, Listed
<1>7. CASE \E q \in Requests, a \in Assemblies : CheckQuorum(q, a)
  BY <1>7 DEF CheckQuorum, Begin, Listed
<1>8. CASE \E q \in Requests : ResolveRecipients(q)
  BY <1>8 DEF ResolveRecipients, Proceed
<1>9. CASE \E q \in Requests : CommitConvocation(q)
  <2> SUFFICES ASSUME NEW q \in Requests, CommitConvocation(q)
               PROVE  ConvocationInv'
    BY <1>9
  <2>1. subject[q] \in Assemblies /\ status[subject[q]] = "drafting"
    BY DEF CommitConvocation, Convocable
  <2>2. people[q] \subseteq users /\ users' = users /\ outbox' = outbox
    BY DEF CommitConvocation, Convocable
  <2>3. \A b \in Assemblies \ {subject[q]} :
          status'[b] = status[b] /\ traces'[b] = traces[b] /\ convened'[b] = convened[b]
    BY DEF CommitConvocation
  <2>4. convened[subject[q]] = {} /\ traces[subject[q]] = {}
    BY <2>1
  <2>5. status'[subject[q]] = "convoked" /\ traces'[subject[q]] = people[q]
        /\ convened'[subject[q]] = people[q]
    BY <2>1, <2>4 DEF CommitConvocation
  <2>6. \A m \in Members : outbox[subject[q]][m] = 0
    <3>1. outbox[subject[q]] \in [Members -> Nat]
      BY <2>1
    <3> QED
      BY <2>1, <2>4, <3>1
  <2>7. \A a \in Assemblies : status'[a] # "convoked" => convened'[a] = {}
    BY <2>3, <2>5
  <2>8. TracesAreComplete'
    <3> SUFFICES ASSUME NEW b \in Assemblies
                 PROVE  traces'[b] = IF status'[b] = "convoked" THEN convened'[b] \cap users ELSE {}
      BY <2>2
    <3>1. CASE b = subject[q]
      BY <2>2, <2>5, <3>1
    <3>2. CASE b # subject[q]
      <4>1. status'[b] = status[b] /\ traces'[b] = traces[b] /\ convened'[b] = convened[b]
        BY <2>3, <3>2
      <4> QED
        BY <4>1
    <3> QED
      BY <3>1, <3>2
  <2>9. MailFollowsTrace'
    <3> SUFFICES ASSUME NEW b \in Assemblies, NEW m \in Members
                 PROVE  outbox[b][m] <= IF m \in convened'[b] THEN 1 ELSE 0
      BY <2>2
    <3>1. CASE b = subject[q]
      BY <2>6, <3>1
    <3>2. CASE b # subject[q]
      <4>1. convened'[b] = convened[b]
        BY <2>3, <3>2
      <4> QED
        BY <4>1
    <3> QED
      BY <3>1, <3>2
  <2> QED
    BY <2>7, <2>8, <2>9
<1>10. CASE \E q \in Requests, m \in Members : EnqueueMail(q, m)
  <2> SUFFICES ASSUME NEW q \in Requests, NEW m \in Members, EnqueueMail(q, m)
               PROVE  ConvocationInv'
    BY <1>10
  <2>1. TracesAreComplete' /\ \A a \in Assemblies : status'[a] # "convoked" => convened'[a] = {}
    BY DEF EnqueueMail
  <2>2. subject[q] \in Assemblies /\ m \in convened[subject[q]] /\ outbox[subject[q]][m] = 0
    BY DEF EnqueueMail
  <2>3. \A a \in Assemblies, n \in Members :
          outbox'[a][n] = outbox[a][n] \/ (a = subject[q] /\ n = m /\ outbox'[a][n] = 1)
    BY <2>2 DEF EnqueueMail
  <2>4. convened' = convened
    BY DEF EnqueueMail
  <2>5. MailFollowsTrace'
    <3> SUFFICES ASSUME NEW a \in Assemblies, NEW n \in Members
                 PROVE  outbox'[a][n] <= IF n \in convened[a] THEN 1 ELSE 0
      BY <2>4
    <3>1. CASE outbox'[a][n] = outbox[a][n]
      BY <3>1
    <3>2. CASE a = subject[q] /\ n = m /\ outbox'[a][n] = 1
      BY <2>2, <3>2
    <3> QED
      BY <2>3, <3>1, <3>2
  <2> QED
    BY <2>1, <2>5
<1>11. CASE \E q \in Requests, a \in Assemblies, p, x \in Members : RecordMandate(q, a, p, x)
  BY <1>11 DEF RecordMandate, Begin
<1>12. CASE \E q \in Requests : CheckPrincipal(q)
  BY <1>12 DEF CheckPrincipal, CheckMember, Proceed
<1>13. CASE \E q \in Requests : CheckProxy(q)
  BY <1>13 DEF CheckProxy, CheckMember, Proceed
<1>14. CASE \E q \in Requests : InsertMandate(q)
  BY <1>14 DEF InsertMandate, Mandated, End
<1>15. CASE \E q \in Requests : CountPresent(q)
  BY <1>15 DEF CountPresent, Proceed
<1>16. CASE \E q \in Requests : CountRepresented(q)
  BY <1>16 DEF CountRepresented, Proceed
<1>17. CASE UNCHANGED vars
  BY <1>17 DEF vars
<1> QED
  BY <1>1, <1>2, <1>3, <1>4, <1>5, <1>6, <1>7, <1>8,
     <1>9, <1>10, <1>11, <1>12, <1>13, <1>14, <1>15, <1>16, <1>17, NextCases

\* A second convocation finds no draft.
LEMMA MailStep ==
  TypeOK /\ JobInv /\ ConvocationInv /\ MailInv /\ [Next]_vars => MailInv'
<1> SUFFICES ASSUME TypeOK, JobInv, ConvocationInv, MailInv, [Next]_vars
             PROVE  MailInv'
  OBVIOUS
<1> USE PresenceAssumption DEF population, convocation, presence, request, TypeOK,
    JobInv, ConvocationInv, TracesAreComplete, MailFollowsTrace, MailInv
<1>1. CASE \E m \in Members : ChangeMembership(m)
  BY <1>1 DEF ChangeMembership
<1>2. CASE \E m \in Members : DeleteAccount(m)
  BY <1>2 DEF DeleteAccount
<1>3. CASE \E a \in Assemblies : Create(a)
  BY <1>3 DEF Create
<1>4. CASE \E a \in Assemblies, m \in Members : SignAttendance(a, m)
  BY <1>4 DEF SignAttendance
<1>5. CASE \E q \in Requests : Abandon(q)
  BY <1>5 DEF Abandon, End
<1>6. CASE \E q \in Requests, a \in Assemblies : Convoke(q, a)
  BY <1>6 DEF Convoke, Begin, Listed
<1>7. CASE \E q \in Requests, a \in Assemblies : CheckQuorum(q, a)
  BY <1>7 DEF CheckQuorum, Begin, Listed
<1>8. CASE \E q \in Requests : ResolveRecipients(q)
  BY <1>8 DEF ResolveRecipients, Proceed
<1>9. CASE \E q \in Requests : CommitConvocation(q)
  BY <1>9 DEF CommitConvocation, Convocable, Proceed
<1>10. CASE \E q \in Requests, m \in Members : EnqueueMail(q, m)
  BY <1>10 DEF EnqueueMail, Proceed
<1>11. CASE \E q \in Requests, a \in Assemblies, p, x \in Members : RecordMandate(q, a, p, x)
  BY <1>11 DEF RecordMandate, Begin
<1>12. CASE \E q \in Requests : CheckPrincipal(q)
  BY <1>12 DEF CheckPrincipal, CheckMember, Proceed
<1>13. CASE \E q \in Requests : CheckProxy(q)
  BY <1>13 DEF CheckProxy, CheckMember, Proceed
<1>14. CASE \E q \in Requests : InsertMandate(q)
  BY <1>14 DEF InsertMandate, Mandated, End
<1>15. CASE \E q \in Requests : CountPresent(q)
  BY <1>15 DEF CountPresent, Proceed
<1>16. CASE \E q \in Requests : CountRepresented(q)
  BY <1>16 DEF CountRepresented, Proceed
<1>17. CASE UNCHANGED vars
  BY <1>17 DEF vars
<1> QED
  BY <1>1, <1>2, <1>3, <1>4, <1>5, <1>6, <1>7, <1>8,
     <1>9, <1>10, <1>11, <1>12, <1>13, <1>14, <1>15, <1>16, <1>17, NextCases

\* The foreign keys hold when the mandate is inserted.
LEMMA MandateStep ==
  TypeOK /\ JobInv /\ MandateBindsMembers /\ [Next]_vars => MandateBindsMembers'
<1> SUFFICES ASSUME TypeOK, JobInv, MandateBindsMembers, [Next]_vars
             PROVE  MandateBindsMembers'
  OBVIOUS
<1> USE PresenceAssumption DEF population, convocation, presence, request, TypeOK,
    JobInv, MandateBindsMembers
<1>1. CASE \E m \in Members : ChangeMembership(m)
  BY <1>1 DEF ChangeMembership
<1>2. CASE \E m \in Members : DeleteAccount(m)
  BY <1>2 DEF DeleteAccount
<1>3. CASE \E a \in Assemblies : Create(a)
  BY <1>3 DEF Create
<1>4. CASE \E a \in Assemblies, m \in Members : SignAttendance(a, m)
  BY <1>4 DEF SignAttendance
<1>5. CASE \E q \in Requests : Abandon(q)
  BY <1>5 DEF Abandon, End
<1>6. CASE \E q \in Requests, a \in Assemblies : Convoke(q, a)
  BY <1>6 DEF Convoke, Begin, Listed
<1>7. CASE \E q \in Requests, a \in Assemblies : CheckQuorum(q, a)
  BY <1>7 DEF CheckQuorum, Begin, Listed
<1>8. CASE \E q \in Requests : ResolveRecipients(q)
  BY <1>8 DEF ResolveRecipients, Proceed
<1>9. CASE \E q \in Requests : CommitConvocation(q)
  BY <1>9 DEF CommitConvocation, Convocable, Proceed
<1>10. CASE \E q \in Requests, m \in Members : EnqueueMail(q, m)
  BY <1>10 DEF EnqueueMail, Proceed
<1>11. CASE \E q \in Requests, a \in Assemblies, p, x \in Members : RecordMandate(q, a, p, x)
  BY <1>11 DEF RecordMandate, Begin
<1>12. CASE \E q \in Requests : CheckPrincipal(q)
  BY <1>12 DEF CheckPrincipal, CheckMember, Proceed
<1>13. CASE \E q \in Requests : CheckProxy(q)
  BY <1>13 DEF CheckProxy, CheckMember, Proceed
<1>14. CASE \E q \in Requests : InsertMandate(q)
  BY <1>14 DEF InsertMandate, Mandated, End
<1>15. CASE \E q \in Requests : CountPresent(q)
  BY <1>15 DEF CountPresent, Proceed
<1>16. CASE \E q \in Requests : CountRepresented(q)
  BY <1>16 DEF CountRepresented, Proceed
<1>17. CASE UNCHANGED vars
  BY <1>17 DEF vars
<1> QED
  BY <1>1, <1>2, <1>3, <1>4, <1>5, <1>6, <1>7, <1>8,
     <1>9, <1>10, <1>11, <1>12, <1>13, <1>14, <1>15, <1>16, <1>17, NextCases

\* A signature goes only with its account.
LEMMA QuorumStep ==
  TypeOK /\ JobInv /\ QuorumInv /\ [Next]_vars => QuorumInv'
<1> SUFFICES ASSUME TypeOK, JobInv, QuorumInv, [Next]_vars
             PROVE  QuorumInv'
  OBVIOUS
<1> USE PresenceAssumption DEF population, convocation, presence, request, TypeOK,
    JobInv, QuorumInv
<1>1. CASE \E m \in Members : ChangeMembership(m)
  BY <1>1 DEF ChangeMembership
<1>2. CASE \E m \in Members : DeleteAccount(m)
  BY <1>2 DEF DeleteAccount
<1>3. CASE \E a \in Assemblies : Create(a)
  BY <1>3 DEF Create
<1>4. CASE \E a \in Assemblies, m \in Members : SignAttendance(a, m)
  BY <1>4 DEF SignAttendance
<1>5. CASE \E q \in Requests : Abandon(q)
  BY <1>5 DEF Abandon, End
<1>6. CASE \E q \in Requests, a \in Assemblies : Convoke(q, a)
  BY <1>6 DEF Convoke, Begin, Listed
<1>7. CASE \E q \in Requests, a \in Assemblies : CheckQuorum(q, a)
  BY <1>7 DEF CheckQuorum, Begin, Listed
<1>8. CASE \E q \in Requests : ResolveRecipients(q)
  BY <1>8 DEF ResolveRecipients, Proceed
<1>9. CASE \E q \in Requests : CommitConvocation(q)
  BY <1>9 DEF CommitConvocation, Convocable, Proceed
<1>10. CASE \E q \in Requests, m \in Members : EnqueueMail(q, m)
  BY <1>10 DEF EnqueueMail, Proceed
<1>11. CASE \E q \in Requests, a \in Assemblies, p, x \in Members : RecordMandate(q, a, p, x)
  BY <1>11 DEF RecordMandate, Begin
<1>12. CASE \E q \in Requests : CheckPrincipal(q)
  BY <1>12 DEF CheckPrincipal, CheckMember, Proceed
<1>13. CASE \E q \in Requests : CheckProxy(q)
  BY <1>13 DEF CheckProxy, CheckMember, Proceed
<1>14. CASE \E q \in Requests : InsertMandate(q)
  BY <1>14 DEF InsertMandate, Mandated, End
<1>15. CASE \E q \in Requests : CountPresent(q)
  BY <1>15 DEF CountPresent, Proceed
<1>16. CASE \E q \in Requests : CountRepresented(q)
  BY <1>16 DEF CountRepresented, Proceed
<1>17. CASE UNCHANGED vars
  BY <1>17 DEF vars
<1> QED
  BY <1>1, <1>2, <1>3, <1>4, <1>5, <1>6, <1>7, <1>8,
     <1>9, <1>10, <1>11, <1>12, <1>13, <1>14, <1>15, <1>16, <1>17, NextCases

LEMMA Inductive == Spec => []IInv
<1>1. IInv /\ [Next]_vars => IInv'
  BY TypeStep, JobStep, ConvocationStep, MailStep, MandateStep, QuorumStep DEF IInv
<1> QED
  BY InitInv, <1>1, PTL DEF Spec

-----------------------------------------------------------------------------
\* Every variable keeps its type: the tables of an assembly and what requests hold.
THEOREM TypeCorrect == Spec => []TypeOK
  BY Inductive, PTL DEF IInv

\* Convoke: however many administrators convoke and accounts go, the traces of a
\* convoked assembly are those of its one convocation.
THEOREM ConvocationsAreTraced == Spec => []TracesAreComplete
  BY Inductive, PTL DEF IInv, ConvocationInv

\* Convoke: a mail goes to a recipient of the convocation, once.
THEOREM MailsFollowTraces == Spec => []MailFollowsTrace
  BY Inductive, PTL DEF IInv, ConvocationInv

\* RecordMandate: a mandate binds two accounts that exist.
THEOREM MandatesBind == Spec => []MandateBindsMembers
  BY Inductive, PTL DEF IInv

\* RecordMandate: UNIQUE keeps the first mandate.
THEOREM MandatesStand == Spec => MandatesAreKept
<1>1. IInv /\ [Next]_vars =>
        [\A a \in Assemblies, p \in Members :
            mandate[a][p] # None /\ {p, mandate[a][p]} \subseteq users' =>
                mandate'[a][p] = mandate[a][p]]_vars
  <2> SUFFICES ASSUME IInv, [Next]_vars, NEW a \in Assemblies, NEW p \in Members,
                      mandate[a][p] # None, {p, mandate[a][p]} \subseteq users'
               PROVE  mandate'[a][p] = mandate[a][p]
    OBVIOUS
  <2> USE DEF population, convocation, presence, request, IInv, TypeOK, JobInv
  <2>1. CASE \E m \in Members : ChangeMembership(m)
    BY <2>1 DEF ChangeMembership
  <2>2. CASE \E m \in Members : DeleteAccount(m)
    BY <2>2 DEF DeleteAccount
  <2>3. CASE \E b \in Assemblies : Create(b)
    BY <2>3 DEF Create
  <2>4. CASE \E b \in Assemblies, m \in Members : SignAttendance(b, m)
    BY <2>4 DEF SignAttendance
  <2>5. CASE \E q \in Requests : Abandon(q)
    BY <2>5 DEF Abandon, End
  <2>6. CASE \E q \in Requests, b \in Assemblies : Convoke(q, b)
    BY <2>6 DEF Convoke, Begin, Listed
  <2>7. CASE \E q \in Requests, b \in Assemblies : CheckQuorum(q, b)
    BY <2>7 DEF CheckQuorum, Begin, Listed
  <2>8. CASE \E q \in Requests : ResolveRecipients(q)
    BY <2>8 DEF ResolveRecipients, Proceed
  <2>9. CASE \E q \in Requests : CommitConvocation(q)
    BY <2>9 DEF CommitConvocation, Convocable, Proceed
  <2>10. CASE \E q \in Requests, m \in Members : EnqueueMail(q, m)
    BY <2>10 DEF EnqueueMail, Proceed
  <2>11. CASE \E q \in Requests, b \in Assemblies, r, x \in Members : RecordMandate(q, b, r, x)
    BY <2>11 DEF RecordMandate, Begin
  <2>12. CASE \E q \in Requests : CheckPrincipal(q)
    BY <2>12 DEF CheckPrincipal, CheckMember, Proceed
  <2>13. CASE \E q \in Requests : CheckProxy(q)
    BY <2>13 DEF CheckProxy, CheckMember, Proceed
  <2>14. CASE \E q \in Requests : InsertMandate(q)
    BY <2>14 DEF InsertMandate, Mandated, End
  <2>15. CASE \E q \in Requests : CountPresent(q)
    BY <2>15 DEF CountPresent, Proceed
  <2>16. CASE \E q \in Requests : CountRepresented(q)
    BY <2>16 DEF CountRepresented, Proceed
  <2>17. CASE UNCHANGED vars
    BY <2>17 DEF vars
  <2> QED
    BY <2>1, <2>2, <2>3, <2>4, <2>5, <2>6, <2>7, <2>8,
       <2>9, <2>10, <2>11, <2>12, <2>13, <2>14, <2>15, <2>16, <2>17, NextCases
<1> QED
  BY Inductive, <1>1, PTL DEF MandatesAreKept, Spec

\* ComputeQuorum: the count is of members present or represented, each once.
THEOREM QuorumIsCounted == Spec => QuorumCountsAttendance
<1>1. IInv /\ [Next]_vars =>
        [\A q \in Requests :
            stage[q] = "represented" /\ stage'[q] = "answer" =>
                attending'[q] <=
                    Cardinality(people[q]
                        \cap (Attending(subject[q]) \cup (Members \ users)))]_vars
  <2> SUFFICES ASSUME IInv, [Next]_vars, NEW q \in Requests,
                      stage[q] = "represented", stage'[q] = "answer"
               PROVE  attending'[q] <=
                        Cardinality(people[q]
                            \cap (Attending(subject[q]) \cup (Members \ users)))
    OBVIOUS
  <2> DEFINE a == subject[q]
             P == present[q]
             R == Represented(a, people[q], P)
             Q == people[q] \cap (Attending(a) \cup (Members \ users))
  <2> USE DEF IInv
  <2>1. CountRepresented(q)
    <3> USE DEF population, convocation, presence, request, TypeOK
    <3>1. CASE \E m \in Members : ChangeMembership(m)
      BY <3>1 DEF ChangeMembership
    <3>2. CASE \E m \in Members : DeleteAccount(m)
      BY <3>2 DEF DeleteAccount
    <3>3. CASE \E b \in Assemblies : Create(b)
      BY <3>3 DEF Create
    <3>4. CASE \E b \in Assemblies, m \in Members : SignAttendance(b, m)
      BY <3>4 DEF SignAttendance
    <3>5. CASE \E s \in Requests : Abandon(s)
      BY <3>5 DEF Abandon, End
    <3>6. CASE \E s \in Requests, b \in Assemblies : Convoke(s, b)
      BY <3>6 DEF Convoke, Begin, Listed
    <3>7. CASE \E s \in Requests, b \in Assemblies : CheckQuorum(s, b)
      BY <3>7 DEF CheckQuorum, Begin, Listed
    <3>8. CASE \E s \in Requests : ResolveRecipients(s)
      BY <3>8 DEF ResolveRecipients, Proceed
    <3>9. CASE \E s \in Requests : CommitConvocation(s)
      BY <3>9 DEF CommitConvocation, Convocable, Proceed
    <3>10. CASE \E s \in Requests, m \in Members : EnqueueMail(s, m)
      BY <3>10 DEF EnqueueMail, Proceed
    <3>11. CASE \E s \in Requests, b \in Assemblies, p, x \in Members : RecordMandate(s, b, p, x)
      BY <3>11 DEF RecordMandate, Begin
    <3>12. CASE \E s \in Requests : CheckPrincipal(s)
      BY <3>12 DEF CheckPrincipal, CheckMember, Proceed
    <3>13. CASE \E s \in Requests : CheckProxy(s)
      BY <3>13 DEF CheckProxy, CheckMember, Proceed
    <3>14. CASE \E s \in Requests : InsertMandate(s)
      BY <3>14 DEF InsertMandate, Mandated, End
    <3>15. CASE \E s \in Requests : CountPresent(s)
      BY <3>15 DEF CountPresent, Proceed
    <3>16. CASE \E s \in Requests : CountRepresented(s)
      BY <3>16 DEF CountRepresented, Proceed
    <3>17. CASE UNCHANGED vars
      BY <3>17 DEF vars
    <3> QED
      BY <3>1, <3>2, <3>3, <3>4, <3>5, <3>6, <3>7, <3>8,
         <3>9, <3>10, <3>11, <3>12, <3>13, <3>14, <3>15, <3>16, <3>17, NextCases
  <2>2. a \in Assemblies /\ people[q] \subseteq Members /\ attendance[a] \subseteq Members
    BY DEF TypeOK, JobInv
  <2>3. P \subseteq people[q] \cap (attendance[a] \cup (Members \ users))
    BY DEF QuorumInv
  <2>4. \A p \in R : p \in people[q] /\ mandate[a][p] \in P /\ mandate[a][p] \in users
    <3> SUFFICES ASSUME NEW p \in R
                 PROVE  p \in people[q] /\ mandate[a][p] \in P /\ mandate[a][p] \in users
      OBVIOUS
    <3>1. p \in people[q] /\ mandate[a][p] \in P
      BY DEF Represented
    <3>2. mandate[a][p] # None
      BY <2>2, <2>3, <3>1, PresenceAssumption
    <3> QED
      BY <2>2, <3>1, <3>2 DEF MandateBindsMembers
  <2>5. P \subseteq Q /\ R \subseteq Q
    BY <2>2, <2>3, <2>4 DEF Attending
  <2>6. IsFiniteSet(Q)
    BY <2>2, PresenceAssumption, FS_Subset
  <2>7. attending'[q] = Cardinality(P) + Cardinality(R)
    BY <2>1 DEF CountRepresented, TypeOK
  <2>8. Cardinality(P) + Cardinality(R) <= Cardinality(Q)
    <3> HIDE DEF Q
    <3> QED
      BY <2>5, <2>6, CountedOnce
  <2> QED
    BY <2>7, <2>8
<1> QED
  BY Inductive, <1>1, PTL DEF QuorumCountsAttendance, Spec
=============================================================================
