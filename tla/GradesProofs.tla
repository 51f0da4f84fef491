----------------------------- MODULE GradesProofs -----------------------------
(***************************************************************************)
(* Proofs about the grades of members: about Rbac, what a grade permits,   *)
(* and about MemberRequests, how it is asked for and given.                *)
(*                                                                         *)
(* Reach(g, R) is a least closed set; the facts about it below are the     *)
(* only ones the proofs about inheritance rest on.  The invariant of       *)
(* MemberRequests says what a request outside raced looks like at each     *)
(* step of the one handler that may hold it, and what the looks of two     *)
(* submissions outside twins have seen.  It holds for any numbers of       *)
(* requests and administrators.                                            *)
(***************************************************************************)
EXTENDS Rbac, MemberRequests, TLAPS

\* C holds the targets of the edges of R that leave g or C.
Closed(C, g, R) == \A edge \in R : edge[1] \in C \cup {g} => edge[2] \in C

\* What Reach finds is closed ...
LEMMA ReachClosed ==
    ASSUME NEW g, NEW R \in SUBSET (Grades \X Grades)
    PROVE  Closed(Reach(g, R), g, R)
<1> SUFFICES ASSUME NEW edge \in R, edge[1] \in Reach(g, R) \cup {g}
             PROVE  edge[2] \in Reach(g, R)
    BY DEF Closed
<1>1. edge[2] \in Grades
    OBVIOUS
<1>2. ASSUME NEW C \in SUBSET Grades, Closed(C, g, R)
      PROVE  edge[2] \in C
    <2>1. edge[1] \in C \cup {g}
        BY <1>2 DEF Reach, Closed
    <2> QED
        BY <1>2, <2>1 DEF Closed
<1> QED
    BY <1>1, <1>2 DEF Reach, Closed

\* ... and is within every closed set.
LEMMA ReachLeast ==
    ASSUME NEW g, NEW R, NEW C \in SUBSET Grades, Closed(C, g, R)
    PROVE  Reach(g, R) \subseteq C
BY DEF Reach, Closed

LEMMA ReachInGrades ==
    ASSUME NEW g, NEW R
    PROVE  Reach(g, R) \in SUBSET Grades
BY DEF Reach

\* The ancestors of an ancestor are ancestors.
LEMMA ReachTransitive ==
    ASSUME NEW g, NEW R \in SUBSET (Grades \X Grades), NEW h \in Reach(g, R)
    PROVE  Reach(h, R) \subseteq Reach(g, R)
<1>1. Closed(Reach(g, R), h, R)
    BY ReachClosed DEF Closed
<1> QED
    BY <1>1, ReachLeast, ReachInGrades

\* Fewer edges reach no more grades.
LEMMA ReachMonotone ==
    ASSUME NEW g, NEW R \in SUBSET (Grades \X Grades), NEW S \in SUBSET R
    PROVE  Reach(g, S) \subseteq Reach(g, R)
<1>1. Closed(Reach(g, R), g, S)
    BY ReachClosed DEF Closed
<1> QED
    BY <1>1, ReachLeast, ReachInGrades

\* Removing edges keeps a relation acyclic (RemoveInherit, DeleteGrade).
LEMMA AcyclicShrinks ==
    ASSUME NEW R \in SUBSET (Grades \X Grades), NEW S \in SUBSET R, Acyclic(R)
    PROVE  Acyclic(S)
BY ReachMonotone DEF Acyclic

\* So does adding an edge whose child is not an ancestor of its parent: the test
\* of AddInherit is enough.
LEMMA AcyclicGrows ==
    ASSUME NEW R \in SUBSET (Grades \X Grades), Acyclic(R),
           NEW c \in Grades, NEW p \in Grades, c # p, c \notin Reach(p, R)
    PROVE  Acyclic(R \cup {<<c, p>>})
<1> DEFINE S == R \cup {<<c, p>>}
<1> SUFFICES ASSUME NEW g \in Grades
             PROVE  g \notin Reach(g, S)
    BY DEF Acyclic
<1>1. g \notin Reach(g, R)
    BY DEF Acyclic
<1>2. CASE c \notin Reach(g, R) \cup {g}
    <2>1. Closed(Reach(g, R), g, S)
        BY <1>2, ReachClosed DEF Closed
    <2> QED
        BY <1>1, <2>1, ReachLeast, ReachInGrades
<1>3. CASE c \in Reach(g, R) \cup {g}
    <2> DEFINE C == Reach(g, R) \cup {p} \cup Reach(p, R)
    <2>1. g # p
        BY <1>3
    <2>2. g \notin Reach(p, R)
        BY <1>3, ReachTransitive
    <2>3. Closed(C, g, S)
        <3>1. Closed(Reach(g, R), g, R) /\ Closed(Reach(p, R), p, R)
            BY ReachClosed
        <3> QED
            BY <3>1 DEF Closed
    <2>4. C \in SUBSET Grades
        BY ReachInGrades
    <2>5. Reach(g, S) \subseteq C
        <3> HIDE DEF C, S
        <3> QED
            BY <2>3, <2>4, ReachLeast
    <2> QED
        BY <1>1, <2>1, <2>2, <2>5
<1> QED
    BY <1>2, <1>3

-----------------------------------------------------------------------------

\* The inductive invariant: edges join grades, and none closes a cycle.
Inheritance == inherits \in SUBSET (Grades \X Grades) /\ InheritanceAcyclic

LEMMA InheritanceInit == Init => Inheritance
BY RbacAssumption DEF Init, Inheritance, InheritanceAcyclic

\* Every step but AddInherit keeps or removes edges.
LEMMA InheritanceStep == Inheritance /\ [Next]_vars => Inheritance'
<1> SUFFICES ASSUME Inheritance, [Next]_vars
             PROVE  Inheritance'
    OBVIOUS
<1> USE DEF Inheritance, InheritanceAcyclic
<1>1. ASSUME inherits' \subseteq inherits
      PROVE  Inheritance'
    BY <1>1, AcyclicShrinks
<1>2. ASSUME NEW a \in Admins, NEW c \in Grades, NEW p \in Grades, AddInherit(a, c, p)
      PROVE  Inheritance'
    <2>1. inherits' = inherits \cup {<<c, p>>} /\ c # p /\ c \notin Reach(p, inherits)
        BY <1>2 DEF AddInherit, ClosesCycle, Ancestors
    <2>2. Acyclic(inherits')
        BY <2>1, AcyclicGrows
    <2> QED
        BY <2>1, <2>2
<1>3. ASSUME NEW a \in Admins, Mutation(a)
      PROVE  Inheritance'
    <2>1. ASSUME NEW c \in Grades, NEW p \in Grades, RemoveInherit(a, c, p)
          PROVE  inherits' \subseteq inherits
        BY <2>1 DEF RemoveInherit
    <2>2. ASSUME NEW g \in Grades, DeleteGrade(a, g)
          PROVE  inherits' \subseteq inherits
        BY <2>2 DEF DeleteGrade
    <2>3. ASSUME NEW u \in Users, NEW g \in Grades, AssignGrade(a, u, g) \/ RemoveGrade(a, u, g)
          PROVE  inherits' \subseteq inherits
        BY <2>3 DEF AssignGrade, RemoveGrade
    <2>4. ASSUME NEW g \in Grades, NEW p \in Perms, GrantPerm(a, g, p) \/ RevokePerm(a, g, p)
          PROVE  inherits' \subseteq inherits
        BY <2>4 DEF GrantPerm, RevokePerm
    <2> QED
        BY <1>1, <1>2, <1>3, <2>1, <2>2, <2>3, <2>4 DEF Mutation
<1>4. ASSUME NEW a \in Admins, RecomputeGradeUsers(a) \/ Recompute(a) \/ Fail(a)
      PROVE  inherits' \subseteq inherits
    BY <1>4 DEF RecomputeGradeUsers, GradeDescendants, GradeUsers, Recompute, UserGrades,
        GradeAncestors, GradePermissions, WriteEffective, BumpVersion, Invalidate, Uncount,
        Fail, Goes, tables
<1>5. ASSUME NEW r \in Readers, Can(r)
      PROVE  inherits' \subseteq inherits
    BY <1>5 DEF Can, CanMisses, LoadEffective, CheckSize, StampEntry, SwapEntry, CountEntry,
        Calls, tables
<1>6. CASE UNCHANGED vars
    BY <1>1, <1>6 DEF vars, tables
<1> QED
    BY <1>1, <1>3, <1>4, <1>5, <1>6 DEF Next

\* Whatever calls administrators make and however they interleave, no grade ever
\* inherits from itself: the transaction of AddInherit with its test of the
\* ancestors of the parent is enough, for any set of grades.
THEOREM NeverCyclic == Spec => []InheritanceAcyclic
<1>1. Inheritance => InheritanceAcyclic
    BY DEF Inheritance
<1> QED
    BY InheritanceInit, InheritanceStep, <1>1, PTL DEF Spec

-----------------------------------------------------------------------------
\* A call is at a user: Recompute from its second statement on, Can until it stores.
CallInv ==
  /\ \A a \in Admins :
        job[a].at \in {"ancestors", "permissions", "write", "bump", "invalidate", "uncount"}
            => job[a].user \in Users
  /\ \A r \in Readers :
        can[r].at \in {"load", "check", "stamp", "swap"} => can[r].user \in Users

\* A Recompute of u has committed and has not bumped the version yet.
Bumping(u) == \E a \in Admins : job[a].at = "bump" /\ job[a].user = u

\* What was read from L2 since the last bump is L2 still, in an entry and in the
\* hands of a Can.
FreshInv ==
  /\ \A u \in Users : entries[u] # NoEntry =>
        /\ entries[u].readAt <= ver
        /\ entries[u].readAt = ver => entries[u].perms = effective[u] \/ Bumping(u)
  /\ \A r \in Readers : can[r].at \in {"check", "stamp", "swap"} =>
        /\ can[r].entry.readAt <= ver
        /\ can[r].entry.readAt = ver =>
              can[r].entry.perms = effective[can[r].user] \/ Bumping(can[r].user)

IInv == TypeOK /\ CallInv /\ FreshInv

\* The steps there are.
LEMMA NextCases ==
  ASSUME [Next]_vars
  PROVE  \/ \E a \in Admins, u \in Users, g \in Grades : AssignGrade(a, u, g)
         \/ \E a \in Admins, u \in Users, g \in Grades : RemoveGrade(a, u, g)
         \/ \E a \in Admins, g \in Grades, p \in Perms : GrantPerm(a, g, p)
         \/ \E a \in Admins, g \in Grades, p \in Perms : RevokePerm(a, g, p)
         \/ \E a \in Admins, c, p \in Grades : AddInherit(a, c, p)
         \/ \E a \in Admins, c, p \in Grades : RemoveInherit(a, c, p)
         \/ \E a \in Admins, g \in Grades : DeleteGrade(a, g)
         \/ \E a \in Admins : GradeDescendants(a)
         \/ \E a \in Admins, g \in Grades : GradeUsers(a, g)
         \/ \E a \in Admins, u \in Users : UserGrades(a, u)
         \/ \E a \in Admins, g \in Grades : GradeAncestors(a, g)
         \/ \E a \in Admins, g \in Grades : GradePermissions(a, g)
         \/ \E a \in Admins : WriteEffective(a)
         \/ \E a \in Admins : BumpVersion(a)
         \/ \E a \in Admins : Invalidate(a)
         \/ \E a \in Admins : Uncount(a)
         \/ \E a \in Admins : Fail(a)
         \/ \E r \in Readers, u \in Users : CanMisses(r, u)
         \/ \E r \in Readers : LoadEffective(r)
         \/ \E r \in Readers : CheckSize(r)
         \/ \E r \in Readers : StampEntry(r)
         \/ \E r \in Readers : SwapEntry(r)
         \/ \E r \in Readers : CountEntry(r)
         \/ UNCHANGED vars
  BY RbacAssumption DEF Next, Mutation, RecomputeGradeUsers, Recompute, Can

LEMMA PendingTyped ==
  ASSUME TypeOK, CallInv, NEW a \in Admins
  PROVE  Pending(a) \subseteq Users
<1>1. job[a] \in Job
  BY DEF TypeOK
<1>2. \A G : HoldersOf(G) \subseteq Users
  BY DEF HoldersOf
<1>3. \A g : Reached(g) \subseteq Users
  BY <1>2 DEF Reached
<1> QED
  BY <1>1, <1>2, <1>3 DEF Pending, CallInv, Job

\* What the calls set out with.
LEMMA JobsTyped ==
  /\ Idle \in Job
  /\ \A u \in Users : RecomputeUser(u) \in Job
  /\ \A g \in Grades : RecomputeGrade(g) \in Job
  BY DEF Job, JobSteps, Idle, RecomputeUser, RecomputeGrade

LEMMA InitInv == Init => IInv
  BY RbacAssumption DEF Init, IInv, TypeOK, CallInv, FreshInv, Job, JobSteps, Call,
     CanSteps, Entry, Idle, NoCall, Closure, PermsOf

\* The types, for every step.
LEMMA TypeStep == TypeOK /\ CallInv /\ [Next]_vars => TypeOK'
<1> SUFFICES ASSUME TypeOK, CallInv, [Next]_vars
             PROVE  TypeOK'
  OBVIOUS
<1> USE RbacAssumption DEF tables, cache, omissions, TypeOK, CallInv
<1>1. CASE \E a \in Admins, u \in Users, g \in Grades : AssignGrade(a, u, g)
  <2> SUFFICES ASSUME NEW a \in Admins, NEW u \in Users, NEW g \in Grades, AssignGrade(a, u, g)
               PROVE  TypeOK'
    BY <1>1
  <2>1. job' \in [Admins -> Job]
    BY JobsTyped DEF AssignGrade, Begins
  <2> QED
    BY <2>1 DEF AssignGrade, Begins
<1>2. CASE \E a \in Admins, u \in Users, g \in Grades : RemoveGrade(a, u, g)
  <2> SUFFICES ASSUME NEW a \in Admins, NEW u \in Users, NEW g \in Grades, RemoveGrade(a, u, g)
               PROVE  TypeOK'
    BY <1>2
  <2>1. job' \in [Admins -> Job]
    BY JobsTyped DEF RemoveGrade, Begins
  <2> QED
    BY <2>1 DEF RemoveGrade, Begins
<1>3. CASE \E a \in Admins, g \in Grades, p \in Perms : GrantPerm(a, g, p)
  <2> SUFFICES ASSUME NEW a \in Admins, NEW g \in Grades, NEW p \in Perms, GrantPerm(a, g, p)
               PROVE  TypeOK'
    BY <1>3
  <2>1. job' \in [Admins -> Job]
    BY JobsTyped DEF GrantPerm, Begins
  <2> QED
    BY <2>1 DEF GrantPerm, Begins
<1>4. CASE \E a \in Admins, g \in Grades, p \in Perms : RevokePerm(a, g, p)
  <2> SUFFICES ASSUME NEW a \in Admins, NEW g \in Grades, NEW p \in Perms, RevokePerm(a, g, p)
               PROVE  TypeOK'
    BY <1>4
  <2>1. job' \in [Admins -> Job]
    BY JobsTyped DEF RevokePerm, Begins
  <2> QED
    BY <2>1 DEF RevokePerm, Begins
<1>5. CASE \E a \in Admins, c, p \in Grades : AddInherit(a, c, p)
  <2> SUFFICES ASSUME NEW a \in Admins, NEW c \in Grades, NEW p \in Grades, AddInherit(a, c, p)
               PROVE  TypeOK'
    BY <1>5
  <2>1. job' \in [Admins -> Job]
    BY JobsTyped DEF AddInherit, Begins
  <2> QED
    BY <2>1 DEF AddInherit, Begins
<1>6. CASE \E a \in Admins, c, p \in Grades : RemoveInherit(a, c, p)
  <2> SUFFICES ASSUME NEW a \in Admins, NEW c \in Grades, NEW p \in Grades, RemoveInherit(a, c, p)
               PROVE  TypeOK'
    BY <1>6
  <2>1. job' \in [Admins -> Job]
    BY JobsTyped DEF RemoveInherit, Begins
  <2> QED
    BY <2>1 DEF RemoveInherit, Begins
<1>7. CASE \E a \in Admins, g \in Grades : DeleteGrade(a, g)
  <2> SUFFICES ASSUME NEW a \in Admins, NEW g \in Grades, DeleteGrade(a, g)
               PROVE  TypeOK'
    BY <1>7
  <2>1. job' \in [Admins -> Job]
    BY JobsTyped DEF DeleteGrade, Begins
  <2> QED
    BY <2>1 DEF DeleteGrade, Begins, Reached, HoldersOf
<1>8. CASE \E a \in Admins : GradeDescendants(a)
  <2> SUFFICES ASSUME NEW a \in Admins, GradeDescendants(a)
               PROVE  TypeOK'
    BY <1>8
  <2> DEFINE G == UNION {{g} \cup Descendants(g) : g \in job[a].grades}
             j == [job[a] EXCEPT !.at = "holders", !.grades = G]
  <2>1. job[a] \in Job /\ job[a].grades \in SUBSET Grades
    BY DEF Job
  <2>2. G \in SUBSET Grades
    <3>1. \A g : Descendants(g) \in SUBSET Grades
      BY ReachInGrades DEF Descendants
    <3> QED
      BY <2>1, <3>1
  <2>3. job' = [job EXCEPT ![a] = j]
    BY DEF GradeDescendants, Goes
  <2>4. job' \in [Admins -> Job]
    <3> HIDE DEF G
    <3>1. j \in Job
      BY <2>1, <2>2 DEF Job, JobSteps
    <3> QED
      BY <2>3, <3>1
  <2> QED
    BY <2>4 DEF GradeDescendants, Goes
<1>9. CASE \E a \in Admins, g \in Grades : GradeUsers(a, g)
  <2> SUFFICES ASSUME NEW a \in Admins, NEW g \in Grades, GradeUsers(a, g)
               PROVE  TypeOK'
    BY <1>9
  <2> DEFINE U == job[a].users \cup HoldersOf({g})
             rest == job[a].grades \ {g}
             j == IF rest # {} THEN [job[a] EXCEPT !.grades = rest, !.users = U]
                  ELSE IF U = {} THEN Idle
                  ELSE [Idle EXCEPT !.at = "grades", !.users = U]
  <2>1. job[a] \in Job /\ U \in SUBSET Users /\ rest \in SUBSET Grades
    BY DEF Job, HoldersOf
  <2>2. job' = [job EXCEPT ![a] = j]
    BY DEF GradeUsers, Goes
  <2>3. j \in Job
    <3> HIDE DEF U, rest
    <3> QED
      BY <2>1 DEF Job, JobSteps, Idle
  <2>4. job' \in [Admins -> Job]
    <3> HIDE DEF j
    <3> QED
      BY <2>2, <2>3
  <2> HIDE DEF j
  <2> QED
    BY <2>4 DEF GradeUsers, Goes
<1>10. CASE \E a \in Admins, u \in Users : UserGrades(a, u)
  <2> SUFFICES ASSUME NEW a \in Admins, NEW u \in Users, UserGrades(a, u)
               PROVE  TypeOK'
    BY <1>10
  <2> DEFINE G == GradesOf(u)
             U == job[a].users \ {u}
             j == [job[a] EXCEPT !.at = IF G = {} THEN "write" ELSE "ancestors",
                                 !.users = U, !.user = u, !.grades = G]
  <2>1. job[a] \in Job /\ U \in SUBSET Users /\ G \in SUBSET Grades
    BY DEF Job, GradesOf
  <2>2. job' = [job EXCEPT ![a] = j]
    BY DEF UserGrades, Goes
  <2>3. j \in Job
    <3> HIDE DEF U, G
    <3> QED
      BY <2>1 DEF Job, JobSteps
  <2>4. job' \in [Admins -> Job]
    <3> HIDE DEF j
    <3> QED
      BY <2>2, <2>3
  <2> HIDE DEF j
  <2> QED
    BY <2>4 DEF UserGrades, Goes
<1>11. CASE \E a \in Admins, g \in Grades : GradeAncestors(a, g)
  <2> SUFFICES ASSUME NEW a \in Admins, NEW g \in Grades, GradeAncestors(a, g)
               PROVE  TypeOK'
    BY <1>11
  <2> DEFINE rest == job[a].grades \ {g}
             C == job[a].closure \cup {g} \cup Ancestors(g)
             j == [job[a] EXCEPT !.at = IF rest = {} THEN "permissions" ELSE @,
                                 !.grades = rest,
                                 !.closure = C]
  <2>1. job[a] \in Job /\ rest \in SUBSET Grades
    BY DEF Job
  <2>2. C \in SUBSET Grades
    BY <2>1, ReachInGrades DEF Ancestors, Job
  <2>3. job' = [job EXCEPT ![a] = j]
    BY DEF GradeAncestors, Goes
  <2>4. job' \in [Admins -> Job]
    <3> HIDE DEF C, rest
    <3>1. j \in Job
      BY <2>1, <2>2 DEF Job, JobSteps
    <3> QED
      BY <2>3, <3>1
  <2> QED
    BY <2>4 DEF GradeAncestors, Goes
<1>12. CASE \E a \in Admins, g \in Grades : GradePermissions(a, g)
  <2> SUFFICES ASSUME NEW a \in Admins, NEW g \in Grades, GradePermissions(a, g)
               PROVE  TypeOK'
    BY <1>12
  <2> DEFINE P == job[a].perms \cup PermsOf({g})
             rest == job[a].closure \ {g}
             j == [job[a] EXCEPT !.at = IF rest = {} THEN "write" ELSE @,
                                 !.closure = rest, !.perms = P]
  <2>1. job[a] \in Job /\ P \in SUBSET Perms /\ rest \in SUBSET Grades
    BY DEF Job, PermsOf
  <2>2. job' = [job EXCEPT ![a] = j]
    BY DEF GradePermissions, Goes
  <2>3. j \in Job
    <3> HIDE DEF P, rest
    <3> QED
      BY <2>1 DEF Job, JobSteps
  <2>4. job' \in [Admins -> Job]
    <3> HIDE DEF j
    <3> QED
      BY <2>2, <2>3
  <2> HIDE DEF j
  <2> QED
    BY <2>4 DEF GradePermissions, Goes
<1>13. CASE \E a \in Admins : WriteEffective(a)
  <2> SUFFICES ASSUME NEW a \in Admins, WriteEffective(a)
               PROVE  TypeOK'
    BY <1>13
  <2>1. job' \in [Admins -> Job]
    BY JobsTyped DEF WriteEffective, Goes, Job, JobSteps, Idle
  <2> QED
    BY <2>1 DEF Job, WriteEffective, Written, Goes
<1>14. CASE \E a \in Admins : BumpVersion(a)
  <2> SUFFICES ASSUME NEW a \in Admins, BumpVersion(a)
               PROVE  TypeOK'
    BY <1>14
  <2>1. job' \in [Admins -> Job]
    BY JobsTyped DEF BumpVersion, Goes, Job, JobSteps, Idle
  <2> QED
    BY <2>1 DEF BumpVersion, Goes
<1>15. CASE \E a \in Admins : Invalidate(a)
  <2> SUFFICES ASSUME NEW a \in Admins, Invalidate(a)
               PROVE  TypeOK'
    BY <1>15
  <2> DEFINE j == IF entries[job[a].user] = NoEntry THEN NextUser(a)
                  ELSE [job[a] EXCEPT !.at = "uncount"]
  <2>1. job[a] \in Job /\ job[a].users \in SUBSET Users /\ job[a].user \in Users
    BY DEF Job, Invalidate
  <2>2. job' = [job EXCEPT ![a] = j]
    BY DEF Invalidate, Goes
  <2>3. j \in Job
    BY <2>1 DEF Job, JobSteps, Idle, NextUser
  <2>4. job' \in [Admins -> Job]
    <3> HIDE DEF j
    <3> QED
      BY <2>2, <2>3
  <2> HIDE DEF j
  <2> QED
    BY <2>1, <2>4 DEF Invalidate, Goes
<1>16. CASE \E a \in Admins : Uncount(a)
  <2> SUFFICES ASSUME NEW a \in Admins, Uncount(a)
               PROVE  TypeOK'
    BY <1>16
  <2>1. job' \in [Admins -> Job]
    BY JobsTyped DEF Uncount, Goes, Job, JobSteps, Idle, NextUser
  <2> QED
    BY <2>1 DEF Uncount, Goes
<1>17. CASE \E a \in Admins : Fail(a)
  <2> SUFFICES ASSUME NEW a \in Admins, Fail(a)
               PROVE  TypeOK'
    BY <1>17
  <2> QED
    BY JobsTyped, PendingTyped DEF Fail
<1>18. CASE \E r \in Readers, u \in Users : CanMisses(r, u)
  <2> SUFFICES ASSUME NEW r \in Readers, NEW u \in Users, CanMisses(r, u)
               PROVE  TypeOK'
    BY <1>18
  <2>1. can' \in [Readers -> Call]
    BY DEF CanMisses, Calls, Call, CanSteps, Entry, NoCall
  <2> QED
    BY <2>1 DEF CanMisses, Calls
<1>19. CASE \E r \in Readers : LoadEffective(r)
  <2> SUFFICES ASSUME NEW r \in Readers, LoadEffective(r)
               PROVE  TypeOK'
    BY <1>19
  <2> DEFINE P == effective[can[r].user]
             c == [can[r] EXCEPT !.at = "check", !.entry.perms = P, !.entry.readAt = ver]
  <2>1. can[r] \in Call /\ can[r].entry \in Entry /\ P \in SUBSET Perms /\ ver \in Nat
    BY DEF LoadEffective, Call
  <2>2. can' = [can EXCEPT ![r] = c]
    BY DEF LoadEffective, Calls
  <2>3. can' \in [Readers -> Call]
    <3> HIDE DEF P
    <3>1. c \in Call
      BY <2>1 DEF Call, Entry, CanSteps
    <3> QED
      BY <2>2, <3>1
  <2> QED
    BY <2>3 DEF LoadEffective, Calls
<1>20. CASE \E r \in Readers : CheckSize(r)
  <2> SUFFICES ASSUME NEW r \in Readers, CheckSize(r)
               PROVE  TypeOK'
    BY <1>20
  <2>1. can' \in [Readers -> Call]
    BY DEF CheckSize, Calls, Call, CanSteps, Entry, NoCall
  <2> QED
    BY <2>1 DEF CheckSize, Calls
<1>21. CASE \E r \in Readers : StampEntry(r)
  <2> SUFFICES ASSUME NEW r \in Readers, StampEntry(r)
               PROVE  TypeOK'
    BY <1>21
  <2> DEFINE c == [can[r] EXCEPT !.at = "swap", !.entry.stamp = ver]
  <2>1. can[r] \in Call /\ can[r].entry \in Entry /\ ver \in Nat
    BY DEF Call
  <2>2. can' = [can EXCEPT ![r] = c]
    BY DEF StampEntry, Calls
  <2>3. c \in Call
    BY <2>1 DEF Call, Entry, CanSteps
  <2>4. can' \in [Readers -> Call]
    BY <2>2, <2>3
  <2> QED
    BY <2>4 DEF StampEntry, Calls
<1>22. CASE \E r \in Readers : SwapEntry(r)
  <2> SUFFICES ASSUME NEW r \in Readers, SwapEntry(r)
               PROVE  TypeOK'
    BY <1>22
  <2>1. can' \in [Readers -> Call]
    BY DEF SwapEntry, Calls, Call, CanSteps, Entry, NoCall
  <2> QED
    BY <2>1 DEF Call, SwapEntry, Calls
<1>23. CASE \E r \in Readers : CountEntry(r)
  <2> SUFFICES ASSUME NEW r \in Readers, CountEntry(r)
               PROVE  TypeOK'
    BY <1>23
  <2>1. can' \in [Readers -> Call]
    BY DEF CountEntry, Calls, Call, CanSteps, Entry, NoCall
  <2> QED
    BY <2>1 DEF CountEntry, Calls
<1>24. CASE UNCHANGED vars
  BY <1>24 DEF vars
<1> QED
  BY <1>1, <1>2, <1>3, <1>4, <1>5, <1>6, <1>7, <1>8, <1>9,
     <1>10, <1>11, <1>12, <1>13, <1>14, <1>15, <1>16, <1>17, <1>18,
     <1>19, <1>20, <1>21, <1>22, <1>23, <1>24, NextCases

\* A call keeps its user.
LEMMA CallStep == TypeOK /\ CallInv /\ [Next]_vars => CallInv'
<1> SUFFICES ASSUME TypeOK, CallInv, [Next]_vars
             PROVE  CallInv'
  OBVIOUS
<1> USE RbacAssumption DEF tables, cache, omissions, TypeOK, Job, JobSteps, Call, CanSteps,
    Entry, Idle, CallInv
<1>1. CASE \E a \in Admins, u \in Users, g \in Grades : AssignGrade(a, u, g)
  BY <1>1 DEF AssignGrade, Begins, RecomputeUser
<1>2. CASE \E a \in Admins, u \in Users, g \in Grades : RemoveGrade(a, u, g)
  BY <1>2 DEF RemoveGrade, Begins, RecomputeUser
<1>3. CASE \E a \in Admins, g \in Grades, p \in Perms : GrantPerm(a, g, p)
  BY <1>3 DEF GrantPerm, Begins, RecomputeGrade
<1>4. CASE \E a \in Admins, g \in Grades, p \in Perms : RevokePerm(a, g, p)
  BY <1>4 DEF RevokePerm, Begins, RecomputeGrade
<1>5. CASE \E a \in Admins, c, p \in Grades : AddInherit(a, c, p)
  BY <1>5 DEF AddInherit, Begins, RecomputeGrade
<1>6. CASE \E a \in Admins, c, p \in Grades : RemoveInherit(a, c, p)
  BY <1>6 DEF RemoveInherit, Begins, RecomputeGrade
<1>7. CASE \E a \in Admins, g \in Grades : DeleteGrade(a, g)
  BY <1>7 DEF DeleteGrade, Begins, Reached, HoldersOf
<1>8. CASE \E a \in Admins : GradeDescendants(a)
  BY <1>8 DEF GradeDescendants, Goes, Descendants
<1>9. CASE \E a \in Admins, g \in Grades : GradeUsers(a, g)
  BY <1>9 DEF GradeUsers, Goes, HoldersOf
<1>10. CASE \E a \in Admins, u \in Users : UserGrades(a, u)
  BY <1>10 DEF UserGrades, Goes, GradesOf
<1>11. CASE \E a \in Admins, g \in Grades : GradeAncestors(a, g)
  BY <1>11 DEF GradeAncestors, Goes, Ancestors
<1>12. CASE \E a \in Admins, g \in Grades : GradePermissions(a, g)
  BY <1>12 DEF GradePermissions, Goes, PermsOf
<1>13. CASE \E a \in Admins : WriteEffective(a)
  BY <1>13 DEF WriteEffective, Goes
<1>14. CASE \E a \in Admins : BumpVersion(a)
  BY <1>14 DEF BumpVersion, Goes
<1>15. CASE \E a \in Admins : Invalidate(a)
  BY <1>15 DEF Invalidate, Goes, NextUser
<1>16. CASE \E a \in Admins : Uncount(a)
  BY <1>16 DEF Uncount, Goes, NextUser
<1>17. CASE \E a \in Admins : Fail(a)
  BY <1>17 DEF Fail
<1>18. CASE \E r \in Readers, u \in Users : CanMisses(r, u)
  BY <1>18 DEF CanMisses, Calls, NoCall
<1>19. CASE \E r \in Readers : LoadEffective(r)
  BY <1>19 DEF LoadEffective, Calls
<1>20. CASE \E r \in Readers : CheckSize(r)
  BY <1>20 DEF CheckSize, Calls, NoCall
<1>21. CASE \E r \in Readers : StampEntry(r)
  BY <1>21 DEF StampEntry, Calls
<1>22. CASE \E r \in Readers : SwapEntry(r)
  BY <1>22 DEF SwapEntry, Calls, NoCall
<1>23. CASE \E r \in Readers : CountEntry(r)
  BY <1>23 DEF CountEntry, Calls, NoCall
<1>24. CASE UNCHANGED vars
  BY <1>24 DEF vars
<1> QED
  BY <1>1, <1>2, <1>3, <1>4, <1>5, <1>6, <1>7, <1>8, <1>9,
     <1>10, <1>11, <1>12, <1>13, <1>14, <1>15, <1>16, <1>17, <1>18,
     <1>19, <1>20, <1>21, <1>22, <1>23, <1>24, NextCases

\* L2 changes with a Recompute that will bump the version, the version with all that
\* was read before.
LEMMA FreshStep == TypeOK /\ CallInv /\ FreshInv /\ [Next]_vars => FreshInv'
<1> SUFFICES ASSUME TypeOK, CallInv, FreshInv, [Next]_vars
             PROVE  FreshInv'
  OBVIOUS
<1> USE RbacAssumption DEF tables, cache, omissions, TypeOK, Job, JobSteps, Call, CanSteps,
    Entry, Idle, CallInv, FreshInv, Bumping
<1>1. CASE \E a \in Admins, u \in Users, g \in Grades : AssignGrade(a, u, g)
  BY <1>1 DEF AssignGrade, Begins, RecomputeUser
<1>2. CASE \E a \in Admins, u \in Users, g \in Grades : RemoveGrade(a, u, g)
  BY <1>2 DEF RemoveGrade, Begins, RecomputeUser
<1>3. CASE \E a \in Admins, g \in Grades, p \in Perms : GrantPerm(a, g, p)
  BY <1>3 DEF GrantPerm, Begins, RecomputeGrade
<1>4. CASE \E a \in Admins, g \in Grades, p \in Perms : RevokePerm(a, g, p)
  BY <1>4 DEF RevokePerm, Begins, RecomputeGrade
<1>5. CASE \E a \in Admins, c, p \in Grades : AddInherit(a, c, p)
  BY <1>5 DEF AddInherit, Begins, RecomputeGrade
<1>6. CASE \E a \in Admins, c, p \in Grades : RemoveInherit(a, c, p)
  BY <1>6 DEF RemoveInherit, Begins, RecomputeGrade
<1>7. CASE \E a \in Admins, g \in Grades : DeleteGrade(a, g)
  BY <1>7 DEF DeleteGrade, Begins, Reached, HoldersOf
<1>8. CASE \E a \in Admins : GradeDescendants(a)
  BY <1>8 DEF GradeDescendants, Goes, Descendants
<1>9. CASE \E a \in Admins, g \in Grades : GradeUsers(a, g)
  BY <1>9 DEF GradeUsers, Goes, HoldersOf
<1>10. CASE \E a \in Admins, u \in Users : UserGrades(a, u)
  BY <1>10 DEF UserGrades, Goes, GradesOf
<1>11. CASE \E a \in Admins, g \in Grades : GradeAncestors(a, g)
  BY <1>11 DEF GradeAncestors, Goes, Ancestors
<1>12. CASE \E a \in Admins, g \in Grades : GradePermissions(a, g)
  BY <1>12 DEF GradePermissions, Goes, PermsOf
<1>13. CASE \E a \in Admins : WriteEffective(a)
  <2> SUFFICES ASSUME NEW a \in Admins, WriteEffective(a)
               PROVE  FreshInv'
    BY <1>13
  <2> HIDE DEF Bumping
  <2>1. job[a].user \in Users /\ effective' = [effective EXCEPT ![job[a].user] = job[a].perms]
    BY DEF WriteEffective
  <2>2. \A u \in Users : u = job[a].user => Bumping(u)'
    BY DEF WriteEffective, Goes, Bumping
  <2>3. \A u \in Users : Bumping(u) => Bumping(u)'
    BY DEF WriteEffective, Goes, Bumping
  <2>4. \A u \in Users : effective'[u] = effective[u] \/ Bumping(u)'
    BY <2>1, <2>2
  <2>5. UNCHANGED <<ver, entries, can>>
    BY DEF WriteEffective, Goes
  <2> HIDE DEF TypeOK
  <2> QED
    BY <2>3, <2>4, <2>5
<1>14. CASE \E a \in Admins : BumpVersion(a)
  BY <1>14 DEF BumpVersion, Goes
<1>15. CASE \E a \in Admins : Invalidate(a)
  BY <1>15 DEF Invalidate, Goes, NextUser
<1>16. CASE \E a \in Admins : Uncount(a)
  BY <1>16 DEF Uncount, Goes, NextUser
<1>17. CASE \E a \in Admins : Fail(a)
  BY <1>17 DEF Fail
<1>18. CASE \E r \in Readers, u \in Users : CanMisses(r, u)
  BY <1>18 DEF CanMisses, Calls, NoCall
<1>19. CASE \E r \in Readers : LoadEffective(r)
  BY <1>19 DEF LoadEffective, Calls
<1>20. CASE \E r \in Readers : CheckSize(r)
  BY <1>20 DEF CheckSize, Calls, NoCall
<1>21. CASE \E r \in Readers : StampEntry(r)
  BY <1>21 DEF StampEntry, Calls
<1>22. CASE \E r \in Readers : SwapEntry(r)
  BY <1>22 DEF SwapEntry, Calls, NoCall
<1>23. CASE \E r \in Readers : CountEntry(r)
  BY <1>23 DEF CountEntry, Calls, NoCall
<1>24. CASE UNCHANGED vars
  BY <1>24 DEF vars
<1> QED
  BY <1>1, <1>2, <1>3, <1>4, <1>5, <1>6, <1>7, <1>8, <1>9,
     <1>10, <1>11, <1>12, <1>13, <1>14, <1>15, <1>16, <1>17, <1>18,
     <1>19, <1>20, <1>21, <1>22, <1>23, <1>24, NextCases

LEMMA Inductive == Spec => []IInv
<1>1. IInv /\ [Next]_vars => IInv'
  BY TypeStep, CallStep, FreshStep DEF IInv
<1> QED
  BY InitInv, <1>1, PTL DEF Spec

\* Every variable keeps its type: the tables of the grades, L2, the cache and what
\* the calls hold.
THEOREM TypeCorrect == Spec => []TypeOK
  BY Inductive, PTL DEF IInv

\* Can, Cache.Set, Recompute: for any numbers of administrators and readers, an entry
\* read since the last bump, and valid, is what L2 holds.
THEOREM FreshAreTrue == Spec => []FreshEntriesAreTrue
<1>1. IInv => FreshEntriesAreTrue
  BY DEF IInv, FreshInv, FreshEntriesAreTrue, Bumping, Valid
<1> QED
  BY Inductive, <1>1, PTL

-----------------------------------------------------------------------------
(* L2 is the closure of the tables, for any number of administrators.       *)

\* If k is reached from g, g is reached from k against the edges.
LEMMA ReachBack ==
  ASSUME NEW R \in SUBSET (Grades \X Grades), NEW g \in Grades, NEW k \in Reach(g, R)
  PROVE  g \in Reach(k, {<<edge[2], edge[1]>> : edge \in R})
<1> DEFINE Back == {<<edge[2], edge[1]>> : edge \in R}
           C == {x \in Grades : g \in Reach(x, Back)}
<1>1. Back \in SUBSET (Grades \X Grades)
  OBVIOUS
<1>2. ASSUME NEW edge \in R, edge[1] \in C \cup {g}
      PROVE  edge[2] \in C
  <2>1. edge[1] \in Grades /\ edge[2] \in Grades /\ <<edge[2], edge[1]>> \in Back
    OBVIOUS
  <2> DEFINE x == edge[1]
             y == edge[2]
  <2> HIDE DEF Back, x, y
  <2>2. x \in Reach(y, Back)
    BY <1>1, <2>1, ReachClosed DEF Closed, x, y
  <2>3. Reach(x, Back) \subseteq Reach(y, Back)
    BY <1>1, <2>2, ReachTransitive
  <2> QED
    BY <1>2, <2>1, <2>2, <2>3 DEF x, y
<1>3. Closed(C, g, R)
  BY <1>2 DEF Closed
<1>4. Reach(g, R) \subseteq C
  <2> HIDE DEF C
  <2>1. C \in SUBSET Grades
    BY DEF C
  <2> QED
    BY <1>3, <2>1, ReachLeast
<1> QED
  BY <1>4

\* An edge that leaves neither h nor what h reaches changes nothing of what h reaches.
LEMMA ReachKept ==
  ASSUME NEW S \in SUBSET (Grades \X Grades), NEW T \in SUBSET (Grades \X Grades), S \subseteq T,
         NEW h, \A edge \in T \ S : edge[1] \notin Reach(h, S) \cup {h}
  PROVE  Reach(h, T) = Reach(h, S)
<1>1. Closed(Reach(h, S), h, T)
  BY ReachClosed DEF Closed
<1>2. Reach(h, T) \subseteq Reach(h, S)
  BY <1>1, ReachLeast, ReachInGrades
<1> QED
  BY <1>2, ReachMonotone

\* Who is not reached by a mutation of g neither holds it nor inherits from it.
LEMMA NotReached ==
  ASSUME NEW R \in SUBSET (Grades \X Grades), NEW g \in Grades,
         NEW h \in Grades \ ({g} \cup Reach(g, {<<edge[2], edge[1]>> : edge \in R}))
  PROVE  h # g /\ g \notin Reach(h, R)
BY ReachBack

\* Edges that lead to g change nothing of what g reaches, with itself.
LEMMA ReachTarget ==
  ASSUME NEW S \in SUBSET (Grades \X Grades), NEW T \in SUBSET (Grades \X Grades), S \subseteq T,
         NEW g \in Grades, \A edge \in T \ S : edge[2] = g
  PROVE  {g} \cup Reach(g, T) = {g} \cup Reach(g, S)
<1> DEFINE C == {g} \cup Reach(g, S)
<1>1. Closed(C, g, T)
  <2>1. Closed(Reach(g, S), g, S)
    BY ReachClosed
  <2>2. ASSUME NEW edge \in T, edge[1] \in C
        PROVE  edge[2] \in C
    BY <2>1, <2>2 DEF Closed
  <2> QED
    BY <2>2 DEF Closed
<1>2. C \in SUBSET Grades
  BY ReachInGrades
<1>3. Reach(g, T) \subseteq C
  <2> HIDE DEF C
  <2> QED
    BY <1>1, <1>2, ReachLeast
<1> QED
  BY <1>3, ReachMonotone

\* Against the edges and back.
LEMMA BackTwice ==
  ASSUME NEW R \in SUBSET (Grades \X Grades)
  PROVE  {<<e[2], e[1]>> : e \in {<<edge[2], edge[1]>> : edge \in R}} = R
<1> DEFINE Back == {<<edge[2], edge[1]>> : edge \in R}
<1>1. \A edge \in R : edge = <<edge[1], edge[2]>>
  OBVIOUS
<1>2. ASSUME NEW edge \in R
      PROVE  edge \in {<<e[2], e[1]>> : e \in Back}
  <2>1. <<edge[2], edge[1]>> \in Back
    OBVIOUS
  <2>2. PICK e \in Back : e = <<edge[2], edge[1]>>
    BY <2>1
  <2>3. <<e[2], e[1]>> = edge
    BY <1>1, <2>2
  <2> HIDE DEF Back
  <2> QED
    BY <2>3
<1>3. ASSUME NEW e \in Back
      PROVE  <<e[2], e[1]>> \in R
  <2>1. PICK edge \in R : e = <<edge[2], edge[1]>>
    OBVIOUS
  <2> QED
    BY <1>1, <2>1
<1> HIDE DEF Back
<1>4. {<<e[2], e[1]>> : e \in Back} = R
  BY <1>2, <1>3
<1> QED
  BY <1>4 DEF Back

\* The grades of G and all they inherit from.
WithAncestors(G) == UNION {{g} \cup Ancestors(g) : g \in G}

\* The step changes nothing of what makes the closure of v.
Untouched(v) ==
  /\ GradesOf(v)' = GradesOf(v)
  /\ \A h \in GradesOf(v) : Ancestors(h)' = Ancestors(h)
  /\ \A h \in GradesOf(v) : \A k \in {h} \cup Ancestors(h) : \A p \in Perms :
        <<k, p>> \in granted' <=> <<k, p>> \in granted

\* What a Recompute has read, and what it has still to read, are the closure.
ReadsRight(a) ==
  LET j == job[a] IN
    /\ j.at = "ancestors" =>
          /\ j.grades \subseteq GradesOf(j.user)
          /\ j.closure \cup WithAncestors(j.grades) = WithAncestors(GradesOf(j.user))
          /\ j.perms = {}
    /\ j.at = "permissions" =>
          /\ j.closure \subseteq WithAncestors(GradesOf(j.user))
          /\ j.perms \cup PermsOf(j.closure) = Closure(j.user)
    /\ j.at = "write" => j.perms = Closure(j.user)

\* The call of a reads right, unless it was overtaken, and then it is reading.
CallReads(a) ==
  /\ a \in overtaken => Reading(a)
  /\ a \notin overtaken => ReadsRight(a)
  /\ job[a].at = "idle" => job[a].users = {}
  /\ job[a].at = "grades" => job[a].closure = {} /\ job[a].perms = {}

RecomputeInv == \A a \in Admins : CallReads(a)

L2Inv == EffectiveIsClosure /\ RecomputeInv

\* What is untouched has its closure, and any part of it, as before.
LEMMA SameClosure ==
  ASSUME NEW u, Untouched(u)
  PROVE  /\ Closure(u)' = Closure(u)
         /\ GradesOf(u)' = GradesOf(u)
         /\ WithAncestors(GradesOf(u))' = WithAncestors(GradesOf(u))
         /\ \A G \in SUBSET GradesOf(u) : WithAncestors(G)' = WithAncestors(G)
         /\ \A C \in SUBSET WithAncestors(GradesOf(u)) : PermsOf(C)' = PermsOf(C)
<1> USE DEF Untouched
<1>1. \A G \in SUBSET GradesOf(u) : WithAncestors(G)' = WithAncestors(G)
  BY DEF WithAncestors
<1>2. WithAncestors(GradesOf(u))' = WithAncestors(GradesOf(u))
  BY DEF WithAncestors
<1>3. ASSUME NEW k \in WithAncestors(GradesOf(u)), NEW p \in Perms
      PROVE  <<k, p>> \in granted' <=> <<k, p>> \in granted
  <2>1. PICK h \in GradesOf(u) : k \in {h} \cup Ancestors(h)
    BY DEF WithAncestors
  <2> QED
    BY <2>1
<1>4. \A C \in SUBSET WithAncestors(GradesOf(u)) : PermsOf(C)' = PermsOf(C)
  <2> SUFFICES ASSUME NEW C \in SUBSET WithAncestors(GradesOf(u))
               PROVE  PermsOf(C)' = PermsOf(C)
    OBVIOUS
  <2> QED
    BY <1>3 DEF PermsOf
<1>5. Closure(u) = PermsOf(WithAncestors(GradesOf(u)))
  BY DEF Closure, WithAncestors
<1>6. Closure(u)' = PermsOf(WithAncestors(GradesOf(u)))'
  BY DEF Closure, WithAncestors
<1>7. PermsOf(WithAncestors(GradesOf(u)))' = PermsOf(WithAncestors(GradesOf(u)))
  BY <1>2, <1>3 DEF PermsOf
<1> QED
  BY <1>1, <1>2, <1>4, <1>5, <1>6, <1>7

\* Tables that stay touch nobody.
LEMMA SameTables ==
  ASSUME UNCHANGED tables
  PROVE  /\ \A u : Untouched(u)
         /\ \A u : Closure(u)' = Closure(u)
         /\ \A u : GradesOf(u)' = GradesOf(u)
         /\ \A G : PermsOf(G)' = PermsOf(G)
         /\ \A G : HoldersOf(G)' = HoldersOf(G)
         /\ \A G : WithAncestors(G)' = WithAncestors(G)
         /\ \A g : Reached(g)' = Reached(g)
<1>1. /\ \A g : Ancestors(g)' = Ancestors(g) /\ Descendants(g)' = Descendants(g)
      /\ \A u : GradesOf(u)' = GradesOf(u)
      /\ \A G : PermsOf(G)' = PermsOf(G) /\ HoldersOf(G)' = HoldersOf(G)
  BY DEF tables, Ancestors, Descendants, Reach, GradesOf, PermsOf, HoldersOf
<1>2. \A G : WithAncestors(G)' = WithAncestors(G)
  BY <1>1 DEF WithAncestors
<1>3. \A u : Closure(u)' = Closure(u)
  BY DEF tables, Closure, PermsOf, GradesOf, Ancestors, Reach
<1>4. \A g : Reached(g)' = Reached(g)
  BY <1>1 DEF Reached
<1>5. \A u : Untouched(u)
  BY <1>1 DEF Untouched, tables
<1> QED
  BY <1>1, <1>2, <1>3, <1>4, <1>5

\* Who is not reached by a mutation of g has no grade that is g or inherits from it.
LEMMA Beyond ==
  ASSUME TypeOK, NEW g \in Grades, NEW u \in Users \ Reached(g), NEW h \in GradesOf(u)
  PROVE  h \in Grades /\ h # g /\ g \notin Ancestors(h)
<1>1. h \in Grades /\ inherits \in SUBSET (Grades \X Grades)
  BY DEF GradesOf, TypeOK
<1>2. h \notin {g} \cup Descendants(g)
  BY DEF Reached, HoldersOf, GradesOf
<1> QED
  BY <1>1, <1>2, NotReached DEF Descendants, Ancestors

\* A mutation touches only the users U it is about, and recomputes or neglects them.
LEMMA MutationReaches ==
  ASSUME TypeOK, TypeOK', NEW a \in Admins, Mutation(a)
  PROVE  \E j \in Job, U \in SUBSET Users :
            /\ Begins(a, j, U)
            /\ \/ j.at = "idle" /\ j.users = {}
               \/ j.at = "grades" /\ j.closure = {} /\ j.perms = {}
               \/ j.at = "descendants"
            /\ \A v \in Users \ U : Untouched(v)
            /\ U \subseteq neglected' \cup Pending(a)'
            /\ neglected \subseteq neglected'
<1> DEFINE About(j, U) ==
            /\ Begins(a, j, U)
            /\ \/ j.at = "idle" /\ j.users = {}
               \/ j.at = "grades" /\ j.closure = {} /\ j.perms = {}
               \/ j.at = "descendants"
            /\ \A v \in Users \ U : Untouched(v)
            /\ U \subseteq neglected' \cup Pending(a)'
            /\ neglected \subseteq neglected'
<1>1. job \in [Admins -> Job] /\ \A g : Reached(g) \in SUBSET Users
  BY DEF TypeOK, Reached, HoldersOf
<1>2. ASSUME NEW u \in Users, NEW g \in Grades, AssignGrade(a, u, g) \/ RemoveGrade(a, u, g)
      PROVE  About(RecomputeUser(u), {u})
  <2>1. /\ Begins(a, RecomputeUser(u), {u})
        /\ UNCHANGED <<grades, granted, inherits, neglected>>
    BY <1>2 DEF AssignGrade, RemoveGrade
  <2>2. job'[a] = RecomputeUser(u)
    BY <1>1, <2>1 DEF Begins
  <2>3. Pending(a)' = {u}
    BY <2>2 DEF Pending, RecomputeUser, Idle
  <2>4. ASSUME NEW v \in Users \ {u}
        PROVE  Untouched(v)
    <3>1. GradesOf(v)' = GradesOf(v)
      BY <1>2 DEF GradesOf, AssignGrade, RemoveGrade
    <3>2. \A h : Ancestors(h)' = Ancestors(h)
      BY <2>1 DEF Ancestors, Reach
    <3> QED
      BY <2>1, <3>1, <3>2 DEF Untouched
  <2>5. /\ RecomputeUser(u).at = "grades" /\ RecomputeUser(u).closure = {}
        /\ RecomputeUser(u).perms = {}
    BY DEF RecomputeUser, Idle
  <2> QED
    BY <2>1, <2>3, <2>4, <2>5
<1>3. ASSUME NEW g \in Grades, Begins(a, RecomputeGrade(g), Reached(g)), neglected' = neglected,
             Reached(g)' = Reached(g), \A v \in Users \ Reached(g) : Untouched(v)
      PROVE  About(RecomputeGrade(g), Reached(g))
  <2>1. job'[a] = RecomputeGrade(g)
    BY <1>1, <1>3 DEF Begins
  <2>2. Pending(a)' = UNION {Reached(k)' : k \in {g}}
    BY <2>1 DEF Pending, RecomputeGrade, Idle
  <2>3. Pending(a)' = Reached(g)
    BY <1>3, <2>2
  <2>4. RecomputeGrade(g).at = "descendants"
    BY DEF RecomputeGrade, Idle
  <2> QED
    BY <1>3, <2>3, <2>4
<1>4. ASSUME NEW g \in Grades, NEW p \in Perms, GrantPerm(a, g, p) \/ RevokePerm(a, g, p)
      PROVE  About(RecomputeGrade(g), Reached(g))
  <2>1. /\ UNCHANGED <<grades, inherits, assigned, neglected>>
        /\ Begins(a, RecomputeGrade(g), Reached(g))
    BY <1>4 DEF GrantPerm, RevokePerm
  <2>2. \A k, q : k # g => (<<k, q>> \in granted' <=> <<k, q>> \in granted)
    BY <1>4 DEF GrantPerm, RevokePerm
  <2>3. Reached(g)' = Reached(g)
    BY <2>1 DEF Reached, HoldersOf, Descendants, Reach
  <2>4. ASSUME NEW v \in Users \ Reached(g)
        PROVE  Untouched(v)
    <3>1. GradesOf(v)' = GradesOf(v)
      BY <2>1 DEF GradesOf
    <3>2. \A h : Ancestors(h)' = Ancestors(h)
      BY <2>1 DEF Ancestors, Reach
    <3>3. \A h \in GradesOf(v) : g \notin {h} \cup Ancestors(h)
      BY Beyond
    <3> QED
      BY <2>2, <3>1, <3>2, <3>3 DEF Untouched
  <2> HIDE DEF About
  <2> QED
    BY <1>3, <2>1, <2>3, <2>4
<1>5. ASSUME NEW c \in Grades, NEW p \in Grades, AddInherit(a, c, p) \/ RemoveInherit(a, c, p)
      PROVE  About(RecomputeGrade(c), Reached(c))
  <2>1. /\ UNCHANGED <<grades, granted, assigned, neglected>>
        /\ Begins(a, RecomputeGrade(c), Reached(c))
    BY <1>5 DEF AddInherit, RemoveInherit
  <2>2. inherits \in SUBSET (Grades \X Grades) /\ inherits' \in SUBSET (Grades \X Grades)
    BY DEF TypeOK
  <2>3. \/ inherits \subseteq inherits' /\ \A edge \in inherits' \ inherits : edge[1] = c
        \/ inherits' \subseteq inherits /\ \A edge \in inherits \ inherits' : edge[1] = c
    BY <1>5 DEF AddInherit, RemoveInherit
  <2>4. {c} \cup Descendants(c)' = {c} \cup Descendants(c)
    <3> DEFINE Back(R) == {<<edge[2], edge[1]>> : edge \in R}
    <3>1. ASSUME NEW R \in SUBSET (Grades \X Grades), NEW S \in SUBSET R,
                 \A edge \in R \ S : edge[1] = c
          PROVE  {c} \cup Reach(c, Back(R)) = {c} \cup Reach(c, Back(S))
      <4>1. Back(R) \in SUBSET (Grades \X Grades) /\ Back(S) \in SUBSET Back(R)
        OBVIOUS
      <4>2. \A edge \in Back(R) \ Back(S) : edge[2] = c
        BY <3>1
      <4> HIDE DEF Back
      <4> QED
        BY <4>1, <4>2, ReachTarget
    <3>2. Descendants(c) = Reach(c, Back(inherits)) /\ Descendants(c)' = Reach(c, Back(inherits'))
      BY DEF Descendants, Reach
    <3> HIDE DEF Back
    <3> QED
      BY <2>2, <2>3, <3>1, <3>2
  <2>5. Reached(c)' = Reached(c)
    BY <2>1, <2>4 DEF Reached, HoldersOf
  <2>6. ASSUME NEW v \in Users \ Reached(c)
        PROVE  Untouched(v)
    <3>1. GradesOf(v)' = GradesOf(v)
      BY <2>1 DEF GradesOf
    <3>2. ASSUME NEW h \in GradesOf(v)
          PROVE  Ancestors(h)' = Ancestors(h)
      <4>1. h \in Grades /\ h # c /\ c \notin Reach(h, inherits)
        BY Beyond DEF Ancestors
      <4>2. CASE inherits \subseteq inherits' /\ \A edge \in inherits' \ inherits : edge[1] = c
        <5>1. Reach(h, inherits') = Reach(h, inherits)
          BY <2>2, <4>1, <4>2, ReachKept
        <5> QED
          BY <5>1 DEF Ancestors, Reach
      <4>3. CASE inherits' \subseteq inherits /\ \A edge \in inherits \ inherits' : edge[1] = c
        <5>1. c \notin Reach(h, inherits')
          BY <2>2, <4>1, <4>3, ReachMonotone
        <5>2. Reach(h, inherits) = Reach(h, inherits')
          BY <2>2, <4>1, <4>3, <5>1, ReachKept
        <5> QED
          BY <5>2 DEF Ancestors, Reach
      <4> QED
        BY <2>3, <4>2, <4>3
    <3> QED
      BY <2>1, <3>1, <3>2 DEF Untouched
  <2> HIDE DEF About
  <2> QED
    BY <1>3, <2>1, <2>5, <2>6
<1>6. ASSUME NEW g \in Grades, DeleteGrade(a, g)
      PROVE  About(Idle, Reached(g))
  <2>1. Begins(a, Idle, Reached(g)) /\ neglected' = neglected \cup Reached(g)
    BY <1>6 DEF DeleteGrade
  <2>2. inherits \in SUBSET (Grades \X Grades) /\ inherits' \in SUBSET (Grades \X Grades)
    BY DEF TypeOK
  <2>3. inherits' \subseteq inherits
    BY <1>6 DEF DeleteGrade
  <2>4. ASSUME NEW v \in Users \ Reached(g)
        PROVE  Untouched(v)
    <3>1. \A h \in GradesOf(v) : h \in Grades /\ h # g /\ g \notin Ancestors(h)
      BY Beyond
    <3>2. GradesOf(v)' = GradesOf(v)
      BY <1>6, <3>1 DEF DeleteGrade, GradesOf
    <3>3. ASSUME NEW h \in GradesOf(v)
          PROVE  Ancestors(h)' = Ancestors(h)
      <4>1. Reach(h, inherits') \subseteq Reach(h, inherits)
        BY <2>2, <2>3, ReachMonotone
      <4>2. \A edge \in inherits \ inherits' : edge[1] = g \/ edge[2] = g
        BY <1>6 DEF DeleteGrade
      <4>3. Closed(Reach(h, inherits), h, inherits)
        BY <2>2, ReachClosed
      <4>4. \A edge \in inherits \ inherits' : edge[1] \notin Reach(h, inherits) \cup {h}
        BY <3>1, <4>2, <4>3 DEF Ancestors, Closed
      <4>5. Reach(h, inherits) = Reach(h, inherits')
        BY <2>2, <2>3, <4>1, <4>4, ReachKept
      <4> QED
        BY <4>5 DEF Ancestors
    <3>4. \A h \in GradesOf(v) : \A k \in {h} \cup Ancestors(h) : \A p \in Perms :
             <<k, p>> \in granted' <=> <<k, p>> \in granted
      BY <1>6, <3>1 DEF DeleteGrade
    <3> QED
      BY <3>2, <3>3, <3>4 DEF Untouched
  <2>5. Idle.at = "idle" /\ Idle.users = {}
    BY DEF Idle
  <2> QED
    BY <2>1, <2>4, <2>5
<1> HIDE DEF About
<1>7. \E j \in Job, U \in SUBSET Users : About(j, U)
  BY <1>1, <1>2, <1>4, <1>5, <1>6, JobsTyped DEF Mutation
<1> QED
  BY <1>7 DEF About

\* Whom the mutation of a takes from those b has still to recompute are its own.
LEMMA HandedOver ==
  ASSUME TypeOK, TypeOK', NEW a \in Admins, NEW b \in Admins \ {a}, NEW j, NEW U,
         Begins(a, j, U), \A v \in Users \ U : Untouched(v)
  PROVE  Pending(b) \subseteq Pending(b)' \cup U
<1>1. job[b] \in Job /\ job'[b] = job[b]
  BY DEF TypeOK, Begins
<1>2. ASSUME NEW G, NEW v \in HoldersOf(G) \ U
      PROVE  v \in HoldersOf(G)'
  <2>1. PICK g \in G : <<v, g>> \in assigned
    BY DEF HoldersOf
  <2>2. v \in Users /\ g \in GradesOf(v)
    BY <2>1 DEF GradesOf, TypeOK
  <2>3. g \in GradesOf(v)'
    BY <2>2, <1>2 DEF Untouched
  <2> QED
    BY <2>1, <2>2, <2>3 DEF GradesOf, HoldersOf
<1>3. ASSUME NEW g \in Grades, NEW v \in Reached(g) \ U
      PROVE  v \in Reached(g)'
  <2>1. PICK h \in {g} \cup Descendants(g) : <<v, h>> \in assigned
    BY DEF Reached, HoldersOf
  <2>2. v \in Users /\ h \in GradesOf(v) /\ h \in Grades
    BY <2>1 DEF GradesOf, TypeOK
  <2>3. h \in GradesOf(v)' /\ Ancestors(h)' = Ancestors(h)
    BY <2>2, <1>3 DEF Untouched
  <2>4. h \in {g} \cup Descendants(g)'
    <3>1. inherits \in SUBSET (Grades \X Grades) /\ inherits' \in SUBSET (Grades \X Grades)
      BY DEF TypeOK
    <3> DEFINE Back == {<<edge[2], edge[1]>> : edge \in inherits}
    <3>2. Back \in SUBSET (Grades \X Grades)
      BY <3>1
    <3>3. {<<e[2], e[1]>> : e \in Back} = inherits
      BY <3>1, BackTwice
    <3>4. h # g => h \in Reach(g, Back)
      BY <2>1 DEF Descendants
    <3> HIDE DEF Back
    <3>5. h # g => g \in Reach(h, inherits)
      BY <3>2, <3>3, <3>4, ReachBack
    <3>6. h # g => g \in Reach(h, inherits')
      BY <2>3, <3>5 DEF Ancestors, Reach
    <3>7. h # g => h \in Reach(g, {<<edge[2], edge[1]>> : edge \in inherits'})
      BY <2>2, <3>1, <3>6, ReachBack
    <3> QED
      BY <3>7 DEF Descendants, Reach
  <2>5. <<v, h>> \in assigned'
    BY <2>3 DEF GradesOf
  <2> QED
    BY <2>2, <2>4, <2>5 DEF Reached, HoldersOf
<1>4. CASE job[b].at = "descendants"
  <2>1. /\ Pending(b) = UNION {Reached(g) : g \in job[b].grades}
        /\ Pending(b)' = UNION {Reached(g)' : g \in job[b].grades}
    BY <1>1, <1>4 DEF Pending
  <2>2. job[b].grades \subseteq Grades
    BY <1>1 DEF Job
  <2> QED
    BY <1>3, <2>1, <2>2
<1>5. CASE job[b].at = "holders"
  <2>1. PICK G : G = job[b].grades
    OBVIOUS
  <2>2. Pending(b) = job[b].users \cup HoldersOf(G)
    BY <1>5, <2>1 DEF Pending
  <2>3. Pending(b)' = job[b].users \cup HoldersOf(G)'
    BY <1>1, <1>5, <2>1 DEF Pending, HoldersOf
  <2> QED
    BY <1>2, <2>2, <2>3
<1>6. CASE job[b].at \notin {"descendants", "holders"}
  BY <1>1, <1>6 DEF Pending
<1> QED
  BY <1>4, <1>5, <1>6

\* A mutation begins: whoever is not excused afterwards was not excused before
\* and keeps the closure.
LEMMA MutationStep ==
  ASSUME TypeOK, TypeOK', L2Inv, NEW a \in Admins, Mutation(a)
  PROVE  EffectiveIsClosure'
<1>1. PICK j \in Job, U \in SUBSET Users :
         /\ Begins(a, j, U)
         /\ \A v \in Users \ U : Untouched(v)
         /\ U \subseteq neglected' \cup Pending(a)'
         /\ neglected \subseteq neglected'
  BY MutationReaches
<1>2. Pending(a) = {} /\ effective' = effective
  BY <1>1 DEF Begins, Pending, L2Inv, RecomputeInv, CallReads
<1>3. ASSUME NEW u \in Users, u \notin neglected', \A b \in Admins : u \notin Pending(b)'
      PROVE  effective'[u] = Closure(u)'
  <2>1. u \notin U /\ u \notin neglected
    BY <1>1, <1>3
  <2>2. \A b \in Admins : u \notin Pending(b)
    BY <1>1, <1>2, <1>3, <2>1, HandedOver
  <2>3. Closure(u)' = Closure(u)
    BY <1>1, <2>1, SameClosure
  <2> QED
    BY <1>2, <2>1, <2>2, <2>3 DEF L2Inv, EffectiveIsClosure
<1> QED
  BY <1>3 DEF EffectiveIsClosure

\* The call of a goes on, or fails, and excuses whom it excused.
LEMMA CallKeeps ==
  ASSUME L2Inv, UNCHANGED tables, effective' = effective, NEW a \in Admins,
         \A b \in Admins \ {a} : job'[b] = job[b],
         neglected \cup Pending(a) \subseteq neglected' \cup Pending(a)'
  PROVE  EffectiveIsClosure'
<1>1. \A b \in Admins \ {a} : Pending(b)' = Pending(b)
  BY SameTables DEF Pending
<1>2. \A u \in Users : Closure(u)' = Closure(u)
  BY SameTables
<1>3. ASSUME NEW u \in Users, u \notin neglected', \A b \in Admins : u \notin Pending(b)'
      PROVE  effective'[u] = Closure(u)'
  <2>1. u \notin neglected /\ \A b \in Admins : u \notin Pending(b)
    BY <1>1, <1>3
  <2> QED
    BY <1>2, <2>1 DEF L2Inv, EffectiveIsClosure
<1> QED
  BY <1>3 DEF EffectiveIsClosure

\* Can writes nothing but the cache.
LEMMA CanKeeps ==
  ASSUME NEW r \in Readers, Can(r)
  PROVE  UNCHANGED <<tables, effective, overtaken, neglected, job>>
<1>1. ASSUME NEW c, Calls(r, c)
      PROVE  UNCHANGED <<tables, effective, overtaken, neglected, job>>
  BY <1>1 DEF Calls, omissions
<1>2. CASE \E u \in Users : CanMisses(r, u)
  BY <1>1, <1>2, Zenon DEF CanMisses
<1>3. CASE LoadEffective(r) \/ CheckSize(r) \/ StampEntry(r)
  BY <1>1, <1>3, Zenon DEF LoadEffective, CheckSize, StampEntry
<1>4. CASE SwapEntry(r) \/ CountEntry(r)
  BY <1>1, <1>4, Zenon DEF SwapEntry, CountEntry
<1> QED
  BY RbacAssumption, <1>2, <1>3, <1>4 DEF Can

\* The calls that go on or fail leave the tables, and what the others are in.
LEMMA CallFrame ==
  ASSUME TypeOK, NEW a \in Admins, RecomputeGradeUsers(a) \/ Recompute(a) \/ Fail(a)
  PROVE  /\ UNCHANGED tables
         /\ \A b \in Admins \ {a} : job'[b] = job[b] /\ (b \in overtaken' <=> b \in overtaken)
<1> USE DEF TypeOK, Goes, omissions
<1>1. CASE RecomputeGradeUsers(a)
  BY <1>1 DEF RecomputeGradeUsers, GradeDescendants, GradeUsers
<1>2. CASE \E u \in Users : UserGrades(a, u)
  BY <1>2 DEF UserGrades
<1>3. CASE \E g \in Grades : GradeAncestors(a, g) \/ GradePermissions(a, g)
  BY <1>3 DEF GradeAncestors, GradePermissions
<1>4. CASE WriteEffective(a)
  BY <1>4 DEF WriteEffective, Written
<1>5. CASE BumpVersion(a) \/ Invalidate(a) \/ Uncount(a)
  BY <1>5 DEF BumpVersion, Invalidate, Uncount
<1>6. CASE Fail(a)
  BY <1>6 DEF Fail
<1> QED
  BY <1>1, <1>2, <1>3, <1>4, <1>5, <1>6 DEF Recompute

\* L2 is the closure again after every step of a call, but for those it excuses.
LEMMA EffectiveStep ==
  ASSUME TypeOK, TypeOK', CallInv, L2Inv, [Next]_vars
  PROVE  EffectiveIsClosure'
<1>1. ASSUME NEW a \in Admins, Mutation(a)
      PROVE  EffectiveIsClosure'
  BY <1>1, MutationStep
<1>2. ASSUME NEW a \in Admins, RecomputeGradeUsers(a) \/ Recompute(a) \/ Fail(a)
      PROVE  EffectiveIsClosure'
  <2> DEFINE j == job[a]
  <2>1. j \in Job /\ job \in [Admins -> Job] /\ \A b \in Admins \ {a} : job'[b] = job[b]
    BY <1>2, CallFrame DEF TypeOK
  <2>2. CASE GradeDescendants(a)
    <3> DEFINE G == UNION {{g} \cup Descendants(g) : g \in j.grades}
    <3>1. UNCHANGED <<tables, effective, neglected>> /\ j.at = "descendants"
      BY <2>2 DEF GradeDescendants, Goes, omissions
    <3>2. job'[a].at = "holders" /\ job'[a].grades = G
      BY <2>1, <2>2 DEF GradeDescendants, Goes, Job
    <3>3. Pending(a) = UNION {Reached(g) : g \in j.grades}
      BY <3>1 DEF Pending
    <3>4. Pending(a)' = job'[a].users \cup HoldersOf(G)
      BY <3>1, <3>2 DEF Pending, HoldersOf, tables
    <3>5. \A g \in j.grades : Reached(g) \subseteq HoldersOf(G)
      BY DEF Reached, HoldersOf
    <3> QED
      <4> HIDE DEF G
      <4>1. UNION {Reached(g) : g \in j.grades} \subseteq HoldersOf(G)
        BY <3>5
      <4>2. neglected \cup Pending(a) \subseteq neglected' \cup Pending(a)'
        BY <3>1, <3>3, <3>4, <4>1
      <4> QED
        BY <3>1, <4>2, <2>1, CallKeeps
  <2>3. ASSUME NEW g \in Grades, GradeUsers(a, g)
        PROVE  EffectiveIsClosure'
    <3> DEFINE U == j.users \cup HoldersOf({g})
               rest == j.grades \ {g}
    <3>1. UNCHANGED <<tables, effective, neglected>> /\ j.at = "holders" /\ g \in j.grades
      BY <2>3 DEF GradeUsers, Goes, omissions
    <3>2. Pending(a) = U \cup HoldersOf(rest)
      BY <3>1 DEF Pending, HoldersOf
    <3>3. \A G : HoldersOf(G)' = HoldersOf(G)
      BY <3>1 DEF HoldersOf, tables
    <3>4. CASE rest # {}
      <4>1. job'[a].at = "holders" /\ job'[a].grades = rest /\ job'[a].users = U
        BY <2>1, <2>3, <3>1, <3>4 DEF GradeUsers, Goes, Job
      <4>2. Pending(a)' = U \cup HoldersOf(rest)
        BY <3>3, <4>1 DEF Pending, HoldersOf
      <4> QED
        BY <3>1, <3>2, <4>2, <2>1, CallKeeps
    <3>5. CASE rest = {}
      <4>1. HoldersOf(rest) = {}
        BY <3>5 DEF HoldersOf
      <4>2. job'[a].users = U /\ job'[a].at \in {"idle", "grades"}
        BY <2>1, <2>3, <3>5 DEF GradeUsers, Goes, Idle
      <4>3. Pending(a)' = U
        BY <4>2 DEF Pending
      <4> QED
        BY <3>1, <3>2, <4>1, <4>3, <2>1, CallKeeps
    <3> QED
      BY <3>4, <3>5
  <2>4. ASSUME NEW u \in Users, UserGrades(a, u)
        PROVE  EffectiveIsClosure'
    <3>1. UNCHANGED <<tables, effective, neglected>> /\ j.at = "grades" /\ u \in j.users
      BY <2>4 DEF UserGrades, Goes, omissions
    <3>2. job'[a].at \in {"ancestors", "write"} /\ job'[a].users = j.users \ {u} /\ job'[a].user = u
      BY <2>1, <2>4 DEF UserGrades, Goes, Job
    <3>3. Pending(a) = j.users /\ Pending(a)' = j.users
      BY <3>1, <3>2 DEF Pending
    <3> QED
      BY <3>1, <3>3, <2>1, CallKeeps
  <2>5. ASSUME UNCHANGED <<tables, effective, neglected>>, job'[a].users = j.users,
               j.at \in {"ancestors", "permissions"}, job'[a].user = j.user,
               job'[a].at \in {"ancestors", "permissions", "write"}
        PROVE  EffectiveIsClosure'
    <3>1. Pending(a) = j.users \cup {j.user} /\ Pending(a)' = job'[a].users \cup {job'[a].user}
      BY <2>5 DEF Pending
    <3> QED
      BY <2>5, <3>1, <2>1, CallKeeps
  <2>6. ASSUME NEW g \in Grades, GradeAncestors(a, g)
        PROVE  EffectiveIsClosure'
    BY <2>1, <2>5, <2>6 DEF GradeAncestors, Goes, Job, omissions
  <2>7. ASSUME NEW g \in Grades, GradePermissions(a, g)
        PROVE  EffectiveIsClosure'
    BY <2>1, <2>5, <2>7 DEF GradePermissions, Goes, Job, omissions
  <2>8. CASE WriteEffective(a)
    <3>1. /\ UNCHANGED tables /\ j.at = "write" /\ j.user \in Users
          /\ effective' = [effective EXCEPT ![j.user] = j.perms]
          /\ neglected' = IF a \in overtaken THEN neglected \cup {j.user} ELSE neglected \ {j.user}
      BY <2>8 DEF WriteEffective, Written, Goes, CallInv
    <3>2. job'[a].at = "bump" /\ job'[a].users = j.users
      BY <2>1, <2>8 DEF WriteEffective, Goes, Job
    <3>3. Pending(a) = j.users \cup {j.user} /\ Pending(a)' = j.users
      BY <3>1, <3>2 DEF Pending
    <3>4. \A b \in Admins \ {a} : Pending(b)' = Pending(b)
      BY <2>1, <3>1, SameTables DEF Pending
    <3>5. a \notin overtaken => j.perms = Closure(j.user)
      BY <3>1 DEF L2Inv, RecomputeInv, CallReads, ReadsRight
    <3>6. \A u \in Users : Closure(u)' = Closure(u)
      BY <3>1, SameTables
    <3>7. ASSUME NEW u \in Users, u \notin neglected', \A b \in Admins : u \notin Pending(b)'
          PROVE  effective'[u] = Closure(u)'
      <4>1. CASE u = j.user
        <5>1. a \notin overtaken
          BY <3>1, <3>7, <4>1
        <5> QED
          BY <3>1, <3>5, <3>6, <4>1, <5>1 DEF TypeOK
      <4>2. CASE u # j.user
        <5>1. u \notin neglected /\ \A b \in Admins : u \notin Pending(b)
          BY <3>1, <3>3, <3>4, <3>7, <4>2
        <5>2. effective'[u] = effective[u]
          BY <3>1, <4>2 DEF TypeOK
        <5> QED
          BY <3>6, <5>1, <5>2 DEF L2Inv, EffectiveIsClosure
      <4> QED
        BY <4>1, <4>2
    <3> QED
      BY <3>7 DEF EffectiveIsClosure
  <2>9. ASSUME UNCHANGED <<tables, effective, neglected>>, job'[a].users = j.users,
               j.at \in {"bump", "invalidate", "uncount"},
               job'[a].at \in {"invalidate", "uncount", "idle", "grades"}
        PROVE  EffectiveIsClosure'
    <3>1. Pending(a) = j.users /\ Pending(a)' = job'[a].users
      BY <2>9 DEF Pending
    <3> QED
      BY <2>9, <3>1, <2>1, CallKeeps
  <2>10. NextUser(a).users = j.users /\ NextUser(a).at \in {"idle", "grades"}
    BY DEF NextUser, Idle
  <2>11. CASE BumpVersion(a)
    BY <2>1, <2>9, <2>11 DEF BumpVersion, Goes, Job, omissions
  <2>12. CASE Invalidate(a)
    <3>1. /\ UNCHANGED <<tables, effective, neglected>> /\ j.at = "invalidate"
          /\ job'[a] = NextUser(a) \/ job'[a] = [j EXCEPT !.at = "uncount"]
      BY <2>1, <2>12 DEF Invalidate, Goes, omissions
    <3> QED
      BY <2>1, <2>9, <2>10, <3>1 DEF Job
  <2>13. CASE Uncount(a)
    <3>1. UNCHANGED <<tables, effective, neglected>> /\ j.at = "uncount" /\ job'[a] = NextUser(a)
      BY <2>1, <2>13 DEF Uncount, Goes, omissions
    <3> QED
      BY <2>9, <2>10, <3>1
  <2>14. CASE Fail(a)
    BY <2>14, <2>1, CallKeeps DEF Fail
  <2> QED
    BY <1>2, <2>2, <2>3, <2>4, <2>6, <2>7, <2>8, <2>11, <2>12, <2>13, <2>14
    DEF RecomputeGradeUsers, Recompute
<1>3. ASSUME UNCHANGED <<tables, effective, neglected, job>>
      PROVE  EffectiveIsClosure'
  <2>1. \A a \in Admins : Pending(a)' = Pending(a)
    BY <1>3, SameTables DEF Pending
  <2>2. \A u \in Users : Closure(u)' = Closure(u)
    BY <1>3, SameTables
  <2> QED
    BY <1>3, <2>1, <2>2 DEF L2Inv, EffectiveIsClosure
<1>4. ASSUME NEW r \in Readers, Can(r)
      PROVE  EffectiveIsClosure'
  BY <1>3, <1>4, CanKeeps
<1>5. CASE UNCHANGED vars
  BY <1>3, <1>5 DEF vars, omissions
<1> QED
  BY <1>1, <1>2, <1>4, <1>5 DEF Next

\* What a call has read is of the present tables, unless it was overtaken: a mutation
\* touches nobody else's grades.
LEMMA RecomputeStep ==
  ASSUME TypeOK, TypeOK', CallInv, L2Inv, [Next]_vars
  PROVE  RecomputeInv'
<1> USE DEF L2Inv
<1>1. job \in [Admins -> Job] /\ \A a \in Admins : CallReads(a)
  BY DEF TypeOK, RecomputeInv
<1>2. ASSUME NEW a \in Admins, Mutation(a)
      PROVE  RecomputeInv'
  <2>1. PICK j \in Job, U \in SUBSET Users :
           /\ Begins(a, j, U)
           /\ \/ j.at = "idle" /\ j.users = {}
              \/ j.at = "grades" /\ j.closure = {} /\ j.perms = {}
              \/ j.at = "descendants"
           /\ \A v \in Users \ U : Untouched(v)
    BY <1>2, MutationReaches
  <2>2. /\ job'[a] = j /\ job[a].at = "idle"
        /\ \A b \in Admins \ {a} : job'[b] = job[b]
        /\ overtaken' = overtaken \cup {b \in Admins : Reading(b) /\ job[b].user \in U}
    BY <1>1, <2>1 DEF Begins
  <2>3. CallReads(a)'
    <3>1. a \notin overtaken'
      BY <1>1, <2>2 DEF CallReads, Reading
    <3> QED
      BY <2>1, <2>2, <3>1 DEF CallReads, ReadsRight
  <2>4. ASSUME NEW b \in Admins \ {a}
        PROVE  CallReads(b)'
    <3> DEFINE v == job[b].user
    <3>1. CallReads(b) /\ job'[b] = job[b]
      BY <1>1, <2>2
    <3>2. CASE b \in overtaken'
      <4>1. Reading(b)
        BY <2>2, <3>1, <3>2 DEF CallReads
      <4> QED
        BY <3>1, <3>2, <4>1 DEF CallReads, Reading
    <3>3. CASE b \notin overtaken' /\ ~ Reading(b)
      BY <2>2, <3>1, <3>3 DEF CallReads, ReadsRight, Reading
    <3>4. CASE b \notin overtaken' /\ Reading(b)
      <4>1. b \notin overtaken /\ v \in Users /\ v \notin U
        BY <2>2, <3>4 DEF CallInv, Reading
      <4>2. Untouched(v)
        BY <2>1, <4>1
      <4>3. ReadsRight(b)
        BY <3>1, <4>1 DEF CallReads
      <4>4. ReadsRight(b)'
        <5>1. PICK w, G, C, P : w = v /\ G = job[b].grades /\ C = job[b].closure /\ P = job[b].perms
          OBVIOUS
        <5>2. job'[b].user = w /\ job'[b].grades = G /\ job'[b].closure = C /\ job'[b].perms = P
          BY <3>1, <5>1
        <5>3. Untouched(w)
          BY <4>2, <5>1
        <5>4. /\ Closure(w)' = Closure(w)
              /\ GradesOf(w)' = GradesOf(w)
              /\ WithAncestors(GradesOf(w))' = WithAncestors(GradesOf(w))
              /\ G \subseteq GradesOf(w) => WithAncestors(G)' = WithAncestors(G)
              /\ C \subseteq WithAncestors(GradesOf(w)) => PermsOf(C)' = PermsOf(C)
          BY <5>3, SameClosure
        <5>5. CASE job[b].at = "ancestors"
          <6>1. /\ G \subseteq GradesOf(w)
                /\ C \cup WithAncestors(G) = WithAncestors(GradesOf(w))
                /\ P = {}
            BY <4>3, <5>1, <5>5 DEF ReadsRight
          <6>2. /\ G \subseteq GradesOf(w)'
                /\ C \cup WithAncestors(G)' = WithAncestors(GradesOf(w))'
            BY <5>4, <6>1
          <6>3. /\ (job[b].grades \subseteq GradesOf(job[b].user))'
                /\ (job[b].closure \cup WithAncestors(job[b].grades) = WithAncestors(GradesOf(job[b].user)))'
            BY <5>2, <6>2 DEF GradesOf, WithAncestors
          <6>4. job'[b].at = "ancestors"
            BY <3>1, <5>5
          <6> QED
            BY <5>2, <6>1, <6>3, <6>4 DEF ReadsRight
        <5>6. CASE job[b].at = "permissions"
          <6>1. C \subseteq WithAncestors(GradesOf(w)) /\ P \cup PermsOf(C) = Closure(w)
            BY <4>3, <5>1, <5>6 DEF ReadsRight
          <6>2. C \subseteq WithAncestors(GradesOf(w))' /\ P \cup PermsOf(C)' = Closure(w)'
            BY <5>4, <6>1
          <6>3. /\ (job[b].closure \subseteq WithAncestors(GradesOf(job[b].user)))'
                /\ (job[b].perms \cup PermsOf(job[b].closure) = Closure(job[b].user))'
            BY <5>2, <6>2 DEF GradesOf, WithAncestors, PermsOf, Closure
          <6>4. job'[b].at = "permissions"
            BY <3>1, <5>6
          <6> QED
            BY <6>3, <6>4 DEF ReadsRight
        <5>7. CASE job[b].at = "write"
          <6>1. P = Closure(w)'
            BY <4>3, <5>1, <5>4, <5>7 DEF ReadsRight
          <6>2. (job[b].perms = Closure(job[b].user))'
            BY <5>2, <6>1 DEF Closure, GradesOf
          <6>3. job'[b].at = "write"
            BY <3>1, <5>7
          <6> QED
            BY <6>2, <6>3 DEF ReadsRight
        <5> QED
          BY <3>4, <5>5, <5>6, <5>7 DEF Reading
      <4> QED
        BY <3>1, <3>4, <4>4 DEF CallReads, Reading
    <3> QED
      BY <3>2, <3>3, <3>4
  <2> QED
    BY <2>3, <2>4 DEF RecomputeInv
<1>3. ASSUME NEW a \in Admins, RecomputeGradeUsers(a) \/ Recompute(a) \/ Fail(a)
      PROVE  RecomputeInv'
  <2> DEFINE j == job[a]
  <2>1. j \in Job /\ CallReads(a)
    BY <1>1
  <2>2. ASSUME NEW b \in Admins \ {a}
        PROVE  CallReads(b)'
    <3>1. /\ UNCHANGED tables /\ job'[b] = job[b] /\ CallReads(b)
          /\ b \in overtaken' <=> b \in overtaken
      BY <1>1, <1>3, CallFrame
    <3> QED
      BY <3>1, SameTables DEF CallReads, ReadsRight, Reading
  <2> SUFFICES CallReads(a)'
    BY <2>2 DEF RecomputeInv
  <2>3. ASSUME a \notin overtaken', job'[a].at \notin {"ancestors", "permissions", "write"},
               job'[a].at = "idle" => job'[a].users = {},
               job'[a].at = "grades" => job'[a].closure = {} /\ job'[a].perms = {}
        PROVE  CallReads(a)'
    BY <2>3 DEF CallReads, ReadsRight
  <2>4. CASE GradeDescendants(a)
    <3>1. job'[a].at = "holders" /\ a \notin overtaken'
      BY <1>1, <2>1, <2>4 DEF GradeDescendants, Goes, Job, omissions, CallReads, Reading
    <3> QED
      BY <2>3, <3>1
  <2>5. ASSUME NEW g \in Grades, GradeUsers(a, g)
        PROVE  CallReads(a)'
    <3>1. \/ job'[a].at = "holders"
          \/ job'[a] = Idle
          \/ job'[a].at = "grades" /\ job'[a].closure = {} /\ job'[a].perms = {}
      BY <2>5, <1>1 DEF GradeUsers, Goes, Job, Idle
    <3>2. a \notin overtaken'
      BY <2>1, <2>5 DEF GradeUsers, omissions, CallReads, Reading
    <3> QED
      BY <2>3, <3>1, <3>2 DEF Idle
  <2>6. ASSUME NEW u \in Users, UserGrades(a, u)
        PROVE  CallReads(a)'
    <3>1. UNCHANGED tables /\ j.at = "grades" /\ j.closure = {} /\ j.perms = {} /\ a \notin overtaken'
      BY <2>1, <2>6 DEF UserGrades, Goes, CallReads, omissions, Reading
    <3>2. /\ job'[a].at = IF GradesOf(u) = {} THEN "write" ELSE "ancestors"
          /\ job'[a].user = u /\ job'[a].grades = GradesOf(u)
          /\ job'[a].closure = {} /\ job'[a].perms = {}
      BY <1>1, <2>6, <3>1 DEF UserGrades, Goes, Job
    <3>3. GradesOf(u) = {} => Closure(u) = {}
      BY DEF Closure, PermsOf
    <3>4. CASE GradesOf(u) = {}
      <4>1. job'[a].at = "write" /\ job'[a].perms = Closure(job'[a].user)
        BY <3>2, <3>3, <3>4
      <4> QED
        BY <3>1, <4>1, SameTables DEF CallReads, ReadsRight
    <3>5. CASE GradesOf(u) # {}
      <4>1. /\ job'[a].at = "ancestors" /\ job'[a].perms = {}
            /\ job'[a].grades \subseteq GradesOf(job'[a].user)
            /\ job'[a].closure \cup WithAncestors(job'[a].grades)
                  = WithAncestors(GradesOf(job'[a].user))
        BY <3>2, <3>5
      <4> QED
        BY <3>1, <4>1, SameTables DEF CallReads, ReadsRight
    <3> QED
      BY <3>4, <3>5
  <2>7. ASSUME a \in overtaken, overtaken' = overtaken,
               job'[a].at \in {"ancestors", "permissions", "write"}
        PROVE  CallReads(a)'
    BY <2>7 DEF CallReads, Reading
  <2>8. ASSUME NEW g \in Grades, GradeAncestors(a, g)
        PROVE  CallReads(a)'
    <3> DEFINE rest == j.grades \ {g}
               C == j.closure \cup {g} \cup Ancestors(g)
    <3>1. UNCHANGED <<tables, overtaken>> /\ j.at = "ancestors" /\ g \in j.grades
      BY <2>8 DEF GradeAncestors, Goes, omissions
    <3>2. /\ job'[a].at = IF rest = {} THEN "permissions" ELSE "ancestors"
          /\ job'[a].user = j.user /\ job'[a].grades = rest
          /\ job'[a].closure = C /\ job'[a].perms = j.perms
      BY <1>1, <2>8, <3>1 DEF GradeAncestors, Goes, Job
    <3>3. CASE a \in overtaken
      <4>1. job'[a].at \in {"ancestors", "permissions", "write"}
        BY <3>2
      <4> QED
        BY <2>7, <3>1, <3>3, <4>1
    <3>4. CASE a \notin overtaken
      <4>1. /\ j.perms = {} /\ j.grades \subseteq GradesOf(j.user)
            /\ j.closure \cup WithAncestors(j.grades) = WithAncestors(GradesOf(j.user))
        BY <2>1, <3>1, <3>4 DEF CallReads, ReadsRight
      <4>2. WithAncestors(j.grades) = {g} \cup Ancestors(g) \cup WithAncestors(rest)
        BY <3>1 DEF WithAncestors
      <4>3. C \cup WithAncestors(rest) = WithAncestors(GradesOf(j.user))
        <5>1. C \cup WithAncestors(rest) = j.closure \cup WithAncestors(j.grades)
          BY <4>2
        <5> QED
          BY <4>1, <5>1
      <4>4. CASE rest = {}
        <5>1. WithAncestors(rest) = {} /\ Closure(j.user) = PermsOf(WithAncestors(GradesOf(j.user)))
          BY <4>4 DEF WithAncestors, Closure
        <5>2. C = WithAncestors(GradesOf(j.user))
          BY <4>3, <5>1
        <5>3. /\ job'[a].closure \subseteq WithAncestors(GradesOf(job'[a].user))
              /\ job'[a].perms \cup PermsOf(job'[a].closure) = Closure(job'[a].user)
          BY <3>2, <4>1, <5>1, <5>2
        <5>4. job'[a].at = "permissions"
          BY <3>2, <4>4
        <5> QED
          BY <3>1, <3>4, <5>3, <5>4, SameTables DEF CallReads, ReadsRight
      <4>5. CASE rest # {}
        <5>1. /\ job'[a].grades \subseteq GradesOf(job'[a].user)
              /\ job'[a].closure \cup WithAncestors(job'[a].grades)
                    = WithAncestors(GradesOf(job'[a].user))
          BY <3>2, <4>1, <4>3
        <5>2. job'[a].at = "ancestors" /\ job'[a].perms = {}
          BY <3>2, <4>1, <4>5
        <5> QED
          BY <3>1, <3>4, <5>1, <5>2, SameTables DEF CallReads, ReadsRight
      <4> QED
        BY <4>4, <4>5
    <3> QED
      BY <3>3, <3>4
  <2>9. ASSUME NEW g \in Grades, GradePermissions(a, g)
        PROVE  CallReads(a)'
    <3> DEFINE rest == j.closure \ {g}
               P == j.perms \cup PermsOf({g})
    <3>1. UNCHANGED <<tables, overtaken>> /\ j.at = "permissions" /\ g \in j.closure
      BY <2>9 DEF GradePermissions, Goes, omissions
    <3>2. /\ job'[a].at = IF rest = {} THEN "write" ELSE "permissions"
          /\ job'[a].user = j.user /\ job'[a].closure = rest /\ job'[a].perms = P
      BY <1>1, <2>9, <3>1 DEF GradePermissions, Goes, Job
    <3>3. job'[a].at \in {"write", "permissions"}
      BY <3>2
    <3>4. CASE a \in overtaken
      BY <2>7, <3>1, <3>3, <3>4
    <3>5. CASE a \notin overtaken
      <4>1. /\ j.closure \subseteq WithAncestors(GradesOf(j.user))
            /\ j.perms \cup PermsOf(j.closure) = Closure(j.user)
        BY <2>1, <3>1, <3>5 DEF CallReads, ReadsRight
      <4>2. PermsOf(j.closure) = PermsOf({g}) \cup PermsOf(rest)
        BY <3>1 DEF PermsOf
      <4>3. P \cup PermsOf(rest) = Closure(j.user) /\ (rest = {} => PermsOf(rest) = {})
        BY <4>1, <4>2 DEF PermsOf
      <4>4. job'[a].at = "permissions" =>
               /\ job'[a].closure \subseteq WithAncestors(GradesOf(job'[a].user))
               /\ job'[a].perms \cup PermsOf(job'[a].closure) = Closure(job'[a].user)
        BY <3>2, <4>1, <4>3
      <4>5. job'[a].at = "write" => job'[a].perms = Closure(job'[a].user)
        BY <3>2, <4>3
      <4> QED
        BY <3>1, <3>3, <3>5, <4>4, <4>5, SameTables DEF CallReads, ReadsRight
    <3> QED
      BY <3>4, <3>5
  <2>10. CASE WriteEffective(a) \/ BumpVersion(a)
    <3>1. job'[a].at \in {"bump", "invalidate"}
      BY <1>1, <2>10 DEF WriteEffective, BumpVersion, Goes, Job
    <3>2. a \notin overtaken'
      BY <2>1, <2>10 DEF WriteEffective, BumpVersion, Written, omissions, CallReads, Reading
    <3> QED
      BY <2>3, <3>1, <3>2
  <2>11. CASE Invalidate(a) \/ Uncount(a)
    <3>1. \/ job'[a].at = "uncount"
          \/ job'[a] = NextUser(a)
      BY <1>1, <2>11 DEF Invalidate, Uncount, Goes, Job
    <3>2. \/ NextUser(a).at = "idle" /\ NextUser(a).users = {}
          \/ NextUser(a).at = "grades" /\ NextUser(a).closure = {} /\ NextUser(a).perms = {}
      BY DEF NextUser, Idle
    <3>3. a \notin overtaken'
      BY <2>1, <2>11 DEF Invalidate, Uncount, omissions, CallReads, Reading
    <3> QED
      BY <2>3, <3>1, <3>2, <3>3
  <2>12. CASE Fail(a)
    <3>1. job'[a] = Idle /\ a \notin overtaken'
      BY <1>1, <2>12 DEF Fail
    <3> QED
      BY <2>3, <3>1 DEF Idle
  <2> QED
    BY <1>3, <2>4, <2>5, <2>6, <2>8, <2>9, <2>10, <2>11, <2>12 DEF RecomputeGradeUsers, Recompute
<1>4. ASSUME UNCHANGED <<tables, job, overtaken>>
      PROVE  RecomputeInv'
  BY <1>1, <1>4, SameTables DEF RecomputeInv, CallReads, ReadsRight, Reading
<1>5. ASSUME NEW r \in Readers, Can(r)
      PROVE  RecomputeInv'
  BY <1>4, <1>5, CanKeeps
<1>6. CASE UNCHANGED vars
  BY <1>4, <1>6 DEF vars, omissions
<1> QED
  BY <1>2, <1>3, <1>5, <1>6 DEF Next

LEMMA L2Init == Init => L2Inv
  BY DEF Init, L2Inv, EffectiveIsClosure, RecomputeInv, CallReads, ReadsRight, Idle

\* recomputeGradeUsers and Recompute: for any users, grades, administrators and readers,
\* L2 is the closure of the grades of every user whom no mutation under way has still to
\* recompute, none left out, and whose last Recompute nobody overtook.
THEOREM L2IsClosure == Spec => []EffectiveIsClosure
<1>1. IInv /\ L2Inv /\ [Next]_vars => L2Inv'
  <2> SUFFICES ASSUME IInv, L2Inv, [Next]_vars
               PROVE  L2Inv'
    OBVIOUS
  <2>1. TypeOK /\ CallInv /\ TypeOK'
    BY TypeStep DEF IInv
  <2> QED
    BY <2>1, EffectiveStep, RecomputeStep DEF L2Inv
<1>2. L2Inv => EffectiveIsClosure
  BY DEF L2Inv
<1> QED
  BY Inductive, L2Init, <1>1, <1>2, PTL DEF Spec

-----------------------------------------------------------------------------
(* MemberRequests.                                                         *)

\* A handler holds a request that exists, and marks a demande that has its convention.
HandlerInv ==
    \A a \in Deciders :
        /\ pc[a] = "idle" <=> deciding[a] = None
        /\ deciding[a] # None => statut[deciding[a]] # "absent"
        /\ pc[a] = "mark" => deciding[a] \in Demandes /\ effects[deciding[a]] > 0

\* The statuts of each kind, and their effects.
StatutInv ==
    /\ \A d \in Demandes : statut[d] # "acceptee"
    /\ \A p \in Profiles : statut[p] \in {"absent", "soumise", "acceptee"}
    /\ \A r \in Requests : statut[r] = "absent" => effects[r] = 0
    /\ \A p \in Profiles : asking[p] # "asked" => statut[p] = "absent"
    /\ \A d \in Demandes : asking[d] = "start" => statut[d] = "absent"

\* A request that nobody raced for has one handler, and is as that handler read it.
RaceInv ==
    \A r \in Requests \ raced :
        /\ effects[r] <= 1
        /\ statut[r] = "refusee" => effects[r] = 0
        /\ \A a, b \in Deciders : deciding[a] = r /\ deciding[b] = r => a = b
        /\ \A a \in Deciders :
              deciding[a] = r /\ pc[a] = "decide" => Open(r) /\ effects[r] = 0

\* Two submissions of which one looked after the other was there are not both open.
TwinInv ==
    \A p, q \in Profiles :
        p # q /\ asking[p] = "insert" /\ (asking[q] = "insert" \/ statut[q] = "soumise")
            => {p, q} \subseteq twins

RequestsIInv ==
    /\ RequestsTypeOK
    /\ HandlerInv
    /\ StatutInv
    /\ DecidedHasEffect
    /\ GrantIsRecorded
    /\ RaceInv
    /\ TwinInv
    /\ OneOpenRequest

\* Nothing has been asked: every part holds.
LEMMA RequestsInitInv == RequestsInit => RequestsIInv
<1> SUFFICES ASSUME RequestsInit
             PROVE  RequestsIInv
  OBVIOUS
<1> USE RequestsAssumption DEF RequestsInit, Requests
<1>1. RequestsTypeOK
  <2>1. 0 \in 0 .. MaxGrants
    OBVIOUS
  <2>2. effects \in [Requests -> 0 .. MaxGrants]
    BY <2>1
  <2>3. statut \in [Requests -> {"absent", "soumise", "acceptee", "convertie", "refusee"}]
    OBVIOUS
  <2>4. asking \in [Requests -> {"start", "validated", "insert", "asked"}]
    OBVIOUS
  <2>5. /\ deciding \in [Deciders -> Requests \cup {None}]
        /\ pc \in [Deciders -> {"idle", "decide", "mark"}]
    OBVIOUS
  <2> QED
    BY <2>2, <2>3, <2>4, <2>5 DEF RequestsTypeOK
<1>2. HandlerInv /\ StatutInv
  BY DEF HandlerInv, StatutInv
<1>3. DecidedHasEffect /\ GrantIsRecorded
  BY DEF DecidedHasEffect, GrantIsRecorded
<1>4. RaceInv
  BY DEF RaceInv
<1>5. TwinInv /\ OneOpenRequest
  BY DEF TwinInv, OneOpenRequest
<1> QED
  BY <1>1, <1>2, <1>3, <1>4, <1>5 DEF RequestsIInv

\* The types, for every step.
LEMMA RequestsTypeStep == RequestsTypeOK /\ [RequestsNext]_requestsVars => RequestsTypeOK'
<1> SUFFICES ASSUME RequestsTypeOK, [RequestsNext]_requestsVars
             PROVE  RequestsTypeOK'
  OBVIOUS
<1> USE RequestsAssumption DEF RequestsTypeOK, Requests
<1>1. CASE \E d \in Demandes : CreateDemande(d)
  BY <1>1 DEF CreateDemande, handlers, ghosts
<1>2. CASE \E p \in Profiles :
              ValidateDemande(p) \/ CheckSoumise(p) \/ InsertProfile(p) \/ GiveUp(p)
  BY <1>2 DEF ValidateDemande, CheckSoumise, FoundAlone, InsertProfile, GiveUp, handlers, ghosts
<1>3. CASE \E a \in Deciders, r \in Requests : GetByID(a, r)
  BY <1>3 DEF GetByID, Take
<1>4. CASE \E a \in Deciders : Refuse(a) \/ MarkConverted(a)
  <2> SUFFICES ASSUME NEW a \in Deciders, Refuse(a) \/ MarkConverted(a)
               PROVE  RequestsTypeOK'
    BY <1>4
  <2>1. PICK s \in {"refusee", "convertie"} : SetStatut(deciding[a], s)
    BY DEF Refuse, MarkConverted
  <2>2. statut' \in [Requests -> {"absent", "soumise", "acceptee", "convertie", "refusee"}]
    BY <2>1 DEF SetStatut
  <2>3. UNCHANGED <<asking, held, effects, ghosts>> /\ End(a)
    BY DEF Refuse, MarkConverted
  <2> QED
    BY <2>2, <2>3 DEF End, ghosts
<1>5. CASE \E a \in Deciders : CreateConvention(a) \/ OctroyerProfil(a) \/ Abort(a)
  <2>1. ASSUME NEW a \in Deciders, CreateConvention(a)
        PROVE  RequestsTypeOK'
    BY <2>1 DEF CreateConvention, ghosts
  <2>2. ASSUME NEW a \in Deciders, OctroyerProfil(a)
        PROVE  RequestsTypeOK'
    BY <2>2 DEF OctroyerProfil, End, ghosts
  <2>3. ASSUME NEW a \in Deciders, Abort(a)
        PROVE  RequestsTypeOK'
    BY <2>3 DEF Abort, End, ghosts
  <2> QED
    BY <1>5, <2>1, <2>2, <2>3
<1>6. CASE Retrait
  BY <1>6 DEF Retrait, handlers, ghosts
<1>7. CASE UNCHANGED requestsVars
  BY <1>7 DEF requestsVars, handlers, ghosts
<1> QED
  BY <1>1, <1>2, <1>3, <1>4, <1>5, <1>6, <1>7 DEF RequestsNext

\* A member's step.
LEMMA MemberStep ==
    ASSUME RequestsIInv, RequestsTypeOK',
           \/ \E d \in Demandes : CreateDemande(d)
           \/ \E p \in Profiles :
                 ValidateDemande(p) \/ CheckSoumise(p) \/ InsertProfile(p) \/ GiveUp(p)
    PROVE  RequestsIInv'
<1> USE RequestsAssumption DEF RequestsIInv, RequestsTypeOK, Requests, handlers, ghosts
<1>1. CASE \E d \in Demandes : CreateDemande(d)
  <2> SUFFICES ASSUME NEW d \in Demandes, CreateDemande(d)
               PROVE  RequestsIInv'
    BY <1>1
  <2> USE DEF CreateDemande
  <2>1. HandlerInv'
    BY DEF HandlerInv
  <2>2. StatutInv'
    BY DEF StatutInv
  <2>3. DecidedHasEffect' /\ GrantIsRecorded'
    BY DEF DecidedHasEffect, GrantIsRecorded, StatutInv
  <2>4. RaceInv'
    BY DEF RaceInv, StatutInv, HandlerInv, Open
  <2>5. TwinInv' /\ OneOpenRequest'
    BY DEF TwinInv, OneOpenRequest
  <2> QED
    BY <2>1, <2>2, <2>3, <2>4, <2>5
<1>2. CASE \E p \in Profiles : ValidateDemande(p) \/ GiveUp(p)
  <2> SUFFICES ASSUME NEW p \in Profiles, ValidateDemande(p) \/ GiveUp(p)
               PROVE  RequestsIInv'
    BY <1>2
  <2> USE DEF ValidateDemande, GiveUp
  <2>1. HandlerInv' /\ DecidedHasEffect' /\ GrantIsRecorded' /\ OneOpenRequest'
    BY DEF HandlerInv, DecidedHasEffect, GrantIsRecorded, OneOpenRequest
  <2>2. StatutInv'
    BY DEF StatutInv
  <2>3. RaceInv'
    BY DEF RaceInv, Open
  <2>4. TwinInv'
    BY DEF TwinInv
  <2> QED
    BY <2>1, <2>2, <2>3, <2>4
<1>3. CASE \E p \in Profiles : CheckSoumise(p)
  <2> SUFFICES ASSUME NEW p \in Profiles, CheckSoumise(p)
               PROVE  RequestsIInv'
    BY <1>3
  <2> USE DEF CheckSoumise
  <2>1. HandlerInv' /\ DecidedHasEffect' /\ GrantIsRecorded'
    BY DEF HandlerInv, DecidedHasEffect, GrantIsRecorded
  <2>2. StatutInv'
    BY DEF StatutInv
  <2>3. RaceInv'
    BY DEF RaceInv, Open
  <2>4. twins \subseteq twins'
    BY DEF FoundAlone
  <2>5. \A q \in Profiles \ {p} : asking[q] = "insert" => {p, q} \subseteq twins'
    BY DEF FoundAlone
  <2>6. TwinInv'
    BY <2>4, <2>5 DEF TwinInv, ExistsSoumise
  <2>7. OneOpenRequest'
    BY <2>4 DEF OneOpenRequest
  <2> QED
    BY <2>1, <2>2, <2>3, <2>6, <2>7
<1>4. CASE \E p \in Profiles : InsertProfile(p)
  <2> SUFFICES ASSUME NEW p \in Profiles, InsertProfile(p)
               PROVE  RequestsIInv'
    BY <1>4
  <2> USE DEF InsertProfile
  <2>1. HandlerInv'
    BY DEF HandlerInv
  <2>2. StatutInv'
    BY DEF StatutInv
  <2>3. DecidedHasEffect' /\ GrantIsRecorded'
    BY DEF DecidedHasEffect, GrantIsRecorded, StatutInv
  <2>4. RaceInv'
    BY DEF RaceInv, StatutInv, HandlerInv, Open
  <2>5. TwinInv' /\ OneOpenRequest'
    BY DEF TwinInv, OneOpenRequest
  <2> QED
    BY <2>1, <2>2, <2>3, <2>4, <2>5
<1> QED
  BY <1>1, <1>2, <1>3, <1>4

\* A step of an administrator, or a withdrawal.
LEMMA AdminStep ==
    ASSUME RequestsIInv, RequestsTypeOK',
           \/ \E a \in Deciders :
                 \/ \E r \in Requests : GetByID(a, r)
                 \/ Refuse(a) \/ CreateConvention(a) \/ MarkConverted(a)
                 \/ OctroyerProfil(a) \/ Abort(a)
           \/ Retrait
    PROVE  RequestsIInv'
<1> USE RequestsAssumption DEF RequestsIInv, RequestsTypeOK, Requests, handlers, ghosts
<1>1. CASE \E a \in Deciders, r \in Requests : GetByID(a, r)
  <2> SUFFICES ASSUME NEW a \in Deciders, NEW r \in Requests, GetByID(a, r)
               PROVE  RequestsIInv'
    BY <1>1
  <2> USE DEF GetByID, Take
  <2>1. HandlerInv'
    BY DEF HandlerInv, Open
  <2>2. StatutInv' /\ DecidedHasEffect' /\ GrantIsRecorded' /\ TwinInv' /\ OneOpenRequest'
    BY DEF StatutInv, DecidedHasEffect, GrantIsRecorded, TwinInv, OneOpenRequest
  <2>3. ASSUME NEW x \in Requests \ raced'
        PROVE  /\ effects[x] <= 1
               /\ statut[x] = "refusee" => effects[x] = 0
               /\ \A b, c \in Deciders : deciding'[b] = x /\ deciding'[c] = x => b = c
               /\ \A b \in Deciders :
                     deciding'[b] = x /\ pc'[b] = "decide" => Open(x) /\ effects[x] = 0
    <3>1. x \notin raced
      OBVIOUS
    <3>2. CASE x = r
      <4>1. ~ Shared(r)
        BY <2>3, <3>2
      <4>2. effects[r] = 0 /\ \A b \in Deciders : deciding[b] # r
        BY <4>1 DEF Shared, InHand
      <4> QED
        BY <3>1, <3>2, <4>2 DEF RaceInv
    <3>3. CASE x # r
      BY <3>1, <3>3 DEF RaceInv, HandlerInv
    <3> QED
      BY <3>2, <3>3
  <2>4. RaceInv'
    BY <2>3 DEF RaceInv, Open
  <2> QED
    BY <2>1, <2>2, <2>4
<1>2. CASE \E a \in Deciders : Refuse(a)
  <2> SUFFICES ASSUME NEW a \in Deciders, Refuse(a)
               PROVE  RequestsIInv'
    BY <1>2
  <2> USE DEF Refuse, End, SetStatut, Terminal
  <2>1. HandlerInv'
    BY DEF HandlerInv
  <2>2. StatutInv'
    BY DEF StatutInv, HandlerInv
  <2>3. DecidedHasEffect' /\ GrantIsRecorded'
    BY DEF DecidedHasEffect, GrantIsRecorded
  <2>4. RaceInv'
    BY DEF RaceInv, HandlerInv, Open
  <2>5. TwinInv' /\ OneOpenRequest'
    BY DEF TwinInv, OneOpenRequest
  <2> QED
    BY <2>1, <2>2, <2>3, <2>4, <2>5
<1>3. CASE \E a \in Deciders : CreateConvention(a)
  <2> SUFFICES ASSUME NEW a \in Deciders, CreateConvention(a)
               PROVE  RequestsIInv'
    BY <1>3
  <2> USE DEF CreateConvention
  <2>1. HandlerInv'
    BY DEF HandlerInv
  <2>2. StatutInv'
    BY DEF StatutInv, HandlerInv
  <2>3. DecidedHasEffect' /\ GrantIsRecorded'
    BY DEF DecidedHasEffect, GrantIsRecorded
  <2>4. RaceInv'
    BY DEF RaceInv, HandlerInv, Open, Terminal
  <2>5. TwinInv' /\ OneOpenRequest'
    BY DEF TwinInv, OneOpenRequest
  <2> QED
    BY <2>1, <2>2, <2>3, <2>4, <2>5
<1>4. CASE \E a \in Deciders : MarkConverted(a)
  <2> SUFFICES ASSUME NEW a \in Deciders, MarkConverted(a)
               PROVE  RequestsIInv'
    BY <1>4
  <2> USE DEF MarkConverted, End, SetStatut, Terminal
  <2>0. deciding[a] \in Demandes /\ effects[deciding[a]] > 0
    BY DEF HandlerInv
  <2>1. HandlerInv'
    BY <2>0 DEF HandlerInv
  <2>2. StatutInv'
    BY <2>0 DEF StatutInv, HandlerInv
  <2>3. DecidedHasEffect' /\ GrantIsRecorded'
    BY <2>0 DEF DecidedHasEffect, GrantIsRecorded
  <2>4. RaceInv'
    BY <2>0 DEF RaceInv, HandlerInv, Open
  <2>5. TwinInv' /\ OneOpenRequest'
    BY <2>0 DEF TwinInv, OneOpenRequest
  <2> QED
    BY <2>1, <2>2, <2>3, <2>4, <2>5
<1>5. CASE \E a \in Deciders : OctroyerProfil(a)
  <2> SUFFICES ASSUME NEW a \in Deciders, OctroyerProfil(a)
               PROVE  RequestsIInv'
    BY <1>5
  <2> USE DEF OctroyerProfil, End
  <2>1. HandlerInv'
    BY DEF HandlerInv
  <2>2. StatutInv'
    BY DEF StatutInv, HandlerInv
  <2>3. DecidedHasEffect' /\ GrantIsRecorded'
    BY DEF DecidedHasEffect, GrantIsRecorded
  <2>4. RaceInv'
    BY DEF RaceInv, HandlerInv, Open
  <2>5. TwinInv' /\ OneOpenRequest'
    BY DEF TwinInv, OneOpenRequest
  <2> QED
    BY <2>1, <2>2, <2>3, <2>4, <2>5
<1>6. CASE Retrait \/ \E a \in Deciders : Abort(a)
  <2> USE <1>6 DEF Retrait, Abort, End
  <2>1. HandlerInv'
    BY DEF HandlerInv
  <2>2. StatutInv' /\ DecidedHasEffect' /\ GrantIsRecorded' /\ TwinInv' /\ OneOpenRequest'
    BY DEF StatutInv, DecidedHasEffect, GrantIsRecorded, TwinInv, OneOpenRequest
  <2>3. RaceInv'
    BY DEF RaceInv, HandlerInv, Open
  <2> QED
    BY <2>1, <2>2, <2>3
<1> QED
  BY <1>1, <1>2, <1>3, <1>4, <1>5, <1>6

\* The invariant is inductive.
LEMMA Step == RequestsIInv /\ [RequestsNext]_requestsVars => RequestsIInv'
<1> SUFFICES ASSUME RequestsIInv, [RequestsNext]_requestsVars
             PROVE  RequestsIInv'
  OBVIOUS
<1>0. RequestsTypeOK'
  BY RequestsTypeStep DEF RequestsIInv
<1>1. CASE UNCHANGED requestsVars
  BY <1>1
     DEF requestsVars, handlers, ghosts, RequestsIInv, RequestsTypeOK, HandlerInv, StatutInv,
         DecidedHasEffect, GrantIsRecorded, RaceInv, Open, TwinInv, OneOpenRequest
<1> QED
  BY <1>0, <1>1, MemberStep, AdminStep DEF RequestsNext

LEMMA RequestsInductive == RequestsSpec => []RequestsIInv
<1>1. RequestsInit => RequestsIInv
  BY RequestsInitInv
<1>2. RequestsIInv /\ [RequestsNext]_requestsVars => RequestsIInv'
  BY Step
<1> QED
  BY <1>1, <1>2, PTL DEF RequestsSpec

\* The variables of the requests keep their types.
THEOREM RequestsTypeCorrect == RequestsSpec => []RequestsTypeOK
<1>1. RequestsIInv => RequestsTypeOK
  BY DEF RequestsIInv
<1> QED
  BY <1>1, RequestsInductive, PTL

\* A request has its effect once, and a refused demande none, unless two handlers had it
\* open or one stopped half-way (demande.go and profil.go).
THEOREM DecidedAtMostOnce == RequestsSpec => []DecidedOnce
<1>1. RequestsIInv => DecidedOnce
  BY DEF RequestsIInv, RequestsTypeOK, RaceInv, DecidedOnce, Requests
<1> QED
  BY <1>1, RequestsInductive, PTL

\* No request is decided with nothing to show, and no grade given without its request
\* (the order of the two statements of demande.go, the transaction of profil.go).
THEOREM DecisionsHaveEffect == RequestsSpec => [](DecidedHasEffect /\ GrantIsRecorded)
<1>1. RequestsIInv => DecidedHasEffect /\ GrantIsRecorded
  BY DEF RequestsIInv
<1> QED
  BY <1>1, RequestsInductive, PTL

\* A grade is given with the statut of its request, in one transaction: a profile request
\* that had its effect is never left open to be granted again (octroyerProfil).
THEOREM GrantsAreRecorded == RequestsSpec => []GrantIsRecorded
<1>1. RequestsIInv => GrantIsRecorded
  BY DEF RequestsIInv
<1> QED
  BY <1>1, RequestsInductive, PTL

\* Two requests of one profile are open only if both looked before either was there
\* (profilrequest.Create).
THEOREM OneRequestAtATime == RequestsSpec => []OneOpenRequest
<1>1. RequestsIInv => OneOpenRequest
  BY DEF RequestsIInv
<1> QED
  BY <1>1, RequestsInductive, PTL

\* A decision stands: the guard of demande.SetStatut is in its UPDATE, and a grant can
\* only be granted again.
THEOREM DecisionsAreFinal == RequestsSpec => DecisionsStand
<1> DEFINE Stand ==
        \A r \in Requests :
            statut[r] \in {"convertie", "refusee", "acceptee"} => statut'[r] = statut[r]
<1>1. ASSUME RequestsIInv, [RequestsNext]_requestsVars
      PROVE  Stand
  <2> USE <1>1, RequestsAssumption DEF RequestsIInv, RequestsTypeOK, Requests, handlers, ghosts
  <2>1. CASE \E d \in Demandes : CreateDemande(d)
    BY <2>1 DEF CreateDemande, StatutInv
  <2>2. CASE \E p \in Profiles :
                ValidateDemande(p) \/ CheckSoumise(p) \/ InsertProfile(p) \/ GiveUp(p)
    BY <2>2 DEF ValidateDemande, CheckSoumise, InsertProfile, GiveUp, StatutInv
  <2>3. CASE \E a \in Deciders : Refuse(a) \/ MarkConverted(a)
    BY <2>3 DEF Refuse, MarkConverted, SetStatut, Terminal, StatutInv, HandlerInv
  <2>4. CASE \E a \in Deciders : OctroyerProfil(a)
    BY <2>4 DEF OctroyerProfil, StatutInv
  <2>5. CASE statut' = statut
    BY <2>5
  <2> QED
    BY <2>1, <2>2, <2>3, <2>4, <2>5
       DEF RequestsNext, GetByID, CreateConvention, Abort, Retrait, requestsVars
<1>2. RequestsIInv /\ [RequestsNext]_requestsVars => [Stand]_requestsVars
  BY <1>1
<1> QED
  BY <1>2, RequestsInductive, PTL DEF RequestsSpec, DecisionsStand
=============================================================================
