--------------------------------- MODULE Rbac ---------------------------------
(***************************************************************************)
(* Grades, permissions and who may do what: the store, the service and the *)
(* two-level cache of pkg/rbac.  A mutation of a grade changes one table   *)
(* and then recomputes, user by user, the permissions of everyone it       *)
(* reaches (user_effective_permissions, L2); Can answers from the L1 cache *)
(* of the process and fills it from L2.                                    *)
(*                                                                         *)
(* A mutation is a call of an administrator, Can one of a reader.  Every   *)
(* SQL statement or transaction, and every operation on an atomic or on    *)
(* the sync.Map of the cache, is one step; the calls interleave between    *)
(* them.  The audit trail changes nothing here and is left out.            *)
(***************************************************************************)
EXTENDS Integers, FiniteSets

CONSTANTS
    Users, Grades, Perms,
    SystemGrades,  \* grades DeleteGrade refuses
    Starts,        \* tables a run may begin with: [assigned, granted, inherits]
    Admins,        \* callers of the mutations of Service
    Readers,       \* callers of Can
    Asked,         \* bound: the users Can is asked about
    MaxSize,       \* Cache.MaxSize (10 000)
    MaxChanges,    \* bound on the mutations of a run
    MaxFaults,     \* bound on the statements that fail
    NoEntry        \* the cache has no entry for the user

\* The grades g inherits from along the edges R, as the recursive CTE of the
\* store finds them: the least set that has the parents of g and of its members.
Reach(g, R) ==
    {h \in Grades :
        \A C \in SUBSET Grades :
            (\A edge \in R : edge[1] \in C \cup {g} => edge[2] \in C) => h \in C}

Acyclic(R) == \A g \in Grades : g \notin Reach(g, R)

ASSUME RbacAssumption ==
    /\ IsFiniteSet(Users)
    /\ Asked \subseteq Users
    /\ SystemGrades \subseteq Grades
    /\ \A s \in Starts :
          /\ s.assigned \subseteq Users \X Grades
          /\ s.granted \subseteq Grades \X Perms
          /\ s.inherits \subseteq Grades \X Grades
          /\ Acyclic(s.inherits)
    /\ MaxSize \in Nat \ {0}
    /\ MaxChanges \in Nat
    /\ MaxFaults \in Nat

VARIABLES
    grades,     \* rows of grades
    granted,    \* rows of grade_permissions
    inherits,   \* rows of grade_inherits, <<child, parent>>
    assigned,   \* rows of user_grades
    effective,  \* user_effective_permissions, by user
    ver,        \* Cache.ver
    entries,    \* Cache.entries
    size,       \* Cache.size
    job,        \* the mutation each administrator is in
    can,        \* the Can each reader is in
    changes,    \* mutations so far
    faults,     \* failed statements so far
    \* Ghosts, which no step looks at:
    overtaken,  \* administrators in a Recompute that another's mutation overtook
    neglected   \* users left without their Recompute, or with one that was overtaken

tables == <<grades, granted, inherits, assigned>>
cache == <<ver, entries, size>>
omissions == <<overtaken, neglected>>
vars == <<tables, effective, cache, job, can, changes, faults, omissions>>

-----------------------------------------------------------------------------
(* Closures.                                                               *)

Ancestors(g) == Reach(g, inherits)

\* Mutant: only the grades that inherit from g directly.
Children(g) == {c \in Grades : <<c, g>> \in inherits}

Descendants(g) == Reach(g, {<<edge[2], edge[1]>> : edge \in inherits})

PermsOf(G) == {p \in Perms : \E g \in G : <<g, p>> \in granted}
GradesOf(u) == {g \in grades : <<u, g>> \in assigned}
HoldersOf(G) == {u \in Users : \E g \in G : <<u, g>> \in assigned}

\* What Recompute is to write: the permissions of the grades of u and of all
\* their ancestors.
Closure(u) == PermsOf(UNION {{g} \cup Ancestors(g) : g \in GradesOf(u)})

\* Everyone a mutation of g reaches.
Reached(g) == HoldersOf({g} \cup Descendants(g))

-----------------------------------------------------------------------------
(* A call of a mutation: "descendants" and "holders" are the two halves of *)
(* recomputeGradeUsers, "grades" to "uncount" one Recompute.               *)

JobSteps == {"idle", "descendants", "holders", "grades", "ancestors",
             "permissions", "write", "bump", "invalidate", "uncount"}

Job == [at : JobSteps,
        grades : SUBSET Grades,   \* grades still to be read
        users : SUBSET Users,     \* users still to be recomputed
        user : Users \cup {NoEntry},  \* the user Recompute is at
        closure : SUBSET Grades,
        perms : SUBSET Perms]

Idle == [at |-> "idle", grades |-> {}, users |-> {}, user |-> NoEntry,
         closure |-> {}, perms |-> {}]

CanSteps == {"idle", "load", "check", "stamp", "swap", "count"}

\* perms: the local of Can; readAt: the version when it was read (a ghost that
\* no step looks at); stamp: the version the new entry will carry.
Entry == [perms : SUBSET Perms, stamp : Nat, readAt : Nat]
Call == [at : CanSteps, user : Users \cup {NoEntry}, entry : Entry]

NoCall == [at |-> "idle", user |-> NoEntry,
           entry |-> [perms |-> {}, stamp |-> 0, readAt |-> 0]]

Init ==
    /\ \E s \in Starts : /\ assigned = s.assigned
                         /\ granted = s.granted
                         /\ inherits = s.inherits
    /\ grades = Grades
    /\ effective = [u \in Users |-> Closure(u)]
    /\ ver = 0
    /\ entries = [u \in Users |-> NoEntry]
    /\ size = 0
    /\ job = [a \in Admins |-> Idle]
    /\ can = [r \in Readers |-> NoCall]
    /\ changes = 0
    /\ faults = 0
    /\ overtaken = {}
    /\ neglected = {}

-----------------------------------------------------------------------------
(* The store's half of a mutation.                                         *)

\* Between UserGrades and WriteEffective.
Reading(b) == job[b].at \in {"ancestors", "permissions", "write"}

\* The call begins: what follows its first statement, which is about the permissions of
\* the users U, is job j.  Who is reading theirs does not notice.
Begins(a, j, U) ==
    /\ job[a].at = "idle"
    /\ changes < MaxChanges
    /\ changes' = changes + 1
    /\ job' = [job EXCEPT ![a] = j]
    /\ overtaken' = overtaken \cup {b \in Admins : Reading(b) /\ job[b].user \in U}
    /\ UNCHANGED <<effective, cache, can, faults>>

RecomputeUser(u) == [Idle EXCEPT !.at = "grades", !.users = {u}]
RecomputeGrade(g) == [Idle EXCEPT !.at = "descendants", !.grades = {g}]

AssignGrade(a, u, g) ==
    /\ g \in grades
    /\ Begins(a, RecomputeUser(u), {u})
    /\ assigned' = assigned \cup {<<u, g>>}
    /\ UNCHANGED <<grades, granted, inherits, neglected>>

RemoveGrade(a, u, g) ==
    /\ Begins(a, RecomputeUser(u), {u})
    /\ assigned' = assigned \ {<<u, g>>}
    /\ UNCHANGED <<grades, granted, inherits, neglected>>

GrantPerm(a, g, p) ==
    /\ g \in grades
    /\ Begins(a, RecomputeGrade(g), Reached(g))
    /\ granted' = granted \cup {<<g, p>>}
    /\ UNCHANGED <<grades, inherits, assigned, neglected>>

RevokePerm(a, g, p) ==
    /\ Begins(a, RecomputeGrade(g), Reached(g))
    /\ granted' = granted \ {<<g, p>>}
    /\ UNCHANGED <<grades, inherits, assigned, neglected>>

\* Mutant: only a direct cycle is refused.
ClosesShortCycle(child, parent) == <<parent, child>> \in inherits

ClosesCycle(child, parent) == child \in Ancestors(parent)

\* The check and the insertion are one transaction; ErrCycleDetected changes nothing.
AddInherit(a, child, parent) ==
    /\ {child, parent} \subseteq grades
    /\ child # parent
    /\ ~ ClosesCycle(child, parent)
    /\ Begins(a, RecomputeGrade(child), Reached(child))
    /\ inherits' = inherits \cup {<<child, parent>>}
    /\ UNCHANGED <<grades, granted, assigned, neglected>>

RemoveInherit(a, child, parent) ==
    /\ Begins(a, RecomputeGrade(child), Reached(child))
    /\ inherits' = inherits \ {<<child, parent>>}
    /\ UNCHANGED <<grades, granted, assigned, neglected>>

\* DELETE cascades to the three tables that name the grade.  The handlers call
\* the store directly: nobody is recomputed.
DeleteGrade(a, g) ==
    /\ g \in grades \ SystemGrades
    /\ Begins(a, Idle, Reached(g))
    /\ neglected' = neglected \cup Reached(g)
    /\ grades' = grades \ {g}
    /\ granted' = {row \in granted : row[1] # g}
    /\ inherits' = {row \in inherits : g \notin {row[1], row[2]}}
    /\ assigned' = {row \in assigned : row[2] # g}

-----------------------------------------------------------------------------
(* recomputeGradeUsers.                                                    *)

\* The administrator's call goes on as j and changes no table.
Goes(a, j) ==
    /\ job' = [job EXCEPT ![a] = j]
    /\ UNCHANGED <<tables, can, changes, faults>>

GradeDescendants(a) ==
    /\ job[a].at = "descendants"
    /\ Goes(a, [job[a] EXCEPT !.at = "holders",
                              !.grades = UNION {{g} \cup Descendants(g) : g \in @}])
    /\ UNCHANGED <<effective, cache, omissions>>

\* The users of one grade, a statement per grade.
GradeUsers(a, g) ==
    /\ job[a].at = "holders"
    /\ g \in job[a].grades
    /\ LET users == job[a].users \cup HoldersOf({g})
           rest == job[a].grades \ {g}
       IN  Goes(a, IF rest # {} THEN [job[a] EXCEPT !.grades = rest, !.users = users]
                   ELSE IF users = {} THEN Idle
                   ELSE [Idle EXCEPT !.at = "grades", !.users = users])
    /\ UNCHANGED <<effective, cache, omissions>>

-----------------------------------------------------------------------------
(* Recompute, for the next user of the call.                               *)

UserGrades(a, u) ==
    /\ job[a].at = "grades"
    /\ u \in job[a].users
    /\ Goes(a, [job[a] EXCEPT !.at = IF GradesOf(u) = {} THEN "write" ELSE "ancestors",
                              !.users = @ \ {u},
                              !.user = u,
                              !.grades = GradesOf(u)])
    /\ UNCHANGED <<effective, cache, omissions>>

GradeAncestors(a, g) ==
    /\ job[a].at = "ancestors"
    /\ g \in job[a].grades
    /\ LET rest == job[a].grades \ {g}
       IN  Goes(a, [job[a] EXCEPT !.at = IF rest = {} THEN "permissions" ELSE @,
                                  !.grades = rest,
                                  !.closure = @ \cup {g} \cup Ancestors(g)])
    /\ UNCHANGED <<effective, cache, omissions>>

GradePermissions(a, g) ==
    /\ job[a].at = "permissions"
    /\ g \in job[a].closure
    /\ LET rest == job[a].closure \ {g}
       IN  Goes(a, [job[a] EXCEPT !.at = IF rest = {} THEN "write" ELSE @,
                                  !.closure = rest,
                                  !.perms = @ \cup PermsOf({g})])
    /\ UNCHANGED <<effective, cache, omissions>>

\* Of two calls that recompute one user, the slower may write what it read before the
\* change of the other.
Written(a) ==
    /\ neglected' = IF a \in overtaken THEN neglected \cup {job[a].user}
                    ELSE neglected \ {job[a].user}
    /\ overtaken' = overtaken \ {a}

\* Mutant: the version is bumped before the transaction, not after.
BumpThenWrite(a) ==
    /\ job[a].at = "write"
    /\ effective' = [effective EXCEPT ![job[a].user] = job[a].perms]
    /\ Goes(a, [job[a] EXCEPT !.at = "invalidate"])
    /\ Written(a)
    /\ UNCHANGED cache

\* DELETE and INSERT in one transaction.
WriteEffective(a) ==
    /\ job[a].at = "write"
    /\ effective' = [effective EXCEPT ![job[a].user] = job[a].perms]
    /\ Goes(a, [job[a] EXCEPT !.at = "bump"])
    /\ Written(a)
    /\ UNCHANGED cache

BumpVersion(a) ==
    /\ job[a].at = "bump"
    /\ ver' = ver + 1
    /\ Goes(a, [job[a] EXCEPT !.at = "invalidate"])
    /\ UNCHANGED <<entries, size, effective, omissions>>

NextUser(a) ==
    IF job[a].users = {} THEN Idle
    ELSE [Idle EXCEPT !.at = "grades", !.users = job[a].users]

\* LoadAndDelete ...
Invalidate(a) ==
    /\ job[a].at = "invalidate"
    /\ entries' = [entries EXCEPT ![job[a].user] = NoEntry]
    /\ Goes(a, IF entries[job[a].user] = NoEntry THEN NextUser(a)
               ELSE [job[a] EXCEPT !.at = "uncount"])
    /\ UNCHANGED <<ver, size, effective, omissions>>

\* ... then, if there was an entry, size.Add(-1).
Uncount(a) ==
    /\ job[a].at = "uncount"
    /\ size' = size - 1
    /\ Goes(a, NextUser(a))
    /\ UNCHANGED <<ver, entries, effective, omissions>>

\* Users whose permissions the call has still to recompute.
Pending(a) ==
    LET j == job[a]
    IN  CASE j.at = "descendants" -> UNION {Reached(g) : g \in j.grades}
          [] j.at = "holders" -> j.users \cup HoldersOf(j.grades)
          [] j.at \in {"ancestors", "permissions", "write"} -> j.users \cup {j.user}
          [] OTHER -> j.users

\* A statement fails: the call returns the error, which the handlers drop, and
\* leaves the rest undone.
Fail(a) ==
    /\ faults < MaxFaults
    /\ job[a].at \in {"descendants", "holders", "grades", "ancestors", "permissions", "write"}
    /\ neglected' = neglected \cup Pending(a)
    /\ overtaken' = overtaken \ {a}
    /\ faults' = faults + 1
    /\ job' = [job EXCEPT ![a] = Idle]
    /\ UNCHANGED <<tables, effective, cache, can, changes>>

-----------------------------------------------------------------------------
(* Can.  A hit, and a failing read of L2, change nothing and are left out. *)

Valid(u) == entries[u] # NoEntry /\ entries[u].stamp = ver

Calls(r, c) ==
    /\ can' = [can EXCEPT ![r] = c]
    /\ UNCHANGED <<tables, effective, ver, job, changes, faults, omissions>>

CanMisses(r, u) ==
    /\ can[r].at = "idle"
    /\ ~ Valid(u)
    /\ Calls(r, [NoCall EXCEPT !.at = "load", !.user = u])
    /\ UNCHANGED <<entries, size>>

LoadEffective(r) ==
    /\ can[r].at = "load"
    /\ Calls(r, [can[r] EXCEPT !.at = "check",
                               !.entry.perms = effective[can[r].user],
                               !.entry.readAt = ver])
    /\ UNCHANGED <<entries, size>>

\* Set: a full cache is left as it is ...
CheckSize(r) ==
    /\ can[r].at = "check"
    /\ Calls(r, IF size >= MaxSize THEN NoCall ELSE [can[r] EXCEPT !.at = "stamp"])
    /\ UNCHANGED <<entries, size>>

\* ... the entry carries the version of this moment, not of the read ...
StampEntry(r) ==
    /\ can[r].at = "stamp"
    /\ Calls(r, [can[r] EXCEPT !.at = "swap", !.entry.stamp = ver])
    /\ UNCHANGED <<entries, size>>

\* ... and is counted only if it replaced none.
SwapEntry(r) ==
    /\ can[r].at = "swap"
    /\ entries' = [entries EXCEPT ![can[r].user] = can[r].entry]
    /\ Calls(r, IF entries[can[r].user] = NoEntry THEN [NoCall EXCEPT !.at = "count"]
                ELSE NoCall)
    /\ UNCHANGED size

CountEntry(r) ==
    /\ can[r].at = "count"
    /\ size' = size + 1
    /\ Calls(r, NoCall)
    /\ UNCHANGED entries

-----------------------------------------------------------------------------

Mutation(a) ==
    \/ \E u \in Users, g \in Grades : AssignGrade(a, u, g) \/ RemoveGrade(a, u, g)
    \/ \E g \in Grades, p \in Perms : GrantPerm(a, g, p) \/ RevokePerm(a, g, p)
    \/ \E c, p \in Grades : AddInherit(a, c, p) \/ RemoveInherit(a, c, p)
    \/ \E g \in Grades : DeleteGrade(a, g)

Recompute(a) ==
    \/ \E u \in Users : UserGrades(a, u)
    \/ \E g \in Grades : GradeAncestors(a, g) \/ GradePermissions(a, g)
    \/ WriteEffective(a)
    \/ BumpVersion(a)
    \/ Invalidate(a)
    \/ Uncount(a)

RecomputeGradeUsers(a) ==
    \/ GradeDescendants(a)
    \/ \E g \in Grades : GradeUsers(a, g)

Can(r) ==
    \/ \E u \in Asked : CanMisses(r, u)
    \/ LoadEffective(r)
    \/ CheckSize(r)
    \/ StampEntry(r)
    \/ SwapEntry(r)
    \/ CountEntry(r)

Next ==
    \/ \E a \in Admins : Mutation(a) \/ RecomputeGradeUsers(a) \/ Recompute(a) \/ Fail(a)
    \/ \E r \in Readers : Can(r)

Spec == Init /\ [][Next]_vars

-----------------------------------------------------------------------------

\* Every variable holds values of its type.
TypeOK ==
    /\ grades \subseteq Grades
    /\ granted \subseteq grades \X Perms
    /\ inherits \subseteq grades \X grades
    /\ assigned \subseteq Users \X grades
    /\ effective \in [Users -> SUBSET Perms]
    /\ ver \in Nat
    /\ entries \in [Users -> Entry \cup {NoEntry}]
    /\ size \in Int
    /\ job \in [Admins -> Job]
    /\ can \in [Readers -> Call]
    /\ changes \in 0 .. MaxChanges
    /\ faults \in 0 .. MaxFaults
    /\ overtaken \subseteq Admins
    /\ neglected \subseteq Users

\* No grade inherits from itself, whatever sequence of AddInherit, RemoveInherit
\* and DeleteGrade ran (the CTEs of the store and Roles rest on it).
InheritanceAcyclic == Acyclic(inherits)

\* user_effective_permissions is the closure of the grades of every user, but for
\* those a mutation under way has still to recompute, those DeleteGrade or a failed
\* call left out, and those whose last Recompute another administrator overtook.
EffectiveIsClosure ==
    \A u \in Users \ (neglected \cup UNION {Pending(a) : a \in Admins}) :
        effective[u] = Closure(u)

\* An entry L1 would answer from, read from L2 since the last bump, agrees with
\* L2, except between the transaction and the bump of a Recompute.
FreshEntriesAreTrue ==
    \A u \in Users :
        \/ ~ Valid(u)
        \/ entries[u].readAt # ver
        \/ entries[u].perms = effective[u]
        \/ \E a \in Admins : job[a].at = "bump" /\ job[a].user = u

===============================================================================
