---------------------------- MODULE AssemblyPresence ----------------------------
(***************************************************************************)
(* Convocation, mandates, attendance and quorum of a general assembly      *)
(* (pkg/governance store.go and presence.go, Convoke and CheckQuorum of    *)
(* actions/seeds/governance.go).                                           *)
(*                                                                         *)
(* Convoke reads the recipients first, then changes the status and inserts *)
(* the traces in one transaction, then queues the mails one by one.  A     *)
(* mandate is checked and inserted by separate statements; a quorum is     *)
(* counted from three of them.  Requests interleave, and may be abandoned  *)
(* at any statement.                                                       *)
(***************************************************************************)
EXTENDS Naturals, FiniteSets

CONSTANTS
    Assemblies,
    Members,
    Requests,      \* requests served at the same time
    MaxChanges,    \* bound on what happens to memberships
    None

ASSUME PresenceAssumption ==
    /\ IsFiniteSet(Members)
    /\ MaxChanges \in Nat
    /\ None \notin Assemblies \cup Members

VARIABLES
    users,         \* members whose account exists
    membership,    \* "current", "active" by status but outside its period, or "none"
    changes,       \* what has happened to memberships, bounded by MaxChanges
    status,        \* assemblies.status, "absent" without a row
    traces,        \* convocations: members convoked to each assembly
    outbox,        \* mails queued for each assembly and member
    convened,      \* recipients of the convocation that was committed
    mandate,       \* mandates: the proxy of each principal, or None
    attendance,    \* attendance: members who signed
    stage,         \* next statement of each request
    subject,       \* assembly the request is about
    people,        \* recipients, or the eligible members
    pair,          \* <<principal, proxy>> of a mandate
    present,       \* eligible members CheckQuorum has found present
    attending      \* the count CheckQuorum answers

population == <<users, membership, changes>>
convocation == <<status, traces, outbox, convened>>
presence == <<mandate, attendance>>
request == <<stage, subject, people, pair, present, attending>>
vars == <<population, convocation, presence, request>>

Stages == {"idle", "accounts", "convene", "mail", "principal", "proxy", "mandate",
           "present", "represented", "answer"}

Init ==
    /\ users = Members
    /\ membership = [m \in Members |-> "current"]
    /\ changes = 0
    /\ status = [a \in Assemblies |-> "absent"]
    /\ traces = [a \in Assemblies |-> {}]
    /\ outbox = [a \in Assemblies |-> [m \in Members |-> 0]]
    /\ convened = [a \in Assemblies |-> {}]
    /\ mandate = [a \in Assemblies |-> [m \in Members |-> None]]
    /\ attendance = [a \in Assemblies |-> {}]
    /\ stage = [q \in Requests |-> "idle"]
    /\ subject = [q \in Requests |-> None]
    /\ people = [q \in Requests |-> {}]
    /\ pair = [q \in Requests |-> None]
    /\ present = [q \in Requests |-> {}]
    /\ attending = [q \in Requests |-> 0]

\* A request q about a passes its first check and goes on to statement s.
Begin(q, a, s) ==
    /\ stage[q] = "idle"
    /\ stage' = [stage EXCEPT ![q] = s]
    /\ subject' = [subject EXCEPT ![q] = a]
    /\ UNCHANGED <<present, attending>>

Proceed(q, s) == stage' = [stage EXCEPT ![q] = s] /\ UNCHANGED <<subject, pair>>

\* The request is over.
End(q) ==
    /\ stage' = [stage EXCEPT ![q] = "idle"]
    /\ subject' = [subject EXCEPT ![q] = None]
    /\ people' = [people EXCEPT ![q] = {}]
    /\ pair' = [pair EXCEPT ![q] = None]
    /\ present' = [present EXCEPT ![q] = {}]
    /\ attending' = [attending EXCEPT ![q] = 0]

\* The request is answered, or refused by a check; a statement fails, the client is
\* gone or the process dies. What was committed stays.
Abandon(q) ==
    /\ stage[q] # "idle"
    /\ End(q)
    /\ UNCHANGED <<population, convocation, presence>>

-----------------------------------------------------------------------------
(* Accounts and memberships.                                               *)

\* ListAll("active"): members with an active membership, whatever its period.
Listed == {m \in Members : membership[m] # "none"}

\* Create, SetStatus, or a period that begins or ends.
ChangeMembership(m) ==
    /\ m \in users /\ changes < MaxChanges
    /\ \E s \in {"current", "active", "none"} \ {membership[m]} :
          membership' = [membership EXCEPT ![m] = s]
    /\ changes' = changes + 1
    /\ UNCHANGED <<users, convocation, presence, request>>

\* An account is deleted, and with it (ON DELETE CASCADE) its memberships, the traces
\* of its convocations, its signatures and the mandates it gave or was given.
DeleteAccount(m) ==
    /\ m \in users /\ changes < MaxChanges
    /\ users' = users \ {m}
    /\ membership' = [membership EXCEPT ![m] = "none"]
    /\ changes' = changes + 1
    /\ traces' = [a \in Assemblies |-> traces[a] \ {m}]
    /\ mandate' = [a \in Assemblies |-> [p \in Members |->
                      IF m \in {p, mandate[a][p]} THEN None ELSE mandate[a][p]]]
    /\ attendance' = [a \in Assemblies |-> attendance[a] \ {m}]
    /\ UNCHANGED <<status, outbox, convened, request>>

-----------------------------------------------------------------------------
(* Convocation.                                                            *)

Create(a) ==
    /\ status[a] = "absent"
    /\ status' = [status EXCEPT ![a] = "drafting"]
    /\ UNCHANGED <<traces, outbox, convened, population, presence, request>>

\* Convoke finds the assembly and lists the members, ...
Convoke(q, a) ==
    /\ status[a] # "absent"
    /\ Begin(q, a, "accounts")
    /\ people' = [people EXCEPT ![q] = Listed]
    /\ UNCHANGED <<pair, population, convocation, presence>>

\* ... keeps those whose account exists, ...
ResolveRecipients(q) ==
    /\ stage[q] = "accounts"
    /\ people' = [people EXCEPT ![q] = @ \cap users]
    /\ Proceed(q, "convene")
    /\ UNCHANGED <<present, attending, population, convocation, presence>>

\* Mutant: traces of gone accounts are skipped.
ConvocableAnyway(a, recipients) == status[a] = "drafting"

\* MarkConvokedTx changes a draft, RecordConvocationTx needs existing accounts.
Convocable(a, recipients) == status[a] = "drafting" /\ recipients \subseteq users

\* ... convokes and leaves the traces, all or nothing, ...
CommitConvocation(q) ==
    LET a == subject[q]
    IN  /\ stage[q] = "convene"
        /\ Convocable(a, people[q])
        /\ status' = [status EXCEPT ![a] = "convoked"]
        /\ traces' = [traces EXCEPT ![a] = @ \cup people[q]]
        /\ convened' = [convened EXCEPT ![a] = people[q]]
        /\ Proceed(q, "mail")
        /\ UNCHANGED <<people, present, attending, outbox, population, presence>>

\* ... and queues a mail for each recipient; one that cannot be queued is only logged.
EnqueueMail(q, m) ==
    LET a == subject[q]
    IN  /\ stage[q] = "mail"
        /\ m \in people[q]
        /\ people' = [people EXCEPT ![q] = @ \ {m}]
        /\ \/ outbox' = [outbox EXCEPT ![a][m] = @ + 1]
           \/ UNCHANGED outbox
        /\ Proceed(q, "mail")
        /\ UNCHANGED <<present, attending, status, traces, convened, population, presence>>

-----------------------------------------------------------------------------
(* Mandates and attendance.                                                *)

\* RecordMandate finds the assembly convoked (it stays so), ...
RecordMandate(q, a, p, x) ==
    /\ p # x
    /\ status[a] = "convoked"
    /\ Begin(q, a, "principal")
    /\ pair' = [pair EXCEPT ![q] = <<p, x>>]
    /\ UNCHANGED <<people, population, convocation, presence>>

\* ... then reads the status of the principal, of the proxy, ...
CheckMember(q, here, m, next) ==
    /\ stage[q] = here
    /\ membership[m] = "current"
    /\ Proceed(q, next)
    /\ UNCHANGED <<people, present, attending, population, convocation, presence>>

CheckPrincipal(q) == CheckMember(q, "principal", pair[q][1], "proxy")
CheckProxy(q) == CheckMember(q, "proxy", pair[q][2], "mandate")

\* Mutant: no foreign key.
MandatedAnyway(old, p, x) == IF old = None THEN x ELSE old

\* The mandate of p once x is inserted: UNIQUE keeps the first (ErrMandatExistant), the
\* foreign keys refuse an account that is gone.
Mandated(old, p, x) == IF old = None /\ {p, x} \subseteq users THEN x ELSE old

\* ... and inserts the mandate.
InsertMandate(q) ==
    LET p == pair[q][1]
        x == pair[q][2]
    IN  /\ stage[q] = "mandate"
        /\ mandate' = [mandate EXCEPT ![subject[q]][p] = Mandated(@, p, x)]
        /\ End(q)
        /\ UNCHANGED <<attendance, population, convocation>>

\* SignAttendance, idempotent. Its check of the assembly may be taken with the INSERT: a
\* convoked assembly stays so.
SignAttendance(a, m) ==
    /\ status[a] = "convoked"
    /\ m \in users
    /\ attendance' = [attendance EXCEPT ![a] = @ \cup {m}]
    /\ UNCHANGED <<mandate, population, convocation, request>>

-----------------------------------------------------------------------------
(* Quorum.                                                                 *)

\* CheckQuorum lists the eligible members, ...
CheckQuorum(q, a) ==
    /\ status[a] # "absent"
    /\ Begin(q, a, "present")
    /\ people' = [people EXCEPT ![q] = Listed]
    /\ UNCHANGED <<pair, population, convocation, presence>>

\* ... ComputeQuorum reads who signed, ...
CountPresent(q) ==
    /\ stage[q] = "present"
    /\ present' = [present EXCEPT ![q] = people[q] \cap attendance[subject[q]]]
    /\ Proceed(q, "represented")
    /\ UNCHANGED <<people, attending, population, convocation, presence>>

\* Mutant: absent proxies represent.
RepresentedByAbsent(a, eligible, signed) ==
    {p \in eligible \ signed : mandate[a][p] \in eligible}

\* Eligible principals who are absent and whose proxy, eligible, is present.
Represented(a, eligible, signed) ==
    {p \in eligible \ signed : mandate[a][p] \in eligible \cap signed}

\* ... then the mandates, and counts.
CountRepresented(q) ==
    /\ stage[q] = "represented"
    /\ attending' = [attending EXCEPT ![q] =
          Cardinality(present[q])
          + Cardinality(Represented(subject[q], people[q], present[q]))]
    /\ Proceed(q, "answer")
    /\ UNCHANGED <<people, present, population, convocation, presence>>

-----------------------------------------------------------------------------

Next ==
    \/ \E m \in Members : ChangeMembership(m) \/ DeleteAccount(m)
    \/ \E a \in Assemblies : Create(a) \/ \E m \in Members : SignAttendance(a, m)
    \/ \E q \in Requests :
          \/ Abandon(q)
          \/ \E a \in Assemblies : Convoke(q, a) \/ CheckQuorum(q, a)
          \/ ResolveRecipients(q)
          \/ CommitConvocation(q)
          \/ \E m \in Members : EnqueueMail(q, m)
          \/ \E a \in Assemblies, p, x \in Members : RecordMandate(q, a, p, x)
          \/ CheckPrincipal(q)
          \/ CheckProxy(q)
          \/ InsertMandate(q)
          \/ CountPresent(q)
          \/ CountRepresented(q)

Spec == Init /\ [][Next]_vars

-----------------------------------------------------------------------------
(* Properties.                                                             *)

TypeOK ==
    /\ users \in SUBSET Members
    /\ membership \in [Members -> {"current", "active", "none"}]
    /\ changes \in 0 .. MaxChanges
    /\ status \in [Assemblies -> {"absent", "drafting", "convoked"}]
    /\ traces \in [Assemblies -> SUBSET Members]
    /\ outbox \in [Assemblies -> [Members -> Nat]]
    /\ convened \in [Assemblies -> SUBSET Members]
    /\ mandate \in [Assemblies -> [Members -> Members \cup {None}]]
    /\ attendance \in [Assemblies -> SUBSET Members]
    /\ stage \in [Requests -> Stages]
    /\ subject \in [Requests -> Assemblies \cup {None}]
    /\ people \in [Requests -> SUBSET Members]
    /\ pair \in [Requests -> (Members \X Members) \cup {None}]
    /\ present \in [Requests -> SUBSET Members]
    /\ attending \in [Requests -> 0 .. Cardinality(Members)]

\* Convoke: 'AG convoked <=> traces de convocation complètes'. The traces of a convoked
\* assembly are those of one convocation, all of them but for accounts deleted since,
\* whoever else was convoking; a draft has none.
TracesAreComplete ==
    \A a \in Assemblies :
        traces[a] = IF status[a] = "convoked" THEN convened[a] \cap users ELSE {}

\* A mail follows the trace, and none is queued twice, with several administrators
\* convoking at once.
MailFollowsTrace ==
    \A a \in Assemblies, m \in Members :
        outbox[a][m] <= IF m \in convened[a] THEN 1 ELSE 0

\* A mandate binds two accounts that both exist, of a convoked assembly; one gone takes
\* the mandate with it, even while a request is recording another.
MandateBindsMembers ==
    \A a \in Assemblies, p \in Members :
        mandate[a][p] # None =>
            status[a] = "convoked" /\ p # mandate[a][p] /\ {p, mandate[a][p]} \subseteq users

\* A principal has one mandate for an assembly: none replaces it as long as both
\* accounts exist.
MandatesAreKept ==
    [][\A a \in Assemblies, p \in Members :
        mandate[a][p] # None /\ {p, mandate[a][p]} \subseteq users' =>
            mandate'[a][p] = mandate[a][p]]_vars

\* Who is present or represented at a.
Attending(a) ==
    attendance[a] \cup {p \in Members : mandate[a][p] \in attendance[a]}

\* A quorum, though read in three statements, never counts more than the eligible
\* members present or represented when it is answered, but for accounts deleted
\* meanwhile: nobody is counted twice, nor for a proxy who is not there.
QuorumCountsAttendance ==
    [][\A q \in Requests :
        stage[q] = "represented" /\ stage'[q] = "answer" =>
            attending'[q] <=
                Cardinality(people[q] \cap (Attending(subject[q]) \cup (Members \ users)))]_vars
=============================================================================
