---------------------------- MODULE MemberRequests ----------------------------
(***************************************************************************)
(* What members ask for and administrators decide.  A demande              *)
(* (pkg/demande, internal/handlers/demande.go) asks for a parcel and is    *)
(* refused, or converted into a convention (pkg/convention).  A profile    *)
(* request (pkg/profilrequest, internal/handlers/profil.go) asks for a     *)
(* grade and can only be granted.                                          *)
(*                                                                         *)
(* A handler reads the request and decides on what it read, in statements  *)
(* that others interleave with; it may stop after any of them: a statement *)
(* fails, or the administrator closes the page and its context with it.    *)
(* The profile requests are those of one member for one grade: no          *)
(* statement looks at two members or two grades.                           *)
(***************************************************************************)
EXTENDS Naturals, FiniteSets

CONSTANTS
    Demandes,
    Profiles,     \* the profile requests
    Deciders,     \* administrators
    MaxGrants,    \* bound on the conventions, or grants, of a request
    None          \* no request

Requests == Demandes \cup Profiles

ASSUME RequestsAssumption ==
    /\ Demandes \cap Profiles = {}
    /\ None \notin Requests
    /\ MaxGrants \in Nat

VARIABLES
    statut,   \* of each request: "absent" without a row
    asking,   \* next step of the handler that submits each request
    held,     \* the member holds the grade
    deciding, \* request each administrator decides
    pc,       \* next step of the administrator's handler
    effects,  \* conventions created for each demande, grants of each profile request
    raced,    \* ghost: requests read as open while another handler had, or left, its effect to come
    twins     \* ghost: profile requests found alone while another was to be inserted

handlers == <<deciding, pc>>
ghosts == <<raced, twins>>
requestsVars == <<statut, asking, held, handlers, effects, ghosts>>

RequestsInit ==
    /\ statut = [r \in Requests |-> "absent"]
    /\ asking = [r \in Requests |-> "start"]
    /\ held = FALSE
    /\ deciding = [a \in Deciders |-> None]
    /\ pc = [a \in Deciders |-> "idle"]
    /\ effects = [r \in Requests |-> 0]
    /\ raced = {}
    /\ twins = {}

-----------------------------------------------------------------------------
(* Members.                                                                *)

\* demande.Create.  Nothing bounds the demandes of a member.
CreateDemande(d) ==
    /\ asking[d] = "start"
    /\ asking' = [asking EXCEPT ![d] = "asked"]
    /\ statut' = [statut EXCEPT ![d] = "soumise"]
    /\ UNCHANGED <<held, handlers, effects, ghosts>>

ExistsSoumise == \E p \in Profiles : statut[p] = "soumise"

\* validateDemande: the member does not hold the grade, and has not asked for it.
ValidateDemande(p) ==
    /\ asking[p] = "start"
    /\ ~ held
    /\ ~ ExistsSoumise
    /\ asking' = [asking EXCEPT ![p] = "validated"]
    /\ UNCHANGED <<statut, held, handlers, effects, ghosts>>

FoundAlone(p) ==
    LET others == {q \in Profiles \ {p} : asking[q] = "insert"}
    IN  IF others = {} THEN twins ELSE twins \cup others \cup {p}

\* profilrequest.Create looks again ...
CheckSoumise(p) ==
    /\ asking[p] = "validated"
    /\ ~ ExistsSoumise
    /\ asking' = [asking EXCEPT ![p] = "insert"]
    /\ twins' = FoundAlone(p)
    /\ UNCHANGED <<statut, held, handlers, effects, raced>>

\* ... and inserts.
InsertProfile(p) ==
    /\ asking[p] = "insert"
    /\ asking' = [asking EXCEPT ![p] = "asked"]
    /\ statut' = [statut EXCEPT ![p] = "soumise"]
    /\ UNCHANGED <<held, handlers, effects, ghosts>>

\* The handler of a submission gives up, on an error or on what it read.
GiveUp(p) ==
    /\ asking[p] \in {"validated", "insert"}
    /\ asking' = [asking EXCEPT ![p] = "start"]
    /\ UNCHANGED <<statut, held, handlers, effects, ghosts>>

-----------------------------------------------------------------------------
(* Administrators.                                                         *)

Terminal == {"convertie", "refusee"}

Open(r) == IF r \in Demandes THEN statut[r] \notin Terminal \cup {"absent"}
                             ELSE statut[r] = "soumise"

InHand(r) == \E a \in Deciders : deciding[a] = r

\* Another handler holds r, or one left r open with a convention to its name.
Shared(r) == InHand(r) \/ effects[r] > 0

End(a) ==
    /\ deciding' = [deciding EXCEPT ![a] = None]
    /\ pc' = [pc EXCEPT ![a] = "idle"]

Take(a, r) ==
    /\ pc[a] = "idle"
    /\ deciding' = [deciding EXCEPT ![a] = r]
    /\ pc' = [pc EXCEPT ![a] = "decide"]

\* Mutant: what was read is not looked at.
GetAnyway(a, r) ==
    /\ Take(a, r)
    /\ statut[r] # "absent"
    /\ raced' = IF InHand(r) THEN raced \cup {r} ELSE raced
    /\ UNCHANGED <<statut, asking, held, effects, twins>>

\* GetByID, of a request that is still open.
GetByID(a, r) ==
    /\ Take(a, r)
    /\ Open(r)
    /\ raced' = IF Shared(r) THEN raced \cup {r} ELSE raced
    /\ UNCHANGED <<statut, asking, held, effects, twins>>

\* demande.SetStatut: an UPDATE of what is not terminal.
SetStatut(d, s) ==
    statut' = [statut EXCEPT ![d] = IF @ \in Terminal THEN @ ELSE s]

\* action=refuser.
Refuse(a) ==
    /\ pc[a] = "decide"
    /\ deciding[a] \in Demandes
    /\ SetStatut(deciding[a], "refusee")
    /\ End(a)
    /\ UNCHANGED <<asking, held, effects, ghosts>>

\* Mutant: a convention that cannot be created does not stop the conversion.
CreateConventionOrNot(a) ==
    /\ pc[a] = "decide"
    /\ deciding[a] \in Demandes
    /\ \E n \in {effects[deciding[a]], effects[deciding[a]] + 1} \cap 0 .. MaxGrants :
          effects' = [effects EXCEPT ![deciding[a]] = n]
    /\ pc' = [pc EXCEPT ![a] = "mark"]
    /\ UNCHANGED <<statut, asking, held, deciding, ghosts>>

\* convention.Create, a transaction ...
CreateConvention(a) ==
    /\ pc[a] = "decide"
    /\ deciding[a] \in Demandes
    /\ effects[deciding[a]] < MaxGrants
    /\ effects' = [effects EXCEPT ![deciding[a]] = @ + 1]
    /\ pc' = [pc EXCEPT ![a] = "mark"]
    /\ UNCHANGED <<statut, asking, held, deciding, ghosts>>

\* ... and then the statut.
MarkConverted(a) ==
    /\ pc[a] = "mark"
    /\ SetStatut(deciding[a], "convertie")
    /\ End(a)
    /\ UNCHANGED <<asking, held, effects, ghosts>>

\* Mutant: the statut is not written.
GrantOnly(a) ==
    /\ pc[a] = "decide"
    /\ deciding[a] \in Profiles
    /\ effects[deciding[a]] < MaxGrants
    /\ held' = TRUE
    /\ effects' = [effects EXCEPT ![deciding[a]] = @ + 1]
    /\ End(a)
    /\ UNCHANGED <<statut, asking, ghosts>>

\* octroyerProfil: the statut and the grade in one transaction, which asks nothing of
\* the statut there is by now.
OctroyerProfil(a) ==
    /\ pc[a] = "decide"
    /\ deciding[a] \in Profiles
    /\ effects[deciding[a]] < MaxGrants
    /\ statut' = [statut EXCEPT ![deciding[a]] = "acceptee"]
    /\ held' = TRUE
    /\ effects' = [effects EXCEPT ![deciding[a]] = @ + 1]
    /\ End(a)
    /\ UNCHANGED <<asking, ghosts>>

\* handleAccountProfilsRetrait.
Retrait ==
    /\ held
    /\ held' = FALSE
    /\ UNCHANGED <<statut, asking, handlers, effects, ghosts>>

\* The handler of a stops where it is.
Abort(a) ==
    /\ pc[a] # "idle"
    /\ End(a)
    /\ UNCHANGED <<statut, asking, held, effects, ghosts>>

RequestsNext ==
    \/ \E d \in Demandes : CreateDemande(d)
    \/ \E p \in Profiles :
          ValidateDemande(p) \/ CheckSoumise(p) \/ InsertProfile(p) \/ GiveUp(p)
    \/ \E a \in Deciders :
          \/ \E r \in Requests : GetByID(a, r)
          \/ Refuse(a)
          \/ CreateConvention(a)
          \/ MarkConverted(a)
          \/ OctroyerProfil(a)
          \/ Abort(a)
    \/ Retrait

RequestsSpec == RequestsInit /\ [][RequestsNext]_requestsVars

-----------------------------------------------------------------------------
(* Properties.                                                             *)

RequestsTypeOK ==
    /\ statut \in [Requests -> {"absent", "soumise", "acceptee", "convertie", "refusee"}]
    /\ asking \in [Requests -> {"start", "validated", "insert", "asked"}]
    /\ held \in BOOLEAN
    /\ deciding \in [Deciders -> Requests \cup {None}]
    /\ pc \in [Deciders -> {"idle", "decide", "mark"}]
    /\ effects \in [Requests -> 0 .. MaxGrants]
    /\ raced \subseteq Requests
    /\ twins \subseteq Profiles

\* A request has its effect once - one convention, one grant - unless two handlers had
\* it open at once, or one stopped between the convention and the statut. A demande
\* refused has none: "une demande terminale ne se retravaille pas" (demande.go).
DecidedOnce ==
    \A r \in Requests :
        effects[r] > 1 \/ (r \in Demandes /\ statut[r] = "refusee" /\ effects[r] > 0)
        => r \in raced

\* A convention is created before its demande is marked, and a grade is given with the
\* statut of its request: no request is decided with nothing to show, however handlers
\* stop.
DecidedHasEffect ==
    \A r \in Requests : statut[r] \in {"convertie", "acceptee"} => effects[r] > 0

\* octroyerProfil: the grade is never given and the request left to be granted again,
\* which a conversion that stops half-way does to a demande.
GrantIsRecorded ==
    \A p \in Profiles : effects[p] > 0 => statut[p] = "acceptee"

\* A decision stands, whatever two administrators who read the request open do with it.
DecisionsStand ==
    [][\A r \in Requests :
          statut[r] \in {"convertie", "refusee", "acceptee"} => statut'[r] = statut[r]]_requestsVars

\* ErrDejaSoumise: a member who waits for a grade does not ask again, unless two
\* submissions both looked before either was there.
OneOpenRequest ==
    \A p, q \in Profiles :
        p # q /\ statut[p] = "soumise" /\ statut[q] = "soumise" => {p, q} \subseteq twins
=============================================================================
