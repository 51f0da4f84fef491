\* A demande, three requests of one profile, three administrators.
CONSTANTS
    d1 = d1
    d2 = d2
    p1 = p1
    p2 = p2
    p3 = p3
    a1 = a1
    a2 = a2
    a3 = a3
    Demandes = {d1}
    Profiles = {p1, p2, p3}
    Deciders = {a1, a2, a3}
    MaxGrants = 3
    None = None
SPECIFICATION RequestsSpec
SYMMETRY Symmetry
INVARIANTS DecidedOnce DecidedHasEffect GrantIsRecorded
CHECK_DEADLOCK FALSE
