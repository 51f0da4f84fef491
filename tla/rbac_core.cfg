\* Two administrators, one mutation each or two of one, one fault, one reader who asks about
\* one of two users, a cache of one entry.
CONSTANTS
    u1 = u1
    u2 = u2
    g1 = g1
    g2 = g2
    g3 = g3
    p1 = p1
    a1 = a1
    a2 = a2
    Users = {u1, u2}
    Grades = {g1, g2, g3}
    SystemGrades = {g1}
    Perms = {p1}
    Starts <- MCStarts
    Admins = {a1, a2}
    Readers = {r1}
    Asked = {u1}
    MaxSize = 1
    MaxChanges = 2
    MaxFaults = 1
    NoEntry = NoEntry
SPECIFICATION Spec
SYMMETRY Interchangeable
INVARIANTS InheritanceAcyclic EffectiveIsClosure FreshEntriesAreTrue
\* The system is quiet once no call is under way and every entry is valid.
CHECK_DEADLOCK FALSE
