\* One assembly, three members, two requests at a time, one change of a membership.
CONSTANTS
    a1 = a1
    m1 = m1
    m2 = m2
    m3 = m3
    q1 = q1
    q2 = q2
    Assemblies = {a1}
    Members = {m1, m2, m3}
    Requests = {q1, q2}
    MaxChanges = 1
    None = None
SPECIFICATION Spec
SYMMETRY Interchangeable
INVARIANTS TracesAreComplete MandateBindsMembers
PROPERTIES QuorumCountsAttendance
