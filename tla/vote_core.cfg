\* One assembly with two resolutions, two voters, two choices, two requests at a time.
CONSTANTS
    a1 = a1
    s1 = s1
    s2 = s2
    v1 = v1
    v2 = v2
    pour = pour
    contre = contre
    q1 = q1
    q2 = q2
    Assemblies = {a1}
    Resolutions = {s1, s2}
    AssemblyOf <- OneAssembly
    Voters = {v1, v2}
    Choices = {pour, contre}
    Requests = {q1, q2}
    None = None
SPECIFICATION Spec
SYMMETRY Interchangeable
INVARIANTS RegisterIsBacked MinutesQuoteRegister MinutesComplete LateVotesAreBounded
PROPERTIES VotesAreKept
