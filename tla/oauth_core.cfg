\* One client, a user, a request with two codes and four rows, two exchanges at once.
CONSTANTS
    i1 = i1
    u1 = u1
    r1 = r1
    c1 = c1
    c2 = c2
    t1 = t1
    t2 = t2
    t3 = t3
    t4 = t4
    e1 = e1
    e2 = e2
    Clients = {i1}
    Users = {u1}
    Requests = {r1}
    Codes = {c1, c2}
    Tokens = {t1, t2, t3, t4}
    Exchanges = {e1, e2}
    None = None
SPECIFICATION Spec
SYMMETRY Symmetry
INVARIANTS OneLiveRow GrantSurvives RevokedIsOver ClientOfLiveRow
CHECK_DEADLOCK FALSE
