\* Three accounts of one address, two links, three clicks at once.
CONSTANTS
    u1 = u1
    u2 = u2
    u3 = u3
    l1 = l1
    l2 = l2
    k1 = k1
    k2 = k2
    k3 = k3
    Accounts = {u1, u2, u3}
    Links = {l1, l2}
    Clicks = {k1, k2, k3}
    NoUser = NoUser
    NoLink = NoLink
SPECIFICATION LinksSpec
SYMMETRY Symmetry
INVARIANTS ServesOnce UsedUpHasServed ServesItsAccount
CHECK_DEADLOCK FALSE
