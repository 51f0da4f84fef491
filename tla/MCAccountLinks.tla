--------------------------- MODULE MCAccountLinks ---------------------------
(* Small instances of AccountLinks. *)
EXTENDS AccountLinks, TLC

CONSTANTS u1, u2, u3, l1, l2, k1, k2, k3

Symmetry == Permutations(Accounts) \cup Permutations(Links) \cup Permutations(Clicks)
=============================================================================
