--------------------------- MODULE MCMemberRequests ---------------------------
(* Small instances of MemberRequests. *)
EXTENDS MemberRequests, TLC

CONSTANTS d1, d2, p1, p2, p3, a1, a2, a3

Symmetry == Permutations(Demandes) \cup Permutations(Profiles) \cup Permutations(Deciders)
=============================================================================
