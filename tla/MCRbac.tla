-------------------------------- MODULE MCRbac --------------------------------
(* Instances of Rbac for TLC. *)
EXTENDS Rbac, TLC

CONSTANTS u1, u2, g1, g2, g3, p1, a1, a2

\* A chain of three grades, of which the last grants p1; u1 holds the first, u2 the second.
MCStarts ==
    {[assigned |-> {<<u1, g1>>, <<u2, g2>>},
      granted |-> {<<g3, p1>>},
      inherits |-> {<<g1, g2>>, <<g2, g3>>}]}

Interchangeable == Permutations(Admins)
===============================================================================
