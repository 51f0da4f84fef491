---------------------------- MODULE MCOAuthTokens ----------------------------
(* Small instances of OAuthTokens. *)
EXTENDS OAuthTokens, TLC

CONSTANTS i1, u1, r1, c1, c2, t1, t2, t3, t4, e1, e2

Symmetry == Permutations(Codes) \cup Permutations(Tokens) \cup Permutations(Exchanges)
=============================================================================
