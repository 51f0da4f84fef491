---------------------------- MODULE MCAssemblyVote ----------------------------
(* Small instances of AssemblyVote. *)
EXTENDS AssemblyVote, TLC

CONSTANTS s1, s2, a1

OneAssembly == (s1 :> a1 @@ s2 :> a1)
OneResolution == (s1 :> a1)

\* The two votes are interchangeable, and so are voters and requests.
Interchangeable == Permutations(Voters) \cup Permutations(Requests) \cup Permutations(Choices)
=============================================================================
