--------------------------- MODULE MCAssemblyPresence ---------------------------
(* Small instances of AssemblyPresence: members and requests are             *)
(* interchangeable.                                                          *)
EXTENDS AssemblyPresence, TLC

Interchangeable == Permutations(Members) \cup Permutations(Requests)
=============================================================================
