------------------------------ MODULE MCDocOps ------------------------------
(* Instances of the document operations for TLC. *)
EXTENDS DocOps, TLC
Symmetry == Permutations(Callers) \cup Permutations(Docs) \cup Permutations(Folders) \cup Permutations(Bases)
=============================================================================
