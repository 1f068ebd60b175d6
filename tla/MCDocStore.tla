----------------------------- MODULE MCDocStore -----------------------------
(* Instances of the document store for TLC. *)
EXTENDS DocStore, TLC
Symmetry == Permutations(Checksums) \cup Permutations(Callers) \cup Permutations(Columns)
=============================================================================
