---------------------------- MODULE MCTriageScan ----------------------------
(* Instances of TriageScan for TLC: two files with the same content and one *)
(* with another.                                                            *)
EXTENDS TriageScan, TLC

CONSTANTS copy1, copy2, other

MCContent == [f \in Files |-> IF f = other THEN "y" ELSE "x"]
Symmetric == Permutations(Scanners) \cup Permutations(Files \ {other})
=============================================================================
