------------------------------ MODULE Mirrors ------------------------------
(* The two JSON files that repeat what the database has: the log of the     *)
(* user's decisions and the registry of the documents.                      *)
EXTENDS DecisionLog, RegistryMirror

(* What the two mirrors promise: the mirror of the manual decisions agrees  *)
(* with its rows, parses and is read fresh once edits are over, and the     *)
(* registry of the documents follows its rows and is replaced as a whole.   *)
MirrorsSound ==
  /\ DecisionTypeOK /\ MirrorAgrees /\ MirrorParses /\ ReadsFresh
  /\ RegistryFollowsRows /\ RegistryWhole
=============================================================================
